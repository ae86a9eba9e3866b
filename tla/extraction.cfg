\* Images whose records and frames are known in advance, read whole or in part.
CONSTANTS
  Undecodable = Undecodable
  HeadSize = 64
  DiskBlock = 72
  ProbeSize = 80
  MaxParses = 2
  ReadSizes = {6, 40}
  ShortReads = 1
  LimitLeads = 20
  Digest <- MCDigest
  Scenarios <- MCScenarios
SPECIFICATION Spec
INVARIANTS
  TypeOK
  FramesAreInTheEvidence
  EveryNalUnitIsCarved
  DamagedBlocksAreScanned
  GroundTruthRecovered
  DescrambledIsItsPayload
  IdentifyAndParseAgree
  BoxesAreInThePicture
  EveryKeyframeIsALead
  TimelineTellsTheRecording
\* The commands end.
CHECK_DEADLOCK FALSE
