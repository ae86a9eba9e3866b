\* Acquisition with short reads, worker orders, kills, re-runs and a medium
\* written by somebody else.
CONSTANTS
  Byte <- MCByte
  Images <- MCImages
  BlockSizes <- MCBlockSizes
  BatchBlocks = 2
  MaxRuns = 2
  MaxTouches = 1
SPECIFICATION FairSpec
INVARIANTS
  TypeOK
  ManifestFaithful
  SuccessIsTheEvidence
PROPERTIES
  OldManifestKeptWhileStreaming
  Implements
  AcquisitionEnds
\* Nothing has to happen once the runs are used up.
CHECK_DEADLOCK FALSE
