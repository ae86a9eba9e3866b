\* Every command beside every other, over an image that may shrink meanwhile.
CONSTANTS
  p1 = p1
  p2 = p2
  Procs <- MCProcs
  Byte <- MCByte
  SoundBytes <- MCSoundBytes
  HeaderLen = 2
  StartByte = 9
  Images <- MCFewImages
  BlockSizes <- MCBlockSize
  Before <- MCBlockSize
  Commands <- AllCommands
  MaxCommands = 3
  MaxTouches = 1
SPECIFICATION FairSpec
INVARIANTS
  NoOrphans
  ReportIsOfTheCase
  CertificateHasItsClips
PROPERTIES
  DatabaseOnlyGrows
  EveryCommandEnds
\* Nothing has to happen once the commands are used up.
CHECK_DEADLOCK FALSE
