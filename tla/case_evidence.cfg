\* acquire, parse and verify side by side over a medium somebody writes.
CONSTANTS
  p1 = p1
  p2 = p2
  Procs <- MCProcs
  Byte <- MCByte
  SoundBytes <- MCSoundBytes
  HeaderLen = 2
  StartByte = 9
  Images <- MCImages
  BlockSizes <- MCBlockSizes
  Before <- Nothing
  Commands <- EvidenceCommands
  MaxCommands = 4
  MaxTouches = 1
SPECIFICATION Spec
SYMMETRY ProcSymmetry
INVARIANTS
  TypeOK
  PristineMeansAllAcquiredBytes
  NoFalseAlarm
  ExtractionIsWhole
\* Nothing has to happen once the commands are used up.
CHECK_DEADLOCK FALSE
