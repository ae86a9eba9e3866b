\* "PRISTINE / UNTAMPERED" over an image that grew behind its last block.
CONSTANTS
  p1 = p1
  p2 = p2
  Procs <- MCProcs
  Byte <- MCByte
  SoundBytes <- MCSoundBytes
  HeaderLen = 2
  StartByte = 9
  Images <- MCImages
  BlockSizes <- MCBlockSizes
  Before <- Nothing
  Commands <- EvidenceCommands
  MaxCommands = 2
  MaxTouches = 1
SPECIFICATION Spec
INVARIANT PristineMeansUnaltered
\* Nothing has to happen once the commands are used up.
CHECK_DEADLOCK FALSE
