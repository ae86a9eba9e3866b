\* The plugin host: guests that answer, fail or never return, under the ticker.
CONSTANTS
  Period = 2
  Timeouts <- MCTimeouts
  NBlocks = 2
  PayloadLen = 2
  MemorySize = 4
  Pointers <- MCPointers
SPECIFICATION FairSpec
INVARIANTS
  TypeOK
  NotInterruptedEarly
  RecordedBytesAreItsOwn
  EveryBlockDecided
PROPERTIES
  ParseEnds
