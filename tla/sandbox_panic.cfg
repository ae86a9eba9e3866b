\* A guest that returns a pointer just below zero, against the promise that the
\* host is isolated from its guests.
CONSTANTS
  Period = 2
  Timeouts <- MCTimeouts
  NBlocks = 2
  PayloadLen = 2
  MemorySize = 4
  Pointers <- MCPointers
SPECIFICATION Spec
INVARIANT HostSurvivesGuests
