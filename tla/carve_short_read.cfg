\* The same streams: what a short read leaves out.
CONSTANTS
  Undecodable = Undecodable
  HeadSize = 64
  DiskBlock = 72
  ProbeSize = 80
  MaxParses = 1
  LimitLeads = 20
  ReadSizes = {4, 6}
  ShortReads = 2
  Digest <- MCDigest
  Scenarios <- Streams
SPECIFICATION Spec
INVARIANT ScannedBlocksAreCarved
\* The commands end.
CHECK_DEADLOCK FALSE
