\* Generated disks with events: where the timeline puts what has a beginning.
CONSTANTS
  Undecodable = Undecodable
  HeadSize = 64
  DiskBlock = 72
  ProbeSize = 80
  MaxParses = 2
  ReadSizes = {40}
  ShortReads = 1
  LimitLeads = 20
  Digest <- MCDigest
  Scenarios <- Generated
SPECIFICATION Spec
INVARIANT EventsAreInTheirPlace
\* The commands end.
CHECK_DEADLOCK FALSE
