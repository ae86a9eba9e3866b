\* Demultiplexing, correlation and discontinuities over all small images.
CONSTANTS
  SeqMax = 3
  Half = 8
  Extractions <- MCExtractions
  Window = 3
  BlackoutGap = 5
  ExpectedGap = 3
  MaxParses = 2
SPECIFICATION Spec
INVARIANTS
  TypeOK
  GapsAreTheMissingNumbers
  EveryMoveIsFoundOnce
  BlackoutsAreSilent
  ReportShowsBlackouts
\* Nothing has to happen once the image was parsed.
CHECK_DEADLOCK FALSE
