\* "Simultaneous gaps across all camera channels".
CONSTANTS
  SeqMax = 3
  Half = 64
  Extractions <- MCExtractions
  Window = 3
  BlackoutGap = 5
  ExpectedGap = 3
  MaxParses = 2
SPECIFICATION Spec
INVARIANT EveryGapIsABlackout
\* Nothing has to happen once the image was parsed.
CHECK_DEADLOCK FALSE
