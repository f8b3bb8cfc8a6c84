CONSTANTS
  Byte <- MCByte
  Messages <- MCMessages
  BufferSize = 12
  MethodToStr <- MCMethodToStr
  VersionToStr <- MCVersionToStr
  StatusToStr <- MCStatusToStr
  TargetToStr <- MCTargetToStr
  EmptySpansAtEnd = {1, 2}

SPECIFICATION FairSpec

INVARIANTS TypeOK SpanContinuesMessage SecondEmptySpanIsEnd SmallMessageWritten BufferBounded
PROPERTY ClientStops

\* The client stops.
CHECK_DEADLOCK FALSE
