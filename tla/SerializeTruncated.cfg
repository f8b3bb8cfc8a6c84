CONSTANTS
  Byte <- MCByte
  Messages <- MCMessages
  BufferSize = 12
  MethodToStr <- MCMethodToStr
  VersionToStr <- MCVersionToStr
  StatusToStr <- MCStatusToStr
  TargetToStr <- MCTargetToStr
  EmptySpansAtEnd = {1}

SPECIFICATION Spec

INVARIANT WholeMessageWritten

\* The client stops.
CHECK_DEADLOCK FALSE
