CONSTANTS
  Byte <- MCByte
  ToLower <- MCToLower
  Digit <- MCDigit
  SizeModulus = 64
  MaxStrSize = 40
  DebugBuild = FALSE
  MethodFromStr <- MCMethodFromStr
  VersionFromStr <- MCVersionFromStr
  TargetFromStr <- MCTargetFromStr
  MethodMaxLength = 2
  VersionMaxLength = 2
  ChunkSizeModulus = 16
  MaxBodySize = 2
  MaxFieldSize = 15
  MaxReasonSize = 4
  MaxTargetSize = 2
  MaxChunkSizeSize = 2
  MaxChunkLineSize = 6
  IsRequest = FALSE
  MCCases <- PipelinedResponses
  Streams <- MCStreams

SPECIFICATION Spec

INVARIANT KeepsKind

\* The caller makes no further call after an error status.
CHECK_DEADLOCK FALSE
