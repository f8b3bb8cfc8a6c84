CONSTANTS
  Byte <- MCByte
  ToLower <- MCToLower
  Digit <- MCDigit
  SizeModulus = 64
  MaxStrSize = 40
  DebugBuild = FALSE
  Streams <- MCStreams
  BufferSize = 36
  TargetFromStr <- MCTargetFromStr
  MaxBodySize = 4
  MaxFieldSize = 20
  MaxReasonSize = 4
  MaxTargetSize = 4

SPECIFICATION FairSpec

INVARIANTS TypeOK LastRequestHandled ErrorsArePanics AnswersWholeRequest
PROPERTIES ImplementsOneAnswer EndsUnlessUnfinished

\* The coroutine ends.
CHECK_DEADLOCK FALSE
