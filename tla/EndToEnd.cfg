CONSTANTS
  Byte <- MCByte
  ToLower <- MCToLower
  Digit <- MCDigit
  SizeModulus = 64
  MaxStrSize = 40
  DebugBuild = TRUE
  CharOf <- MCCharOf
  AlphaNum <- MCAlphaNum
  TargetOf <- MCTargetOf
  Scripts <- MCScripts
  BufferSize = 10
  EmptySpansAtEnd = {2}
  MaxBodySize = 4
  MaxFieldSize = 24
  MaxReasonSize = 5
  MaxTargetSize = 24

SPECIFICATION FairSpec

INVARIANT NeverRefused
PROPERTIES ImplementsMessageChannel EverythingArrives

\* The sender has nothing more to send.
CHECK_DEADLOCK FALSE
