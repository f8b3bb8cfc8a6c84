CONSTANTS
  Byte <- MCByte
  ToLower <- MCToLower
  Digit <- MCDigit
  SizeModulus = 64
  MaxStrSize = 40
  DebugBuild = FALSE
  CharOf <- MCCharOf
  AlphaNum <- MCAlphaNum
  Texts <- MCTexts
  AppTargets <- MCAppTargets

SPECIFICATION Spec

INVARIANTS TypeOK TargetSurvives DecodersAgreeWithMeaning ReservedExactly OneToken

\* A text without a target goes no further.
CHECK_DEADLOCK FALSE
