SPECIFICATION Spec
CONSTANTS
  NONE = NONE
  CodeOf <- MCCodeOf
  UINT_WIDTH = 12
  Patterns <- MCPatterns
  Regexes <- MCRegexes
  Texts <- MCTexts
  MaxRules = 2
  MaxGenerations = 2
  Letters = {97, 98, 200}
  MaxLength = 4
INVARIANT NeverShort
INVARIANT NeverLong
CHECK_DEADLOCK FALSE
