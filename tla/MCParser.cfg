SPECIFICATION FairSpec
CONSTANTS
  ROOT = "$root"
  END = "$end"
  BAD = "$bad"
  NONE = "$none"
  Grammars <- MCGrammars
  ClassNames <- MCClassNames
  Levels <- MCLevels
  Assocs <- MCAssocs
  MaxParses = 2
INVARIANTS
  EqualLevelsEqualAssoc
  StatesCanonical LookaheadsComplete
  AcceptsTheLanguage TokensKept BufferEmptied HandleOnStack
PROPERTIES GenerateReturns ParseReturns
CHECK_DEADLOCK FALSE
