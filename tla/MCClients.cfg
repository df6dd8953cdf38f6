SPECIFICATION Spec
CONSTANTS
  ROOT = "$root"
  END = "$end"
  BAD = "$bad"
  NONE = NONE
  Grammars <- MCGrammars
  ClassNames <- MCClassNames
  Levels = {10, 20, 30, 40, 50}
  Assocs = {"LEFT", "RIGHT", "NONASSOC", "NONE"}
  MaxParses = 1
  UNICODE_MAX = 1000000
  Alphabet <- MCAlphabet
  Expected <- MCExpected
INVARIANTS ReadsBack ConflictFree
CHECK_DEADLOCK FALSE
