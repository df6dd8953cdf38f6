\* The program stops at a failed assertion, and at its end.
CHECK_DEADLOCK FALSE
SPECIFICATION Spec
CONSTANTS
  NULL = NULL
  Primitives = {"Void", "Bool", "Int", "Long", "Double"}
  Longest = 3
  Programs <- MCPrograms
INVARIANTS
  NamesAgree
  BlocksClosed
  OneTypePerName
