SPECIFICATION Spec
CONSTANTS
  CodeOf <- MCCodeOf
  UINT_WIDTH = 9
  Pieces <- MCPieces
  MaxPieces = 4
INVARIANT ReadsTheGrammar
INVARIANT FirstExact
CHECK_DEADLOCK FALSE
