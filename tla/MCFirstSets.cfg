SPECIFICATION FairSpec
CONSTANTS
  Terminals <- MCTerminals
  Nonterminals <- MCNonterminals
  ROOT = "$root"
  SymbolStrings <- MCSymbolStrings
  MaxProductions = 3
INVARIANTS FirstSound FirstComplete
PROPERTY FirstTerminates
CHECK_DEADLOCK FALSE
