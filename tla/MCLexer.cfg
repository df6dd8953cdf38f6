SPECIFICATION FairSpec
CONSTANTS
  MaxLength = 4
  Chars <- MCChars
  NL = "nl"
  States <- MCStates
  Root = 0
  Dead = 99
  Tags <- MCTags
  END = "$END"
  BAD = "$BAD"
  Automata <- MCAutomata
  Texts <- MCTexts
INVARIANTS BufferIsText LocationTrue
PROPERTIES Tokens ScanReturns
