SPECIFICATION FairSpec
CONSTANTS
  Grammars <- MCGrammars
  MaxTokens = 4
  MaxParses = 2
INVARIANT StackSpellsText
INVARIANT SentencesRead
PROPERTY ParseEnds
CHECK_DEADLOCK FALSE
