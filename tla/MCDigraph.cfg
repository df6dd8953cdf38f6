SPECIFICATION FairSpec
CONSTANTS
  N = 4
  Nodes <- MCNodes
  Values <- MCNodes
  Relations <- MCRelations
  Given <- MCGiven
INVARIANTS FinishedIsWanted ActiveOnStack
PROPERTY DigraphTerminates
CHECK_DEADLOCK FALSE
