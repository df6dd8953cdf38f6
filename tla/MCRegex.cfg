CONSTANTS
  Width = 8
  Ranges <- MCRanges
  MaxRanges = 3
  OPTIMIZED_CHARS = 2
  Tags = {1, 2}
  NONE = NONE
  Regexes <- MCRegexes
  MaxRules = 2
  Letters = {0, 3, 6}
  MaxLength = 4

SPECIFICATION FairSpec

INVARIANTS
  GroupExact
  RangesApart
  SubsetsExact
  NothingMissed
  NothingExtra

PROPERTY
  ConversionEnds

CHECK_DEADLOCK FALSE
