CONSTANTS
  Width = 4
  Keys <- MCKeys
  ValuesOf <- MCValuesOf

SPECIFICATION Spec

INVARIANTS
  Invariants

PROPERTIES
  Implements
  PopShrinks
