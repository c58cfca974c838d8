CONSTANTS
  Lines = 4
  Cols = 2
  MaxRects = 3
SPECIFICATION Spec
INVARIANTS
  OrderedDisjoint
  NothingExtra
  QueriesAgree
  SubtractKeepsRest
