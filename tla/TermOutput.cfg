CONSTANTS
  Sizes = {0, 1, 3}
  Lengths = {1, 2, 4}
  MaxWrites = 3
SPECIFICATION FairSpec
INVARIANTS
  RoomLeft
  CountKept
  OrderKept
PROPERTIES
  WriteEnds
