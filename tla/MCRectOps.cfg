CONSTANTS
  Rows <- MCRows
  Columns <- MCColumns
SPECIFICATION OpsSpec
INVARIANTS
  SubtractExact
  AddExact
  PiecesDisjoint
  PiecesFit
  OverlapExact
