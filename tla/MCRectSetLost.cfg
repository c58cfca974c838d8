CONSTANTS
  Lines = 3
  Cols = 3
  MaxRects = 3
SPECIFICATION Spec
INVARIANT NothingLost
