CONSTANTS
  root = root
  a = a
  b = b
  dangling = dangling
  None = None
  Old = Old
  Root = root
  Dangling = dangling
  Windows <- MCWindows
  Grid <- OneGrid
  Sizes <- OneSize
  Under <- MCUnder
  Places <- OnePlaces
  Spots <- MCSpots
  FocusTargets = {a, b}
  HideTargets = {a}
  DrawTargets = {}
  Restacks = {"raise", "lower"}
  MaxChanges = 2
  MaxCalls = 1
  MaxTurns = 5
SPECIFICATION FairSpec
INVARIANTS
  NothingForgotten
  ScreenCurrent
  ChangesParented
  ChildrenExact
  FocusPathVisible
  CursorCurrent
PROPERTY
  ChangesApplied
