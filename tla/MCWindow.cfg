CONSTANTS
  root = root
  a = a
  b = b
  dangling = dangling
  None = None
  Old = Old
  Root = root
  Dangling = dangling
  Windows <- MCWindows
  Grid <- MCGrid
  Sizes <- MCSizes
  Under <- MCUnder
  Places <- MCPlaces
  Spots <- MCSpots
  FocusTargets = {}
  HideTargets = {}
  DrawTargets = {a}
  Restacks = {"lower_back"}
  MaxChanges = 1
  MaxCalls = 1
  MaxTurns = 5
SPECIFICATION FairSpec
INVARIANTS
  TypeOK
  ScreenCurrent
PROPERTY
  StaleRepainted
