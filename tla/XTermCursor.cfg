CONSTANTS
  Ctls = {"cursorvis", "cursorblink", "keypad"}
  MouseModes = {}
  Silences = {{}}
  Unknowns = {{}}
  NoDcs = NoDcs
  DcsSize = 3
  MaxKeys = 1
  MaxWaiting = 3
SPECIFICATION Spec
INVARIANTS
  CursorKnown
CHECK_DEADLOCK FALSE
