CONSTANTS
  Ctls = {"altscreen", "mouse", "cursorvis", "cursorblink", "cursorshape"}
  Silences = {{}, {"slrm", "cursorvis", "cursorblink"}}
  Unknowns = {{}}
  MouseModes = {0, 2}
  NoDcs = NoDcs
  DcsSize = 3
  MaxKeys = 1
  MaxWaiting = 1
SPECIFICATION Spec
INVARIANTS
  Restored
  ModesMirrored
  OffIsOff
  AnswersHidden
PROPERTIES
  TypingHeard
CHECK_DEADLOCK FALSE
