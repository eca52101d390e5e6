CONSTANTS
  Tracks <- EveryKind
  MayFail = {"fetch", "start"}
  MaxSelections = 5
SPECIFICATION MCSpec
INVARIANTS SettledIsShown
PROPERTIES ChoiceTakesEffect FramesAreDrawn FrameIsShown
CHECK_DEADLOCK FALSE
