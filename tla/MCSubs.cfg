CONSTANTS
  Workers = {w1,w2}
  Lines <- OneLine
  Targets = {0}
  TrimEvery = 2
  BacklogSpan = 0
  MaxSerial = 1
  MaxOps = 2
  MaxLifts = 1
SYMMETRY Alike
SPECIFICATION Spec
INVARIANTS CanvasSafe PictureIsInPlace BatchIsAlive ScreenIsShown
PROPERTIES TrackIsExact
