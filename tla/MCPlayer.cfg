CONSTANTS
  End = 3
  Keyframes = {0, 2}
  Transcoded = FALSE
  Deltas <- Jumps
  MaxSeeks = 3
SPECIFICATION FairSpec
INVARIANTS StopSticks SegmentIsWhereAsked BarHoldsTarget
PROPERTIES PressesAddUp ErrorStays SeekIsTaken SessionEnds
