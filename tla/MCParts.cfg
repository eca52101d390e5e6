CONSTANTS
  Whole = 2
  MaxSaves = 3
  Posters = {Poster}
  Backdrops = {Backdrop}
  Workers = {Worker1, Worker2}
  Budget = 1
  MaxWrites = 3
  BitmapTracks = {1, 2}
  LastStart = 2
  Lengths <- UntilNextOrOne
  Forever = 9
  LongOver = 0
  MaxPictures = 3
  Audio = {1, 2}
  Subtitles = {3}
  MaxStretch = 3
  FrameTicks = 2
  Tolerance = 2
  Freshness = 3
  Slow = 2
  MaxNow = 9
SPECIFICATION MCSpec
INVARIANTS SettingsAreKept ImagesAreWhole BuffersAreKept OneIsDue OutputIsCurrent SoundIsThePlayed ReadingIsNear
SYMMETRY Alike
CHECK_DEADLOCK FALSE
