CONSTANTS
  Slots = 3
  Workers = 2
  Free = Free
  NoSession = NoSession
  NoReply = NoReply
  Libraries <- Shelves
  Length <- Lengths
  WindowPages = 2
  CacheSize = 2
  Burst = 1
  PosterLimit = 2
  MaxAge = 3
  MaxEvents = 3
SPECIFICATION Spec
INVARIANTS RequestedIsComing
CHECK_DEADLOCK FALSE
