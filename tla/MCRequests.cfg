CONSTANTS
  Slots = 3
  Workers = 2
  Free = Free
  NoSession = NoSession
  NoReply = NoReply
  Servers <- Address
  Stored <- SignedOut
  MaxEvents = 2
  MaxTokens = 2
  MaxSecrets = 2
  Libraries <- Shelves
  Length <- Lengths
  WindowPages = 2
  CacheSize = 2
  Burst = 1
  PosterLimit = 2
  MaxAge = 3
  GridEvents = 3
SPECIFICATION MCSpec
INVARIANTS SlotAwaitsItsItem
PROPERTIES ApprovalSignsIn PostersSettle
CHECK_DEADLOCK FALSE
