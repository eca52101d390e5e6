CONSTANTS
  Slots = 3
  Workers = 2
  Free = Free
  NoSession = NoSession
  NoReply = NoReply
  Servers <- Addresses
  Stored <- LaterStarts
  MaxEvents = 4
  MaxTokens = 3
  MaxSecrets = 1
SPECIFICATION Spec
INVARIANTS PoolIsSound TokenBelongsToServer
PROPERTIES NoUnaskedSignIn
CHECK_DEADLOCK FALSE
