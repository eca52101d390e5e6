CONSTANTS
  Slots = 6
  Workers = 4
  Free = Free
  NoSession = NoSession
  NoReply = NoReply
  Servers <- Address
  Stored <- StaleToken
  MaxEvents = 0
  MaxTokens = 3
  MaxSecrets = 1
SPECIFICATION Spec
PROPERTIES PasswordIsKept
CHECK_DEADLOCK FALSE
