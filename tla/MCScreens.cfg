CONSTANTS
  None = "none"
  Libraries = {"shows", "anime"}
  Series = {"korra"}
  Movies = {"film"}
  Seasons <- MCSeasons
  Episodes <- MCEpisodes
  StackSize = 2
  Slots = 2
  MaxPresses = 5
SPECIFICATION FairSpec
INVARIANTS RepliesBelong PlayerIsNamed
PROPERTIES BackReturns BackLeadsOut
CHECK_DEADLOCK FALSE
