CONSTANTS
  Streams <- Containers
  VideoSlots = 1
  AudioSlots = 1
  PipeSlots = 1
  VideoAhead = 1
  AudioAhead = 1
  CanPause = TRUE
  Faults = {"audio", "feed", "play", "pipeline"}
  MaxPauses = 1
SPECIFICATION FairSpec
INVARIANTS PlayIsNotLost
PROPERTIES InterruptEnds StreamPlays
