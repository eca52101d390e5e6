CONSTANTS
  Streams <- Containers
  VideoSlots = 1
  AudioSlots = 1
  PipeSlots = 1
  VideoAhead = 1
  AudioAhead = 1
  CanPause = TRUE
  Faults = {}
  MaxPauses = 2
SPECIFICATION Spec
INVARIANTS PausedConsumesNothing
