SPECIFICATION Spec
CONSTANTS
  Setups <- MCSetups
  LineCycles = 3
  RenderTimes = {2, 7}
  CommandTime = 1
  PollsPerVblank = 2
  Batch = 2
  Window = 1
  Repeats = 1
  MaxPending = 2
  MinSkip = 1
  MaxSkip = 4
  Block = 2
  Nap = 8
  MaxScenes = 2
INVARIANTS EventsOnTime
PROPERTIES ShowsScenesInOrder WaitsEnd
