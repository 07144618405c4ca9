SPECIFICATION Spec
CONSTANTS
  RingChunks = 2
  Prefill = 2
  Target = 3
  LowWater = 1
  MaxChunks = 4
INVARIANTS TypeOK FreshestHeard
PROPERTIES PlaybackSpec FinishEnds RingServed
