SPECIFICATION Spec
CONSTANTS
  Requests <- MCRequests
  Queries = {"Query"}
  Chunks = {1, 3}
  DataFads = {0, 1}
  Tracks <- MCTracks
  SectorSize = 2
  WordSize = 8
  NoId = 3
  BootFad = 0
  InitFad = 1
INVARIANTS TypeOK SlotOwned StreamExact
PROPERTIES MirrorsAgree PlayEnds
CHECK_DEADLOCK FALSE
