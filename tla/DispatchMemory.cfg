SPECIFICATION Spec
CONSTANTS
  boot = boot
  game = game
  overlay = overlay
  variant = variant
  p1 = p1
  p2 = p2
  NPhys = 3
  Code = {boot, game}
  Image <- MCImage
  Boot = {0, 1}
  IpBin = {0, 1}
  PageSize = 1
  StackCells = {1, 2}
  Base <- MCBase
  Incremental <- None
  Patch = {}
  PatchEntry <- OverlayEntry
  PatchPage <- OverlayPage
  PatchCode <- OverlayCode
  PatchFns <- OverlayFns
  Calls <- MemoryCalls
  Writes <- MemoryWrites
  CacheSize = 2
  Span = 1
  Commercial = TRUE
  FastEnabled = TRUE
  MaxDepth = 2
  Interp = Interp
  NoFn = NoFn
  NoAddr = NoAddr
  NoPatch = NoPatch
  NoMemo = NoMemo
INVARIANTS TypeOK RelocationTracked TablesAgree
PROPERTIES ReentryKeepsLiveCopies
