SPECIFICATION Spec
CONSTANTS
  boot = boot
  game = game
  overlay = overlay
  variant = variant
  p1 = p1
  p2 = p2
  NPhys = 5
  Code = {boot, game, overlay, variant}
  Image <- PatchImage
  Boot = {0, 1}
  IpBin = {}
  PageSize = 1
  StackCells = {}
  Base <- PatchBase
  Incremental <- PatchIncremental
  Patch = {p1, p2}
  PatchEntry <- OverlayEntry
  PatchPage <- OverlayPage
  PatchCode <- OverlayCode
  PatchFns <- OverlayFns
  Calls <- PatchCalls
  Writes <- PatchWrites
  CacheSize = 3
  Span = 1
  Commercial = TRUE
  FastEnabled = TRUE
  MaxDepth = 1
  Interp = Interp
  NoFn = NoFn
  NoAddr = NoAddr
  NoPatch = NoPatch
  NoMemo = NoMemo
INVARIANTS SignaturesMatchFunctions
PROPERTIES RegistrationsKept PatchBytesChecked InterpreterYields
