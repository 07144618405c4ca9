SPECIFICATION Spec
CONSTANTS
  Setups <- MCSetups
  Pages = {1, 2}
  Values = {0, 1}
  Textures = {"shot", "wide", "pal", "odd"}
  Paletted = {"pal"}
  Strided = {"wide"}
  Supported = {"shot", "wide", "pal"}
  Strides = {0, 1}
  Formats = {0}
  Covers <- MCCovers
  Sets = {0}
  WayCount = 2
  SetOf <- MCSetOf
  Targets = {"T1", "T2"}
  TargetPages <- MCTargetPages
  Direct <- MCDirect
  Display = Display
  Nothing = Nothing
INVARIANTS TypeOK TablesExact CopiesCurrent TargetsCoherent TexelsAsSubmitted
