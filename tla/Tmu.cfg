SPECIFICATION Spec
CONSTANTS
  Channels = {0, 1}
  Word = 3
  Prescalers = {0, 2, 5}
  Clocks = {0, 2}
  Period <- MCPeriod
  LazyTpsc = 2
  Batch = 2
  Block = 2
  Written <- MCWritten
  Controlled <- MCControlled
  MaxLazy = 6
INVARIANTS LazyHasOneMeaning
PROPERTIES CountsEagerly
