CONSTANTS
  VliMax = 127
  VliBase = 16
  VliBytesMax = 2
  GroupSize = 2
  BackwardMax = 32
  Blocks <- SmallBlocks
  Paddings = {4}
  Targets = {0, 3, 5, 104}
  Starts <- FirstIndexes
  Second <- OtherIndexes
  MaxCalls = 3
  MaxLooks = 2
  SkipsFirst = TRUE
  Files <- AllFiles
  TempSizes = {12, 60}
  Pieces = {5, 200}
  Memlimits = {1, 9}
  UsesAfterFile = 2
SPECIFICATION FairSpec
INVARIANTS IteratorLives SizesExact FileUnderstood
PROPERTIES ImplementsIndexList FileEnds
CHECK_DEADLOCK FALSE
