SPECIFICATION FairSpec
CONSTANTS
  Threads = 2
  Overhead = 1
  BlockSize = 2
  ChunkMax = 2
  OutSizes = {1}
  Setups <- AllSetups
INVARIANTS
  ThreadsAccounted
  FiltersPerBlock
PROPERTIES
  ImplementsOrderedBlocks
  ProgressAdvances
  FinishCompletes
CHECK_DEADLOCK FALSE
