SPECIFICATION FairSpec
CONSTANTS
  Threads = 2
  BlockSize = 2
  Units = 2
  ChunkMax = 1
  Spaces = {1}
  OutSizes = {2}
  Timeout = TRUE
  Failures = {"alloc", "encoder"}
  Incompressible = TRUE
  Chains = 2
  AppActions = {"RUN", "FULL_FLUSH", "FULL_BARRIER", "FINISH"}
INVARIANTS
  FlushBoundary
PROPERTIES
  ImplementsOrderedBlocks
  CallReturns
CHECK_DEADLOCK FALSE
