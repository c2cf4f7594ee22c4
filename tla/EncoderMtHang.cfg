SPECIFICATION FairSpec
CONSTANTS
  Threads = 1
  BlockSize = 1
  Units = 2
  ChunkMax = 1
  Spaces = {1}
  OutSizes = {1}
  Timeout = FALSE
  Failures = {}
  Incompressible = FALSE
  Chains = 1
  AppActions = {"RUN", "FULL_FLUSH", "FULL_BARRIER", "FINISH"}
PROPERTIES
  FinishEnds
CHECK_DEADLOCK FALSE
