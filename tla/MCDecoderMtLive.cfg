SPECIFICATION FairSpec
CONSTANTS
  Threads = 2
  Overhead = 0
  MemlimitThreading = 12
  MemlimitStop = 12
  Setups <- CutOffSetups
PROPERTIES
  CallReturns
  FinishCompletes
CHECK_DEADLOCK FALSE
