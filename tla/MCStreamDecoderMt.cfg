SPECIFICATION FairSpec
CONSTANTS
  Threads = 2
  Overhead = 0
  MemlimitThreading = 10
  MemlimitStop = 12
  ChunkMax = 2
  Setups <- AllSetups
INVARIANTS
  FedThreadIsLive
  MemoryBounded
PROPERTIES
  ImplementsDecodedFile
  CallReturns
  FinishCompletes
CHECK_DEADLOCK FALSE
