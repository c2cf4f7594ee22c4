SPECIFICATION Spec
CONSTANTS
  Threads = 2
  Overhead = 0
  MemlimitThreading = 12
  MemlimitStop = 12
  Setups <- AllSetups
INVARIANTS
  ThreadingMemoryBounded
PROPERTIES
  ImplementsDecodedFile
CHECK_DEADLOCK FALSE
