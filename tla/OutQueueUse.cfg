SPECIFICATION Spec
CONSTANTS
  Threads = 1
  Overhead = 1
  Sizes = {1, 2}
  Spaces = {0, 1, 3}
  Jobs = 4
INVARIANTS
  BuffersBounded
