SPECIFICATION Spec
CONSTANTS
  Blocks <- SomeBlocks
  Spaces = {0, 1, 2, 3, 4}
  Pieces = {0, 1, 2, 3, 6}
  Finishes = {"whole", "truncated"}
  Follow = 1
INVARIANTS
  EndIsExact
  PrefixUnlessCut
