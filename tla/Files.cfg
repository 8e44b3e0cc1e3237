SPECIFICATION Spec
CONSTANTS
  NumTerminals = 2
  Fds = {2, 3}
  BlockSize = 3
  DirEntries <- MCDirEntries
  DirLimit = 5
  Blocks <- MCBlocks
  Length <- MCLength
  Sizes = {0, 1, 2, 5}
INVARIANTS
  ReadsInOrder
  PositionsInside
CHECK_DEADLOCK FALSE
