CONSTANTS
  MaxBlocks = 6
  MaxJumps = 3
  MaxOffsets = 9
  HostSize = 40
  U8Max = 2
  NULL = NULL
  Programs <- LongPrograms
SPECIFICATION Spec
CHECK_DEADLOCK FALSE
INVARIANT HostInBounds
