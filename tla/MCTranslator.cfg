CONSTANTS
  MaxBlocks = 5
  MaxJumps = 2
  MaxOffsets = 3
  HostSize = 6
  U8Max = 2
  NULL = NULL
  Programs <- SmallPrograms
SPECIFICATION Spec
CHECK_DEADLOCK FALSE
INVARIANTS TablesInBounds PatchIds
