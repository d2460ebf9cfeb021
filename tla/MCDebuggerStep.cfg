CONSTANTS
  MaxBlocks = 4
  MaxJumps = 3
  MaxOffsets = 9
  HostSize = 40
  U8Max = 2
  NULL = NULL
  Careful = FALSE
  Programs <- Stepped
SPECIFICATION DebugSpec
CHECK_DEADLOCK FALSE
INVARIANT CodeIntact
