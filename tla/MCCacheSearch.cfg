CONSTANTS
  MaxBlocks = 5
  MaxJumps = 1
  MaxOffsets = 7
  HostSize = 20
  U8Max = 5
  NULL = NULL
  Caches <- SmallCaches
  Addresses <- SmallAddresses
SPECIFICATION FairSpec
CHECK_DEADLOCK FALSE
INVARIANTS TypeOK KeepsPromise
PROPERTIES Narrows Returns
