CONSTANTS
  MaxBlocks = 5
  MaxJumps = 3
  MaxOffsets = 9
  HostSize = 40
  U8Max = 2
  NULL = NULL
  Programs <- LongPrograms
SPECIFICATION FairSpec
CHECK_DEADLOCK FALSE
INVARIANTS TypeOK TablesOrdered EntriesFaithful LinksFaithful Findable
PROPERTIES EntriesStable HandlerReturns
