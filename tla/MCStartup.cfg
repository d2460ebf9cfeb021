CONSTANTS
  StackSize = 26
  Strings <- Names
  CellsOf <- Cells
  PAGE_SIZE = 2
  UINT32 = 32
  RelrBits = 3
  Scenarios <- AllScenarios
  Options <- Opts
  Present = {"img"}
  OS <- System
SPECIFICATION Spec
CHECK_DEADLOCK FALSE
INVARIANTS TypeOK EntryAligned StackWhole ImageRight CopiesShared InitOrder HostApart
