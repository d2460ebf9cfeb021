CONSTANTS
  Regs = {"rax", "rbx"}
  StackCells = 6
  Starts <- HalfFull
  Operands = {"rax", "rbx", "rbp", "rsp", "imm", "top"}
  MaxInstrs = 5
  Ends = TRUE
  Wild = FALSE
SPECIFICATION Spec
CHECK_DEADLOCK FALSE
INVARIANTS TypeOK SameMeaning PointsAscend
