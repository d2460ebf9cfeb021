CONSTANTS
  Regs = {"rax", "rbx"}
  StackCells = 6
  Starts <- Empty
  Operands = {"rax", "rbp"}
  MaxInstrs = 4
  Ends = FALSE
  Wild = TRUE
SPECIFICATION Spec
CHECK_DEADLOCK FALSE
INVARIANTS FallsThrough
