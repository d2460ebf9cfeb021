SPECIFICATION Spec
\* the run ends with the translation of one instruction
CHECK_DEADLOCK FALSE
CONSTANTS
  P = 1048576
  Half = 131072
  FsBase = 770000
  NextIp = 40985
  Registers <- MCRegisters
  XmmRegisters <- MCXmmRegisters
  Heads <- MCHeads
  Opcodes <- MCOpcodes
  ModRMs <- MCModRMs
  Leftovers <- MCLeftovers
INVARIANTS
  TypeOK
  Lengths
  Computes
  Bystanders
