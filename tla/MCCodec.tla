-------------------------------- MODULE MCCodec --------------------------------
(* Every opcode the decoder knows, with operands of each addressing form.        *)
EXTENDS Codec

M(mod, rm, base, index, scale, disp) ==
  [mod |-> mod, rm |-> rm, base |-> base, index |-> index, scale |-> scale, disp |-> disp]
MCModRMs ==
  {M(3, 3, 0, 0, 0, 0), M(3, 4, 0, 0, 0, 0),
   M(0, 0, 0, 0, 0, 0), M(0, 5, 0, 0, 0, 300), M(0, 4, 0, 1, 2, 0), M(0, 4, 5, 4, 0, 300),
   M(0, 4, 5, 6, 0, 300), M(0, 4, 4, 4, 0, 0),
   M(1, 3, 0, 0, 0, -4), M(1, 4, 4, 1, 1, -4), M(1, 4, 3, 0, 3, 8),
   M(2, 0, 0, 0, 0, 5000), M(2, 5, 0, 0, 0, -300), M(2, 4, 3, 1, 0, 300)}

MCHeads ==
  {[prefix |-> "none", rex |-> x] : x \in {{}, {"W"}, {"W", "R"}, {"X"}, {"W", "B"}}}
  \cup {[prefix |-> "FS", rex |-> x] : x \in {{}, {"W"}}}
  \cup {[prefix |-> x, rex |-> {}] : x \in {"OS", "REPN"}}
  \cup {[prefix |-> x, rex |-> {"W"}] : x \in {"OS", "REPN"}}
  \cup {[prefix |-> "REPE", rex |-> {"R"}]}

\* bytes that are no opcodes in 64-bit mode are left out: no program has them
OneByteOps ==
  ({o \in 0..63 : o % 8 < 6}) \cup (80..95) \cup {99, 104, 105, 106} \cup (112..129)
  \cup {131, 132, 133} \cup (136..139) \cup {141, 143, 144, 152, 153} \cup (176..193)
  \cup {195, 198, 199, 201} \cup (208..211) \cup {232, 233, 235, 244, 247, 254, 255}
TwoByteOps ==
  {5, 16, 17, 30, 31, 40, 42, 44, 47} \cup (64..79) \cup {87, 88, 89, 90, 92, 94, 110, 126}
  \cup (128..159) \cup {175, 182, 183, 190, 191, 239}
\* where ModRM.reg selects the operation
Groups == {128, 129, 131, 192, 193, 208, 209, 210, 211, 247, 255}
RegsOf(op, two) ==
  CASE ~HasModRM([two |-> two, op |-> op]) -> {0}
    [] ~two /\ op \in Groups -> 0..7
    [] ~two /\ op = 254 -> {0, 1}
    [] OTHER -> {0, 3, 4}
Immediates(op, two) ==
  CASE ~two /\ op \in {5, 45, 105, 129, 199} -> {-4, 0, 300, 9000}
    [] ~two /\ op \in {60, 128, 131, 193, 198} -> {-4, 3}
    [] OTHER -> {3}
MCOpcodes ==
  {[two |-> two, op |-> op, regs |-> RegsOf(op, two), imms |-> Immediates(op, two)] :
     <<two, op>> \in ({FALSE} \X OneByteOps) \cup ({TRUE} \X TwoByteOps)}

Operand(type, reg, idx, imm) ==
  [type |-> type, reg |-> reg, idx |-> idx, scale |-> 1, imm |-> imm]
MCLeftovers ==
  {[type |-> "MOV", size |-> 32, prefix |-> "none", reverse |-> 0, len |-> 5, ret |-> FALSE,
    a |-> Operand({"REG"}, 6, 3, 40), b |-> Operand({"IMM"}, 7, 2, 77)],
   [type |-> "MOV", size |-> 64, prefix |-> "none", reverse |-> 1, len |-> 3, ret |-> FALSE,
    a |-> Operand({"MEM", "REG"}, 3, 1, 0), b |-> Operand({"REG"}, 2, 6, 0)]}

\* a guest state with different values everywhere, most beyond Half
MCRegisters == [k \in 0..15 |-> 61003 * (16 - k) + k * k]
MCXmmRegisters == [k \in 0..15 |-> 300007 + 977 * k]

\* IDIV by a register
IdivHeads == {[prefix |-> "none", rex |-> {"W"}]}
IdivOpcodes == {[two |-> FALSE, op |-> 247, regs |-> {7}, imms |-> {0}]}
IdivModRMs == {M(3, 3, 0, 0, 0, 0)}
================================================================================
