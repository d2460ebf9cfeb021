-------------------------------- MODULE Codec --------------------------------
(***************************************************************************)
(* One guest instruction from its bytes to the end of its translation:      *)
(* decode_instr() and encode() as decode() calls them, then the host runs   *)
(* the words one after the other.                                          *)
(***************************************************************************)
EXTENDS Encoder, X86

CONSTANTS Heads,      \* [prefix, rex]
          Opcodes,    \* [two, op, regs, imms]: an opcode, its ModRM.reg and immediates
          ModRMs,     \* [mod, rm, base, index, scale, disp]
          Leftovers,  \* what decode()'s Instruction may hold before
          Registers,  \* the guest's registers when the translation runs
          XmmRegisters

Operands == [type: SUBSET {"REG", "MEM", "IDX", "IMM", "XMM"},
             reg: Nat, idx: Nat, scale: Nat, imm: Int]
Prefixes == {"none", "FS", "OS", "REPN", "REPE"}
Instructions == [type: InstrTypes \cup {"panic"}, size: Nat, prefix: Prefixes, reverse: {0, 1},
                 len: Nat, ret: BOOLEAN, a: Operands, b: Operands]

(* Bytes of real instructions: in 64-bit mode two columns of the first      *)
(* opcodes are none, and FE has two operations.                             *)
ASSUME CodecAssumption ==
  /\ Heads \subseteq [prefix: Prefixes, rex: SUBSET {"W", "R", "X", "B"}]
  /\ \A o \in Opcodes :
       /\ o.two \in BOOLEAN /\ o.op \in 0..255 /\ o.regs \subseteq 0..7 /\ o.imms \subseteq Int
       /\ ~o.two /\ o.op < 64 => o.op % 8 < 6
       /\ ~o.two /\ o.op = 254 => o.regs \subseteq {0, 1}
  /\ ModRMs \subseteq [mod: 0..3, rm: 0..7, base: 0..7, index: 0..7, scale: 0..3, disp: Int]
  /\ \E m \in ModRMs : m.mod = 3
  /\ Leftovers \subseteq Instructions
  /\ Registers \in [0..15 -> 0..(P - 1)] /\ XmmRegisters \in [0..15 -> 0..(P - 1)]

VARIABLES code,       \* the instruction's bytes
          old,        \* the leftover Instruction decode_instr started from
          instr,      \* decode()'s Instruction
          words,      \* the words encode() emitted
          at,         \* the word the host runs next; 0 before there are any
          host        \* the host's registers and what the words did
vars == <<code, old, instr, words, at, host>>

Guest == [r |-> Registers, v |-> XmmRegisters,
          flags |-> <<"none", 0, 0, 0>>, store |-> <<0, 0, 0>>, target |-> 0]

HostOf(g) ==
  [x |-> [n \in 0..31 |-> IF \E k \in 0..15 : X(k) = n
                          THEN g.r[CHOOSE k \in 0..15 : X(k) = n] ELSE (900000 + n) % P],
   v |-> [n \in 0..16 |-> IF n < 16 THEN g.v[n] ELSE 910000 % P],
   flags |-> g.flags, store |-> g.store, target |-> g.target, bad |-> FALSE]
GuestOf(h) ==
  [r |-> [k \in 0..15 |-> h.x[X(k)]], v |-> [k \in 0..15 |-> h.v[k]],
   flags |-> h.flags, store |-> h.store, target |-> h.target]

(* The host's processor.  Register 31 is the stack pointer in an addition   *)
(* of an immediate and as a base address, the zero register elsewhere; what  *)
(* a word writes to a register clears the bits above it.                     *)
Z(h, n) == IF n = 31 THEN 0 ELSE h.x[n]
SetSp(h, d, val) == [h EXCEPT !.x[d] = val % P]
SetZ(h, d, val) == IF d = 31 THEN h ELSE SetSp(h, d, val)
SetV(h, d, val) == [h EXCEPT !.v[d] = val % P]
SetFlags(h, f) == [h EXCEPT !.flags = f]
Store(h, address, size, val) == [h EXCEPT !.store = <<address % P, size, At(size, val)>>]
LoadOf(w, h) == Load(h.x[w.n] + w.imm)
Exec(w, h) ==
  CASE w.op = "ADD_IMM" -> SetSp(h, w.d, At(w.size, h.x[w.n] + w.imm))
    [] w.op = "SUB_IMM" -> SetSp(h, w.d, h.x[w.n] - w.imm)
    [] w.op \in {"MOV", "ADRP"} -> SetZ(h, w.d, w.imm)
    [] w.op = "GET_FS" -> SetZ(h, w.d, FsBase)
    [] w.op = "UXTB" -> SetZ(h, w.d, At(8, Z(h, w.n)))
    [] w.op = "SXTW" -> SetZ(h, w.d, Signed(32, Z(h, w.n)))
    [] w.op = "LSL_IMM" -> SetZ(h, w.d, Op("LSL", Z(h, w.n), w.imm))
    [] w.op = "LSR_IMM" -> SetZ(h, w.d, Op("LSR", Z(h, w.n), w.imm))
    [] w.op = "ASR_IMM" -> SetZ(h, w.d, Op("ASR", Z(h, w.n), w.imm))
    [] w.op \in {"ADD", "AND", "EOR", "ORR", "LSL", "ASR", "SDIV", "CSEL_HI", "CSEL_MI"} ->
         SetZ(h, w.d, OpAt(w.size, w.op, Z(h, w.n), Z(h, w.m)))
    [] w.op = "SMULL" -> SetZ(h, w.d, Op("SMULL", At(32, Z(h, w.n)), At(32, Z(h, w.m))))
    [] w.op = "ADDS" -> SetZ(h, w.d, OpAt(w.size, "ADD", Z(h, w.n), Z(h, w.m)))
    [] w.op = "SUBS" -> SetFlags(SetZ(h, w.d, OpAt(w.size, "SUB", Z(h, w.n), Z(h, w.m))),
                                 <<"SUB", At(w.size, Z(h, w.n)), At(w.size, Z(h, w.m)), w.size>>)
    [] w.op = "SUBS_IMM" -> SetFlags(h, <<"SUB", At(w.size, h.x[w.n]), w.imm, w.size>>)
    [] w.op = "ANDS" ->
         SetFlags(h, <<"AND", At(w.size, Z(h, w.n)), At(w.size, Z(h, w.m)), w.size>>)
    [] w.op = "MSUB" -> SetZ(h, w.d, Op("SUB", Z(h, w.imm), Op("MUL", Z(h, w.n), Z(h, w.m))))
    [] w.op \in {Cset[t] : t \in DOMAIN Cset} -> SetZ(h, w.d, Op(w.op, 0, 0))
    [] w.op = "LDR" -> SetZ(h, w.d, At(w.size, LoadOf(w, h)))
    [] w.op = "LDRB" -> SetZ(h, w.d, At(8, LoadOf(w, h)))
    [] w.op = "LDRH" -> SetZ(h, w.d, At(16, LoadOf(w, h)))
    [] w.op = "LDRSB" -> SetZ(h, w.d, Signed(8, LoadOf(w, h)))
    [] w.op = "LDRSH" -> SetZ(h, w.d, Signed(16, LoadOf(w, h)))
    [] w.op = "STR" -> Store(h, h.x[w.n] + w.imm, w.size, Z(h, w.d))
    [] w.op = "STRB" -> Store(h, h.x[w.n] + w.imm, 8, Z(h, w.d))
    [] w.op = "LDR_V" -> SetV(h, w.d, At(w.size, LoadOf(w, h)))
    [] w.op = "STR_V" -> Store(h, h.x[w.n] + w.imm, w.size, h.v[w.d])
    [] w.op \in {"FMUL", "FDIV", "FADD", "FSUB"} ->
         SetV(h, w.d, OpAt(w.size, w.op, h.v[w.n], h.v[w.m]))
    [] w.op = "EOR_V" -> SetV(h, w.d, Op("EOR", h.v[w.n], h.v[w.m]))
    [] w.op = "FCMP" /\ w.d = 0 ->
         SetFlags(h, <<"FCMP", At(w.size, h.v[w.n]), At(w.size, h.v[w.m]), w.size>>)
    [] w.op = "FCVTZS" -> SetZ(h, w.d, Op(w.op, h.v[w.n], 0))
    [] w.op = "SCVTF" -> SetV(h, w.d, At(w.size, Op(w.op, Signed(w.size, Z(h, w.n)), 0)))
    [] w.op = "FCVT" -> SetV(h, w.d, At(32, Op(w.op, h.v[w.n], 0)))
    [] w.op = "FCVTU" -> SetV(h, w.d, Op(w.op, At(32, h.v[w.n]), 0))
    [] w.op = "FMOV" -> SetZ(h, w.d, h.v[w.n])
    [] w.op = "FMOVR" -> SetV(h, w.d, Z(h, w.n))
    [] w.op = "MOV_V" -> SetV(h, w.d, h.v[w.n])
    [] w.op \in {"BR", "BLR"} -> [h EXCEPT !.target = Z(h, w.n)]
    [] w.op = "BRK" -> [h EXCEPT !.target = w.imm % P]
    [] w.op \in {"RET", "SVC", "stack"} -> h
    [] OTHER -> [h EXCEPT !.bad = TRUE]

Bytes(h, o, reg, imm, m) ==
  [prefix |-> h.prefix, rex |-> h.rex, two |-> o.two, op |-> o.op, reg |-> reg, imm |-> imm,
   mod |-> m.mod, rm |-> m.rm, base |-> m.base, index |-> m.index, scale |-> m.scale,
   disp |-> m.disp]

Init ==
  /\ \E h \in Heads, o \in Opcodes :
       \E reg \in o.regs, imm \in o.imms,
          m \in IF HasModRM(o) THEN ModRMs ELSE {CHOOSE m \in ModRMs : m.mod = 3} :
         code = Bytes(h, o, reg, imm, m)
  /\ old \in Leftovers
  /\ instr = old
  /\ words = <<>>
  /\ at = 0
  /\ host = HostOf(Guest)

\* one turn of decode()'s loop; an unknown instruction ends the process
Translate ==
  /\ at = 0
  /\ instr' = decode_instr(code, old)
  /\ words' = IF instr'.type = "panic" THEN panic ELSE encode(instr', NextIp)
  /\ at' = 1
  /\ UNCHANGED <<code, old, host>>

Run ==
  /\ at \in 1..Len(words)
  /\ words # panic
  /\ host' = Exec(words[at], host)
  /\ at' = at + 1
  /\ UNCHANGED <<code, old, instr, words>>

Next == Translate \/ Run
Spec == Init /\ [][Next]_vars
Done == at = Len(words) + 1 /\ words # panic

-------------------------------------------------------------------------------
(* Properties *)

\* MOVQ and MOVAPD of memory: the register in the word is that of a leftover
Unassigned(i) == i.type \in {"MOVQ", "MOVAPD"} /\ (IsMem(i.a) \/ IsMem(i.b))

TypeOK ==
  /\ at > 0 => /\ instr.type \in InstrTypes \cup {"panic"}
               /\ instr.size \in {8, 16, 32, 64} /\ instr.len \in 1..15
  /\ ~Unassigned(instr) =>
       \A k \in 1..Len(words) : {words[k].d, words[k].n, words[k].m} \subseteq 0..31
  /\ at \in 0..(Len(words) + 1)
  /\ \A n \in 0..31 : host.x[n] \in 0..(P - 1)

(* What the decoder and the encoder do not do.  Each predicate names forms   *)
(* of which the code shows that their translation is something else.         *)
Memory(c) == HasModRM(c) /\ c.mod # 3
Sib(c) == Memory(c) /\ c.rm = 4
Indexed(c) == Sib(c) /\ c.index # 4
Kinds(c) == {Form(c).dst, Form(c).src}
\* multi-byte NOP: only ModRM is fetched
LongNop(c) == c.two /\ c.op \in {30, 31} /\ Memory(c)
           /\ (c.rm = 4 \/ DispSize(c) # 0)
\* the operand size prefix shortens the immediate of C7 only
ShortImmediate(c) == ~c.two /\ ImmSize(c) = 2 /\ c.op # 199
\* 66 REX.W C7 keeps a 32-bit immediate
LongMove(c) == ~c.two /\ c.op = 199 /\ c.prefix = "OS" /\ "W" \in c.rex

\* the operand size prefix gives no 16-bit instruction, and REX.W makes one of
\* 64 bits of a bytewise one; a comparison of bytes tests no bit 7 for the sign
Calculates(c) == Form(c).does \notin {"NOP", "JUMP"}
OperandSize(c) ==
  /\ Calculates(c)
  /\ \/ Width(c) = 16
     \/ Width(c) = 8 /\ ("W" \in c.rex \/ Form(c).does \in DOMAIN Compares)
\* AH to BH are taken for the registers of their numbers
HighByte(c) == Width(c) = 8 /\ "reg" \in Kinds(c) /\ High(c, Reg(c))
\* words that work on 64 bits for an instruction of 32
Unnarrowed(c) ==
  /\ Width(c) = 32
  /\ \/ Form(c).does \in {"ADD", "SUB"} /\ Form(c).src \in {"imm", "one"} /\ ~Memory(c)
     \/ Form(c).does = "ORR"
     \/ Form(c).does \in {"LSL", "ASR"} /\ Form(c).src # "cl"
     \/ Form(c).src = "address"
     \/ Form(c).does = "MOV" /\ Form(c).src = "imm" /\ ~Memory(c) /\ c.imm \notin 0..(Half - 1)
\* registers are copied where they should be widened, and signs go up to bit 63
Widenings(c) ==
  \/ Form(c).does \in {"ZERO8", "ZERO16"} /\ c.mod = 3
  \/ Form(c).does \in {"SIGN8", "SIGN16"} /\ (c.mod = 3 \/ Width(c) # 64)
  \/ Form(c).does \in {"SIGN32", "WIDEN"} /\ Width(c) # 64
  \/ Form(c).does = "SIGN"

\* register 31 of the host is the stack pointer in few words only
StackPointer(c) ==
  /\ \/ "reg" \in Kinds(c) /\ Reg(c) = RSP
     \/ Kinds(c) \cap {"rm", "rm8", "whole"} # {} /\ c.mod = 3 /\ Rm(c) = RSP
     \/ "opreg" \in Kinds(c) /\ OpReg(c) = RSP
  /\ ~ \/ Form(c).src = "address" /\ ~NoBase(c) /\ ~Indexed(c)
       \/ Form(c).does = "MOV" /\ c.mod = 3 /\ Form(c).src # "imm" /\ ~c.two
       \/ Form(c).does \in {"ADD", "SUB", "AND"} /\ Form(c).src \in {"imm", "one"}
ScaledOnStack(c) == Indexed(c) /\ c.base = RSP /\ "B" \notin c.rex
\* a 32-bit address without registers is taken for one relative to the instruction;
\* not so with FS, which a branch and a comparison of floats lose
Absolute(c) == /\ Sib(c) /\ NoBase(c) /\ c.index = 4
               /\ c.prefix # "FS" \/ Form(c).does \in {"JUMP", "COMIS"}
\* REX.X on index 4 comes after the test that index 4 is no index
R12Index(c) == Sib(c) /\ c.index = 4 /\ "X" \in c.rex
\* with FS only a displacement is added
Segment(c) == Memory(c) /\ c.prefix = "FS" /\ ~(NoBase(c) /\ ~Indexed(c))
SegmentRelative(c) == Memory(c) /\ c.prefix = "FS" /\ (c.rm # 4 \/ c.op = 141)
\* displacements and immediates beyond the 12 bits of an addition
WideOffset(c) == /\ Memory(c) /\ ~(NoBase(c) /\ ~Indexed(c) /\ c.prefix # "FS")
                 /\ c.disp > 4095 \/ c.disp < -4095
WideImmediate(c) ==
  /\ Form(c).src = "imm"
  /\ \/ Form(c).does \in {"ADD", "SUB"} /\ (c.imm > 4095 \/ c.imm < -4095)
     \/ Form(c).does = "CMP" /\ c.op \in {60, 128} /\ c.imm \notin 0..4095
\* the address is built in the destination while the base is still needed
LeaOverlap(c) == ~c.two /\ c.op = 141 /\ Indexed(c) /\ ~NoBase(c)
                 /\ Reg(c) = c.base + Ext(c, "B")
ShiftRight(c) == Form(c).does = "LSR"
\* SMULL multiplies the low halves
Multiply(c) == Form(c).does \in {"MUL", "IMUL1", "IMUL3"}
Divide(c) == Form(c).does = "IDIV"
\* REX.R extends a register that ModRM does not name: RAX, or RCX of a shift
StrayRex(c) == ~c.two /\ "R" \in c.rex
               /\ ((c.op < 64 /\ ~HasModRM(c)) \/ c.op \in {210, 211})
\* SETcc clears the rest of the register
SetByte(c) == c.two /\ c.op \in 144..159
\* an instruction on all the lanes of a vector is translated as one on a scalar
Packed(c) == c.two /\ c.prefix \notin {"REPN", "REPE"}
             /\ c.op \in {16, 17, 88, 89, 90, 92, 94}
\* 42 and 110, 126 keep the integer's size in one form each
Conversions(c) ==
  c.two /\ \/ c.op = 42 /\ ~ \/ c.prefix = "REPN" /\ "W" \in c.rex /\ c.mod = 3
                             \/ c.prefix = "REPE" /\ "W" \notin c.rex
           \/ c.op \in {110, 126} /\ ~(c.prefix = "OS" /\ "W" \in c.rex /\ c.mod = 3)
           \/ c.op = 44
Vectors(c) ==
  c.two /\ \/ c.op = 40 /\ (Memory(c) \/ "W" \in c.rex)
           \/ c.op = 47 /\ Reg(c) # 0
Mistranslated(c) ==
  \/ LongNop(c) \/ ShortImmediate(c) \/ LongMove(c) \/ StackPointer(c) \/ ScaledOnStack(c)
  \/ Absolute(c) \/ R12Index(c) \/ Segment(c) \/ SegmentRelative(c) \/ WideOffset(c)
  \/ WideImmediate(c) \/ LeaOverlap(c) \/ ShiftRight(c) \/ Multiply(c) \/ Divide(c)
  \/ StrayRex(c) \/ OperandSize(c) \/ HighByte(c) \/ Unnarrowed(c) \/ Widenings(c)
  \/ SetByte(c) \/ Packed(c) \/ Conversions(c) \/ Vectors(c)

(* Decoding goes on behind the instruction and not inside it or the next:    *)
(* decode_instr has fetched as many bytes as the instruction has.            *)
Lengths ==
  at > 0 /\ instr.type # "panic" /\ ~(LongNop(code) \/ ShortImmediate(code) \/ LongMove(code))
    => instr.len = Length(code)

(* The words compute what the instruction computes: the registers of both    *)
(* files, what is stored and where, where it jumps, and, for a comparison,   *)
(* the flags.  decode()'s Instruction starts with the values of another one. *)
Agrees(g, e) ==
  /\ [r |-> g.r, v |-> g.v, store |-> g.store, target |-> g.target]
     = [r |-> e.r, v |-> e.v, store |-> e.store, target |-> e.target]
  /\ Form(code).does \in DOMAIN Compares => g.flags = e.flags
Computes ==
  Done /\ ~Mistranslated(code) => ~host.bad /\ Agrees(GuestOf(host), Effect(code, Guest))

(* Even where the translation is wrong it is wrong in its own operands: a    *)
(* guest register that is not the first operand keeps its value, and CLTD    *)
(* writes RDX too.  Not so IDIV, which moves through R12 (Divide), and MOVQ  *)
(* to memory, which writes the register of a leftover (Vectors).             *)
Written(i) == (IF "REG" \in i.a.type /\ "MEM" \notin i.a.type THEN {i.a.reg} ELSE {})
              \cup (IF i.type = "CLTD" THEN {RAX, RDX} ELSE {})
              \cup (IF i.type = "CLTQ" THEN {RAX} ELSE {})
Bystanders ==
  Done /\ instr.type # "IDIV" /\ ~(instr.type = "MOVQ" /\ IsMem(instr.a)) =>
    \A k \in (0..15) \ Written(instr) : GuestOf(host).r[k] = Guest.r[k]

(* What the comments on encode's IDIV say: "sdiv nn, x12, r0" divides what   *)
(* was moved from r0 to x12, and "msub x2, nn, r0, x12" leaves in x2, which  *)
(* is RDX, the rest of x12: the dividend of both is RAX.                     *)
Divides ==
  Done /\ instr.type = "IDIV" /\ instr.b.reg # RSP =>
    LET quotient == Op("SDIV", Guest.r[RAX], Guest.r[instr.b.reg])
        product == Op("MUL", quotient, Guest.r[instr.b.reg])
    IN GuestOf(host).r[RAX] = quotient /\ GuestOf(host).r[RDX] = Op("SUB", Guest.r[RAX], product)
===============================================================================
