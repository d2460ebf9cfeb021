------------------------------- MODULE Encoder -------------------------------
(***************************************************************************)
(* encode(): one Instruction into host words.  A word is a record of the    *)
(* host's mnemonic and its fields: d, n and m are register numbers as they  *)
(* stand in the word, imm what its immediate field means to the processor,  *)
(* size how many bits of its operands it works on.                         *)
(*                                                                         *)
(* Abstracted: emit_imm's sequence of MOVZ and MOVK, one word MOV here.     *)
(* PUSH, POP and LEAVE are module StackFusion; the word rewritten by        *)
(* SYSCALL is not modelled.                                                *)
(***************************************************************************)
EXTENDS Decoder

SC1 == 16
SC2 == 17
XZR == 21
SC1R == 12
SC2R == 13
V16 == 16
x64_regs == <<8, 3, 2, 14, 31, 29, 1, 0, 4, 5, 10, 11, 16, 17, 18, 19, 12, 13, 30, 6, 7, 31>>
X(r) == x64_regs[r + 1]

W(op, d, n, m, imm) == [op |-> op, d |-> d, n |-> n, m |-> m, imm |-> imm, size |-> 64]
Sized(size, w) == [w EXCEPT !.size = size]
R2(op, d, n) == W(op, d, n, 0, 0)
\* _construct_r_r_r
RRR(op, rd, rn, rm) == W(op, X(rd), X(rn), X(rm), 0)
panic == <<W("panic", 0, 0, 0, 0)>>

\* an immediate or-ed into a word above bit 10: bit 12 is the shift of the
\* 12-bit field, and what lies above or is negative changes the opcode
Imm12(op, d, n, v) ==
  IF v < 0 \/ v >= 8192 THEN W("garbled", d, n, 0, v)
  ELSE W(op, d, n, 0, IF v < 4096 THEN v ELSE (v - 4096) * 4096)
emit_add_signed(r0, r1, imm) ==
  <<IF imm > 0 THEN Imm12("ADD_IMM", r0, r1, imm) ELSE Imm12("SUB_IMM", r0, r1, -imm)>>
emit_sub_signed(r0, r1, imm) ==
  <<IF imm > 0 THEN Imm12("SUB_IMM", r0, r1, imm) ELSE Imm12("ADD_IMM", r0, r1, -imm)>>
emit_imm(imm, rd) == <<W("MOV", rd, 0, 0, imm)>>
Copy(d, n) == <<R2("ADD_IMM", d, n)>>
\* the bit SF of a word, which only 64-bit instructions get
Sf(i) == IF i.size = 64 THEN 64 ELSE 32
Move(i) == <<Sized(Sf(i), R2("ADD_IMM", X(i.a.reg), X(i.b.reg)))>>
\* the bits FT and MFT of a word on the vector registers
Ft(i) == IF i.prefix = "REPN" THEN 64 ELSE 32

\* gp is the guest address behind the instruction
emit_address_decode(op, reg, prefix, gp) ==
  LET full == gp + op.imm IN
  CASE prefix = "FS" -> <<R2("GET_FS", reg, 0)>> \o emit_add_signed(reg, reg, op.imm)
    [] prefix # "FS" /\ op.type = {"MEM", "IMM"} ->
         <<W("ADRP", reg, 0, 0, full - (full % 4096)), W("ADD_IMM", reg, reg, 0, full % 4096)>>
    [] prefix # "FS" /\ "IDX" \in op.type ->
         <<IF op.scale # 0 THEN W("LSL_IMM", reg, X(op.idx), 0, op.scale)
                           ELSE R2("ADD_IMM", reg, X(op.idx))>>
         \o (IF "REG" \in op.type THEN <<W("ADD", reg, reg, X(op.reg), 0)>> ELSE <<>>)
         \o (IF "IMM" \in op.type /\ op.imm # 0 THEN emit_add_signed(reg, reg, op.imm) ELSE <<>>)
    [] OTHER -> IF "IMM" \in op.type THEN emit_add_signed(reg, X(op.reg), op.imm)
                ELSE Copy(reg, X(op.reg))

\* the address is a register and a displacement of nine bits, or a register
Near(op) == op.type = {"MEM", "REG", "IMM"} /\ op.imm > -256 /\ op.imm < 255
Direct(op) == op.type = {"MEM", "REG"}
emit_load(rd, op, sf, prefix, gp) ==
  CASE Near(op) -> <<Sized(sf, W("LDR", rd, X(op.reg), 0, op.imm))>>
    [] Direct(op) -> <<Sized(sf, R2("LDR", rd, X(op.reg)))>>
    [] OTHER -> emit_address_decode(op, SC1R, prefix, gp) \o <<Sized(sf, R2("LDR", rd, SC1R))>>
emit_store(rd, op, sf, prefix, address, gp) ==
  CASE Near(op) -> <<Sized(sf, W("STR", rd, X(op.reg), 0, op.imm))>>
    [] Direct(op) -> <<Sized(sf, R2("STR", rd, X(op.reg)))>>
    [] OTHER -> (IF address THEN emit_address_decode(op, SC1R, prefix, gp) ELSE <<>>)
                \o <<Sized(sf, R2("STR", rd, SC1R))>>

emit_branch(i, op, gp) ==
  CASE i.a.type = {"REG"} -> <<R2(op, 0, X(i.a.reg))>>
    [] i.a.type = {"IMM"} -> <<W("BRK", 0, 0, 0, gp + i.a.imm)>>
    [] OTHER -> emit_address_decode(i.a, SC1R, "none", gp)
                \o <<R2("LDR", SC1R, SC1R), R2(op, 0, SC1R)>>

IsMem(op) == "MEM" \in op.type
Addr(op, i, gp) == emit_address_decode(op, SC1R, i.prefix, gp)

emit_neon(i, op, gp) ==
  IF IsMem(i.a)
  THEN Addr(i.a, i, gp)
       \o <<Sized(Ft(i), R2("LDR_V", V16, SC1R)), Sized(Ft(i), W(op, V16, V16, i.b.reg, 0)),
            Sized(Ft(i), R2("STR_V", V16, SC1R))>>
  ELSE IF IsMem(i.b)
  THEN Addr(i.b, i, gp) \o <<Sized(Ft(i), R2("LDR_V", V16, SC1R)),
                             Sized(Ft(i), W(op, i.a.reg, i.a.reg, V16, 0))>>
  ELSE <<Sized(Ft(i), W(op, i.a.reg, i.a.reg, i.b.reg, 0))>>

\* encode8bit: its words have no SF
And32(m) == Sized(32, RRR("ANDS", XZR, SC1, m))
Byte(d, r) == <<R2("UXTB", d, X(r))>>
Mov8(i, gp) ==
  IF ~IsMem(i.a) THEN panic
  ELSE Addr(i.a, i, gp) \o (IF i.b.type = {"REG"} THEN <<R2("STRB", X(i.b.reg), SC1R)>>
                            ELSE emit_imm(i.b.imm, SC2R) \o <<R2("STRB", SC2R, SC1R)>>)
Test8(i) ==
  CASE i.a.type # {"REG"} \/ i.b.type \notin {{"REG"}, {"IMM"}} -> panic
    [] i.a.type = {"REG"} /\ i.b.type = {"REG"} ->
         IF i.a.reg = i.b.reg THEN Byte(SC1R, i.a.reg) \o <<And32(SC1)>>
         ELSE Byte(SC1R, i.a.reg) \o Byte(SC2R, i.b.reg) \o <<And32(SC2)>>
    [] OTHER -> Byte(SC1R, i.a.reg) \o emit_imm(i.b.imm, SC2R) \o <<And32(SC2)>>
Cmp8(i, gp) ==
  LET compare == <<Sized(32, Imm12("SUBS_IMM", X(XZR), SC1R, i.b.imm))>>
  IN CASE i.a.type = {"REG"} -> Byte(SC1R, i.a.reg) \o compare
       [] IsMem(i.a) -> Addr(i.a, i, gp) \o <<R2("LDRB", SC1R, SC1R)>> \o compare
       [] OTHER -> panic
Cset == [t \in {"SETNE", "SETAE", "SETE", "SETB"} |->
           CASE t = "SETNE" -> "CSET_NE" [] t = "SETAE" -> "CSET_HS"
             [] t = "SETE" -> "CSET_EQ" [] t = "SETB" -> "CSET_LO"]
encode8bit(i, gp) ==
  CASE i.type = "MOV" -> Mov8(i, gp)
    [] i.type = "TEST" -> Test8(i)
    [] i.type = "CMP" -> Cmp8(i, gp)
    [] i.type \in DOMAIN Cset ->
         IF i.a.type = {"REG"} THEN <<R2(Cset[i.type], X(i.a.reg), 0)>> ELSE panic
    [] OTHER -> panic

\* the second operand of ADD, SUB and CMP, or else the first, comes from
\* memory into SC2, which then stands for its register
FromMemory(i, gp) ==
  CASE IsMem(i.b) -> emit_load(SC2R, i.b, Sf(i), i.prefix, gp)
    [] ~IsMem(i.b) /\ IsMem(i.a) -> emit_load(SC2R, i.a, Sf(i), i.prefix, gp)
    [] OTHER -> <<>>

\* a bug: an operand from memory is put into the register of its address
Left_unscratched(i) == i.a.reg

Left(i) == IF IsMem(i.a) /\ ~IsMem(i.b) THEN SC2 ELSE i.a.reg

Right(i) == IF IsMem(i.b) THEN SC2 ELSE i.b.reg
RightIsRegister(i) == IsMem(i.b) \/ i.b.type = {"REG"}
ToMemory(i, gp) ==
  IF IsMem(i.a) THEN emit_store(SC2R, i.a, Sf(i), i.prefix, FALSE, gp) ELSE <<>>

EncodeAddSub(i, gp) ==
  LET r0 == Left(i)
  IN FromMemory(i, gp)
     \o (IF RightIsRegister(i)
         THEN <<Sized(Sf(i), RRR(IF i.type = "ADD" THEN "ADDS" ELSE "SUBS", r0, r0, Right(i)))>>
         ELSE IF i.type = "ADD" THEN emit_add_signed(X(r0), X(r0), i.b.imm)
                                ELSE emit_sub_signed(X(r0), X(r0), i.b.imm))
     \o ToMemory(i, gp)

EncodeCmp(i, gp) ==
  FromMemory(i, gp)
  \o (IF RightIsRegister(i) THEN <<Sized(Sf(i), RRR("SUBS", XZR, Left(i), Right(i)))>>
      ELSE emit_imm(i.b.imm, SC1R) \o <<Sized(Sf(i), RRR("SUBS", XZR, Left(i), SC1))>>)

\* XOR, AND and OR: an immediate goes through SC2, memory is not handled, and
\* AND on the stack pointer goes through SC1; ORR_REG has SF in itself
Logical == [t \in {"XOR", "AND", "OR"} |->
              CASE t = "XOR" -> "EOR" [] t = "AND" -> "AND" [] t = "OR" -> "ORR"]
EncodeLogical(i) ==
  LET r0 == i.a.reg
      r1 == IF i.b.type = {"IMM"} THEN SC2 ELSE i.b.reg
  IN IF i.a.type # {"REG"} \/ i.b.type \notin {{"REG"}, {"IMM"}} THEN panic
     ELSE (IF i.b.type = {"IMM"} THEN emit_imm(i.b.imm, SC2R) ELSE <<>>)
          \o (IF i.type = "AND" /\ r0 = RSP
              THEN Copy(SC1R, 31) \o <<Sized(Sf(i), RRR("AND", SC1, SC1, r1))>> \o Copy(31, SC1R)
              ELSE <<Sized(IF i.type = "OR" THEN 64 ELSE Sf(i), RRR(Logical[i.type], r0, r0, r1))>>)

\* emit_lsr_imm's opcode has the bit set that stands for 32 in the shift
EncodeShift(i) ==
  LET r == X(i.a.reg)
      imm == i.b.imm % 64
      byReg == i.b.type = {"REG"}
  IN CASE i.a.type # {"REG"} \/ (byReg /\ i.type = "SHR") -> panic
       [] i.a.type = {"REG"} /\ ~byReg ->
            <<CASE i.type = "SHL" -> W("LSL_IMM", r, r, 0, imm)
                [] i.type = "SHR" -> W("LSR_IMM", r, r, 0, 32 + (imm % 32))
                [] i.type = "SAR" -> W("ASR_IMM", r, r, 0, imm)>>
       [] OTHER -> <<Sized(Sf(i), RRR(IF i.type = "SHL" THEN "LSL" ELSE "ASR",
                                      i.a.reg, i.a.reg, i.b.reg))>>

\* the word that loads what is widened, while a register is only copied
Widening == [t \in {"MOVZWL", "MOVSWL", "MOVZBL", "MOVSBL"} |->
               CASE t = "MOVZWL" -> "LDRH" [] t = "MOVSWL" -> "LDRSH"
                 [] t = "MOVZBL" -> "LDRB" [] t = "MOVSBL" -> "LDRSB"]
EncodeWiden(i, gp) ==
  CASE i.a.type = {"REG"} /\ i.b.type = {"REG"} -> Move(i)
    [] i.a.type = {"REG"} /\ i.b.type = {"IMM"} -> emit_imm(i.b.imm, X(i.a.reg))
    [] IsMem(i.b) -> Addr(i.b, i, gp) \o <<R2(Widening[i.type], X(i.a.reg), SC1R)>>
    [] OTHER -> panic

EncodeMov(i, gp) ==
  CASE i.a.type = {"REG"} /\ i.b.type = {"REG"} -> Move(i)
    [] i.a.type = {"REG"} /\ i.b.type = {"IMM"} -> emit_imm(i.b.imm, X(i.a.reg))
    [] IsMem(i.b) -> emit_load(X(i.a.reg), i.b, Sf(i), i.prefix, gp)
    [] IsMem(i.a) /\ ~IsMem(i.b) ->
         IF i.b.type # {"IMM"} THEN emit_store(X(i.b.reg), i.a, Sf(i), i.prefix, TRUE, gp)
         ELSE IF i.b.imm = 0 THEN emit_store(X(XZR), i.a, Sf(i), i.prefix, TRUE, gp)
         ELSE emit_imm(i.b.imm, SC2R) \o emit_store(SC2R, i.a, Sf(i), i.prefix, TRUE, gp)
    [] OTHER -> panic

\* emit_add_imm maps its registers itself: given host registers it maps twice
EncodeIdiv(i) ==
  IF i.a.type = {"REG"} /\ i.b.type = {"REG"}
  THEN LET nn == X(i.b.reg)
           r0 == X(i.a.reg)
       IN Copy(X(SC1R), X(r0)) \o <<W("SDIV", r0, SC1R, nn, 0), W("MSUB", 2, r0, nn, SC1R)>>
  ELSE panic

EncodeImul(i, gp) ==
  LET r0 == X(i.a.reg)
      r1 == X(i.b.reg)
  IN CASE i.a.type = {"REG"} /\ i.b.type = {"REG"} ->
            IF i.b.imm # 0 THEN emit_imm(i.b.imm, SC1R) \o <<W("SMULL", r0, r1, SC1R, 0)>>
            ELSE <<W("SMULL", r0, r0, r1, 0)>>
       [] "IMM" \in i.b.type /\ i.b.type # {"REG"} ->
            emit_load(SC2R, i.b, Sf(i), i.prefix, gp) \o <<W("SMULL", r0, r0, SC2R, 0)>>
       [] OTHER -> panic

EncodeMovs(i, gp) ==
  CASE IsMem(i.a) -> Addr(i.a, i, gp) \o <<Sized(Ft(i), R2("STR_V", i.b.reg, SC1R))>>
    [] ~IsMem(i.a) /\ IsMem(i.b) -> Addr(i.b, i, gp) \o <<Sized(Ft(i), R2("LDR_V", i.a.reg, SC1R))>>
    [] OTHER -> panic

Neon == [t \in {"MULS", "DIVS", "ADDS", "SUBS", "COMIS"} |->
           CASE t = "MULS" -> "FMUL" [] t = "DIVS" -> "FDIV" [] t = "ADDS" -> "FADD"
             [] t = "SUBS" -> "FSUB" [] t = "COMIS" -> "FCMP"]

\* conversions and moves between the two register files
Xmm(op) == op.type = {"REG", "XMM"}
EncodeConvert(i, gp) ==
  LET r0 == i.a.reg
      r1 == i.b.reg
  IN CASE i.type = "PXOR" -> IF Xmm(i.a) /\ Xmm(i.b) THEN <<W("EOR_V", r0, r0, r1, 0)>> ELSE panic
       [] i.type = "CVTSD2SI" ->
            IF i.a.type = {"REG"} /\ Xmm(i.b) THEN <<R2("FCVTZS", X(r0), r1)>> ELSE panic
       [] i.type = "CVTSI2S" ->
            IF IsMem(i.b) THEN emit_load(SC1R, i.b, 32, i.prefix, gp)
                               \o <<Sized(Ft(i), R2("SCVTF", r0, SC1R))>>
            ELSE IF i.b.type = {"REG"} THEN <<Sized(Ft(i), R2("SCVTF", r0, X(r1)))>> ELSE panic
       [] i.type = "CVTSD2SS" ->
            IF Xmm(i.a) /\ Xmm(i.b) THEN <<Sized(32, R2("FCVT", r0, r1))>> ELSE panic
       [] i.type = "CVTSS2SD" ->
            IF Xmm(i.a) /\ Xmm(i.b) THEN <<R2("FCVTU", r0, r1)>>
            ELSE Addr(i.b, i, gp) \o <<Sized(32, R2("LDR_V", V16, SC1R)), R2("FCVTU", r0, V16)>>
       [] i.type = "MOVQ" ->
            IF "XMM" \in i.b.type THEN <<R2("FMOV", X(r0), r1)>> ELSE <<R2("FMOVR", r0, X(r1))>>
       [] i.type = "MOVAPD" ->
            <<R2(IF i.size = 64 THEN "garbled" ELSE "MOV_V", r0, r1)>>

EncodeWide(i, gp) ==
  CASE i.type \in {"ADD", "SUB"} -> EncodeAddSub(i, gp)
    [] i.type = "CMP" -> EncodeCmp(i, gp)
    [] i.type \in DOMAIN Logical -> EncodeLogical(i)
    [] i.type \in {"SHL", "SHR", "SAR"} -> EncodeShift(i)
    [] i.type = "MOVSX" ->
         IF i.a.type = {"REG"} /\ i.b.type = {"REG"} THEN <<RRR("SXTW", i.a.reg, i.b.reg, 0)>>
         ELSE panic
    [] i.type \in DOMAIN Widening -> EncodeWiden(i, gp)
    [] i.type = "MOV" -> EncodeMov(i, gp)
    [] i.type = "LEA" ->
         IF IsMem(i.b) THEN emit_address_decode(i.b, X(i.a.reg), i.prefix, gp) ELSE panic
    [] i.type = "TEST" ->
         IF i.a.type = {"REG"} /\ i.b.type = {"REG"}
         THEN <<Sized(Sf(i), RRR("ANDS", XZR, i.a.reg, i.b.reg))>> ELSE panic
    [] i.type = "CLTQ" -> <<RRR("SXTW", RAX, RAX, 0)>>
    [] i.type = "CLTD" ->
         <<RRR("SXTW", RAX, RAX, 0), W("ASR_IMM", X(RDX), X(RAX), 0, 63)>>
    [] i.type = "IDIV" -> EncodeIdiv(i)
    [] i.type = "IMUL" -> EncodeImul(i, gp)
    [] i.type \in {"JG", "JGE", "JL", "JLE", "JNE", "JBE", "JAE", "JE"} ->
         <<W("BRK", 0, 0, 0, gp + i.a.imm)>>
    [] i.type = "JMP" -> emit_branch(i, "BR", gp)
    [] i.type = "CALL" -> emit_branch(i, "BLR", gp)
    [] i.type = "RET" -> <<R2("RET", 0, 30)>>
    [] i.type \in {"EBR", "NOP"} -> <<>>
    [] i.type = "MOVS" -> EncodeMovs(i, gp)
    [] i.type \in {"CMOVA", "CMOVS"} ->
         IF i.a.type = {"REG"} /\ i.b.type = {"REG"}
         THEN <<Sized(Sf(i), RRR(IF i.type = "CMOVA" THEN "CSEL_HI" ELSE "CSEL_MI",
                                 i.a.reg, i.b.reg, i.a.reg))>>
         ELSE panic
    [] i.type \in DOMAIN Neon -> emit_neon(i, Neon[i.type], gp)
    [] i.type \in {"PXOR", "CVTSD2SI", "CVTSI2S", "CVTSD2SS", "CVTSS2SD",
                                 "MOVQ", "MOVAPD"} -> EncodeConvert(i, gp)
    [] i.type \in {"PUSH", "POP", "LEAVE"} -> <<R2("stack", 0, 0)>>
    [] i.type = "SYSCALL" -> <<R2("SVC", 0, 0)>>
    [] OTHER -> panic

encode(i, gp) == IF i.size = 8 THEN encode8bit(i, gp) ELSE EncodeWide(i, gp)
=============================================================================
