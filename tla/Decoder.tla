------------------------------- MODULE Decoder -------------------------------
(***************************************************************************)
(* decode_instr(): the bytes of one guest instruction into an Instruction.  *)
(*                                                                         *)
(* The bytes are a record c: the prefix, the bits of REX, whether an 0F     *)
(* byte comes first, the opcode, the fields of ModRM and SIB, and the       *)
(* values of the displacement and of the immediate, already sign-extended.  *)
(* Fetching n bytes adds n to len, the distance context->gp has moved.      *)
(*                                                                         *)
(* decode() declares the Instruction inside its loop without a value, so    *)
(* every operator here takes the old one, g, and leaves what the code does  *)
(* not assign as it was.                                                   *)
(***************************************************************************)
EXTENDS Integers, Sequences

RAX == 0
RCX == 1
RDX == 2
RSP == 4
RBP == 5

Grp0 == <<"ADD", "OR", "ADC", "SBB", "AND", "SUB", "XOR", "CMP">>
Shifts == <<"ROL", "ROR", "RCL", "RCR", "SHL", "SHR", "SAL", "SAR">>
Jcc == <<"JO", "JNO", "JB", "JAE", "JE", "JNE", "JBE", "JA",
         "JS", "JNS", "JP", "JPO", "JL", "JGE", "JLE", "JG">>
CMOVcc == <<"CMOVO", "CMOVNO", "CMOVB", "CMOVAE", "CMOVE", "CMOVNE", "CMOVBE", "CMOVA",
            "CMOVS", "CMOVNS", "CMOVP", "CMOVPO", "CMOVL", "CMOVGE", "CMOVLE", "CMOVG">>
SETcc == <<"SETO", "SETNO", "SETB", "SETAE", "SETE", "SETNE", "SETBE", "SETA",
           "SETS", "SETNS", "SETP", "SETPO", "SETL", "SETGE", "SETLE", "SETG">>
InstrTypes == {Grp0[k] : k \in 1..8} \cup {Shifts[k] : k \in 1..8}
  \cup {Jcc[k] : k \in 1..16} \cup {CMOVcc[k] : k \in 1..16} \cup {SETcc[k] : k \in 1..16}
  \cup {"PUSH", "POP", "MOVSX", "MOV", "TEST", "LEA", "NOP", "EBR", "RET", "LEAVE",
        "CALL", "JMP", "PXOR", "ADDS", "MULS", "CVTSS2SD", "CVTSD2SS", "SUBS", "DIVS",
        "COMIS", "MOVS", "MOVQ", "MOVAPD", "CVTSD2SI", "CVTSI2S", "IDIV", "IMUL",
        "CLTQ", "CLTD", "SYSCALL", "MOVSBL", "MOVZBL", "MOVSWL", "MOVZWL"}

Bit(b) == IF b THEN 1 ELSE 0
Fetch(i, n) == [i EXCEPT !.len = @ + n]
Unknown(i) == [i EXCEPT !.type = "panic"]

\* mod 0 and register 5: no base register but a 32-bit displacement
Bare(c) == c.mod = 0 /\ 5 = IF c.rm = 4 THEN c.base ELSE c.rm

\* a bug: the SIB byte is read and not counted
RmBytes_no_sib(c) == IF c.mod = 3 THEN 0
                     ELSE CASE c.mod = 1 -> 1
                            [] c.mod = 2 \/ Bare(c) -> 4
                            [] OTHER -> 0

RmBytes(c) == IF c.mod = 3 THEN 0
              ELSE Bit(c.rm = 4) + CASE c.mod = 1 -> 1
                                     [] c.mod = 2 \/ Bare(c) -> 4
                                     [] OTHER -> 0

decode_rm(c, op) ==
  IF c.mod = 3 THEN [op EXCEPT !.type = {"REG"}, !.reg = c.rm]
  ELSE LET sib == c.rm = 4
           disp == Bare(c) \/ c.mod # 0
       IN [type |-> {"MEM"} \cup {t \in {"IDX"} : sib /\ c.index # 4}
                    \cup {t \in {"REG"} : ~Bare(c)} \cup {t \in {"IMM"} : disp},
           reg |-> IF sib THEN c.base ELSE IF Bare(c) THEN op.reg ELSE c.rm,
           idx |-> IF sib THEN c.index ELSE op.idx,
           scale |-> IF sib THEN c.scale ELSE op.scale,
           imm |-> IF disp THEN c.disp ELSE op.imm]

RmA(c, i) == Fetch([i EXCEPT !.a = decode_rm(c, @)], 1 + RmBytes(c))
RmB(c, i) == Fetch([i EXCEPT !.b = decode_rm(c, @)], 1 + RmBytes(c))
\* a bug: the direction of the instruction before is kept
decode_r_rm_keep(c, i) == RmB(c, [i EXCEPT !.a.type = {"REG"}, !.a.reg = c.reg])

decode_r_rm(c, i) ==
  RmB(c, [i EXCEPT !.reverse = 0, !.a.type = {"REG"}, !.a.reg = c.reg])

decode_rm_r(c, i) ==
  RmA(c, [i EXCEPT !.reverse = 1, !.b.type = {"REG"}, !.b.reg = c.reg])

Register(i, n) == [i EXCEPT !.a.type = {"REG"}, !.a.reg = n]
ImmA(c, i, n) == Fetch([i EXCEPT !.a.type = {"IMM"}, !.a.imm = c.imm, !.b.type = {}], n)
ImmB(c, i, n) == Fetch([i EXCEPT !.b.type = {"IMM"}, !.b.imm = c.imm], n)
OneB(i) == [i EXCEPT !.b.type = {"IMM"}, !.b.imm = 1]
ByteSize(c, i) == IF c.op % 2 = 0 THEN [i EXCEPT !.size = 8] ELSE i

decode_rex(i, rex) ==
  LET reg == 8 * Bit("R" \in rex)
      idx == 8 * Bit("X" \in rex)
      rm == 8 * Bit("B" \in rex)
      j == IF "W" \in rex THEN [i EXCEPT !.size = 64] ELSE i
  IN IF j.reverse = 1 THEN [j EXCEPT !.b.reg = @ + reg, !.a.idx = @ + idx, !.a.reg = @ + rm]
                      ELSE [j EXCEPT !.a.reg = @ + reg, !.b.idx = @ + idx, !.b.reg = @ + rm]

decode_GRP0(c, i) ==
  LET j == ByteSize(c, i)
  IN CASE c.op % 8 < 2 -> decode_rm_r(c, j)
       [] c.op % 8 \in {2, 3} -> decode_r_rm(c, j)
       [] OTHER -> ImmB(c, Register([j EXCEPT !.reverse = 0], RAX), IF j.size = 8 THEN 1 ELSE 4)

decode_GRP3(i, code) ==
  LET far == [i EXCEPT !.size = 64, !.b.type = {}]
  IN CASE code = 0 -> OneB([i EXCEPT !.type = "ADD"])
       [] code = 1 -> OneB([i EXCEPT !.type = "SUB"])
       [] code = 2 -> [far EXCEPT !.type = "CALL"]
       [] code = 4 -> [far EXCEPT !.type = "JMP", !.ret = TRUE]
       [] code = 6 -> [far EXCEPT !.type = "PUSH"]
       [] OTHER -> Unknown(i)

\* the groups of opcodes of decode_instr's switch
DecodeStack(c, i) ==
  LET j == [i EXCEPT !.size = 64, !.reverse = 1, !.b.type = {}]
  IN CASE c.op \in 80..87 -> [Register(j, c.op % 8) EXCEPT !.type = "PUSH"]
       [] c.op \in 88..95 -> [Register(j, c.op % 8) EXCEPT !.type = "POP"]
       [] c.op = 104 -> ImmA(c, [i EXCEPT !.type = "PUSH"], 4)
       [] c.op = 106 -> ImmA(c, [i EXCEPT !.type = "PUSH"], 1)
       [] c.op = 143 -> RmA(c, [j EXCEPT !.type = "POP"])

DecodeImmediate(c, i) ==
  LET j == RmA(c, [i EXCEPT !.reverse = 1, !.type = Grp0[c.reg + 1],
                            !.size = IF c.op = 128 THEN 8 ELSE @])
  IN ImmB(c, j, IF c.op = 129 THEN 4 ELSE 1)

DecodeMove(c, i) ==
  LET j == [i EXCEPT !.type = "MOV"]
      rev == [j EXCEPT !.reverse = 1]
  IN CASE c.op \in 136..139 -> decode_GRP0(c, j)
       [] c.op \in 176..183 -> ImmB(c, Register([rev EXCEPT !.size = 8], c.op % 8), 1)
       [] c.op \in 184..191 -> ImmB(c, Register(rev, c.op % 8), IF "W" \in c.rex THEN 8 ELSE 4)
       [] c.op = 198 -> ImmB(c, RmA(c, [rev EXCEPT !.size = 8]), 1)
       [] c.op = 199 -> IF i.prefix = "OS" THEN ImmB(c, RmA(c, [rev EXCEPT !.size = 16]), 2)
                        ELSE ImmB(c, RmA(c, rev), 4)

DecodeShift(c, i) ==
  LET j == RmA(c, ByteSize(c, [i EXCEPT !.reverse = 1, !.type = Shifts[c.reg + 1]]))
  IN CASE c.op \in {192, 193} -> ImmB(c, j, 1)
       [] c.op \in {208, 209} -> OneB(j)
       [] c.op \in {210, 211} -> [j EXCEPT !.b.type = {"REG"}, !.b.reg = RCX]

DecodeMultiply(c, i) ==
  IF c.op = 105
  THEN Fetch([decode_r_rm(c, [i EXCEPT !.type = "IMUL"]) EXCEPT !.b.imm = c.imm], 4)
  ELSE CASE c.reg = 7 -> RmB(c, Register([i EXCEPT !.type = "IDIV"], RAX))
         [] c.reg = 5 -> RmB(c, Register([i EXCEPT !.type = "IMUL"], RAX))
         [] OTHER -> Unknown(i)

DecodeJump(c, i) ==
  CASE c.op \in 112..127 -> ImmA(c, [i EXCEPT !.type = Jcc[c.op - 111]], 1)
    [] c.op = 232 -> ImmA(c, [i EXCEPT !.type = "CALL"], 4)
    [] c.op = 233 -> ImmA(c, [i EXCEPT !.type = "JMP", !.ret = TRUE], 4)
    [] c.op = 235 -> ImmA(c, [i EXCEPT !.type = "JMP", !.ret = TRUE], 1)
    [] c.op \in {195, 244} -> [i EXCEPT !.type = "RET", !.a.type = {}, !.ret = TRUE]

DecodeOneByte(c, i) ==
  LET Bare0(t) == [i EXCEPT !.type = t, !.a.type = {}]
  IN CASE c.op < 64 -> decode_GRP0(c, [i EXCEPT !.type = Grp0[c.op \div 8 + 1]])
       [] c.op \in (80..95) \cup {104, 106, 143} -> DecodeStack(c, i)
       [] c.op = 99 -> decode_r_rm(c, [i EXCEPT !.type = "MOVSX"])
       [] c.op \in {105, 247} -> DecodeMultiply(c, i)
       [] c.op \in (112..127) \cup {195, 232, 233, 235, 244} -> DecodeJump(c, i)
       [] c.op \in {128, 129, 131} -> DecodeImmediate(c, i)
       [] c.op \in {132, 133} -> decode_rm_r(c, ByteSize(c, [i EXCEPT !.type = "TEST"]))
       [] c.op \in (136..139) \cup (176..191) \cup {198, 199} -> DecodeMove(c, i)
       [] c.op = 141 -> decode_r_rm(c, [i EXCEPT !.type = "LEA"])
       [] c.op = 144 -> Bare0("NOP")
       [] c.op = 152 -> Bare0("CLTQ")
       [] c.op = 153 -> Bare0("CLTD")
       [] c.op = 201 -> Bare0("LEAVE")
       [] c.op \in {192, 193} \cup (208..211) -> DecodeShift(c, i)
       [] c.op \in {254, 255} ->
            decode_GRP3(RmA(c, ByteSize(c, [i EXCEPT !.reverse = 1])), c.reg)
       [] OTHER -> Unknown(i)

\* the opcodes behind 0F: a memory operand is never marked XMM by those that
\* end at the label "set"
WithXmm(op) == [op EXCEPT !.type = @ \cup {"XMM"}]
SetXmm(c, i) == LET j == decode_r_rm(c, i)
                IN [j EXCEPT !.a = WithXmm(@),
                             !.b = IF @.type = {"REG"} THEN WithXmm(@) ELSE @]
SetTypes(c, i) ==
  CASE c.op = 16 -> "MOVS" [] c.op = 40 -> "MOVAPD" [] c.op = 47 -> "COMIS"
    [] c.op \in {87, 239} -> "PXOR" [] c.op = 88 -> "ADDS" [] c.op = 89 -> "MULS"
    [] c.op = 90 -> (IF i.prefix = "REPE" THEN "CVTSS2SD" ELSE "CVTSD2SS")
    [] c.op = 92 -> "SUBS" [] c.op = 94 -> "DIVS"
Extend == [op \in {182, 183, 190, 191} |->
             CASE op = 182 -> "MOVZBL" [] op = 183 -> "MOVZWL"
               [] op = 190 -> "MOVSBL" [] op = 191 -> "MOVSWL"]

decode_0F(c, i) ==
  LET Typed(t) == [i EXCEPT !.type = t]
      Plain0(t) == [i EXCEPT !.prefix = "none", !.type = t, !.a.type = {}]
  IN CASE c.op = 5 -> Plain0("SYSCALL")
       [] c.op = 30 -> Fetch(Plain0("EBR"), 1)
       [] c.op = 31 -> Fetch(Plain0("NOP"), 1)
       [] c.op = 17 -> LET j == decode_rm_r(c, Typed("MOVS"))
                       IN [j EXCEPT !.a = IF @.type = {"REG"} THEN WithXmm(@) ELSE @,
                                    !.b = WithXmm(@)]
       [] c.op = 42 -> [decode_r_rm(c, Typed("CVTSI2S")) EXCEPT !.a = WithXmm(@)]
       [] c.op = 44 -> [decode_rm_r(c, Typed("CVTSD2SI")) EXCEPT !.b = WithXmm(@)]
       [] c.op = 126 -> [decode_rm_r(c, Typed("MOVQ")) EXCEPT !.b = WithXmm(@)]
       [] c.op = 110 -> [decode_r_rm(c, Typed("MOVQ")) EXCEPT !.a = WithXmm(@)]
       [] c.op = 47 -> SetXmm(c, [Typed("COMIS") EXCEPT
                                    !.prefix = IF @ = "OS" THEN "REPN" ELSE "REPE"])
       [] c.op \in {16, 40, 87, 88, 89, 90, 92, 94, 239} -> SetXmm(c, Typed(SetTypes(c, i)))
       [] c.op \in 64..79 -> decode_r_rm(c, Typed(CMOVcc[c.op - 63]))
       [] c.op \in 128..143 -> ImmA(c, Typed(Jcc[c.op - 127]), 4)
       [] c.op \in 144..159 ->
            RmA(c, [Typed(SETcc[c.op - 143]) EXCEPT !.size = 8, !.b.type = {}])
       [] c.op = 175 -> LET j == decode_r_rm(c, Typed("IMUL"))
                        IN [j EXCEPT !.b.imm = IF "IMM" \in j.b.type THEN @ ELSE 0]
       [] c.op \in DOMAIN Extend -> decode_r_rm(c, Typed(Extend[c.op]))
       [] OTHER -> Unknown(i)

\* the prefixes and the opcode
\* a bug: the length goes on from the instruction before
Start_carry(c, g) ==
  [g EXCEPT !.prefix = c.prefix, !.size = 32, !.ret = FALSE,
            !.len = @ + 1 + Bit(c.prefix # "none") + Bit(c.rex # {}) + Bit(c.two)]

Start(c, g) ==
  [g EXCEPT !.prefix = c.prefix, !.size = 32, !.ret = FALSE,
            !.len = 1 + Bit(c.prefix # "none") + Bit(c.rex # {}) + Bit(c.two)]

decode_instr(c, g) ==
  LET i == Start(c, g)
      d == IF c.two THEN decode_0F(c, i) ELSE DecodeOneByte(c, i)
  IN IF c.rex = {} THEN d ELSE decode_rex(d, c.rex)
=============================================================================
