--------------------------------- MODULE X86 ---------------------------------
(***************************************************************************)
(* What the processor manual says of the instructions the decoder knows:    *)
(* their length and their effect.  The reference the translation is held    *)
(* against.  Left out: whether a conditional jump jumps, the return address *)
(* of a call, the stack (module StackFusion), the flags of what is no       *)
(* comparison, and what a vector register holds above its low 64 bits, or   *)
(* above its low 32 behind a single-precision result.                       *)
(***************************************************************************)
EXTENDS Values, Sequences

Ext(c, b) == IF b \in c.rex THEN 8 ELSE 0

(* lengths *)
HasModRM(c) ==
  IF c.two THEN c.op \notin {5} \cup (128..143)
  ELSE (c.op < 64 /\ c.op % 8 < 4)
       \/ c.op \in {99, 105, 192, 193, 198, 199, 246, 247, 254, 255} \cup (128..143) \cup (208..211)
FullSize(c) == IF c.prefix = "OS" /\ "W" \notin c.rex THEN 2 ELSE 4
ImmSize(c) ==
  IF c.two THEN IF c.op \in 128..143 THEN 4 ELSE 0
  ELSE CASE c.op < 64 /\ c.op % 8 = 4 -> 1
         [] c.op \in {106, 128, 131, 192, 193, 198, 235} \cup (112..127) \cup (176..183) -> 1
         [] c.op \in 184..191 -> IF "W" \in c.rex THEN 8 ELSE FullSize(c)
         [] (c.op < 64 /\ c.op % 8 = 5) \/ c.op \in {104, 105, 129, 199} -> FullSize(c)
         [] c.op \in {232, 233} -> 4
         [] OTHER -> 0
NoBase(c) == c.mod = 0 /\ 5 = IF c.rm = 4 THEN c.base ELSE c.rm
DispSize(c) == CASE c.mod = 1 -> 1 [] c.mod = 2 \/ NoBase(c) -> 4 [] OTHER -> 0
Length(c) ==
  (IF c.prefix = "none" THEN 0 ELSE 1) + (IF c.rex = {} THEN 0 ELSE 1) + (IF c.two THEN 2 ELSE 1)
  + (IF HasModRM(c) THEN 1 + (IF c.mod # 3 /\ c.rm = 4 THEN 1 ELSE 0) + DispSize(c) ELSE 0)
  + ImmSize(c)

(* operands: a guest state g has general registers r and vector registers v *)
Reg(c) == c.reg + Ext(c, "R")
Rm(c) == c.rm + Ext(c, "B")
OpReg(c) == (c.op % 8) + Ext(c, "B")
Offset(c, g) ==
  IF c.rm # 4
  THEN IF NoBase(c) THEN NextIp + c.disp
       ELSE g.r[Rm(c)] + (IF c.mod = 0 THEN 0 ELSE c.disp)
  ELSE LET index == c.index + Ext(c, "X")
       IN (IF NoBase(c) THEN c.disp
           ELSE g.r[c.base + Ext(c, "B")] + (IF c.mod = 0 THEN 0 ELSE c.disp))
          + (IF index = 4 THEN 0 ELSE g.r[index] * 2^c.scale)
Address(c, g) == (Offset(c, g) + (IF c.prefix = "FS" THEN FsBase ELSE 0)) % P

\* operand widths; a jump through an operand takes all of it
Bytewise(c) ==
  IF c.two THEN c.op \in 144..159
  ELSE (c.op < 64 /\ c.op % 2 = 0)
       \/ c.op \in {128, 132, 136, 138, 192, 198, 208, 210, 254} \cup (176..183)
Width(c) ==
  CASE Bytewise(c) -> 8
    [] ~Bytewise(c) /\ ("W" \in c.rex \/ (~c.two /\ c.op = 255 /\ c.reg \in 2..6)) -> 64
    [] OTHER -> IF c.prefix = "OS" /\ (c.two => c.op \in {71, 72, 175} \cup (182..191)) THEN 16 ELSE 32
\* vector registers: scalars are double or single precision, moves take all
Scalar(c) ==
  CASE c.op \in {16, 17, 44, 88, 89, 92, 94} -> IF c.prefix = "REPE" THEN 32 ELSE 64
    [] c.op = 47 -> IF c.prefix = "OS" THEN 64 ELSE 32
    [] c.op = 90 -> IF c.prefix = "REPE" THEN 32 ELSE 64
    [] OTHER -> 64
ScalarResult(c) ==
  CASE c.op = 42 -> IF c.prefix = "REPN" THEN 64 ELSE 32
    [] c.op = 90 -> IF c.prefix = "REPE" THEN 64 ELSE 32
    [] OTHER -> Scalar(c)

\* without REX the byte registers 4 to 7 are bits 8 to 15 of the first four
High(c, n) == c.rex = {} /\ n \in 4..7
ByteOf(c, g, n) == IF High(c, n) THEN g.r[n - 4] \div 256 ELSE g.r[n]
Value(c, g, n) == IF Width(c) = 8 THEN ByteOf(c, g, n) ELSE g.r[n]
SetRegister(c, g, n, val) ==
  CASE Width(c) = 8 /\ High(c, n) ->
         [g EXCEPT !.r[n - 4] = Merge(@, 16, At(8, val) * 256 + At(8, @))]
    [] Width(c) = 16 \/ (Width(c) = 8 /\ ~High(c, n)) ->
         [g EXCEPT !.r[n] = Merge(@, Width(c), val)]
    [] OTHER -> [g EXCEPT !.r[n] = At(Width(c), val)]

Get(kind, c, g) ==
  CASE kind = "reg" -> Value(c, g, Reg(c))
    [] kind = "rm" -> IF c.mod = 3 THEN Value(c, g, Rm(c)) ELSE At(Width(c), Load(Address(c, g)))
    [] kind = "rm8" -> IF c.mod = 3 THEN ByteOf(c, g, Rm(c)) ELSE Load(Address(c, g))
    [] kind = "whole" -> IF c.mod = 3 THEN g.r[Rm(c)] ELSE Load(Address(c, g))
    [] kind = "xreg" -> g.v[Reg(c)]
    [] kind = "xrm" -> IF c.mod = 3 THEN g.v[Rm(c)] ELSE At(Scalar(c), Load(Address(c, g)))
    [] kind = "imm" -> c.imm % P
    [] kind = "count" -> c.imm % (IF Width(c) = 64 THEN 64 ELSE 32)
    [] kind = "one" -> 1
    [] kind = "cl" -> g.r[1]
    [] kind = "rax" -> g.r[0]
    [] kind = "opreg" -> Value(c, g, OpReg(c))
    [] kind = "address" -> Offset(c, g) % P
    [] kind = "next" -> NextIp + c.imm
    [] kind = "none" -> 0
Put(kind, c, g, val) ==
  CASE kind = "reg" -> SetRegister(c, g, Reg(c), val)
    [] kind = "xreg" -> [g EXCEPT !.v[Reg(c)] = At(ScalarResult(c), val)]
    [] kind = "rm" /\ c.mod = 3 -> SetRegister(c, g, Rm(c), val)
    [] kind = "xrm" /\ c.mod = 3 -> [g EXCEPT !.v[Rm(c)] = At(ScalarResult(c), val)]
    [] kind = "rm" /\ c.mod # 3 ->
         [g EXCEPT !.store = <<Address(c, g), Width(c), At(Width(c), val)>>]
    [] kind = "xrm" /\ c.mod # 3 ->
         [g EXCEPT !.store = <<Address(c, g), ScalarResult(c), At(ScalarResult(c), val)>>]
    [] kind = "rax" -> SetRegister(c, g, 0, val)
    [] kind = "opreg" -> SetRegister(c, g, OpReg(c), val)

(* the table: what is done, to which operand, with which *)
Arith == <<"ADD", "ORR", "ADC", "SBB", "AND", "SUB", "EOR", "CMP">>
Shift == <<"ROL", "ROR", "RCL", "RCR", "LSL", "LSR", "LSL", "ASR">>
F(does, dst, src) == [does |-> does, dst |-> dst, src |-> src]
OneByte(c) ==
  CASE c.op < 64 -> (CASE c.op % 8 < 2 -> F(Arith[c.op \div 8 + 1], "rm", "reg")
                       [] c.op % 8 \in {2, 3} -> F(Arith[c.op \div 8 + 1], "reg", "rm")
                       [] OTHER -> F(Arith[c.op \div 8 + 1], "rax", "imm"))
    [] c.op \in {128, 129, 131} -> F(Arith[c.reg + 1], "rm", "imm")
    [] c.op = 99 -> F("SIGN32", "reg", "whole")
    [] c.op \in {138, 139} -> F("MOV", "reg", "rm")
    [] c.op = 105 -> F("IMUL3", "reg", "rm")
    [] c.op \in 112..127 -> F("JUMP", "none", "next")
    [] c.op \in {132, 133} -> F("TEST", "rm", "reg")
    [] c.op \in {136, 137} -> F("MOV", "rm", "reg")
    [] c.op = 141 -> F("MOV", "reg", "address")
    [] c.op = 152 -> F("WIDEN", "rax", "rax")
    [] c.op = 153 -> F("SIGN", "none", "rax")
    [] c.op \in 176..191 -> F("MOV", "opreg", "imm")
    [] c.op \in {192, 193} -> F(Shift[c.reg + 1], "rm", "count")
    [] c.op \in {208, 209} -> F(Shift[c.reg + 1], "rm", "one")
    [] c.op \in {210, 211} -> F(Shift[c.reg + 1], "rm", "cl")
    [] c.op \in {198, 199} -> F("MOV", "rm", "imm")
    [] c.op \in {232, 233, 235} -> F("JUMP", "none", "next")
    [] c.op = 247 /\ c.reg = 5 -> F("IMUL1", "rax", "rm")
    [] c.op = 247 /\ c.reg = 7 -> F("IDIV", "rax", "rm")
    [] c.op \in {254, 255} /\ c.reg \in {0, 1} -> F(IF c.reg = 0 THEN "ADD" ELSE "SUB", "rm", "one")
    [] c.op = 255 /\ c.reg \in {2, 4} -> F("JUMP", "none", "rm")
    [] OTHER -> F("NOP", "none", "none")
TwoByte(c) ==
  CASE c.op \in {16, 40} -> F("MOV", "xreg", "xrm")
    [] c.op = 17 -> F("MOV", "xrm", "xreg")
    [] c.op = 42 -> F("SCVTF", "xreg", "rm")
    [] c.op = 44 -> F("FCVTZS", "reg", "xrm")
    [] c.op = 47 -> F("COMIS", "xreg", "xrm")
    [] c.op = 71 -> F("CSEL_HI", "reg", "rm")
    [] c.op = 72 -> F("CSEL_MI", "reg", "rm")
    [] c.op \in {87, 239} -> F("EOR", "xreg", "xrm")
    [] c.op = 88 -> F("FADD", "xreg", "xrm")
    [] c.op = 89 -> F("FMUL", "xreg", "xrm")
    [] c.op = 90 -> F(IF c.prefix = "REPE" THEN "FCVTU" ELSE "FCVT", "xreg", "xrm")
    [] c.op = 92 -> F("FSUB", "xreg", "xrm")
    [] c.op = 94 -> F("FDIV", "xreg", "xrm")
    [] c.op = 110 -> F(IF "W" \in c.rex THEN "MOV" ELSE "ZERO32", "xreg", "whole")
    [] c.op = 126 -> IF c.prefix = "REPE" THEN F("MOV", "xreg", "xrm") ELSE F("MOV", "rm", "xreg")
    [] c.op \in 128..143 -> F("JUMP", "none", "next")
    [] c.op = 146 -> F("CSET_LO", "rm", "none")
    [] c.op = 147 -> F("CSET_HS", "rm", "none")
    [] c.op = 148 -> F("CSET_EQ", "rm", "none")
    [] c.op = 149 -> F("CSET_NE", "rm", "none")
    [] c.op = 175 -> F("MUL", "reg", "rm")
    [] c.op = 182 -> F("ZERO8", "reg", "rm8")
    [] c.op = 183 -> F("ZERO16", "reg", "whole")
    [] c.op = 190 -> F("SIGN8", "reg", "rm8")
    [] c.op = 191 -> F("SIGN16", "reg", "whole")
    [] OTHER -> F("NOP", "none", "none")
Form(c) == IF c.two THEN TwoByte(c) ELSE OneByte(c)

Converts == {"FCVTZS", "FCVT", "FCVTU", "CSET_LO", "CSET_HS", "CSET_EQ", "CSET_NE"}
Selects == {"CSEL_HI", "CSEL_MI"}
Compares == [does \in {"CMP", "TEST", "COMIS"} |->
               CASE does = "CMP" -> "SUB" [] does = "TEST" -> "AND" [] does = "COMIS" -> "FCMP"]
Zeros == [does \in {"ZERO8", "ZERO16", "ZERO32"} |->
            CASE does = "ZERO8" -> 8 [] does = "ZERO16" -> 16 [] does = "ZERO32" -> 32]
Signs == [does \in {"SIGN8", "SIGN16", "SIGN32"} |->
            CASE does = "SIGN8" -> 8 [] does = "SIGN16" -> 16 [] does = "SIGN32" -> 32]
Effect(c, g) ==
  LET f == Form(c)
      w == IF f.dst \in {"xreg", "xrm"} THEN Scalar(c) ELSE Width(c)
      d == Get(f.dst, c, g)
      s == Get(f.src, c, g)
  IN CASE f.does = "NOP" -> g
       [] f.does = "MOV" -> Put(f.dst, c, g, s)
       [] f.does \in DOMAIN Zeros -> Put(f.dst, c, g, At(Zeros[f.does], s))
       [] f.does \in DOMAIN Signs -> Put(f.dst, c, g, Signed(Signs[f.does], s))
       [] f.does = "WIDEN" -> Put("rax", c, g, Signed(w \div 2, s))
       [] f.does = "SIGN" -> SetRegister(c, g, 2, OpAt(w, "ASR", s, w - 1))
       [] f.does = "SCVTF" -> Put(f.dst, c, g, Op("SCVTF", Signed(Width(c), s), 0))
       [] f.does \in Converts -> Put(f.dst, c, g, Op(f.does, At(Scalar(c), s), 0))
       [] f.does \in Selects -> Put(f.dst, c, g, OpAt(w, f.does, s, d))
       [] f.does \in DOMAIN Compares ->
            [g EXCEPT !.flags = <<Compares[f.does], At(w, d), At(w, s), w>>]
       [] f.does = "JUMP" -> [g EXCEPT !.target = s % P]
       [] f.does = "IMUL3" -> Put("reg", c, g, OpAt(w, "MUL", s, c.imm % P))
       [] f.does = "IMUL1" -> SetRegister(c, Put("rax", c, g, OpAt(w, "MUL", d, s)),
                                          2, OpAt(w, "HIGH", d, s))
       [] f.does = "IDIV" ->
            LET q == OpAt(w, "SDIV", d, s)
            IN SetRegister(c, Put("rax", c, g, q), 2, OpAt(w, "SUB", d, OpAt(w, "MUL", q, s)))
       [] OTHER -> Put(f.dst, c, g, OpAt(w, f.does, d, s))
===============================================================================
