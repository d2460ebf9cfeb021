----------------------------- MODULE CodecProofs -----------------------------
(***************************************************************************)
(* Theorems about the codec: for every sequence of bytes that is an        *)
(* instruction, every leftover of decode()'s static Instruction and every  *)
(* guest state.  In the first part: how many bytes are fetched, the types, *)
(* and what the words leave alone.  In the second: running lists of words, *)
(* what the encoder's helpers leave in the host, and the instructions that *)
(* move and compare; ComputesProofs has the other instructions.            *)
(***************************************************************************)
EXTENDS Codec, SequenceTheorems, TLAPS

Codes == [prefix: Prefixes, rex: SUBSET {"W", "R", "X", "B"},
          two: BOOLEAN, op: 0..255, reg: 0..7, imm: Int,
          mod: 0..3, rm: 0..7, base: 0..7, index: 0..7, scale: 0..3, disp: Int]
RealCodes == {c \in Codes : ~c.two => /\ c.op < 64 => c.op % 8 < 6
                                      /\ c.op = 254 => c.reg \in {0, 1}}

LEMMA InitCode == Init => code \in RealCodes
<1> SUFFICES ASSUME Init PROVE code \in RealCodes
  OBVIOUS
<1>1. PICK h \in Heads, o \in Opcodes :
       \E reg \in o.regs, imm \in o.imms,
          m \in IF HasModRM(o) THEN ModRMs ELSE {CHOOSE m \in ModRMs : m.mod = 3} :
         code = Bytes(h, o, reg, imm, m)
  BY DEF Init
<1>2. PICK reg \in o.regs, imm \in o.imms,
          m \in IF HasModRM(o) THEN ModRMs ELSE {CHOOSE m \in ModRMs : m.mod = 3} :
         code = Bytes(h, o, reg, imm, m)
  BY <1>1
<1>3. m \in [mod: 0..3, rm: 0..7, base: 0..7, index: 0..7, scale: 0..3, disp: Int]
  BY CodecAssumption
<1>4. /\ h \in [prefix: Prefixes, rex: SUBSET {"W", "R", "X", "B"}]
      /\ o.two \in BOOLEAN /\ o.op \in 0..255 /\ reg \in 0..7 /\ imm \in Int
      /\ ~o.two /\ o.op < 64 => o.op % 8 < 6
      /\ ~o.two /\ o.op = 254 => reg \in {0, 1}
  BY CodecAssumption
<1>5. Bytes(h, o, reg, imm, m) \in Codes
  BY <1>3, <1>4 DEF Bytes, Codes
<1> QED BY <1>2, <1>4, <1>5 DEF RealCodes, Bytes

-----------------------------------------------------------------------------
(***************************************************************************)
(* What the helpers of decode_instr() do to the fields of an Instruction.   *)
(***************************************************************************)
AsReg(op, n) == [op EXCEPT !.type = {"REG"}, !.reg = n]
AsImm(op, v) == [op EXCEPT !.type = {"IMM"}, !.imm = v]
AsNone(op) == [op EXCEPT !.type = {}]
PutA(i, op) == [i EXCEPT !.a = op]
PutB(i, op) == [i EXCEPT !.b = op]
PutReverse(i, r) == [i EXCEPT !.reverse = r]

IsReg(op, n) == op.type = {"REG"} /\ op.reg = n
IsImm(op, v) == op.type = {"IMM"} /\ op.imm = v

LEMMA AsRegFields ==
  ASSUME NEW op \in Operands, NEW n \in Nat
  PROVE  AsReg(op, n) \in Operands /\ IsReg(AsReg(op, n), n)
BY DEF AsReg, IsReg, Operands

LEMMA AsImmFields ==
  ASSUME NEW op \in Operands, NEW v \in Int
  PROVE  AsImm(op, v) \in Operands /\ IsImm(AsImm(op, v), v)
BY DEF AsImm, IsImm, Operands

LEMMA AsNoneFields ==
  ASSUME NEW op \in Operands
  PROVE  AsNone(op) \in Operands /\ AsNone(op).type = {}
BY DEF AsNone, Operands

(* j is i but for its operands, its direction and n more bytes.            *)
Like(j, i, rev, n) ==
  /\ j \in Instructions
  /\ j.type = i.type /\ j.size = i.size /\ j.prefix = i.prefix
  /\ j.reverse = rev /\ j.len = i.len + n

LEMMA Likes ==
  ASSUME NEW i \in Instructions, NEW j, NEW k, NEW r, NEW s, NEW m \in Nat, NEW n \in Nat,
         Like(j, i, r, m), Like(k, j, s, n)
  PROVE  Like(k, i, s, m + n)
BY DEF Like, Instructions

LEMMA PutAFields ==
  ASSUME NEW i \in Instructions, NEW op \in Operands
  PROVE  Like(PutA(i, op), i, i.reverse, 0) /\ PutA(i, op).a = op /\ PutA(i, op).b = i.b
BY DEF PutA, Like, Instructions

LEMMA PutBFields ==
  ASSUME NEW i \in Instructions, NEW op \in Operands
  PROVE  Like(PutB(i, op), i, i.reverse, 0) /\ PutB(i, op).b = op /\ PutB(i, op).a = i.a
BY DEF PutB, Like, Instructions

LEMMA PutReverseFields ==
  ASSUME NEW i \in Instructions, NEW r \in {0, 1}
  PROVE  /\ Like(PutReverse(i, r), i, r, 0)
         /\ PutReverse(i, r).a = i.a /\ PutReverse(i, r).b = i.b
BY DEF PutReverse, Like, Instructions

LEMMA FetchFields ==
  ASSUME NEW i \in Instructions, NEW n \in Nat
  PROVE  Like(Fetch(i, n), i, i.reverse, n) /\ Fetch(i, n).a = i.a /\ Fetch(i, n).b = i.b
BY DEF Fetch, Like, Instructions

LEMMA RmBytesSize == ASSUME NEW c \in Codes PROVE RmBytes(c) \in 0..5
BY DEF Codes, RmBytes, Bit

LEMMA RmOperand ==
  ASSUME NEW c \in Codes, NEW op \in Operands
  PROVE  decode_rm(c, op) \in Operands
<1>1. CASE c.mod = 3
  <2>1. c.rm \in Nat
    BY DEF Codes
  <2>2. decode_rm(c, op) = AsReg(op, c.rm)
    BY <1>1 DEF decode_rm, AsReg
  <2> QED BY <2>1, <2>2, AsRegFields
<1>2. CASE c.mod # 3
  <2> DEFINE sib == c.rm = 4
             disp == Bare(c) \/ c.mod # 0
             type == {"MEM"} \cup {t \in {"IDX"} : sib /\ c.index # 4}
                     \cup {t \in {"REG"} : ~Bare(c)} \cup {t \in {"IMM"} : disp}
  <2>1. type \in SUBSET {"REG", "MEM", "IDX", "IMM", "XMM"}
    OBVIOUS
  <2>2. decode_rm(c, op) =
          [type |-> type,
           reg |-> IF sib THEN c.base ELSE IF Bare(c) THEN op.reg ELSE c.rm,
           idx |-> IF sib THEN c.index ELSE op.idx,
           scale |-> IF sib THEN c.scale ELSE op.scale,
           imm |-> IF disp THEN c.disp ELSE op.imm]
    BY <1>2 DEF decode_rm
  <2> HIDE DEF type, sib, disp
  <2> QED BY <2>1, <2>2 DEF Operands, Codes
<1> QED BY <1>1, <1>2

LEMMA RmAFields ==
  ASSUME NEW c \in Codes, NEW i \in Instructions
  PROVE  /\ Like(RmA(c, i), i, i.reverse, 1 + RmBytes(c))
         /\ RmA(c, i).a = decode_rm(c, i.a) /\ RmA(c, i).b = i.b
<1> DEFINE op == decode_rm(c, i.a)
           j == PutA(i, op)
<1>1. op \in Operands
  BY RmOperand DEF Instructions
<1>2. RmA(c, i) = Fetch(j, 1 + RmBytes(c))
  BY Zenon DEF RmA, PutA
<1> HIDE DEF op
<1>3. Like(j, i, i.reverse, 0) /\ j.a = op /\ j.b = i.b
  BY <1>1, PutAFields
<1>4. 1 + RmBytes(c) \in Nat
  BY RmBytesSize
<1> HIDE DEF j
<1>5. /\ Like(Fetch(j, 1 + RmBytes(c)), j, j.reverse, 1 + RmBytes(c))
      /\ Fetch(j, 1 + RmBytes(c)).a = j.a /\ Fetch(j, 1 + RmBytes(c)).b = j.b
  BY <1>3, <1>4, FetchFields DEF Like
<1>6. Like(RmA(c, i), i, i.reverse, 0 + (1 + RmBytes(c)))
  BY <1>2, <1>3, <1>4, <1>5, Likes DEF Like
<1> QED BY <1>2, <1>3, <1>4, <1>5, <1>6 DEF op

LEMMA RmBFields ==
  ASSUME NEW c \in Codes, NEW i \in Instructions
  PROVE  /\ Like(RmB(c, i), i, i.reverse, 1 + RmBytes(c))
         /\ RmB(c, i).b = decode_rm(c, i.b) /\ RmB(c, i).a = i.a
<1> DEFINE op == decode_rm(c, i.b)
           j == PutB(i, op)
<1>1. op \in Operands
  BY RmOperand DEF Instructions
<1>2. RmB(c, i) = Fetch(j, 1 + RmBytes(c))
  BY Zenon DEF RmB, PutB
<1> HIDE DEF op
<1>3. Like(j, i, i.reverse, 0) /\ j.b = op /\ j.a = i.a
  BY <1>1, PutBFields
<1>4. 1 + RmBytes(c) \in Nat
  BY RmBytesSize
<1> HIDE DEF j
<1>5. /\ Like(Fetch(j, 1 + RmBytes(c)), j, j.reverse, 1 + RmBytes(c))
      /\ Fetch(j, 1 + RmBytes(c)).a = j.a /\ Fetch(j, 1 + RmBytes(c)).b = j.b
  BY <1>3, <1>4, FetchFields DEF Like
<1>6. Like(RmB(c, i), i, i.reverse, 0 + (1 + RmBytes(c)))
  BY <1>2, <1>3, <1>4, <1>5, Likes DEF Like
<1> QED BY <1>2, <1>3, <1>4, <1>5, <1>6 DEF op

LEMMA RegisterFields ==
  ASSUME NEW i \in Instructions, NEW n \in Nat
  PROVE  /\ Like(Register(i, n), i, i.reverse, 0)
         /\ IsReg(Register(i, n).a, n) /\ Register(i, n).b = i.b
<1>1. i.a \in Operands
  BY DEF Instructions
<1>2. Register(i, n) = PutA(i, AsReg(i.a, n))
  BY Zenon DEF Register, PutA, AsReg
<1> QED BY <1>1, <1>2, AsRegFields, PutAFields

LEMMA ImmAFields ==
  ASSUME NEW c \in Codes, NEW i \in Instructions, NEW n \in Nat
  PROVE  /\ Like(ImmA(c, i, n), i, i.reverse, n)
         /\ IsImm(ImmA(c, i, n).a, c.imm) /\ ImmA(c, i, n).b.type = {}
<1> DEFINE op == AsImm(i.a, c.imm)
           none == AsNone(i.b)
           j == PutA(i, op)
           k == PutB(j, none)
<1>1. i.a \in Operands /\ i.b \in Operands /\ c.imm \in Int
  BY DEF Instructions, Codes
<1>2. op \in Operands /\ IsImm(op, c.imm) /\ none \in Operands /\ none.type = {}
  BY <1>1, AsImmFields, AsNoneFields
<1>3. ImmA(c, i, n) = Fetch(k, n)
  BY Zenon DEF ImmA, PutA, PutB, AsImm, AsNone, Instructions
<1> HIDE DEF op, none
<1>4. Like(j, i, i.reverse, 0) /\ j.a = op /\ j.b = i.b
  BY <1>2, PutAFields
<1> HIDE DEF j
<1>5. Like(k, j, j.reverse, 0) /\ k.b = none /\ k.a = j.a
  BY <1>2, <1>4, PutBFields DEF Like
<1> HIDE DEF k
<1>6. Like(Fetch(k, n), k, k.reverse, n) /\ Fetch(k, n).a = k.a /\ Fetch(k, n).b = k.b
  BY <1>5, FetchFields DEF Like
<1> QED BY <1>2, <1>3, <1>4, <1>5, <1>6 DEF Like, Instructions

LEMMA ImmBFields ==
  ASSUME NEW c \in Codes, NEW i \in Instructions, NEW n \in Nat
  PROVE  /\ Like(ImmB(c, i, n), i, i.reverse, n)
         /\ IsImm(ImmB(c, i, n).b, c.imm) /\ ImmB(c, i, n).a = i.a
<1> DEFINE op == AsImm(i.b, c.imm)
           j == PutB(i, op)
<1>1. i.b \in Operands /\ c.imm \in Int
  BY DEF Instructions, Codes
<1>2. op \in Operands /\ IsImm(op, c.imm)
  BY <1>1, AsImmFields
<1>3. ImmB(c, i, n) = Fetch(j, n)
  BY Zenon DEF ImmB, PutB, AsImm
<1> HIDE DEF op
<1>4. Like(j, i, i.reverse, 0) /\ j.b = op /\ j.a = i.a
  BY <1>2, PutBFields
<1> HIDE DEF j
<1>5. Like(Fetch(j, n), j, j.reverse, n) /\ Fetch(j, n).a = j.a /\ Fetch(j, n).b = j.b
  BY <1>4, FetchFields DEF Like
<1> QED BY <1>2, <1>3, <1>4, <1>5 DEF Like, Instructions

LEMMA OneBFields ==
  ASSUME NEW i \in Instructions
  PROVE  Like(OneB(i), i, i.reverse, 0) /\ IsImm(OneB(i).b, 1) /\ OneB(i).a = i.a
<1>1. i.b \in Operands
  BY DEF Instructions
<1>2. OneB(i) = PutB(i, AsImm(i.b, 1))
  BY Zenon DEF OneB, PutB, AsImm
<1> QED BY <1>1, <1>2, AsImmFields, PutBFields

LEMMA RRmFields ==
  ASSUME NEW c \in Codes, NEW i \in Instructions
  PROVE  /\ Like(decode_r_rm(c, i), i, 0, 1 + RmBytes(c))
         /\ IsReg(decode_r_rm(c, i).a, c.reg) /\ decode_r_rm(c, i).b = decode_rm(c, i.b)
<1> DEFINE k == PutReverse(i, 0)
           op == AsReg(k.a, c.reg)
           j == PutA(k, op)
<1>1. Like(k, i, 0, 0) /\ k.a = i.a /\ k.b = i.b /\ k.a \in Operands /\ c.reg \in Nat
  BY PutReverseFields DEF Instructions, Codes
<1>2. decode_r_rm(c, i) = RmB(c, j)
  BY Zenon DEF decode_r_rm, PutReverse, PutA, AsReg
<1> HIDE DEF k
<1>3. op \in Operands /\ IsReg(op, c.reg)
  BY <1>1, AsRegFields
<1> HIDE DEF op
<1>4. Like(j, k, k.reverse, 0) /\ j.a = op /\ j.b = k.b
  BY <1>1, <1>3, PutAFields DEF Like
<1> HIDE DEF j
<1>5. Like(RmB(c, j), j, j.reverse, 1 + RmBytes(c)) /\ RmB(c, j).b = decode_rm(c, j.b)
      /\ RmB(c, j).a = j.a
  BY <1>4, RmBFields DEF Like
<1>6. 1 + RmBytes(c) \in Nat
  BY RmBytesSize
<1> QED BY <1>1, <1>2, <1>3, <1>4, <1>5, <1>6 DEF Like, Instructions

LEMMA RmRFields ==
  ASSUME NEW c \in Codes, NEW i \in Instructions
  PROVE  /\ Like(decode_rm_r(c, i), i, 1, 1 + RmBytes(c))
         /\ IsReg(decode_rm_r(c, i).b, c.reg) /\ decode_rm_r(c, i).a = decode_rm(c, i.a)
<1> DEFINE k == PutReverse(i, 1)
           op == AsReg(k.b, c.reg)
           j == PutB(k, op)
<1>1. Like(k, i, 1, 0) /\ k.a = i.a /\ k.b = i.b /\ k.b \in Operands /\ c.reg \in Nat
  BY PutReverseFields DEF Instructions, Codes
<1>2. decode_rm_r(c, i) = RmA(c, j)
  BY Zenon DEF decode_rm_r, PutReverse, PutB, AsReg
<1> HIDE DEF k
<1>3. op \in Operands /\ IsReg(op, c.reg)
  BY <1>1, AsRegFields
<1> HIDE DEF op
<1>4. Like(j, k, k.reverse, 0) /\ j.b = op /\ j.a = k.a
  BY <1>1, <1>3, PutBFields DEF Like
<1> HIDE DEF j
<1>5. Like(RmA(c, j), j, j.reverse, 1 + RmBytes(c)) /\ RmA(c, j).a = decode_rm(c, j.a)
      /\ RmA(c, j).b = j.b
  BY <1>4, RmAFields DEF Like
<1>6. 1 + RmBytes(c) \in Nat
  BY RmBytesSize
<1> QED BY <1>1, <1>2, <1>3, <1>4, <1>5, <1>6 DEF Like, Instructions

Types == InstrTypes \cup {"panic"}

(* j is i but for its type and size.                                       *)
Alike(j, i) ==
  /\ j \in Instructions
  /\ j.prefix = i.prefix /\ j.reverse = i.reverse /\ j.len = i.len /\ j.a = i.a /\ j.b = i.b

(* j is i but for its type, its size and its direction.                     *)
Change(i, r, t, s) == [i EXCEPT !.reverse = r, !.type = t, !.size = s]
Changed(j, i, r, t, s) ==
  /\ j \in Instructions
  /\ j.prefix = i.prefix /\ j.len = i.len /\ j.a = i.a /\ j.b = i.b
  /\ j.reverse = r /\ j.type = t /\ j.size = s

LEMMA Named ==
  ASSUME NEW i \in Instructions, NEW t \in Types
  PROVE  /\ Alike([i EXCEPT !.type = t], i)
         /\ [i EXCEPT !.type = t].type = t /\ [i EXCEPT !.type = t].size = i.size
BY DEF Alike, Instructions, Types

LEMMA ChangedFields ==
  ASSUME NEW i \in Instructions, NEW r \in {0, 1}, NEW t \in Types, NEW s \in Nat
  PROVE  Changed(Change(i, r, t, s), i, r, t, s)
BY DEF Change, Changed, Instructions, Types

Turn(i, r, t) == [i EXCEPT !.reverse = r, !.type = t]

LEMMA TurnFields ==
  ASSUME NEW i \in Instructions, NEW r \in {0, 1}, NEW t \in Types
  PROVE  Changed(Turn(i, r, t), i, r, t, i.size)
BY DEF Turn, Changed, Instructions, Types

Resize(i, s) == [i EXCEPT !.size = s]

LEMMA ResizeFields ==
  ASSUME NEW i \in Instructions, NEW s \in Nat
  PROVE  Changed(Resize(i, s), i, i.reverse, i.type, s)
BY DEF Resize, Changed, Instructions

LEMMA ByteSizeFields ==
  ASSUME NEW c \in Codes, NEW i \in Instructions
  PROVE  /\ Alike(ByteSize(c, i), i) /\ ByteSize(c, i).type = i.type
         /\ ByteSize(c, i).size = IF c.op % 2 = 0 THEN 8 ELSE i.size
BY DEF Alike, Instructions, ByteSize

HeadBytes(c) == 1 + Bit(c.prefix # "none") + Bit(c.rex # {}) + Bit(c.two)

LEMMA StartFields ==
  ASSUME NEW c \in Codes, NEW g \in Instructions
  PROVE  /\ Start(c, g) \in Instructions
         /\ Start(c, g).prefix = c.prefix /\ Start(c, g).size = 32
         /\ Start(c, g).len = HeadBytes(c) /\ HeadBytes(c) \in 1..4
<1>1. HeadBytes(c) \in 1..4
  BY DEF HeadBytes, Bit
<1> DEFINE j == [g EXCEPT !.prefix = c.prefix]
           k == [j EXCEPT !.size = 32]
           l == [k EXCEPT !.ret = FALSE]
<1>3. c.prefix \in Prefixes
  BY DEF Codes
<1>4. j \in Instructions /\ j.prefix = c.prefix
  BY <1>3 DEF Instructions
<1>5. Start(c, g) = [l EXCEPT !.len = HeadBytes(c)]
  BY Zenon DEF Start, HeadBytes
<1> HIDE DEF HeadBytes, j
<1>6. k \in Instructions /\ k.prefix = c.prefix /\ k.size = 32
  BY <1>4 DEF Instructions
<1> HIDE DEF k
<1>7. l \in Instructions /\ l.prefix = c.prefix /\ l.size = 32
  BY <1>6 DEF Instructions
<1> HIDE DEF l
<1> QED BY <1>1, <1>5, <1>7 DEF Instructions

Wide(c, size) == IF "W" \in c.rex THEN 64 ELSE size

(* What REX leaves of an Instruction: it widens and extends registers.      *)
Extended(c, i, d) ==
  /\ d \in Instructions
  /\ d.type = i.type /\ d.prefix = i.prefix /\ d.len = i.len /\ d.reverse = i.reverse
  /\ d.size = Wide(c, i.size)
  /\ d.a.type = i.a.type /\ d.a.imm = i.a.imm /\ d.a.scale = i.a.scale
  /\ d.b.type = i.b.type /\ d.b.imm = i.b.imm /\ d.b.scale = i.b.scale
  /\ i.reverse = 1 => /\ d.a.reg = i.a.reg + Ext(c, "B") /\ d.a.idx = i.a.idx + Ext(c, "X")
                      /\ d.b.reg = i.b.reg + Ext(c, "R") /\ d.b.idx = i.b.idx
  /\ i.reverse = 0 => /\ d.a.reg = i.a.reg + Ext(c, "R") /\ d.a.idx = i.a.idx
                      /\ d.b.reg = i.b.reg + Ext(c, "B") /\ d.b.idx = i.b.idx + Ext(c, "X")

Shift2(op, n, m) == [op EXCEPT !.idx = @ + m, !.reg = @ + n]
Shift1(op, n) == [op EXCEPT !.reg = @ + n]

(* q is op with its register and its index moved on.                       *)
Moved(q, op, n, m) ==
  /\ q \in Operands /\ q.type = op.type /\ q.imm = op.imm /\ q.scale = op.scale
  /\ q.reg = op.reg + n /\ q.idx = op.idx + m

LEMMA Shift1Fields ==
  ASSUME NEW op \in Operands, NEW n \in Nat
  PROVE  Moved(Shift1(op, n), op, n, 0)
BY DEF Shift1, Operands, Moved

LEMMA Shift2Fields ==
  ASSUME NEW op \in Operands, NEW n \in Nat, NEW m \in Nat
  PROVE  Moved(Shift2(op, n, m), op, n, m)
<1> DEFINE q == [op EXCEPT !.idx = @ + m]
<1>1. Moved(q, op, 0, m)
  BY DEF Moved, Operands
<1>2. Shift2(op, n, m) = [q EXCEPT !.reg = @ + n]
  BY Zenon DEF Shift2
<1> HIDE DEF q
<1> QED BY <1>1, <1>2 DEF Operands, Moved

LEMMA RexFields ==
  ASSUME NEW c \in Codes, NEW i \in Instructions
  PROVE  Extended(c, i, IF c.rex = {} THEN i ELSE decode_rex(i, c.rex))
<1>1. CASE c.rex = {}
  <2>1. Ext(c, "B") = 0 /\ Ext(c, "R") = 0 /\ Ext(c, "X") = 0 /\ Wide(c, i.size) = i.size
    BY <1>1 DEF Ext, Wide
  <2> QED BY <1>1, <2>1 DEF Extended, Instructions, Operands
<1>2. CASE c.rex # {}
  <2> DEFINE reg == 8 * Bit("R" \in c.rex)
             idx == 8 * Bit("X" \in c.rex)
             rm == 8 * Bit("B" \in c.rex)
             j == IF "W" \in c.rex THEN [i EXCEPT !.size = 64] ELSE i
  <2>1. /\ reg \in Nat /\ reg = Ext(c, "R")
        /\ idx \in Nat /\ idx = Ext(c, "X")
        /\ rm \in Nat /\ rm = Ext(c, "B")
    BY DEF Bit, Ext
  <2>2. Alike(j, i) /\ j.type = i.type /\ j.size = Wide(c, i.size)
    BY DEF Alike, Instructions, Wide
  <2>3. j.reverse = 1 => decode_rex(i, c.rex) = PutA(PutB(j, Shift1(j.b, reg)), Shift2(j.a, rm, idx))
    <3> DEFINE k == [j EXCEPT !.b.reg = @ + reg]
    <3>0. j.reverse = 1 => decode_rex(i, c.rex)
                = [j EXCEPT !.b.reg = @ + reg, !.a.idx = @ + idx, !.a.reg = @ + rm]
      BY Zenon DEF decode_rex
    <3> HIDE DEF reg, idx, rm, j
    <3>1. j.reverse = 1 => decode_rex(i, c.rex) = [k EXCEPT !.a.idx = @ + idx, !.a.reg = @ + rm]
      BY Zenon, <3>0
    <3>2. k = PutB(j, Shift1(j.b, reg))
      BY Zenon DEF PutB, Shift1
    <3>3. k.a = j.a
      BY <2>2 DEF Alike, Instructions
    <3> HIDE DEF k
    <3>4. [k EXCEPT !.a.idx = @ + idx, !.a.reg = @ + rm] = PutA(k, Shift2(k.a, rm, idx))
      BY Zenon DEF PutA, Shift2
    <3> QED BY Zenon, <3>1, <3>2, <3>3, <3>4
  <2>4. j.reverse # 1 => decode_rex(i, c.rex) = PutB(PutA(j, Shift1(j.a, reg)), Shift2(j.b, rm, idx))
    <3> DEFINE k == [j EXCEPT !.a.reg = @ + reg]
    <3>0. j.reverse # 1 => decode_rex(i, c.rex)
                = [j EXCEPT !.a.reg = @ + reg, !.b.idx = @ + idx, !.b.reg = @ + rm]
      BY Zenon DEF decode_rex
    <3> HIDE DEF reg, idx, rm, j
    <3>1. j.reverse # 1 => decode_rex(i, c.rex) = [k EXCEPT !.b.idx = @ + idx, !.b.reg = @ + rm]
      BY Zenon, <3>0
    <3>2. k = PutA(j, Shift1(j.a, reg))
      BY Zenon DEF PutA, Shift1
    <3>3. k.b = j.b
      BY <2>2 DEF Alike, Instructions
    <3> HIDE DEF k
    <3>4. [k EXCEPT !.b.idx = @ + idx, !.b.reg = @ + rm] = PutB(k, Shift2(k.b, rm, idx))
      BY Zenon DEF PutB, Shift2
    <3> QED BY Zenon, <3>1, <3>2, <3>3, <3>4
  <2> HIDE DEF reg, idx, rm, j
  <2>5. j.a \in Operands /\ j.b \in Operands /\ j.a = i.a /\ j.b = i.b /\ j \in Instructions
    BY <2>2 DEF Alike, Instructions
  <2>6. CASE i.reverse = 1
    <3> DEFINE b == Shift1(j.b, reg)
               a == Shift2(j.a, rm, idx)
               k == PutB(j, b)
               l == PutA(k, a)
    <3>1. Moved(b, j.b, reg, 0)
      BY Zenon, <2>1, <2>5, Shift1Fields
    <3>2. Moved(a, j.a, rm, idx)
      BY Zenon, <2>1, <2>5, Shift2Fields
    <3> HIDE DEF a, b
    <3>3. Like(k, j, j.reverse, 0) /\ k.b = b /\ k.a = j.a
      BY <2>5, <3>1, PutBFields DEF Moved
    <3> HIDE DEF k
    <3>4. Like(l, k, k.reverse, 0) /\ l.a = a /\ l.b = k.b
      BY <3>2, <3>3, PutAFields DEF Like, Moved
    <3>5. decode_rex(i, c.rex) = l
      <4>1. j.reverse = 1
        BY <2>2, <2>6 DEF Alike
      <4>2. k.a = j.a
        BY <3>3
      <4> QED BY Zenon, <2>3, <4>1, <4>2 DEF a, b, k, l
    <3> HIDE DEF l
    <3> QED BY <1>2, <2>1, <2>2, <2>5, <2>6, <3>1, <3>2, <3>3, <3>4, <3>5
            DEF Extended, Like, Alike, Instructions, Operands, Moved
  <2>7. CASE i.reverse = 0
    <3> DEFINE a == Shift1(j.a, reg)
               b == Shift2(j.b, rm, idx)
               k == PutA(j, a)
               l == PutB(k, b)
    <3>1. Moved(a, j.a, reg, 0)
      BY Zenon, <2>1, <2>5, Shift1Fields
    <3>2. Moved(b, j.b, rm, idx)
      BY Zenon, <2>1, <2>5, Shift2Fields
    <3> HIDE DEF a, b
    <3>3. Like(k, j, j.reverse, 0) /\ k.a = a /\ k.b = j.b
      BY <2>5, <3>1, PutAFields DEF Moved
    <3> HIDE DEF k
    <3>4. Like(l, k, k.reverse, 0) /\ l.b = b /\ l.a = k.a
      BY <3>2, <3>3, PutBFields DEF Like, Moved
    <3>5. decode_rex(i, c.rex) = l
      <4>1. j.reverse # 1
        BY <2>2, <2>7 DEF Alike
      <4> QED BY Zenon, <2>4, <4>1 DEF a, b, k, l
    <3> HIDE DEF l
    <3> QED BY <1>2, <2>1, <2>2, <2>5, <2>7, <3>1, <3>2, <3>3, <3>4, <3>5
            DEF Extended, Like, Alike, Instructions, Operands, Moved
  <2>8. i.reverse \in {0, 1}
    BY DEF Instructions
  <2> QED BY <2>6, <2>7, <2>8
<1> QED BY <1>1, <1>2

-----------------------------------------------------------------------------
(***************************************************************************)
(* What each group of opcodes makes of an Instruction, REX aside.           *)
(***************************************************************************)
OtherTypes == {"PUSH", "POP", "MOVSX", "MOV", "TEST", "LEA", "NOP", "EBR", "RET", "LEAVE",
        "CALL", "JMP", "PXOR", "ADDS", "MULS", "CVTSS2SD", "CVTSD2SS", "SUBS", "DIVS",
        "COMIS", "MOVS", "MOVQ", "MOVAPD", "CVTSD2SI", "CVTSI2S", "IDIV", "IMUL",
        "CLTQ", "CLTD", "SYSCALL", "MOVSBL", "MOVZBL", "MOVSWL", "MOVZWL"}

LEMMA TypeNames ==
  /\ \A k \in 1..8 : Grp0[k] \in Types
  /\ \A k \in 1..8 : Shifts[k] \in Types
  /\ \A k \in 1..16 : Jcc[k] \in Types
  /\ \A k \in 1..16 : CMOVcc[k] \in Types
  /\ \A k \in 1..16 : SETcc[k] \in Types
  /\ OtherTypes \subseteq Types
  /\ "ADD" \in Types /\ "SUB" \in Types
<1>1. \A k \in 1..8 : Grp0[k] \in Types /\ Shifts[k] \in Types
  BY Zenon DEF Types, InstrTypes
<1>4. \A k \in 1..16 : Jcc[k] \in Types /\ CMOVcc[k] \in Types
  BY Zenon DEF Types, InstrTypes
<1>5. \A k \in 1..16 : SETcc[k] \in Types
  BY Zenon DEF Types, InstrTypes
<1>2. OtherTypes \subseteq Types
  BY Zenon DEF Types, InstrTypes, OtherTypes
<1>3. Grp0[1] = "ADD" /\ Grp0[6] = "SUB"
  BY DEF Grp0
<1>6. "ADD" \in Types /\ "SUB" \in Types
  BY <1>1, <1>3
<1> QED BY Zenon, <1>1, <1>2, <1>4, <1>5, <1>6

(* j is i parsed n bytes further.                                           *)
Parsed(j, i, type, size, rev, n) ==
  /\ j \in Instructions
  /\ j.type = type /\ j.size = size /\ j.prefix = i.prefix /\ j.reverse = rev
  /\ j.len = i.len + n

LEMMA Grp0Fields ==
  ASSUME NEW c \in Codes, NEW i \in Instructions, c.op % 8 < 6
  PROVE  LET j == decode_GRP0(c, i)
             size == IF c.op % 2 = 0 THEN 8 ELSE i.size
         IN  /\ c.op % 8 < 2 => /\ Parsed(j, i, i.type, size, 1, 1 + RmBytes(c))
                                /\ j.a = decode_rm(c, i.a) /\ IsReg(j.b, c.reg)
             /\ c.op % 8 \in {2, 3} => /\ Parsed(j, i, i.type, size, 0, 1 + RmBytes(c))
                                       /\ IsReg(j.a, c.reg) /\ j.b = decode_rm(c, i.b)
             /\ c.op % 8 \in {4, 5} => /\ Parsed(j, i, i.type, size, 0, IF size = 8 THEN 1 ELSE 4)
                                       /\ IsReg(j.a, RAX) /\ IsImm(j.b, c.imm)
<1> DEFINE s == ByteSize(c, i)
           size == IF c.op % 2 = 0 THEN 8 ELSE i.size
<1>1. Alike(s, i) /\ s.type = i.type /\ s.size = size /\ s \in Instructions
  BY ByteSizeFields DEF Alike
<1>2. CASE c.op % 8 < 2
  <2>1. decode_GRP0(c, i) = decode_rm_r(c, s)
    BY <1>2 DEF decode_GRP0
  <2> HIDE DEF s, size
  <2> QED BY <1>1, <1>2, <2>1, RmRFields DEF Parsed, Like, Alike, size
<1>3. CASE c.op % 8 \in {2, 3}
  <2>1. decode_GRP0(c, i) = decode_r_rm(c, s)
    BY <1>3 DEF decode_GRP0
  <2> HIDE DEF s, size
  <2> QED BY <1>1, <1>3, <2>1, RRmFields DEF Parsed, Like, Alike, size
<1>4. CASE c.op % 8 \in {4, 5}
  <2> DEFINE k == PutReverse(s, 0)
             r == Register(k, RAX)
             n == IF size = 8 THEN 1 ELSE 4
  <2>1. decode_GRP0(c, i) = ImmB(c, r, n)
    <3>1. ~(c.op % 8 < 2) /\ c.op % 8 \notin {2, 3}
      BY <1>4
    <3>2. decode_GRP0(c, i) = ImmB(c, Register([s EXCEPT !.reverse = 0], RAX),
                                   IF s.size = 8 THEN 1 ELSE 4)
      BY Zenon, <1>4, <3>1 DEF decode_GRP0
    <3> QED BY Zenon, <1>1, <3>2 DEF PutReverse, s, size, k, r, n
  <2> HIDE DEF s
  <2>2. Like(k, s, 0, 0) /\ k \in Instructions
    BY <1>1, PutReverseFields DEF Like
  <2> HIDE DEF k
  <2>3. Like(r, k, k.reverse, 0) /\ IsReg(r.a, RAX) /\ r \in Instructions
    <3>1. RAX \in Nat
      BY DEF RAX
    <3>2. Like(r, k, k.reverse, 0) /\ IsReg(r.a, RAX)
      BY <2>2, <3>1, RegisterFields
    <3> QED BY <3>2 DEF Like
  <2> HIDE DEF r, size
  <2>4. n \in Nat
    OBVIOUS
  <2> HIDE DEF n
  <2>5. Like(ImmB(c, r, n), r, r.reverse, n) /\ IsImm(ImmB(c, r, n).b, c.imm) /\ ImmB(c, r, n).a = r.a
    BY <2>3, <2>4, ImmBFields
  <2> QED BY <1>1, <1>4, <2>1, <2>2, <2>3, <2>4, <2>5 DEF Parsed, Like, Alike, Instructions, size, n
<1> HIDE DEF s, size
<1>5. c.op % 8 \in 0..5
  BY DEF Codes
<1> QED BY <1>2, <1>3, <1>4, <1>5 DEF size

(* The Instruction before REX, and what is left of it by REX.               *)
Body(c, g) == IF c.two THEN decode_0F(c, Start(c, g)) ELSE DecodeOneByte(c, Start(c, g))

Is(d, c, type, size, prefix, n) ==
  /\ d \in Instructions
  /\ d.type = type /\ d.size = Wide(c, size) /\ d.prefix = prefix /\ d.len = HeadBytes(c) + n

LEMMA Rexed ==
  ASSUME NEW c \in Codes, NEW g \in Instructions, NEW i \in Instructions, i.len = HeadBytes(c),
         NEW type, NEW size, NEW rev, NEW n \in Nat, Parsed(Body(c, g), i, type, size, rev, n)
  PROVE  /\ Is(decode_instr(c, g), c, type, size, i.prefix, n)
         /\ Extended(c, Body(c, g), decode_instr(c, g))
<1> DEFINE j == Body(c, g)
           d == decode_instr(c, g)
<1>1. d = IF c.rex = {} THEN j ELSE decode_rex(j, c.rex)
  BY Zenon DEF decode_instr, Body
<1>2. j \in Instructions
  BY DEF Parsed
<1> HIDE DEF j, d
<1>3. Extended(c, j, d)
  BY <1>1, <1>2, RexFields
<1>4. Is(d, c, type, size, i.prefix, n)
  BY <1>3 DEF Is, Extended, Parsed, j
<1> QED BY <1>3, <1>4 DEF j, d

LEMMA RexOperands ==
  ASSUME NEW c \in Codes, NEW j \in Instructions, NEW d, Extended(c, j, d)
  PROVE  /\ j.reverse = 1 => /\ Moved(d.a, j.a, Ext(c, "B"), Ext(c, "X"))
                             /\ Moved(d.b, j.b, Ext(c, "R"), 0)
         /\ j.reverse = 0 => /\ Moved(d.a, j.a, Ext(c, "R"), 0)
                             /\ Moved(d.b, j.b, Ext(c, "B"), Ext(c, "X"))
<1>1. d.a \in Operands /\ d.b \in Operands
  BY DEF Extended, Instructions
<1>2. j.a \in Operands /\ j.b \in Operands
  BY DEF Instructions
<1>3. j.a.idx + 0 = j.a.idx /\ j.b.idx + 0 = j.b.idx
  BY <1>2 DEF Operands
<1>4. j.reverse = 1 => /\ Moved(d.a, j.a, Ext(c, "B"), Ext(c, "X"))
                       /\ Moved(d.b, j.b, Ext(c, "R"), 0)
  BY <1>1, <1>3 DEF Extended, Moved
<1>5. j.reverse = 0 => /\ Moved(d.a, j.a, Ext(c, "R"), 0)
                       /\ Moved(d.b, j.b, Ext(c, "B"), Ext(c, "X"))
  BY <1>1, <1>3 DEF Extended, Moved
<1> QED BY <1>4, <1>5

LEMMA ExtSize == ASSUME NEW c, NEW b PROVE Ext(c, b) \in {0, 8}
BY DEF Ext

(* The operand named by ModRM, SIB and REX.                                 *)
MemoryType(c) == {"MEM"} \cup {t \in {"IDX"} : c.rm = 4 /\ c.index # 4}
                 \cup {t \in {"REG"} : ~Bare(c)} \cup {t \in {"IMM"} : Bare(c) \/ c.mod # 0}
BaseRegister(c) == (IF c.rm = 4 THEN c.base ELSE c.rm) + Ext(c, "B")
MemoryIs(c, op) ==
  /\ op.type = MemoryType(c)
  /\ ~Bare(c) => op.reg = BaseRegister(c)
  /\ c.rm = 4 => op.idx = c.index + Ext(c, "X") /\ op.scale = c.scale
  /\ Bare(c) \/ c.mod # 0 => op.imm = c.disp
RmIs(c, op) == IF c.mod = 3 THEN IsReg(op, Rm(c)) ELSE MemoryIs(c, op)

LEMMA MovedRm ==
  ASSUME NEW c \in Codes, NEW o, NEW q, Moved(q, decode_rm(c, o), Ext(c, "B"), Ext(c, "X"))
  PROVE  RmIs(c, q)
<1>1. CASE c.mod = 3
  <2>1. decode_rm(c, o) = [o EXCEPT !.type = {"REG"}, !.reg = c.rm]
    BY <1>1 DEF decode_rm
  <2> QED BY <1>1, <2>1 DEF RmIs, IsReg, Rm, Moved, Operands
<1>2. CASE c.mod # 3
  <2> DEFINE disp == Bare(c) \/ c.mod # 0
  <2>1. decode_rm(c, o) =
          [type |-> MemoryType(c),
           reg |-> IF c.rm = 4 THEN c.base ELSE IF Bare(c) THEN o.reg ELSE c.rm,
           idx |-> IF c.rm = 4 THEN c.index ELSE o.idx,
           scale |-> IF c.rm = 4 THEN c.scale ELSE o.scale,
           imm |-> IF disp THEN c.disp ELSE o.imm]
    BY <1>2 DEF decode_rm, MemoryType
  <2> QED BY <1>2, <2>1 DEF RmIs, MemoryIs, Moved, BaseRegister, Operands
<1> QED BY <1>1, <1>2

LEMMA MovedReg ==
  ASSUME NEW o, NEW q, NEW k, NEW n, NEW m, Moved(q, o, n, m), IsReg(o, k)
  PROVE  IsReg(q, k + n)
BY DEF Moved, IsReg

LEMMA MovedImm ==
  ASSUME NEW o, NEW q, NEW v, NEW n, NEW m, Moved(q, o, n, m), IsImm(o, v)
  PROVE  IsImm(q, v)
BY DEF Moved, IsImm

RmReg(c, d) == RmIs(c, d.a) /\ IsReg(d.b, Reg(c))
RegRm(c, d) == IsReg(d.a, Reg(c)) /\ RmIs(c, d.b)
RmImm(c, d, v) == RmIs(c, d.a) /\ IsImm(d.b, v)

LEMMA RmRegAfter ==
  ASSUME NEW c \in Codes, NEW j \in Instructions, NEW d, Extended(c, j, d), j.reverse = 1,
         NEW o, j.a = decode_rm(c, o), IsReg(j.b, c.reg)
  PROVE  RmReg(c, d)
<1>1. RmIs(c, d.a)
  BY RexOperands, MovedRm
<1>2. IsReg(d.b, c.reg + Ext(c, "R"))
  BY RexOperands, MovedReg
<1> QED BY <1>1, <1>2 DEF RmReg, Reg

LEMMA RegRmAfter ==
  ASSUME NEW c \in Codes, NEW j \in Instructions, NEW d, Extended(c, j, d), j.reverse = 0,
         NEW o, j.b = decode_rm(c, o), IsReg(j.a, c.reg)
  PROVE  RegRm(c, d)
<1>1. RmIs(c, d.b)
  BY RexOperands, MovedRm
<1>2. IsReg(d.a, c.reg + Ext(c, "R"))
  BY RexOperands, MovedReg
<1> QED BY <1>1, <1>2 DEF RegRm, Reg

LEMMA RmImmAfter ==
  ASSUME NEW c \in Codes, NEW j \in Instructions, NEW d, Extended(c, j, d), j.reverse = 1,
         NEW o, NEW v, j.a = decode_rm(c, o), IsImm(j.b, v)
  PROVE  RmImm(c, d, v)
<1>1. RmIs(c, d.a)
  BY RexOperands, MovedRm
<1>2. IsImm(d.b, v)
  BY RexOperands, MovedImm
<1> QED BY <1>1, <1>2 DEF RmImm

LEMMA TypedRmR ==
  ASSUME NEW c \in Codes, NEW i \in Instructions, NEW k, Alike(k, i)
  PROVE  /\ Parsed(decode_rm_r(c, k), i, k.type, k.size, 1, 1 + RmBytes(c))
         /\ decode_rm_r(c, k).a = decode_rm(c, k.a) /\ IsReg(decode_rm_r(c, k).b, c.reg)
BY RmRFields DEF Parsed, Like, Alike

LEMMA TypedRRm ==
  ASSUME NEW c \in Codes, NEW i \in Instructions, NEW k, Alike(k, i)
  PROVE  /\ Parsed(decode_r_rm(c, k), i, k.type, k.size, 0, 1 + RmBytes(c))
         /\ decode_r_rm(c, k).b = decode_rm(c, k.b) /\ IsReg(decode_r_rm(c, k).a, c.reg)
BY RRmFields DEF Parsed, Like, Alike

LEMMA StartIs ==
  ASSUME NEW c \in Codes, NEW g \in Instructions
  PROVE  /\ Start(c, g) \in Instructions /\ Start(c, g).len = HeadBytes(c)
         /\ Start(c, g).size = 32 /\ Start(c, g).prefix = c.prefix
         /\ HeadBytes(c) \in 1..4 /\ 1 + RmBytes(c) \in 1..6
BY StartFields, RmBytesSize

LEMMA DecodedRmR ==
  ASSUME NEW c \in Codes, NEW g \in Instructions, NEW i \in Instructions, i.len = HeadBytes(c),
         NEW k, Alike(k, i), Body(c, g) = decode_rm_r(c, k)
  PROVE  /\ Is(decode_instr(c, g), c, k.type, k.size, i.prefix, 1 + RmBytes(c))
         /\ RmReg(c, decode_instr(c, g))
<1> DEFINE j == Body(c, g)
           d == decode_instr(c, g)
<1>1. 1 + RmBytes(c) \in Nat
  BY StartIs
<1>2. Parsed(j, i, k.type, k.size, 1, 1 + RmBytes(c)) /\ j.a = decode_rm(c, k.a) /\ IsReg(j.b, c.reg)
  BY TypedRmR
<1>3. Is(d, c, k.type, k.size, i.prefix, 1 + RmBytes(c)) /\ Extended(c, j, d)
  BY <1>1, <1>2, Rexed
<1> HIDE DEF j, d
<1>4. RmReg(c, d)
  BY <1>2, <1>3, RmRegAfter DEF Parsed
<1> QED BY <1>3, <1>4 DEF d

LEMMA DecodedRRm ==
  ASSUME NEW c \in Codes, NEW g \in Instructions, NEW i \in Instructions, i.len = HeadBytes(c),
         NEW k, Alike(k, i), Body(c, g) = decode_r_rm(c, k)
  PROVE  /\ Is(decode_instr(c, g), c, k.type, k.size, i.prefix, 1 + RmBytes(c))
         /\ RegRm(c, decode_instr(c, g))
<1> DEFINE j == Body(c, g)
           d == decode_instr(c, g)
<1>1. 1 + RmBytes(c) \in Nat
  BY StartIs
<1>2. Parsed(j, i, k.type, k.size, 0, 1 + RmBytes(c)) /\ j.b = decode_rm(c, k.b) /\ IsReg(j.a, c.reg)
  BY TypedRRm
<1>3. Is(d, c, k.type, k.size, i.prefix, 1 + RmBytes(c)) /\ Extended(c, j, d)
  BY <1>1, <1>2, Rexed
<1> HIDE DEF j, d
<1>4. RegRm(c, d)
  BY <1>2, <1>3, RegRmAfter DEF Parsed
<1> QED BY <1>3, <1>4 DEF d

-----------------------------------------------------------------------------
(***************************************************************************)
(* The opcodes of one byte.                                                 *)
(***************************************************************************)
ByteOr(c, size) == IF c.op % 2 = 0 THEN 8 ELSE size

LEMMA DecodedGrp0 ==
  ASSUME NEW c \in Codes, NEW g \in Instructions, c.op % 8 < 6,
         NEW k, Alike(k, Start(c, g)), k.size = 32, Body(c, g) = decode_GRP0(c, k)
  PROVE  /\ c.op % 8 < 2 =>
              /\ Is(decode_instr(c, g), c, k.type, ByteOr(c, 32), c.prefix, 1 + RmBytes(c))
              /\ RmReg(c, decode_instr(c, g))
         /\ c.op % 8 \in {2, 3} =>
              /\ Is(decode_instr(c, g), c, k.type, ByteOr(c, 32), c.prefix, 1 + RmBytes(c))
              /\ RegRm(c, decode_instr(c, g))
         /\ c.op % 8 \in {4, 5} =>
              /\ Is(decode_instr(c, g), c, k.type, ByteOr(c, 32), c.prefix,
                    IF c.op % 8 = 4 THEN 1 ELSE 4)
              /\ IsReg(decode_instr(c, g).a, RAX + Ext(c, "R"))
              /\ IsImm(decode_instr(c, g).b, c.imm)
<1> DEFINE i == Start(c, g)
           j == Body(c, g)
           d == decode_instr(c, g)
           size == ByteOr(c, 32)
           s == ByteSize(c, k)
<1>1. i \in Instructions /\ i.len = HeadBytes(c) /\ i.prefix = c.prefix /\ i.size = 32
      /\ 1 + RmBytes(c) \in Nat
  BY StartIs
<1>2. k \in Instructions /\ size = IF c.op % 2 = 0 THEN 8 ELSE k.size
  BY DEF Alike, ByteOr
<1>3. Alike(s, i) /\ s.type = k.type /\ s.size = size
  BY <1>2, ByteSizeFields DEF Alike
<1> HIDE DEF i, s, size
<1>6. CASE c.op % 8 < 2
  <2>1. j = decode_rm_r(c, s)
    BY <1>6 DEF decode_GRP0, s
  <2> QED BY <1>1, <1>3, <1>6, <2>1, DecodedRmR DEF size
<1>7. CASE c.op % 8 \in {2, 3}
  <2>1. j = decode_r_rm(c, s)
    BY <1>7 DEF decode_GRP0, s
  <2> QED BY <1>1, <1>3, <1>7, <2>1, DecodedRRm DEF size
<1>8. CASE c.op % 8 \in {4, 5}
  <2> DEFINE n == IF c.op % 8 = 4 THEN 1 ELSE 4
  <2>1. n = (IF size = 8 THEN 1 ELSE 4) /\ n \in Nat
    BY <1>8 DEF Codes, size, ByteOr
  <2> HIDE DEF n, j, d
  <2>2. Parsed(j, k, k.type, size, 0, n) /\ IsReg(j.a, RAX) /\ IsImm(j.b, c.imm)
    BY <1>2, <1>8, <2>1, Grp0Fields DEF j
  <2>3. Parsed(j, i, k.type, size, 0, n) /\ j \in Instructions /\ j.reverse = 0
    BY <2>2 DEF Parsed, Alike, i
  <2>4. Is(d, c, k.type, size, c.prefix, n) /\ Extended(c, j, d)
    BY <1>1, <2>1, <2>3, Rexed DEF j, d
  <2>5. IsReg(d.a, RAX + Ext(c, "R")) /\ IsImm(d.b, c.imm)
    BY <2>2, <2>3, <2>4, RexOperands, MovedReg, MovedImm
  <2> QED BY <1>8, <2>4, <2>5 DEF d, size, n
<1>9. c.op % 8 \in 0..5
  BY DEF Codes
<1> QED BY <1>6, <1>7, <1>8, <1>9

(* k is i but for its type, its size and its direction.                     *)
Typed(k, i) == k \in Instructions /\ k.prefix = i.prefix /\ k.len = i.len

LEMMA DecodedRmImm ==
  ASSUME NEW c \in Codes, NEW g \in Instructions, NEW i \in Instructions, i.len = HeadBytes(c),
         NEW k, Typed(k, i), k.reverse = 1, NEW n \in Nat, Body(c, g) = ImmB(c, RmA(c, k), n)
  PROVE  /\ Is(decode_instr(c, g), c, k.type, k.size, i.prefix, 1 + RmBytes(c) + n)
         /\ RmImm(c, decode_instr(c, g), c.imm)
<1> DEFINE j == Body(c, g)
           d == decode_instr(c, g)
           m == RmA(c, k)
           rm == 1 + RmBytes(c)
<1>1. rm \in Nat
  BY StartIs
<1>2. Like(m, k, 1, rm) /\ m.a = decode_rm(c, k.a)
  BY RmAFields DEF Typed
<1> HIDE DEF m, rm
<1>3. Like(j, m, 1, n) /\ IsImm(j.b, c.imm) /\ j.a = m.a
  BY <1>2, ImmBFields DEF Like, m
<1> HIDE DEF j
<1>4. Parsed(j, i, k.type, k.size, 1, rm + n) /\ rm + n \in Nat
  BY <1>1, <1>2, <1>3 DEF Parsed, Like, Typed, Instructions
<1>5. Is(d, c, k.type, k.size, i.prefix, rm + n) /\ Extended(c, j, d)
  BY <1>4, Rexed DEF j
<1> HIDE DEF d
<1>6. RmImm(c, d, c.imm)
  BY <1>2, <1>3, <1>4, <1>5, RmImmAfter DEF Parsed
<1> QED BY <1>5, <1>6 DEF d, rm

LEMMA DecodedRmOne ==
  ASSUME NEW c \in Codes, NEW g \in Instructions, NEW i \in Instructions, i.len = HeadBytes(c),
         NEW k, Typed(k, i), k.reverse = 1, Body(c, g) = OneB(RmA(c, k))
  PROVE  /\ Is(decode_instr(c, g), c, k.type, k.size, i.prefix, 1 + RmBytes(c))
         /\ RmImm(c, decode_instr(c, g), 1)
<1> DEFINE j == Body(c, g)
           d == decode_instr(c, g)
           m == RmA(c, k)
           rm == 1 + RmBytes(c)
<1>1. rm \in Nat
  BY StartIs
<1>2. Like(m, k, 1, rm) /\ m.a = decode_rm(c, k.a)
  BY RmAFields DEF Typed
<1> HIDE DEF m, rm
<1>3. Like(j, m, 1, 0) /\ IsImm(j.b, 1) /\ j.a = m.a
  BY <1>2, OneBFields DEF Like, m
<1> HIDE DEF j
<1>4. Parsed(j, i, k.type, k.size, 1, rm)
  BY <1>1, <1>2, <1>3 DEF Parsed, Like, Typed, Instructions
<1>5. Is(d, c, k.type, k.size, i.prefix, rm) /\ Extended(c, j, d)
  BY <1>1, <1>4, Rexed DEF j
<1> HIDE DEF d
<1>6. RmImm(c, d, 1)
  BY <1>2, <1>3, <1>4, <1>5, RmImmAfter DEF Parsed
<1> QED BY <1>5, <1>6 DEF d, rm

LEMMA ArithmeticDecoded ==
  ASSUME NEW c \in Codes, NEW g \in Instructions, ~c.two, c.op < 64,
         NEW k, k = [Start(c, g) EXCEPT !.type = Grp0[c.op \div 8 + 1]]
  PROVE  /\ Alike(k, Start(c, g)) /\ k.size = 32 /\ k.type = Grp0[c.op \div 8 + 1]
         /\ Body(c, g) = decode_GRP0(c, k)
<1>1. Grp0[c.op \div 8 + 1] \in Types
  <2>1. c.op \div 8 + 1 \in 1..8
    BY DEF Codes
  <2> QED BY <2>1, TypeNames
<1>2. Alike(k, Start(c, g)) /\ k.size = 32 /\ k.type = Grp0[c.op \div 8 + 1]
  BY <1>1, StartIs, Named
<1> QED BY <1>2 DEF Body, DecodeOneByte

LEMMA MovsxLeaDecoded ==
  ASSUME NEW c \in Codes, NEW g \in Instructions, ~c.two, c.op \in {99, 141}
  PROVE  /\ Is(decode_instr(c, g), c, IF c.op = 99 THEN "MOVSX" ELSE "LEA", 32, c.prefix,
               1 + RmBytes(c))
         /\ RegRm(c, decode_instr(c, g))
<1> DEFINE i == Start(c, g)
           t == IF c.op = 99 THEN "MOVSX" ELSE "LEA"
           k == [i EXCEPT !.type = t]
<1>1. t \in Types
  BY TypeNames DEF OtherTypes
<1>2. i \in Instructions /\ i.len = HeadBytes(c) /\ i.prefix = c.prefix /\ i.size = 32
  BY StartIs
<1>3. Body(c, g) = decode_r_rm(c, k)
  BY DEF Body, DecodeOneByte
<1> HIDE DEF i, t
<1>4. Alike(k, i) /\ k.type = t /\ k.size = 32
  BY <1>1, <1>2, Named
<1> HIDE DEF k
<1> QED BY <1>2, <1>3, <1>4, DecodedRRm DEF t

LEMMA TestDecoded ==
  ASSUME NEW c \in Codes, NEW g \in Instructions, ~c.two, c.op \in {132, 133}
  PROVE  /\ Is(decode_instr(c, g), c, "TEST", ByteOr(c, 32), c.prefix, 1 + RmBytes(c))
         /\ RmReg(c, decode_instr(c, g))
<1> DEFINE i == Start(c, g)
           k == [i EXCEPT !.type = "TEST"]
           s == ByteSize(c, k)
<1>1. "TEST" \in Types
  BY TypeNames DEF OtherTypes
<1>2. i \in Instructions /\ i.len = HeadBytes(c) /\ i.prefix = c.prefix /\ i.size = 32
  BY StartIs
<1>3. Body(c, g) = decode_rm_r(c, s)
  BY DEF Body, DecodeOneByte
<1> HIDE DEF i
<1>4. Alike(k, i) /\ k.type = "TEST" /\ k.size = 32
  BY <1>1, <1>2, Named
<1> HIDE DEF k
<1>5. Alike(s, i) /\ s.type = "TEST" /\ s.size = ByteOr(c, 32)
  BY <1>4, ByteSizeFields DEF Alike, ByteOr
<1> HIDE DEF s
<1> QED BY <1>2, <1>3, <1>5, DecodedRmR

LEMMA ImmediateDecoded ==
  ASSUME NEW c \in Codes, NEW g \in Instructions, ~c.two, c.op \in {128, 129, 131}
  PROVE  /\ Is(decode_instr(c, g), c, Grp0[c.reg + 1], IF c.op = 128 THEN 8 ELSE 32, c.prefix,
               1 + RmBytes(c) + IF c.op = 129 THEN 4 ELSE 1)
         /\ RmImm(c, decode_instr(c, g), c.imm)
<1> DEFINE i == Start(c, g)
           t == Grp0[c.reg + 1]
           s == IF c.op = 128 THEN 8 ELSE i.size
           k == Change(i, 1, t, s)
           n == IF c.op = 129 THEN 4 ELSE 1
<1>1. t \in Types
  BY TypeNames DEF Codes
<1>2. i \in Instructions /\ i.len = HeadBytes(c) /\ i.prefix = c.prefix /\ i.size = 32
  BY StartIs
<1>3. Body(c, g) = DecodeImmediate(c, i)
  BY DEF Body, DecodeOneByte
<1>4. DecodeImmediate(c, i) = ImmB(c, RmA(c, k), n)
  BY DEF DecodeImmediate, Change
<1> HIDE DEF i, t, s
<1>5. Changed(k, i, 1, t, IF c.op = 128 THEN 8 ELSE 32)
  <2>1. s = (IF c.op = 128 THEN 8 ELSE 32) /\ s \in Nat
    BY <1>2 DEF s
  <2> QED BY <1>1, <1>2, <2>1, ChangedFields
<1>6. n \in Nat
  OBVIOUS
<1> HIDE DEF k, n
<1>7. Typed(k, i) /\ k.reverse = 1 /\ k.type = t /\ k.size = IF c.op = 128 THEN 8 ELSE 32
  BY <1>5 DEF Changed, Typed
<1> QED BY <1>2, <1>3, <1>4, <1>6, <1>7, DecodedRmImm DEF t, n

LEMMA DecodedOpReg ==
  ASSUME NEW c \in Codes, NEW g \in Instructions, NEW i \in Instructions, i.len = HeadBytes(c),
         NEW k, Typed(k, i), k.reverse = 1, NEW n \in Nat,
         Body(c, g) = ImmB(c, Register(k, c.op % 8), n)
  PROVE  /\ Is(decode_instr(c, g), c, k.type, k.size, i.prefix, n)
         /\ IsReg(decode_instr(c, g).a, OpReg(c)) /\ IsImm(decode_instr(c, g).b, c.imm)
<1> DEFINE j == Body(c, g)
           d == decode_instr(c, g)
           r == c.op % 8
           m == Register(k, r)
<1>1. r \in Nat
  BY DEF Codes
<1>8. j = ImmB(c, m, n)
  OBVIOUS
<1> HIDE DEF r, j
<1>2. Like(m, k, 1, 0) /\ IsReg(m.a, r)
  <2>1. k \in Instructions
    BY DEF Typed
  <2> QED BY <1>1, <2>1, RegisterFields
<1> HIDE DEF m
<1>3. Like(j, m, 1, n) /\ IsImm(j.b, c.imm) /\ j.a = m.a
  <2>1. m \in Instructions /\ m.reverse = 1
    BY <1>2 DEF Like
  <2> QED BY <1>8, <2>1, ImmBFields
<1>4. Parsed(j, i, k.type, k.size, 1, n)
  BY <1>2, <1>3 DEF Parsed, Like, Typed, Instructions
<1>5. Is(d, c, k.type, k.size, i.prefix, n) /\ Extended(c, j, d)
  BY <1>4, Rexed DEF j
<1> HIDE DEF d
<1>6. Moved(d.a, j.a, Ext(c, "B"), Ext(c, "X")) /\ Moved(d.b, j.b, Ext(c, "R"), 0)
  BY <1>4, <1>5, RexOperands DEF Parsed
<1>7. IsReg(d.a, r + Ext(c, "B")) /\ IsImm(d.b, c.imm)
  BY <1>2, <1>3, <1>6, MovedReg, MovedImm
<1> QED BY <1>5, <1>7 DEF d, r, OpReg

LEMMA MovDecoded ==
  ASSUME NEW c \in Codes, NEW g \in Instructions, ~c.two, c.op \in 136..139,
         NEW k, k = [Start(c, g) EXCEPT !.type = "MOV"]
  PROVE  /\ Alike(k, Start(c, g)) /\ k.size = 32 /\ k.type = "MOV"
         /\ Body(c, g) = decode_GRP0(c, k)
<1>1. "MOV" \in Types
  BY TypeNames DEF OtherTypes
<1>2. Alike(k, Start(c, g)) /\ k.size = 32 /\ k.type = "MOV"
  BY <1>1, StartIs, Named
<1>3. Body(c, g) = DecodeMove(c, Start(c, g))
  BY DEF Body, DecodeOneByte
<1>4. DecodeMove(c, Start(c, g)) = decode_GRP0(c, k)
  BY DEF DecodeMove
<1> QED BY <1>2, <1>3, <1>4

LEMMA MovByteDecoded ==
  ASSUME NEW c \in Codes, NEW g \in Instructions, ~c.two, c.op \in 176..183
  PROVE  /\ Is(decode_instr(c, g), c, "MOV", 8, c.prefix, 1)
         /\ IsReg(decode_instr(c, g).a, OpReg(c)) /\ IsImm(decode_instr(c, g).b, c.imm)
<1> DEFINE i == Start(c, g)
           m == [i EXCEPT !.type = "MOV"]
           k == [m EXCEPT !.reverse = 1, !.size = 8]
<1>1. "MOV" \in Types
  BY TypeNames DEF OtherTypes
<1>2. i \in Instructions /\ i.len = HeadBytes(c) /\ i.prefix = c.prefix
  BY StartIs
<1>3. Body(c, g) = DecodeMove(c, i)
  BY DEF Body, DecodeOneByte
<1>4. DecodeMove(c, i) = ImmB(c, Register(k, c.op % 8), 1)
  BY DEF DecodeMove
<1> HIDE DEF i
<1>5. Alike(m, i) /\ m.type = "MOV"
  BY <1>1, <1>2, Named
<1> HIDE DEF m
<1>6. Typed(k, i) /\ k.reverse = 1 /\ k.type = "MOV" /\ k.size = 8
  BY <1>5 DEF Typed, Alike, Instructions
<1> HIDE DEF k
<1> QED BY <1>2, <1>3, <1>4, <1>6, DecodedOpReg

LEMMA MovWordDecoded ==
  ASSUME NEW c \in Codes, NEW g \in Instructions, ~c.two, c.op \in 184..191
  PROVE  /\ Is(decode_instr(c, g), c, "MOV", 32, c.prefix, IF "W" \in c.rex THEN 8 ELSE 4)
         /\ IsReg(decode_instr(c, g).a, OpReg(c)) /\ IsImm(decode_instr(c, g).b, c.imm)
<1> DEFINE i == Start(c, g)
           m == [i EXCEPT !.type = "MOV"]
           k == PutReverse(m, 1)
           n == IF "W" \in c.rex THEN 8 ELSE 4
<1>1. "MOV" \in Types
  BY TypeNames DEF OtherTypes
<1>2. i \in Instructions /\ i.len = HeadBytes(c) /\ i.prefix = c.prefix /\ i.size = 32
  BY StartIs
<1>3. Body(c, g) = DecodeMove(c, i)
  BY DEF Body, DecodeOneByte
<1>4. DecodeMove(c, i) = ImmB(c, Register(k, c.op % 8), n)
  BY DEF DecodeMove, PutReverse
<1> HIDE DEF i
<1>5. Alike(m, i) /\ m.type = "MOV" /\ m.size = 32
  BY <1>1, <1>2, Named
<1> HIDE DEF m
<1>6. Typed(k, i) /\ k.reverse = 1 /\ k.type = "MOV" /\ k.size = 32
  <2>1. m \in Instructions
    BY <1>5 DEF Alike
  <2>2. Like(k, m, 1, 0)
    BY <2>1, PutReverseFields
  <2> QED BY <1>5, <2>1, <2>2 DEF Typed, Alike, Like, Instructions
<1>7. n \in Nat
  OBVIOUS
<1> HIDE DEF k, n
<1> QED BY <1>2, <1>3, <1>4, <1>6, <1>7, DecodedOpReg DEF n

LEMMA MovRmImmediateDecoded ==
  ASSUME NEW c \in Codes, NEW g \in Instructions, ~c.two, c.op \in {198, 199}
  PROVE  /\ Is(decode_instr(c, g), c, "MOV",
               IF c.op = 198 THEN 8 ELSE IF c.prefix = "OS" THEN 16 ELSE 32, c.prefix,
               1 + RmBytes(c) + (IF c.op = 198 THEN 1 ELSE IF c.prefix = "OS" THEN 2 ELSE 4))
         /\ RmImm(c, decode_instr(c, g), c.imm)
<1> DEFINE i == Start(c, g)
           m == [i EXCEPT !.type = "MOV"]
           rev == PutReverse(m, 1)
<1>1. "MOV" \in Types
  BY TypeNames DEF OtherTypes
<1>2. i \in Instructions /\ i.len = HeadBytes(c) /\ i.prefix = c.prefix /\ i.size = 32
  BY StartIs
<1>3. Body(c, g) = DecodeMove(c, i)
  BY DEF Body, DecodeOneByte
<1>4. c.op = 198 => DecodeMove(c, i) = ImmB(c, RmA(c, Resize(rev, 8)), 1)
  BY DEF DecodeMove, PutReverse, Resize
<1>5. c.op = 199 /\ i.prefix = "OS" => DecodeMove(c, i) = ImmB(c, RmA(c, Resize(rev, 16)), 2)
  BY DEF DecodeMove, PutReverse, Resize
<1>6. c.op = 199 /\ i.prefix # "OS" => DecodeMove(c, i) = ImmB(c, RmA(c, rev), 4)
  BY DEF DecodeMove, PutReverse
<1> HIDE DEF i
<1>7. Alike(m, i) /\ m.type = "MOV" /\ m.size = 32
  BY <1>1, <1>2, Named
<1> HIDE DEF m
<1>8. Typed(rev, i) /\ rev.reverse = 1 /\ rev.type = "MOV" /\ rev.size = 32
  <2>1. m \in Instructions
    BY <1>7 DEF Alike
  <2>2. Like(rev, m, 1, 0)
    BY <2>1, PutReverseFields
  <2> QED BY <1>7, <2>1, <2>2 DEF Typed, Alike, Like, Instructions
<1> HIDE DEF rev
<1>9. \A s \in {8, 16} : /\ Typed(Resize(rev, s), i) /\ Resize(rev, s).reverse = 1
                         /\ Resize(rev, s).type = "MOV" /\ Resize(rev, s).size = s
  <2> SUFFICES ASSUME NEW s \in {8, 16}
               PROVE  /\ Typed(Resize(rev, s), i) /\ Resize(rev, s).reverse = 1
                      /\ Resize(rev, s).type = "MOV" /\ Resize(rev, s).size = s
    OBVIOUS
  <2>1. rev \in Instructions
    BY <1>8 DEF Typed
  <2>2. Changed(Resize(rev, s), rev, rev.reverse, rev.type, s)
    BY <2>1, ResizeFields
  <2> QED BY <1>8, <2>2 DEF Typed, Changed
<1>10. CASE c.op = 198
  BY <1>2, <1>3, <1>4, <1>9, <1>10, DecodedRmImm
<1>11. CASE c.op = 199 /\ c.prefix = "OS"
  BY <1>2, <1>3, <1>5, <1>9, <1>11, DecodedRmImm
<1>12. CASE c.op = 199 /\ c.prefix # "OS"
  BY <1>2, <1>3, <1>6, <1>8, <1>12, DecodedRmImm
<1> QED BY <1>10, <1>11, <1>12

LEMMA ShiftDecoded ==
  ASSUME NEW c \in Codes, NEW g \in Instructions, ~c.two, c.op \in {192, 193} \cup (208..211)
  PROVE  /\ Is(decode_instr(c, g), c, Shifts[c.reg + 1], ByteOr(c, 32), c.prefix,
               1 + RmBytes(c) + (IF c.op \in {192, 193} THEN 1 ELSE 0))
         /\ c.op \in {192, 193} => RmImm(c, decode_instr(c, g), c.imm)
         /\ c.op \in {208, 209} => RmImm(c, decode_instr(c, g), 1)
         /\ c.op \in {210, 211} => /\ RmIs(c, decode_instr(c, g).a)
                                   /\ IsReg(decode_instr(c, g).b, RCX + Ext(c, "R"))
<1> DEFINE i == Start(c, g)
           t == Shifts[c.reg + 1]
           m == Turn(i, 1, t)
           k == ByteSize(c, m)
           r == RmA(c, k)
           j == Body(c, g)
           d == decode_instr(c, g)
<1>1. t \in Types
  BY TypeNames DEF Codes
<1>2. i \in Instructions /\ i.len = HeadBytes(c) /\ i.prefix = c.prefix /\ i.size = 32
      /\ 1 + RmBytes(c) \in Nat
  BY StartIs
<1>3. j = DecodeShift(c, i)
  BY DEF Body, DecodeOneByte
<1>4. c.op \in {192, 193} => DecodeShift(c, i) = ImmB(c, r, 1)
  BY DEF DecodeShift, Turn
<1>5. c.op \in {208, 209} => DecodeShift(c, i) = OneB(r)
  BY DEF DecodeShift, Turn
<1>6. c.op \in {210, 211} => DecodeShift(c, i) = PutB(r, AsReg(r.b, RCX))
  <2>1. c.op \in {210, 211} => DecodeShift(c, i) = [r EXCEPT !.b.type = {"REG"}, !.b.reg = RCX]
    BY DEF DecodeShift, Turn
  <2>2. [r EXCEPT !.b.type = {"REG"}, !.b.reg = RCX] = PutB(r, AsReg(r.b, RCX))
    BY Zenon DEF PutB, AsReg
  <2> QED BY Zenon, <2>1, <2>2
<1> HIDE DEF i, t
<1>7. Changed(m, i, 1, t, 32)
  <2>1. Changed(m, i, 1, t, i.size)
    BY <1>1, <1>2, TurnFields
  <2> QED BY <1>2, <2>1
<1> HIDE DEF m
<1>8. Typed(k, i) /\ k.reverse = 1 /\ k.type = t /\ k.size = ByteOr(c, 32)
  <2>1. m \in Instructions
    BY <1>7 DEF Changed
  <2>2. Alike(k, m) /\ k.type = m.type /\ k.size = IF c.op % 2 = 0 THEN 8 ELSE m.size
    BY <2>1, ByteSizeFields
  <2> QED BY <1>7, <2>2 DEF Typed, Changed, Alike, ByteOr
<1> HIDE DEF k
<1>9. CASE c.op \in {192, 193}
  BY <1>2, <1>3, <1>4, <1>8, <1>9, DecodedRmImm DEF t
<1>10. CASE c.op \in {208, 209}
  BY <1>2, <1>3, <1>5, <1>8, <1>10, DecodedRmOne DEF t, Is
<1>11. CASE c.op \in {210, 211}
  <2> DEFINE op == AsReg(r.b, RCX)
  <2>1. k \in Instructions /\ RCX \in Nat
    BY <1>8 DEF Typed, RCX
  <2>2. Like(r, k, 1, 1 + RmBytes(c)) /\ r.a = decode_rm(c, k.a)
    BY <1>8, <2>1, RmAFields
  <2> HIDE DEF r
  <2>3. r \in Instructions /\ r.b \in Operands
    BY <2>2 DEF Like, Instructions
  <2>4. op \in Operands /\ IsReg(op, RCX)
    BY <2>1, <2>3, AsRegFields
  <2>5. j = PutB(r, op)
    BY <1>3, <1>6, <1>11
  <2> HIDE DEF op, j, d
  <2>6. Like(j, r, r.reverse, 0) /\ j.b = op /\ j.a = r.a
    BY <2>3, <2>4, <2>5, PutBFields
  <2>7. Parsed(j, i, t, ByteOr(c, 32), 1, 1 + RmBytes(c))
    BY <1>2, <1>8, <2>2, <2>6 DEF Parsed, Like, Typed, Instructions
  <2>8. Is(d, c, t, ByteOr(c, 32), c.prefix, 1 + RmBytes(c)) /\ Extended(c, j, d)
    BY <1>2, <2>7, Rexed DEF j, d
  <2>9. Moved(d.a, j.a, Ext(c, "B"), Ext(c, "X")) /\ Moved(d.b, j.b, Ext(c, "R"), 0)
    BY <2>7, <2>8, RexOperands DEF Parsed
  <2>10. RmIs(c, d.a)
    BY <2>2, <2>6, <2>9, MovedRm
  <2>11. IsReg(d.b, RCX + Ext(c, "R"))
    BY <2>4, <2>6, <2>9, MovedReg
  <2> QED BY <1>2, <1>11, <2>8, <2>10, <2>11 DEF t, d
<1> QED BY <1>9, <1>10, <1>11

(* q is op but for its immediate.                                           *)
SameBut(q, op) == q.type = op.type /\ q.reg = op.reg /\ q.idx = op.idx /\ q.scale = op.scale

LEMMA Imul3Decoded ==
  ASSUME NEW c \in Codes, NEW g \in Instructions, ~c.two, c.op = 105
  PROVE  /\ Is(decode_instr(c, g), c, "IMUL", 32, c.prefix, 1 + RmBytes(c) + 4)
         /\ IsReg(decode_instr(c, g).a, Reg(c)) /\ decode_instr(c, g).b.imm = c.imm
         /\ \E op \in Operands : /\ RmIs(c, op)
                                 /\ SameBut(decode_instr(c, g).b, op)
<1> DEFINE i == Start(c, g)
           k == [i EXCEPT !.type = "IMUL"]
           r == decode_r_rm(c, k)
           op == [r.b EXCEPT !.imm = c.imm]
           m == PutB(r, op)
           j == Body(c, g)
           d == decode_instr(c, g)
           q == [d.b EXCEPT !.imm = r.b.imm]
<1>1. "IMUL" \in Types
  BY TypeNames DEF OtherTypes
<1>2. i \in Instructions /\ i.len = HeadBytes(c) /\ i.prefix = c.prefix /\ i.size = 32
      /\ 1 + RmBytes(c) \in Nat
  BY StartIs
<1>3. j = DecodeMultiply(c, i)
  BY DEF Body, DecodeOneByte
<1>4. DecodeMultiply(c, i) = Fetch(m, 4)
  BY DEF DecodeMultiply, PutB
<1> HIDE DEF i
<1>5. Alike(k, i) /\ k.type = "IMUL" /\ k.size = 32
  BY <1>1, <1>2, Named
<1> HIDE DEF k
<1>6. /\ Parsed(r, i, "IMUL", 32, 0, 1 + RmBytes(c))
      /\ r.b = decode_rm(c, k.b) /\ IsReg(r.a, c.reg)
  BY <1>2, <1>5, TypedRRm
<1> HIDE DEF r
<1>7. r \in Instructions /\ r.b \in Operands
  BY <1>6 DEF Parsed, Instructions
<1>8. op \in Operands /\ op.type = r.b.type /\ op.reg = r.b.reg /\ op.idx = r.b.idx
      /\ op.scale = r.b.scale /\ op.imm = c.imm
  BY <1>7 DEF Operands, Codes
<1> HIDE DEF op
<1>9. Like(m, r, r.reverse, 0) /\ m.b = op /\ m.a = r.a
  BY <1>7, <1>8, PutBFields
<1> HIDE DEF m
<1>10. m \in Instructions
  BY <1>9 DEF Like
<1>11. Like(j, m, m.reverse, 4) /\ j.a = m.a /\ j.b = m.b
  BY <1>3, <1>4, <1>10, FetchFields
<1> HIDE DEF j, d
<1>12. Parsed(j, i, "IMUL", 32, 0, 1 + RmBytes(c) + 4)
  BY <1>2, <1>6, <1>9, <1>11 DEF Parsed, Like, Instructions
<1>13. Is(d, c, "IMUL", 32, c.prefix, 1 + RmBytes(c) + 4) /\ Extended(c, j, d)
  BY <1>2, <1>12, Rexed DEF j, d
<1>14. Moved(d.a, j.a, Ext(c, "R"), 0) /\ Moved(d.b, j.b, Ext(c, "B"), Ext(c, "X"))
  BY <1>12, <1>13, RexOperands DEF Parsed
<1>15. IsReg(d.a, Reg(c))
  BY <1>6, <1>9, <1>11, <1>14, MovedReg DEF Reg
<1>16. Moved(q, r.b, Ext(c, "B"), Ext(c, "X"))
  BY <1>7, <1>8, <1>9, <1>11, <1>14 DEF Moved, Operands
<1>17. RmIs(c, q)
  BY <1>6, <1>16, MovedRm
<1>18. SameBut(d.b, q) /\ q \in Operands
  BY <1>7, <1>14 DEF Moved, Operands, SameBut
<1>19. d.b.imm = c.imm
  BY <1>8, <1>9, <1>11, <1>14 DEF Moved
<1> QED BY <1>13, <1>15, <1>17, <1>18, <1>19 DEF d

LEMMA DecodedAny ==
  ASSUME NEW c \in Codes, NEW g \in Instructions, NEW i \in Instructions, i.len = HeadBytes(c),
         NEW type, NEW size, NEW n \in Nat,
         Parsed(Body(c, g), i, type, size, Body(c, g).reverse, n)
  PROVE  Is(decode_instr(c, g), c, type, size, i.prefix, n)
BY Rexed

LEMMA DecodedImmA ==
  ASSUME NEW c \in Codes, NEW g \in Instructions, NEW i \in Instructions, i.len = HeadBytes(c),
         NEW k, Typed(k, i), NEW n \in Nat, Body(c, g) = ImmA(c, k, n)
  PROVE  /\ Is(decode_instr(c, g), c, k.type, k.size, i.prefix, n)
         /\ IsImm(decode_instr(c, g).a, c.imm)
<1> DEFINE j == Body(c, g)
           d == decode_instr(c, g)
<1>1. k \in Instructions
  BY DEF Typed
<1>2. Like(j, k, k.reverse, n) /\ IsImm(j.a, c.imm)
  BY <1>1, ImmAFields
<1> HIDE DEF j
<1>3. Parsed(j, i, k.type, k.size, j.reverse, n) /\ j \in Instructions /\ j.reverse \in {0, 1}
  BY <1>2 DEF Parsed, Like, Typed, Instructions
<1>4. Is(d, c, k.type, k.size, i.prefix, n) /\ Extended(c, j, d)
  BY <1>3, Rexed DEF j
<1> HIDE DEF d
<1>5. CASE j.reverse = 1
  BY <1>2, <1>3, <1>4, <1>5, RexOperands, MovedImm DEF d
<1>6. CASE j.reverse = 0
  BY <1>2, <1>3, <1>4, <1>6, RexOperands, MovedImm DEF d
<1> QED BY <1>3, <1>5, <1>6

LEMMA JumpDecoded ==
  ASSUME NEW c \in Codes, NEW g \in Instructions, ~c.two,
         c.op \in (112..127) \cup {232, 233, 235}
  PROVE  /\ Is(decode_instr(c, g), c, IF c.op \in 112..127 THEN Jcc[c.op - 111]
                                      ELSE IF c.op = 232 THEN "CALL" ELSE "JMP",
               32, c.prefix, IF c.op \in {232, 233} THEN 4 ELSE 1)
         /\ IsImm(decode_instr(c, g).a, c.imm)
<1> DEFINE i == Start(c, g)
           t == IF c.op \in 112..127 THEN Jcc[c.op - 111] ELSE IF c.op = 232 THEN "CALL" ELSE "JMP"
           m == [i EXCEPT !.type = t]
           k == IF c.op \in {233, 235} THEN [m EXCEPT !.ret = TRUE] ELSE m
           n == IF c.op \in {232, 233} THEN 4 ELSE 1
<1>1. t \in Types
  <2>1. c.op \in 112..127 => Jcc[c.op - 111] \in Types
    <3>1. c.op \in 112..127 => c.op - 111 \in 1..16
      OBVIOUS
    <3> QED BY <3>1, TypeNames
  <2>2. "CALL" \in Types /\ "JMP" \in Types
    BY TypeNames DEF OtherTypes
  <2> QED BY <2>1, <2>2
<1>2. i \in Instructions /\ i.len = HeadBytes(c) /\ i.prefix = c.prefix /\ i.size = 32
  BY StartIs
<1>3. Body(c, g) = DecodeJump(c, i)
  BY DEF Body, DecodeOneByte
<1>4. c.op \in 112..127 => t = Jcc[c.op - 111]
  OBVIOUS
<1>10. c.op = 232 => t = "CALL"
  OBVIOUS
<1>11. c.op \in {233, 235} => t = "JMP"
  OBVIOUS
<1> SUFFICES /\ Is(decode_instr(c, g), c, t, 32, c.prefix, IF c.op \in {232, 233} THEN 4 ELSE 1)
             /\ IsImm(decode_instr(c, g).a, c.imm)
  OBVIOUS
<1> HIDE DEF i, t
<1>5. Alike(m, i) /\ m.type = t /\ m.size = 32
  BY <1>1, <1>2, Named
<1>6. Typed(m, i)
  <2> HIDE DEF m
  <2> QED BY <1>5 DEF Alike, Typed, Instructions
<1>7. CASE c.op \in 112..127
  <2>1. DecodeJump(c, i) = ImmA(c, m, 1)
    BY <1>4, <1>7 DEF DecodeJump
  <2> HIDE DEF m
  <2> QED BY <1>2, <1>3, <1>5, <1>6, <1>7, <2>1, DecodedImmA
<1>8. CASE c.op = 232
  <2>1. DecodeJump(c, i) = ImmA(c, m, 4)
    BY <1>8, <1>10 DEF DecodeJump
  <2> HIDE DEF m
  <2> QED BY <1>2, <1>3, <1>5, <1>6, <1>8, <2>1, DecodedImmA
<1>9. CASE c.op \in {233, 235}
  <2> DEFINE y == [m EXCEPT !.ret = TRUE]
             e == IF c.op = 233 THEN 4 ELSE 1
  <2>1. DecodeJump(c, i) = ImmA(c, y, e)
    <3>1. c.op = 233 => DecodeJump(c, i) = ImmA(c, [i EXCEPT !.type = "JMP", !.ret = TRUE], 4)
      BY DEF DecodeJump
    <3>2. c.op = 235 => DecodeJump(c, i) = ImmA(c, [i EXCEPT !.type = "JMP", !.ret = TRUE], 1)
      BY DEF DecodeJump
    <3>3. y = [i EXCEPT !.type = "JMP", !.ret = TRUE]
      BY <1>9, <1>11
    <3> HIDE DEF y
    <3> QED BY <1>9, <3>1, <3>2, <3>3
  <2>2. e \in Nat
    OBVIOUS
  <2>3. Typed(y, i) /\ y.type = t /\ y.size = 32
    <3> HIDE DEF m, e
    <3> QED BY <1>5, <1>6 DEF Typed, Alike, Instructions
  <2> HIDE DEF y, e
  <2>4. Is(decode_instr(c, g), c, t, 32, c.prefix, e) /\ IsImm(decode_instr(c, g).a, c.imm)
    BY <1>2, <1>3, <2>1, <2>2, <2>3, DecodedImmA
  <2> QED BY <1>9, <2>4 DEF e
<1> QED BY <1>7, <1>8, <1>9

(* An Instruction whose first operand, or both, are none.                   *)
NoA(i) == [i EXCEPT !.a.type = {}]
NoB(i) == [i EXCEPT !.b.type = {}]

LEMMA WithoutA ==
  ASSUME NEW i \in Instructions, NEW k, Typed(k, i)
  PROVE  Typed(NoA(k), i) /\ NoA(k).type = k.type /\ NoA(k).size = k.size
<1>1. k \in Instructions /\ k.a \in Operands
  BY DEF Typed, Instructions
<1>2. NoA(k) = PutA(k, AsNone(k.a))
  BY Zenon DEF NoA, PutA, AsNone
<1>3. AsNone(k.a) \in Operands
  BY <1>1, AsNoneFields
<1>4. Like(PutA(k, AsNone(k.a)), k, k.reverse, 0)
  BY <1>1, <1>3, PutAFields
<1>5. k.len + 0 = k.len
  BY <1>1 DEF Instructions
<1> DEFINE q == PutA(k, AsNone(k.a))
<1> HIDE DEF q
<1>6. q \in Instructions /\ q.prefix = k.prefix /\ q.len = k.len /\ q.type = k.type /\ q.size = k.size
  BY <1>4, <1>5 DEF Like, q
<1> QED BY Zenon, <1>2, <1>6 DEF Typed, q

LEMMA WithoutB ==
  ASSUME NEW i \in Instructions, NEW k, Typed(k, i)
  PROVE  /\ Typed(NoB(k), i) /\ NoB(k).type = k.type /\ NoB(k).size = k.size
         /\ NoB(k).reverse = k.reverse /\ NoB(k).a = k.a
<1>1. k \in Instructions /\ k.b \in Operands
  BY DEF Typed, Instructions
<1>2. NoB(k) = PutB(k, AsNone(k.b))
  BY Zenon DEF NoB, PutB, AsNone
<1>3. AsNone(k.b) \in Operands
  BY <1>1, AsNoneFields
<1>4. Like(PutB(k, AsNone(k.b)), k, k.reverse, 0) /\ PutB(k, AsNone(k.b)).a = k.a
  BY <1>1, <1>3, PutBFields
<1>5. k.len + 0 = k.len
  BY <1>1 DEF Instructions
<1> DEFINE q == PutB(k, AsNone(k.b))
<1> HIDE DEF q
<1>6. q \in Instructions /\ q.prefix = k.prefix /\ q.len = k.len /\ q.type = k.type /\ q.size = k.size
      /\ q.reverse = k.reverse /\ q.a = k.a
  BY <1>4, <1>5 DEF Like, q
<1> QED BY Zenon, <1>2, <1>6 DEF Typed, q

LEMMA DecodedBare ==
  ASSUME NEW c \in Codes, NEW g \in Instructions, NEW i \in Instructions, i.len = HeadBytes(c),
         NEW k, Typed(k, i), Body(c, g) = NoA(k)
  PROVE  Is(decode_instr(c, g), c, k.type, k.size, i.prefix, 0)
<1> DEFINE j == NoA(k)
<1>1. Typed(j, i) /\ j.type = k.type /\ j.size = k.size
  BY WithoutA
<1> HIDE DEF j
<1>2. j.len = i.len + 0
  BY <1>1 DEF Typed, Instructions
<1>3. Parsed(j, i, k.type, k.size, j.reverse, 0)
  BY <1>1, <1>2 DEF Typed, Parsed
<1> QED BY <1>3, DecodedAny DEF j

BareType(op) == CASE op = 144 -> "NOP" [] op = 152 -> "CLTQ" [] op = 153 -> "CLTD"
                  [] op = 201 -> "LEAVE" [] op \in {195, 244} -> "RET"

LEMMA BareDecoded ==
  ASSUME NEW c \in Codes, NEW g \in Instructions, ~c.two, c.op \in {144, 152, 153, 195, 201, 244}
  PROVE  Is(decode_instr(c, g), c, BareType(c.op), 32, c.prefix, 0)
<1> DEFINE i == Start(c, g)
           t == BareType(c.op)
           k == [i EXCEPT !.type = t]
           r == [k EXCEPT !.ret = TRUE]
<1>1. t \in Types
  BY TypeNames DEF OtherTypes, BareType
<1>2. i \in Instructions /\ i.len = HeadBytes(c) /\ i.prefix = c.prefix /\ i.size = 32
  BY StartIs
<1>3. c.op \in {144, 152, 153, 201} => Body(c, g) = NoA(k)
  <2>1. c.op = 144 => Body(c, g) = NoA(k)
    <3>1. c.op = 144 => Body(c, g) = [i EXCEPT !.type = "NOP", !.a.type = {}] /\ t = "NOP"
      BY DEF Body, DecodeOneByte, BareType
    <3> HIDE DEF i, t
    <3> QED BY <3>1 DEF NoA
  <2>2. c.op = 152 => Body(c, g) = NoA(k)
    <3>1. c.op = 152 => Body(c, g) = [i EXCEPT !.type = "CLTQ", !.a.type = {}] /\ t = "CLTQ"
      BY DEF Body, DecodeOneByte, BareType
    <3> HIDE DEF i, t
    <3> QED BY <3>1 DEF NoA
  <2>3. c.op = 153 => Body(c, g) = NoA(k)
    <3>1. c.op = 153 => Body(c, g) = [i EXCEPT !.type = "CLTD", !.a.type = {}] /\ t = "CLTD"
      BY DEF Body, DecodeOneByte, BareType
    <3> HIDE DEF i, t
    <3> QED BY <3>1 DEF NoA
  <2>4. c.op = 201 => Body(c, g) = NoA(k)
    <3>1. c.op = 201 => Body(c, g) = [i EXCEPT !.type = "LEAVE", !.a.type = {}] /\ t = "LEAVE"
      BY DEF Body, DecodeOneByte, BareType
    <3> HIDE DEF i, t
    <3> QED BY <3>1 DEF NoA
  <2> HIDE DEF i, t
  <2> QED BY Zenon, <2>1, <2>2, <2>3, <2>4
<1>4. c.op \in {195, 244} => Body(c, g) = NoA(r)
  <2>1. c.op \in {195, 244} => Body(c, g) = DecodeJump(c, i)
    BY DEF Body, DecodeOneByte
  <2>2. c.op \in {195, 244} => DecodeJump(c, i) = [i EXCEPT !.type = "RET", !.a.type = {}, !.ret = TRUE]
    BY DEF DecodeJump
  <2>3. c.op \in {195, 244} => t = "RET"
    BY DEF BareType
  <2>4. NoA(r) = [i EXCEPT !.type = t, !.a.type = {}, !.ret = TRUE]
    <3> HIDE DEF t
    <3>1. i \in Instructions /\ t \in Types
      BY <1>1, <1>2
    <3> HIDE DEF i
    <3> QED BY <3>1 DEF Instructions, Types, NoA
  <2> QED BY Zenon, <2>1, <2>2, <2>3, <2>4
<1> HIDE DEF i, t
<1>5. Alike(k, i) /\ k.type = t /\ k.size = 32
  BY <1>1, <1>2, Named
<1> HIDE DEF k
<1>6. Typed(k, i) /\ Typed(r, i) /\ r.type = t /\ r.size = 32
  BY <1>5 DEF Alike, Typed, Instructions
<1> HIDE DEF r
<1>7. CASE c.op \in {144, 152, 153, 201}
  BY <1>2, <1>3, <1>5, <1>6, <1>7, DecodedBare DEF t
<1>8. CASE c.op \in {195, 244}
  BY <1>2, <1>4, <1>6, <1>8, DecodedBare DEF t
<1> QED BY <1>7, <1>8

LEMMA DecodedLike ==
  ASSUME NEW c \in Codes, NEW g \in Instructions, NEW i \in Instructions, i.len = HeadBytes(c),
         NEW k, Typed(k, i), NEW n \in Nat, NEW r, Like(Body(c, g), k, r, n)
  PROVE  Is(decode_instr(c, g), c, k.type, k.size, i.prefix, n)
<1>1. Parsed(Body(c, g), i, k.type, k.size, Body(c, g).reverse, n)
  BY DEF Parsed, Like, Typed
<1> QED BY <1>1, DecodedAny

LEMMA PushPopDecoded ==
  ASSUME NEW c \in Codes, NEW g \in Instructions, ~c.two, c.op \in (80..95) \cup {104, 106, 143}
  PROVE  Is(decode_instr(c, g), c, IF c.op \in (88..95) \cup {143} THEN "POP" ELSE "PUSH",
            IF c.op \in {104, 106} THEN 32 ELSE 64, c.prefix,
            IF c.op = 104 THEN 4 ELSE IF c.op = 106 THEN 1
            ELSE IF c.op = 143 THEN 1 + RmBytes(c) ELSE 0)
<1> DEFINE i == Start(c, g)
           k == [i EXCEPT !.size = 64, !.reverse = 1]
           j == NoB(k)
           m == Register(j, c.op % 8)
           d == decode_instr(c, g)
<1>1. "PUSH" \in Types /\ "POP" \in Types
  BY TypeNames DEF OtherTypes
<1>2. i \in Instructions /\ i.len = HeadBytes(c) /\ i.prefix = c.prefix /\ i.size = 32
      /\ 1 + RmBytes(c) \in Nat
  BY StartIs
<1>3. Body(c, g) = DecodeStack(c, i)
  BY DEF Body, DecodeOneByte
<1>4. c.op \in 80..87 => DecodeStack(c, i) = [m EXCEPT !.type = "PUSH"]
  BY DEF DecodeStack, NoB
<1>5. c.op \in 88..95 => DecodeStack(c, i) = [m EXCEPT !.type = "POP"]
  BY DEF DecodeStack, NoB
<1>6. c.op = 104 => DecodeStack(c, i) = ImmA(c, [i EXCEPT !.type = "PUSH"], 4)
  BY DEF DecodeStack
<1>7. c.op = 106 => DecodeStack(c, i) = ImmA(c, [i EXCEPT !.type = "PUSH"], 1)
  BY DEF DecodeStack
<1>8. c.op = 143 => DecodeStack(c, i) = RmA(c, [j EXCEPT !.type = "POP"])
  BY DEF DecodeStack, NoB
<1> HIDE DEF i
<1>9. Typed(k, i) /\ k.size = 64
  BY <1>2 DEF Typed, Instructions
<1> HIDE DEF k
<1>10. Typed(j, i) /\ j.size = 64
  BY <1>2, <1>9, WithoutB
<1> HIDE DEF j
<1>11. CASE c.op \in 80..95
  <2> DEFINE r == c.op % 8
             t == IF c.op \in 88..95 THEN "POP" ELSE "PUSH"
             q == [m EXCEPT !.type = t]
  <2>1. r \in Nat /\ t \in Types
    BY <1>1 DEF Codes
  <2>2. Body(c, g) = q
    BY <1>3, <1>4, <1>5, <1>11
  <2> HIDE DEF r, t
  <2>3. j \in Instructions
    BY <1>10 DEF Typed
  <2>4. Like(m, j, j.reverse, 0)
    BY <2>1, <2>3, RegisterFields DEF r
  <2> HIDE DEF m
  <2>5. m \in Instructions /\ m.size = 64 /\ m.prefix = i.prefix /\ m.len = i.len
    BY <1>2, <1>10, <2>4 DEF Like, Typed, Instructions
  <2>6. Alike(q, m) /\ q.type = t /\ q.size = 64
    BY <2>1, <2>5, Named
  <2> HIDE DEF q
  <2>7. Parsed(q, i, t, 64, q.reverse, 0)
    BY <1>2, <2>5, <2>6 DEF Alike, Parsed, Instructions
  <2>8. Is(d, c, t, 64, c.prefix, 0)
    BY <1>2, <2>2, <2>7, DecodedAny
  <2> QED BY <1>11, <2>8 DEF t
<1>12. CASE c.op \in {104, 106}
  <2> DEFINE q == [i EXCEPT !.type = "PUSH"]
  <2>1. Alike(q, i) /\ q.type = "PUSH" /\ q.size = 32
    BY <1>1, <1>2, Named
  <2>2. c.op = 104 => Body(c, g) = ImmA(c, q, 4)
    BY <1>3, <1>6
  <2>3. c.op = 106 => Body(c, g) = ImmA(c, q, 1)
    BY <1>3, <1>7
  <2> HIDE DEF q
  <2>4. Typed(q, i)
    BY <2>1 DEF Typed, Alike
  <2> QED BY <1>2, <1>12, <2>1, <2>2, <2>3, <2>4, DecodedImmA
<1>13. CASE c.op = 143
  <2> DEFINE q == [j EXCEPT !.type = "POP"]
  <2>1. j \in Instructions
    BY <1>10 DEF Typed
  <2>2. Alike(q, j) /\ q.type = "POP" /\ q.size = 64
    BY <1>1, <1>10, <2>1, Named
  <2>3. Body(c, g) = RmA(c, q)
    BY <1>3, <1>8, <1>13
  <2> HIDE DEF q
  <2>4. Typed(q, i) /\ q \in Instructions
    BY <1>10, <2>2 DEF Typed, Alike
  <2>5. Like(RmA(c, q), q, q.reverse, 1 + RmBytes(c))
    BY <2>4, RmAFields
  <2>6. Is(d, c, "POP", 64, c.prefix, 1 + RmBytes(c))
    BY <1>2, <2>2, <2>3, <2>4, <2>5, DecodedLike
  <2> QED BY <1>13, <2>6
<1> QED BY <1>11, <1>12, <1>13

-----------------------------------------------------------------------------
(* What the encoder may take for granted of an operand.                     *)
RegOp(op) == op.type \in {{"REG"}, {"REG", "XMM"}} /\ op.reg \in 0..15
ImmOp(op) == op.type = {"IMM"}
MemOp(op) ==
  /\ "MEM" \in op.type /\ "XMM" \notin op.type
  /\ "REG" \in op.type => op.reg \in 0..15
  /\ "IDX" \in op.type => op.idx \in 0..15
  /\ "REG" \in op.type \/ "IDX" \in op.type \/ op.type = {"MEM", "IMM"}

LEMMA RmShape ==
  ASSUME NEW c \in Codes, NEW o, NEW q, NEW n \in {0, 8}, NEW m \in {0, 8},
         Moved(q, decode_rm(c, o), n, m)
  PROVE  RegOp(q) \/ MemOp(q)
<1>1. CASE c.mod = 3
  <2>1. decode_rm(c, o) = [o EXCEPT !.type = {"REG"}, !.reg = c.rm]
    BY <1>1 DEF decode_rm
  <2>2. RegOp(q)
    BY <1>1, <2>1 DEF RegOp, Moved, Codes, Operands
  <2> QED BY <2>2
<1>2. CASE c.mod # 3
  <2> DEFINE disp == Bare(c) \/ c.mod # 0
  <2>1. decode_rm(c, o) =
          [type |-> MemoryType(c),
           reg |-> IF c.rm = 4 THEN c.base ELSE IF Bare(c) THEN o.reg ELSE c.rm,
           idx |-> IF c.rm = 4 THEN c.index ELSE o.idx,
           scale |-> IF c.rm = 4 THEN c.scale ELSE o.scale,
           imm |-> IF disp THEN c.disp ELSE o.imm]
    BY <1>2 DEF decode_rm, MemoryType
  <2>2. /\ q.type = MemoryType(c)
        /\ ~Bare(c) => q.reg = n + IF c.rm = 4 THEN c.base ELSE c.rm
        /\ c.rm = 4 => q.idx = c.index + m
    BY <2>1 DEF Moved, Codes
  <2>3. /\ "MEM" \in MemoryType(c) /\ "XMM" \notin MemoryType(c)
        /\ "REG" \in MemoryType(c) <=> ~Bare(c)
        /\ "IDX" \in MemoryType(c) <=> c.rm = 4 /\ c.index # 4
    BY DEF MemoryType
  <2>4. Bare(c) /\ ~(c.rm = 4 /\ c.index # 4) => MemoryType(c) = {"MEM", "IMM"}
    BY DEF MemoryType
  <2>5. MemOp(q)
    BY <2>2, <2>3, <2>4 DEF MemOp, Codes
  <2> QED BY <2>5
<1> QED BY <1>1, <1>2

LEMMA RegShape ==
  ASSUME NEW o, NEW q, NEW k \in 0..7, NEW n \in {0, 8}, NEW m, Moved(q, o, n, m), IsReg(o, k)
  PROVE  RegOp(q)
BY DEF Moved, IsReg, RegOp

LEMMA EitherWay ==
  ASSUME NEW c \in Codes, NEW j \in Instructions, NEW d, Extended(c, j, d)
  PROVE  \E n \in {0, 8}, m \in {0, 8}, n2 \in {0, 8}, m2 \in {0, 8} :
           Moved(d.a, j.a, n, m) /\ Moved(d.b, j.b, n2, m2)
<1>1. Ext(c, "B") \in {0, 8} /\ Ext(c, "R") \in {0, 8} /\ Ext(c, "X") \in {0, 8}
  BY ExtSize
<1>2. CASE j.reverse = 1
  <2>1. Moved(d.a, j.a, Ext(c, "B"), Ext(c, "X")) /\ Moved(d.b, j.b, Ext(c, "R"), 0)
    BY <1>2, RexOperands
  <2> QED BY <1>1, <2>1
<1>3. CASE j.reverse = 0
  <2>1. Moved(d.a, j.a, Ext(c, "R"), 0) /\ Moved(d.b, j.b, Ext(c, "B"), Ext(c, "X"))
    BY <1>3, RexOperands
  <2> QED BY <1>1, <2>1
<1> QED BY <1>2, <1>3 DEF Instructions

LEMMA TypesHavePanic == "panic" \in Types
BY Zenon DEF Types

LEMMA DecodedUnknown ==
  ASSUME NEW c \in Codes, NEW g \in Instructions, Body(c, g) = Unknown(Start(c, g))
  PROVE  Is(decode_instr(c, g), c, "panic", 32, c.prefix, 0)
<1> DEFINE i == Start(c, g)
           k == [i EXCEPT !.type = "panic"]
<1>1. i \in Instructions /\ i.len = HeadBytes(c) /\ i.prefix = c.prefix /\ i.size = 32
  BY StartIs
<1>2. Body(c, g) = k
  BY DEF Unknown
<1> HIDE DEF i
<1>3. Alike(k, i) /\ k.type = "panic" /\ k.size = 32
  BY <1>1, TypesHavePanic, Named
<1> HIDE DEF k
<1>4. Parsed(k, i, "panic", 32, k.reverse, 0)
  BY <1>1, <1>3 DEF Alike, Parsed, Instructions
<1> QED BY <1>1, <1>2, <1>4, DecodedAny

LEMMA WideMultiplyDecoded ==
  ASSUME NEW c \in Codes, NEW g \in Instructions, ~c.two, c.op = 247, c.reg \in {5, 7}
  PROVE  /\ Is(decode_instr(c, g), c, IF c.reg = 7 THEN "IDIV" ELSE "IMUL", 32, c.prefix,
               1 + RmBytes(c))
         /\ RegOp(decode_instr(c, g).a) /\ decode_instr(c, g).a.reg \in {0, 8}
         /\ RegOp(decode_instr(c, g).b) \/ MemOp(decode_instr(c, g).b)
<1> DEFINE i == Start(c, g)
           t == IF c.reg = 7 THEN "IDIV" ELSE "IMUL"
           k == [i EXCEPT !.type = t]
           m == Register(k, RAX)
           j == Body(c, g)
           d == decode_instr(c, g)
<1>1. t \in Types /\ RAX \in Nat /\ RAX \in 0..7
  BY TypeNames DEF OtherTypes, RAX
<1>2. i \in Instructions /\ i.len = HeadBytes(c) /\ i.prefix = c.prefix /\ i.size = 32
      /\ 1 + RmBytes(c) \in Nat
  BY StartIs
<1>3. j = DecodeMultiply(c, i)
  BY DEF Body, DecodeOneByte
<1>4. c.reg = 7 => DecodeMultiply(c, i) = RmB(c, Register([i EXCEPT !.type = "IDIV"], RAX))
  BY DEF DecodeMultiply
<1>5. c.reg = 5 => DecodeMultiply(c, i) = RmB(c, Register([i EXCEPT !.type = "IMUL"], RAX))
  BY DEF DecodeMultiply
<1>6. j = RmB(c, m)
  BY <1>3, <1>4, <1>5
<1> HIDE DEF i, t
<1>7. Alike(k, i) /\ k.type = t /\ k.size = 32 /\ k \in Instructions
  BY <1>1, <1>2, Named DEF Alike
<1> HIDE DEF k
<1>8. Like(m, k, k.reverse, 0) /\ IsReg(m.a, RAX)
  BY <1>1, <1>7, RegisterFields
<1> HIDE DEF m
<1>9. m \in Instructions
  BY <1>8 DEF Like
<1>10. Like(j, m, m.reverse, 1 + RmBytes(c)) /\ j.b = decode_rm(c, m.b) /\ j.a = m.a
  BY <1>6, <1>9, RmBFields
<1> HIDE DEF j, d
<1>11. Parsed(j, i, t, 32, j.reverse, 1 + RmBytes(c)) /\ j \in Instructions
  BY <1>2, <1>7, <1>8, <1>10 DEF Alike, Like, Parsed, Instructions
<1>12. Is(d, c, t, 32, c.prefix, 1 + RmBytes(c)) /\ Extended(c, j, d)
  BY <1>2, <1>11, Rexed DEF j, d
<1>13. PICK n \in {0, 8}, o \in {0, 8}, n2 \in {0, 8}, o2 \in {0, 8} :
         Moved(d.a, j.a, n, o) /\ Moved(d.b, j.b, n2, o2)
  BY <1>11, <1>12, EitherWay
<1>14. RegOp(d.a) /\ d.a.reg \in {0, 8}
  BY <1>1, <1>8, <1>10, <1>13, RegShape DEF IsReg, Moved, RAX
<1>15. RegOp(d.b) \/ MemOp(d.b)
  BY <1>10, <1>13, RmShape
<1> QED BY <1>12, <1>14, <1>15 DEF d, t

LEMMA GroupDecoded ==
  ASSUME NEW c \in Codes, NEW g \in Instructions, ~c.two, c.op \in {254, 255}
  PROVE  /\ c.reg \in {0, 1} =>
              /\ Is(decode_instr(c, g), c, IF c.reg = 0 THEN "ADD" ELSE "SUB", ByteOr(c, 32),
                    c.prefix, 1 + RmBytes(c))
              /\ RmImm(c, decode_instr(c, g), 1)
         /\ c.reg \in {2, 4, 6} =>
              /\ Is(decode_instr(c, g), c,
                    IF c.reg = 2 THEN "CALL" ELSE IF c.reg = 4 THEN "JMP" ELSE "PUSH", 64,
                    c.prefix, 1 + RmBytes(c))
              /\ RmIs(c, decode_instr(c, g).a)
         /\ c.reg \notin {0, 1, 2, 4, 6} =>
              Is(decode_instr(c, g), c, "panic", ByteOr(c, 32), c.prefix, 1 + RmBytes(c))
<1> DEFINE i == Start(c, g)
           p == PutReverse(i, 1)
           k == ByteSize(c, p)
           m == RmA(c, k)
           j == Body(c, g)
           d == decode_instr(c, g)
           rm == 1 + RmBytes(c)
           size == ByteOr(c, 32)
<1>1. /\ "ADD" \in Types /\ "SUB" \in Types /\ "CALL" \in Types /\ "JMP" \in Types
      /\ "PUSH" \in Types /\ "panic" \in Types
  BY TypeNames, TypesHavePanic DEF OtherTypes
<1>2. i \in Instructions /\ i.len = HeadBytes(c) /\ i.prefix = c.prefix /\ i.size = 32 /\ rm \in Nat
  BY StartIs
<1>3. j = decode_GRP3(m, c.reg)
  BY DEF Body, DecodeOneByte, PutReverse
<1> HIDE DEF i
<1>4. Like(p, i, 1, 0)
  BY <1>2, PutReverseFields
<1> HIDE DEF p
<1>5. Typed(k, i) /\ k.reverse = 1 /\ k.size = size /\ k \in Instructions
  <2>1. p \in Instructions /\ p.len = i.len /\ p.size = 32 /\ p.prefix = i.prefix /\ p.reverse = 1
    BY <1>2, <1>4 DEF Like, Instructions
  <2>2. Alike(k, p) /\ k.size = IF c.op % 2 = 0 THEN 8 ELSE p.size
    BY <2>1, ByteSizeFields
  <2> QED BY <2>1, <2>2 DEF Typed, Alike, ByteOr
<1> HIDE DEF k, rm, size
<1>6. Like(m, k, 1, rm) /\ m.a = decode_rm(c, k.a)
  BY <1>5, RmAFields DEF rm
<1> HIDE DEF m, j, d
<1>7. m \in Instructions /\ m.len = HeadBytes(c) + rm /\ m.prefix = c.prefix /\ m.reverse = 1
      /\ m.size = size
  BY <1>2, <1>5, <1>6 DEF Like, Typed, Instructions
<1>8. ASSUME NEW q, NEW t \in Types, NEW s \in Nat,
             q \in Instructions, q.prefix = m.prefix, q.len = m.len, q.reverse = 1, q.a = m.a,
             q.type = t, q.size = s, j = q
      PROVE  Is(d, c, t, s, c.prefix, rm) /\ RmIs(c, d.a) /\ Extended(c, j, d)
  <2>1. Parsed(j, i, t, s, 1, rm) /\ j \in Instructions
    BY <1>2, <1>7, <1>8 DEF Parsed
  <2>2. Is(d, c, t, s, c.prefix, rm) /\ Extended(c, j, d)
    BY <1>2, <2>1, Rexed DEF j, d
  <2>3. Moved(d.a, j.a, Ext(c, "B"), Ext(c, "X"))
    BY <1>8, <2>1, <2>2, RexOperands
  <2>4. RmIs(c, d.a)
    BY <1>6, <1>8, <2>3, MovedRm
  <2> QED BY <2>2, <2>4
<1>9. CASE c.reg \in {0, 1}
  <2> DEFINE t == IF c.reg = 0 THEN "ADD" ELSE "SUB"
             n == [m EXCEPT !.type = t]
             q == OneB(n)
  <2>1. c.reg = 0 => decode_GRP3(m, c.reg) = OneB([m EXCEPT !.type = "ADD"])
    BY DEF decode_GRP3
  <2>2. c.reg = 1 => decode_GRP3(m, c.reg) = OneB([m EXCEPT !.type = "SUB"])
    BY DEF decode_GRP3
  <2>3. j = q /\ t \in Types
    BY <1>1, <1>3, <1>9, <2>1, <2>2
  <2> HIDE DEF t
  <2>4. Alike(n, m) /\ n.type = t /\ n.size = size /\ n \in Instructions
    BY <1>7, <2>3, Named DEF Alike
  <2> HIDE DEF n
  <2>5. Like(q, n, n.reverse, 0) /\ IsImm(q.b, 1) /\ q.a = n.a
    BY <2>4, OneBFields
  <2> HIDE DEF q
  <2>6. /\ q \in Instructions /\ q.prefix = m.prefix /\ q.len = m.len /\ q.reverse = 1 /\ q.a = m.a
        /\ q.type = t /\ q.size = size /\ size \in Nat
    BY <1>7, <2>4, <2>5 DEF Like, Alike, Instructions
  <2>7. Is(d, c, t, size, c.prefix, rm) /\ RmIs(c, d.a) /\ Extended(c, j, d)
    BY <1>8, <2>3, <2>6
  <2>8. IsImm(d.b, 1)
    BY <2>3, <2>5, <2>6, <2>7, RexOperands, MovedImm
  <2> QED BY <1>9, <2>7, <2>8 DEF t, rm, size, d, RmImm
<1>10. CASE c.reg \in {2, 4, 6}
  <2> DEFINE t == IF c.reg = 2 THEN "CALL" ELSE IF c.reg = 4 THEN "JMP" ELSE "PUSH"
             l == [m EXCEPT !.size = 64]
             far == NoB(l)
             e == IF c.reg = 4 THEN [far EXCEPT !.ret = TRUE] ELSE far
             q == [e EXCEPT !.type = t]
  <2>1. c.reg = 2 => decode_GRP3(m, c.reg) = [far EXCEPT !.type = "CALL"]
    BY DEF decode_GRP3, NoB
  <2>2. c.reg = 4 => decode_GRP3(m, c.reg) = [far EXCEPT !.type = "JMP", !.ret = TRUE]
    BY DEF decode_GRP3, NoB
  <2>3. c.reg = 6 => decode_GRP3(m, c.reg) = [far EXCEPT !.type = "PUSH"]
    BY DEF decode_GRP3, NoB
  <2>4. Typed(l, l) /\ l \in Instructions /\ l.prefix = m.prefix /\ l.len = m.len /\ l.a = m.a
        /\ l.reverse = 1 /\ l.size = 64
    BY <1>7 DEF Typed, Instructions
  <2> HIDE DEF l
  <2>5. Typed(far, l) /\ far.size = 64 /\ far.reverse = 1 /\ far.a = m.a
    BY <2>4, WithoutB
  <2> HIDE DEF far
  <2>6. far \in Instructions /\ far.prefix = m.prefix /\ far.len = m.len
    BY <2>4, <2>5 DEF Typed
  <2>7. c.reg = 4 => [[far EXCEPT !.ret = TRUE] EXCEPT !.type = "JMP"]
                     = [far EXCEPT !.type = "JMP", !.ret = TRUE]
    BY <2>6 DEF Instructions
  <2>8. j = q
    BY <1>3, <1>10, <2>1, <2>2, <2>3, <2>7
  <2>9. t \in Types
    BY <1>1
  <2> HIDE DEF t
  <2>10. /\ e \in Instructions /\ e.prefix = m.prefix /\ e.len = m.len /\ e.reverse = 1
         /\ e.a = m.a /\ e.size = 64
    BY <2>5, <2>6 DEF Instructions
  <2> HIDE DEF e
  <2>11. Alike(q, e) /\ q.type = t /\ q.size = 64
    BY <2>9, <2>10, Named
  <2> HIDE DEF q
  <2>12. Is(d, c, t, 64, c.prefix, rm) /\ RmIs(c, d.a)
    BY <1>8, <2>8, <2>9, <2>10, <2>11 DEF Alike
  <2> QED BY <1>10, <2>12 DEF t, rm, d
<1>11. CASE c.reg \notin {0, 1, 2, 4, 6}
  <2> DEFINE q == [m EXCEPT !.type = "panic"]
  <2>1. j = q
    BY <1>3, <1>11 DEF decode_GRP3, Unknown
  <2>2. Alike(q, m) /\ q.type = "panic" /\ q.size = size
    BY <1>1, <1>7, Named
  <2> HIDE DEF q
  <2>3. size \in Nat
    BY <1>7 DEF Instructions
  <2>4. Is(d, c, "panic", size, c.prefix, rm)
    BY <1>1, <1>7, <1>8, <2>1, <2>2, <2>3 DEF Alike
  <2> QED BY <1>11, <2>4 DEF rm, d, size
<1> QED BY <1>9, <1>10, <1>11

-----------------------------------------------------------------------------
(***************************************************************************)
(* The opcodes of two bytes.                                                *)
(***************************************************************************)
XmmIs(op, n) == op.type = {"REG", "XMM"} /\ op.reg = n
XrmIs(c, op) == IF c.mod = 3 THEN XmmIs(op, Rm(c)) ELSE MemoryIs(c, op)
RegXmm(op) == IF op.type = {"REG"} THEN WithXmm(op) ELSE op

LEMMA XmmFields ==
  ASSUME NEW op \in Operands
  PROVE  /\ WithXmm(op) \in Operands /\ RegXmm(op) \in Operands
         /\ WithXmm(op).type = op.type \cup {"XMM"} /\ WithXmm(op).reg = op.reg
BY DEF WithXmm, RegXmm, Operands

LEMMA MovedXmm ==
  ASSUME NEW o \in Operands, NEW q, NEW k, NEW n, NEW m, Moved(q, WithXmm(o), n, m), IsReg(o, k)
  PROVE  XmmIs(q, k + n)
<1>1. q.type = o.type \cup {"XMM"} /\ q.reg = o.reg + n
  BY XmmFields DEF Moved
<1> QED BY <1>1 DEF XmmIs, IsReg

LEMMA MovedXrm ==
  ASSUME NEW c \in Codes, NEW o \in Operands, NEW q,
         Moved(q, RegXmm(decode_rm(c, o)), Ext(c, "B"), Ext(c, "X"))
  PROVE  XrmIs(c, q)
<1> DEFINE x == decode_rm(c, o)
<1>1. x \in Operands
  BY RmOperand
<1>2. CASE c.mod = 3
  <2>1. x = [o EXCEPT !.type = {"REG"}, !.reg = c.rm]
    BY <1>2 DEF decode_rm
  <2>2. x.type = {"REG"} /\ x.reg = c.rm
    BY <2>1 DEF Operands
  <2> HIDE DEF x
  <2>3. RegXmm(x) = WithXmm(x)
    BY <2>2 DEF RegXmm
  <2>4. XmmIs(q, c.rm + Ext(c, "B"))
    BY <1>1, <2>2, <2>3, MovedXmm DEF IsReg, x
  <2> QED BY <1>2, <2>4 DEF XrmIs, Rm
<1>3. CASE c.mod # 3
  <2>1. "MEM" \in x.type
    BY <1>3 DEF decode_rm
  <2> HIDE DEF x
  <2>2. RegXmm(x) = x
    BY <2>1 DEF RegXmm
  <2>3. RmIs(c, q)
    BY <2>2, MovedRm DEF x
  <2> QED BY <1>3, <2>3 DEF RmIs, XrmIs
<1> QED BY <1>2, <1>3

LEMMA DecodedWith ==
  ASSUME NEW c \in Codes, NEW g \in Instructions, NEW i \in Instructions, i.len = HeadBytes(c),
         NEW type, NEW size, NEW rev, NEW m, Parsed(m, i, type, size, rev, 1 + RmBytes(c)),
         Like(Body(c, g), m, m.reverse, 0)
  PROVE  /\ Is(decode_instr(c, g), c, type, size, i.prefix, 1 + RmBytes(c))
         /\ rev = 1 => /\ Moved(decode_instr(c, g).a, Body(c, g).a, Ext(c, "B"), Ext(c, "X"))
                       /\ Moved(decode_instr(c, g).b, Body(c, g).b, Ext(c, "R"), 0)
         /\ rev = 0 => /\ Moved(decode_instr(c, g).a, Body(c, g).a, Ext(c, "R"), 0)
                       /\ Moved(decode_instr(c, g).b, Body(c, g).b, Ext(c, "B"), Ext(c, "X"))
<1> DEFINE j == Body(c, g)
           d == decode_instr(c, g)
<1>1. 1 + RmBytes(c) \in Nat
  BY StartIs
<1> HIDE DEF j, d
<1>2. Parsed(j, i, type, size, rev, 1 + RmBytes(c)) /\ j \in Instructions /\ j.reverse = rev
  BY <1>1 DEF Parsed, Like, Instructions, j
<1>3. Is(d, c, type, size, i.prefix, 1 + RmBytes(c)) /\ Extended(c, j, d)
  BY <1>1, <1>2, Rexed DEF j, d
<1>4. /\ rev = 1 => Moved(d.a, j.a, Ext(c, "B"), Ext(c, "X")) /\ Moved(d.b, j.b, Ext(c, "R"), 0)
      /\ rev = 0 => Moved(d.a, j.a, Ext(c, "R"), 0) /\ Moved(d.b, j.b, Ext(c, "B"), Ext(c, "X"))
  BY <1>2, <1>3, RexOperands
<1> QED BY <1>3, <1>4 DEF j, d

(* The first operand is a vector register, or the second is, or both are.    *)
LEMMA DecodedXmmA ==
  ASSUME NEW c \in Codes, NEW g \in Instructions, NEW i \in Instructions, i.len = HeadBytes(c),
         NEW k, Alike(k, i), NEW j, j = decode_r_rm(c, k), Body(c, g) = PutA(j, WithXmm(j.a))
  PROVE  /\ Is(decode_instr(c, g), c, k.type, k.size, i.prefix, 1 + RmBytes(c))
         /\ XmmIs(decode_instr(c, g).a, Reg(c)) /\ RmIs(c, decode_instr(c, g).b)
<1>1. /\ Parsed(j, i, k.type, k.size, 0, 1 + RmBytes(c))
      /\ j.b = decode_rm(c, k.b) /\ IsReg(j.a, c.reg)
  BY TypedRRm
<1>2. j \in Instructions /\ j.a \in Operands /\ WithXmm(j.a) \in Operands
  BY <1>1, XmmFields DEF Parsed, Instructions
<1>3. Like(Body(c, g), j, j.reverse, 0) /\ Body(c, g).a = WithXmm(j.a) /\ Body(c, g).b = j.b
  BY <1>2, PutAFields
<1>4. /\ Is(decode_instr(c, g), c, k.type, k.size, i.prefix, 1 + RmBytes(c))
      /\ Moved(decode_instr(c, g).a, WithXmm(j.a), Ext(c, "R"), 0)
      /\ Moved(decode_instr(c, g).b, decode_rm(c, k.b), Ext(c, "B"), Ext(c, "X"))
  BY <1>1, <1>3, DecodedWith
<1>5. XmmIs(decode_instr(c, g).a, Reg(c))
  BY <1>1, <1>2, <1>4, MovedXmm DEF Reg
<1>6. RmIs(c, decode_instr(c, g).b)
  BY <1>4, MovedRm
<1> QED BY <1>4, <1>5, <1>6

LEMMA DecodedXmmB ==
  ASSUME NEW c \in Codes, NEW g \in Instructions, NEW i \in Instructions, i.len = HeadBytes(c),
         NEW k, Alike(k, i), NEW j, j = decode_rm_r(c, k), Body(c, g) = PutB(j, WithXmm(j.b))
  PROVE  /\ Is(decode_instr(c, g), c, k.type, k.size, i.prefix, 1 + RmBytes(c))
         /\ RmIs(c, decode_instr(c, g).a) /\ XmmIs(decode_instr(c, g).b, Reg(c))
<1>1. /\ Parsed(j, i, k.type, k.size, 1, 1 + RmBytes(c))
      /\ j.a = decode_rm(c, k.a) /\ IsReg(j.b, c.reg)
  BY TypedRmR
<1>2. j \in Instructions /\ j.b \in Operands /\ WithXmm(j.b) \in Operands
  BY <1>1, XmmFields DEF Parsed, Instructions
<1>3. Like(Body(c, g), j, j.reverse, 0) /\ Body(c, g).b = WithXmm(j.b) /\ Body(c, g).a = j.a
  BY <1>2, PutBFields
<1>4. /\ Is(decode_instr(c, g), c, k.type, k.size, i.prefix, 1 + RmBytes(c))
      /\ Moved(decode_instr(c, g).b, WithXmm(j.b), Ext(c, "R"), 0)
      /\ Moved(decode_instr(c, g).a, decode_rm(c, k.a), Ext(c, "B"), Ext(c, "X"))
  BY <1>1, <1>3, DecodedWith
<1>5. XmmIs(decode_instr(c, g).b, Reg(c))
  BY <1>1, <1>2, <1>4, MovedXmm DEF Reg
<1>6. RmIs(c, decode_instr(c, g).a)
  BY <1>4, MovedRm
<1> QED BY <1>4, <1>5, <1>6

LEMMA PutBothFields ==
  ASSUME NEW i \in Instructions, NEW a \in Operands, NEW b \in Operands
  PROVE  /\ Like(PutB(PutA(i, a), b), i, i.reverse, 0)
         /\ PutB(PutA(i, a), b).a = a /\ PutB(PutA(i, a), b).b = b
<1> DEFINE j == PutA(i, a)
<1>1. Like(j, i, i.reverse, 0) /\ j.a = a
  BY PutAFields
<1> HIDE DEF j
<1>2. j \in Instructions
  BY <1>1 DEF Like
<1>3. Like(PutB(j, b), j, j.reverse, 0) /\ PutB(j, b).b = b /\ PutB(j, b).a = j.a
  BY <1>2, PutBFields
<1>4. Like(PutB(j, b), i, i.reverse, 0)
  BY <1>1, <1>3 DEF Like, Instructions
<1> QED BY <1>1, <1>3, <1>4 DEF j

LEMMA DecodedSetXmm ==
  ASSUME NEW c \in Codes, NEW g \in Instructions, NEW i \in Instructions, i.len = HeadBytes(c),
         NEW k, Alike(k, i), Body(c, g) = SetXmm(c, k)
  PROVE  /\ Is(decode_instr(c, g), c, k.type, k.size, i.prefix, 1 + RmBytes(c))
         /\ XmmIs(decode_instr(c, g).a, Reg(c)) /\ XrmIs(c, decode_instr(c, g).b)
<1> DEFINE j == decode_r_rm(c, k)
<1>1. /\ Parsed(j, i, k.type, k.size, 0, 1 + RmBytes(c))
      /\ j.b = decode_rm(c, k.b) /\ IsReg(j.a, c.reg)
  BY TypedRRm
<1>2. Body(c, g) = PutB(PutA(j, WithXmm(j.a)), RegXmm(j.b))
  <2>1. j \in Instructions
    BY <1>1 DEF Parsed
  <2>2. SetXmm(c, k) = [j EXCEPT !.a = WithXmm(j.a), !.b = RegXmm(j.b)]
    <3>1. SetXmm(c, k) = [j EXCEPT !.a = WithXmm(@), !.b = IF @.type = {"REG"} THEN WithXmm(@) ELSE @]
      BY Zenon DEF SetXmm
    <3> HIDE DEF j
    <3>2. [j EXCEPT !.a = WithXmm(@)].b = j.b
      BY <2>1 DEF Instructions
    <3> QED BY Zenon, <3>1, <3>2 DEF RegXmm
  <2> QED BY Zenon, <2>2 DEF PutA, PutB
<1> HIDE DEF j
<1>3. /\ j \in Instructions /\ j.a \in Operands /\ j.b \in Operands
      /\ WithXmm(j.a) \in Operands /\ RegXmm(j.b) \in Operands
  BY <1>1, XmmFields DEF Parsed, Instructions
<1>4. /\ Like(Body(c, g), j, j.reverse, 0)
      /\ Body(c, g).a = WithXmm(j.a) /\ Body(c, g).b = RegXmm(j.b)
  BY <1>2, <1>3, PutBothFields
<1>5. /\ Is(decode_instr(c, g), c, k.type, k.size, i.prefix, 1 + RmBytes(c))
      /\ Moved(decode_instr(c, g).a, WithXmm(j.a), Ext(c, "R"), 0)
      /\ Moved(decode_instr(c, g).b, RegXmm(decode_rm(c, k.b)), Ext(c, "B"), Ext(c, "X"))
  BY <1>1, <1>4, DecodedWith
<1>6. XmmIs(decode_instr(c, g).a, Reg(c))
  BY <1>1, <1>3, <1>5, MovedXmm DEF Reg
<1>7. k.b \in Operands
  BY DEF Alike, Instructions
<1>8. XrmIs(c, decode_instr(c, g).b)
  BY <1>5, <1>7, MovedXrm
<1> QED BY <1>5, <1>6, <1>8

LEMMA DecodedStoreXmm ==
  ASSUME NEW c \in Codes, NEW g \in Instructions, NEW i \in Instructions, i.len = HeadBytes(c),
         NEW k, Alike(k, i), NEW j, j = decode_rm_r(c, k),
         Body(c, g) = PutB(PutA(j, RegXmm(j.a)), WithXmm(j.b))
  PROVE  /\ Is(decode_instr(c, g), c, k.type, k.size, i.prefix, 1 + RmBytes(c))
         /\ XrmIs(c, decode_instr(c, g).a) /\ XmmIs(decode_instr(c, g).b, Reg(c))
<1>1. /\ Parsed(j, i, k.type, k.size, 1, 1 + RmBytes(c))
      /\ j.a = decode_rm(c, k.a) /\ IsReg(j.b, c.reg)
  BY TypedRmR
<1>3. /\ j \in Instructions /\ j.a \in Operands /\ j.b \in Operands
      /\ WithXmm(j.b) \in Operands /\ RegXmm(j.a) \in Operands
  BY <1>1, XmmFields DEF Parsed, Instructions
<1>4. /\ Like(Body(c, g), j, j.reverse, 0)
      /\ Body(c, g).b = WithXmm(j.b) /\ Body(c, g).a = RegXmm(j.a)
  BY <1>3, PutBothFields
<1>5. /\ Is(decode_instr(c, g), c, k.type, k.size, i.prefix, 1 + RmBytes(c))
      /\ Moved(decode_instr(c, g).b, WithXmm(j.b), Ext(c, "R"), 0)
      /\ Moved(decode_instr(c, g).a, RegXmm(decode_rm(c, k.a)), Ext(c, "B"), Ext(c, "X"))
  BY <1>1, <1>4, DecodedWith
<1>6. XmmIs(decode_instr(c, g).b, Reg(c))
  BY <1>1, <1>3, <1>5, MovedXmm DEF Reg
<1>7. k.a \in Operands
  BY DEF Alike, Instructions
<1>8. XrmIs(c, decode_instr(c, g).a)
  BY <1>5, <1>7, MovedXrm
<1> QED BY <1>5, <1>6, <1>8

VectorType(c) ==
  CASE c.op = 16 -> "MOVS" [] c.op = 40 -> "MOVAPD" [] c.op = 47 -> "COMIS"
    [] c.op \in {87, 239} -> "PXOR" [] c.op = 88 -> "ADDS" [] c.op = 89 -> "MULS"
    [] c.op = 90 -> (IF c.prefix = "REPE" THEN "CVTSS2SD" ELSE "CVTSD2SS")
    [] c.op = 92 -> "SUBS" [] c.op = 94 -> "DIVS"

LEMMA VectorDecoded ==
  ASSUME NEW c \in Codes, NEW g \in Instructions, c.two,
         c.op \in {16, 40, 87, 88, 89, 90, 92, 94, 239}
  PROVE  /\ Is(decode_instr(c, g), c, VectorType(c), 32, c.prefix, 1 + RmBytes(c))
         /\ XmmIs(decode_instr(c, g).a, Reg(c)) /\ XrmIs(c, decode_instr(c, g).b)
<1> DEFINE i == Start(c, g)
           t == VectorType(c)
           k == [i EXCEPT !.type = t]
<1>1. t \in Types
  BY TypeNames DEF OtherTypes, VectorType
<1>2. i \in Instructions /\ i.len = HeadBytes(c) /\ i.prefix = c.prefix /\ i.size = 32
  BY StartIs
<1>3. SetTypes(c, i) = t
  BY <1>2 DEF SetTypes, VectorType
<1>4. Body(c, g) = SetXmm(c, [i EXCEPT !.type = SetTypes(c, i)])
  BY DEF Body, decode_0F, Extend
<1>5. Body(c, g) = SetXmm(c, k)
  BY <1>3, <1>4
<1> HIDE DEF i, t
<1>6. Alike(k, i) /\ k.type = t /\ k.size = 32
  BY <1>1, <1>2, Named
<1> HIDE DEF k
<1> QED BY <1>2, <1>5, <1>6, DecodedSetXmm DEF t

LEMMA CompareDecoded ==
  ASSUME NEW c \in Codes, NEW g \in Instructions, c.two, c.op = 47
  PROVE  /\ Is(decode_instr(c, g), c, "COMIS", 32, IF c.prefix = "OS" THEN "REPN" ELSE "REPE",
               1 + RmBytes(c))
         /\ XmmIs(decode_instr(c, g).a, Reg(c)) /\ XrmIs(c, decode_instr(c, g).b)
<1> DEFINE i == Start(c, g)
           p == IF c.prefix = "OS" THEN "REPN" ELSE "REPE"
           n == [i EXCEPT !.prefix = p]
           k == [i EXCEPT !.type = "COMIS", !.prefix = p]
<1>1. "COMIS" \in Types
  BY TypeNames DEF OtherTypes
<1>2. i \in Instructions /\ i.len = HeadBytes(c) /\ i.prefix = c.prefix /\ i.size = 32
  BY StartIs
<1>3. p \in Prefixes
  BY DEF Prefixes
<1>4. Body(c, g) = SetXmm(c, [[i EXCEPT !.type = "COMIS"] EXCEPT
                                !.prefix = IF @ = "OS" THEN "REPN" ELSE "REPE"])
  BY DEF Body, decode_0F, Extend
<1> HIDE DEF i
<1>5. [i EXCEPT !.type = "COMIS"].prefix = c.prefix
  BY <1>2 DEF Instructions
<1>6. Body(c, g) = SetXmm(c, k)
  BY Zenon, <1>4, <1>5
<1> HIDE DEF p
<1>7. /\ n \in Instructions /\ n.len = HeadBytes(c) /\ n.prefix = p
      /\ Alike(k, n) /\ k.type = "COMIS" /\ k.size = 32
  BY <1>1, <1>2, <1>3 DEF Instructions, Types, Alike
<1> HIDE DEF k, n
<1> QED BY <1>6, <1>7, DecodedSetXmm DEF p

LEMMA StoreVectorDecoded ==
  ASSUME NEW c \in Codes, NEW g \in Instructions, c.two, c.op = 17
  PROVE  /\ Is(decode_instr(c, g), c, "MOVS", 32, c.prefix, 1 + RmBytes(c))
         /\ XrmIs(c, decode_instr(c, g).a) /\ XmmIs(decode_instr(c, g).b, Reg(c))
<1> DEFINE i == Start(c, g)
           k == [i EXCEPT !.type = "MOVS"]
           j == decode_rm_r(c, k)
<1>1. "MOVS" \in Types
  BY TypeNames DEF OtherTypes
<1>2. i \in Instructions /\ i.len = HeadBytes(c) /\ i.prefix = c.prefix /\ i.size = 32
  BY StartIs
<1>3. Body(c, g) = [j EXCEPT !.a = IF @.type = {"REG"} THEN WithXmm(@) ELSE @, !.b = WithXmm(@)]
  BY DEF Body, decode_0F, Extend
<1> HIDE DEF i
<1>4. Alike(k, i) /\ k.type = "MOVS" /\ k.size = 32
  BY <1>1, <1>2, Named
<1> HIDE DEF k
<1>5. Body(c, g) = PutB(PutA(j, RegXmm(j.a)), WithXmm(j.b))
  <2>1. j \in Instructions
    BY <1>2, <1>4, TypedRmR DEF Parsed
  <2> HIDE DEF j
  <2>2. [j EXCEPT !.a = IF @.type = {"REG"} THEN WithXmm(@) ELSE @].b = j.b
    BY <2>1 DEF Instructions
  <2> QED BY Zenon, <1>3, <2>2 DEF RegXmm, PutA, PutB
<1> QED BY <1>2, <1>4, <1>5, DecodedStoreXmm

LEMMA ConvertDecoded ==
  ASSUME NEW c \in Codes, NEW g \in Instructions, c.two, c.op \in {42, 110}
  PROVE  /\ Is(decode_instr(c, g), c, IF c.op = 42 THEN "CVTSI2S" ELSE "MOVQ", 32, c.prefix,
               1 + RmBytes(c))
         /\ XmmIs(decode_instr(c, g).a, Reg(c)) /\ RmIs(c, decode_instr(c, g).b)
<1> DEFINE i == Start(c, g)
           t == IF c.op = 42 THEN "CVTSI2S" ELSE "MOVQ"
           k == [i EXCEPT !.type = t]
           j == decode_r_rm(c, k)
<1>1. t \in Types
  BY TypeNames DEF OtherTypes
<1>2. i \in Instructions /\ i.len = HeadBytes(c) /\ i.prefix = c.prefix /\ i.size = 32
  BY StartIs
<1>3. Body(c, g) = [j EXCEPT !.a = WithXmm(@)]
  BY DEF Body, decode_0F, Extend
<1> HIDE DEF i, t
<1>4. Alike(k, i) /\ k.type = t /\ k.size = 32
  BY <1>1, <1>2, Named
<1> HIDE DEF k
<1>5. Body(c, g) = PutA(j, WithXmm(j.a))
  BY Zenon, <1>3 DEF PutA
<1> QED BY <1>2, <1>4, <1>5, DecodedXmmA DEF t

LEMMA ConvertBackDecoded ==
  ASSUME NEW c \in Codes, NEW g \in Instructions, c.two, c.op \in {44, 126}
  PROVE  /\ Is(decode_instr(c, g), c, IF c.op = 44 THEN "CVTSD2SI" ELSE "MOVQ", 32, c.prefix,
               1 + RmBytes(c))
         /\ RmIs(c, decode_instr(c, g).a) /\ XmmIs(decode_instr(c, g).b, Reg(c))
<1> DEFINE i == Start(c, g)
           t == IF c.op = 44 THEN "CVTSD2SI" ELSE "MOVQ"
           k == [i EXCEPT !.type = t]
           j == decode_rm_r(c, k)
<1>1. t \in Types
  BY TypeNames DEF OtherTypes
<1>2. i \in Instructions /\ i.len = HeadBytes(c) /\ i.prefix = c.prefix /\ i.size = 32
  BY StartIs
<1>3. Body(c, g) = [j EXCEPT !.b = WithXmm(@)]
  BY DEF Body, decode_0F, Extend
<1> HIDE DEF i, t
<1>4. Alike(k, i) /\ k.type = t /\ k.size = 32
  BY <1>1, <1>2, Named
<1> HIDE DEF k
<1>5. Body(c, g) = PutB(j, WithXmm(j.b))
  BY Zenon, <1>3 DEF PutB
<1> QED BY <1>2, <1>4, <1>5, DecodedXmmB DEF t

LEMMA SelectDecoded ==
  ASSUME NEW c \in Codes, NEW g \in Instructions, c.two, c.op \in 64..79
  PROVE  /\ Is(decode_instr(c, g), c, CMOVcc[c.op - 63], 32, c.prefix, 1 + RmBytes(c))
         /\ RegRm(c, decode_instr(c, g))
<1> DEFINE i == Start(c, g)
           t == CMOVcc[c.op - 63]
           k == [i EXCEPT !.type = t]
<1>1. t \in Types
  <2>1. c.op - 63 \in 1..16
    BY DEF Codes
  <2> QED BY <2>1, TypeNames
<1>2. i \in Instructions /\ i.len = HeadBytes(c) /\ i.prefix = c.prefix /\ i.size = 32
  BY StartIs
<1>3. Body(c, g) = decode_r_rm(c, k)
  BY DEF Body, decode_0F, Extend
<1> HIDE DEF i, t
<1>4. Alike(k, i) /\ k.type = t /\ k.size = 32
  BY <1>1, <1>2, Named
<1> HIDE DEF k
<1> QED BY <1>2, <1>3, <1>4, DecodedRRm DEF t

LEMMA ExtendDecoded ==
  ASSUME NEW c \in Codes, NEW g \in Instructions, c.two, c.op \in {182, 183, 190, 191}
  PROVE  /\ Is(decode_instr(c, g), c, Extend[c.op], 32, c.prefix, 1 + RmBytes(c))
         /\ RegRm(c, decode_instr(c, g)) /\ Extend[c.op] \in DOMAIN Widening
<1> DEFINE i == Start(c, g)
           t == Extend[c.op]
           k == [i EXCEPT !.type = t]
<1>1. t \in DOMAIN Widening
  BY DEF Extend, Widening
<1>5. t \in Types
  BY <1>1, TypeNames DEF Widening, OtherTypes
<1>2. i \in Instructions /\ i.len = HeadBytes(c) /\ i.prefix = c.prefix /\ i.size = 32
  BY StartIs
<1>3. Body(c, g) = decode_r_rm(c, k)
  BY DEF Body, decode_0F, Extend
<1> HIDE DEF i, t
<1>4. Alike(k, i) /\ k.type = t /\ k.size = 32
  BY <1>2, <1>5, Named
<1> HIDE DEF k
<1> QED BY <1>1, <1>2, <1>3, <1>4, DecodedRRm DEF t

LEMMA Imul2Decoded ==
  ASSUME NEW c \in Codes, NEW g \in Instructions, c.two, c.op = 175
  PROVE  /\ Is(decode_instr(c, g), c, "IMUL", 32, c.prefix, 1 + RmBytes(c))
         /\ RegRm(c, decode_instr(c, g))
         /\ c.mod = 3 => decode_instr(c, g).b.imm = 0
<1> DEFINE i == Start(c, g)
           k == [i EXCEPT !.type = "IMUL"]
           j == decode_r_rm(c, k)
           v == IF "IMM" \in j.b.type THEN j.b.imm ELSE 0
           b == [j.b EXCEPT !.imm = v]
           d == decode_instr(c, g)
           q == [d.b EXCEPT !.imm = j.b.imm]
<1>1. "IMUL" \in Types
  BY TypeNames DEF OtherTypes
<1>2. i \in Instructions /\ i.len = HeadBytes(c) /\ i.prefix = c.prefix /\ i.size = 32
  BY StartIs
<1>3. Body(c, g) = [j EXCEPT !.b.imm = IF "IMM" \in j.b.type THEN @ ELSE 0]
  BY DEF Body, decode_0F, Extend
<1> HIDE DEF i
<1>4. Alike(k, i) /\ k.type = "IMUL" /\ k.size = 32
  BY <1>1, <1>2, Named
<1> HIDE DEF k
<1>5. /\ Parsed(j, i, "IMUL", 32, 0, 1 + RmBytes(c))
      /\ j.b = decode_rm(c, k.b) /\ IsReg(j.a, c.reg)
  BY <1>2, <1>4, TypedRRm
<1> HIDE DEF j
<1>6. j \in Instructions /\ j.b \in Operands
  BY <1>5 DEF Parsed, Instructions
<1>7. Body(c, g) = PutB(j, b)
  BY Zenon, <1>3 DEF PutB
<1>8. /\ b \in Operands /\ b.type = j.b.type /\ b.reg = j.b.reg /\ b.idx = j.b.idx
      /\ b.scale = j.b.scale /\ b.imm = v
  BY <1>6 DEF Operands
<1> HIDE DEF b
<1>9. Like(Body(c, g), j, j.reverse, 0) /\ Body(c, g).b = b /\ Body(c, g).a = j.a
  BY <1>6, <1>7, <1>8, PutBFields
<1> HIDE DEF d
<1>10. /\ Is(d, c, "IMUL", 32, c.prefix, 1 + RmBytes(c))
       /\ Moved(d.a, j.a, Ext(c, "R"), 0) /\ Moved(d.b, b, Ext(c, "B"), Ext(c, "X"))
  BY <1>2, <1>5, <1>9, DecodedWith DEF d
<1>11. IsReg(d.a, Reg(c))
  BY <1>5, <1>10, MovedReg DEF Reg
<1>12. Moved(q, j.b, Ext(c, "B"), Ext(c, "X"))
  BY <1>6, <1>8, <1>10 DEF Moved, Operands
<1>13. RmIs(c, q)
  BY <1>5, <1>12, MovedRm
<1>14. SameBut(d.b, q) /\ d.b.imm = v
  BY <1>8, <1>10 DEF Moved, Operands, SameBut
<1>15. CASE c.mod = 3
  <2>1. IsReg(q, Rm(c))
    BY <1>13, <1>15 DEF RmIs
  <2>2. IsReg(d.b, Rm(c))
    BY <1>14, <2>1 DEF IsReg, SameBut
  <2>3. j.b.type = {"REG"}
    BY <1>12, <2>1 DEF Moved, IsReg
  <2>4. v = 0
    BY <2>3
  <2> QED BY <1>10, <1>11, <1>14, <1>15, <2>2, <2>4 DEF RegRm, RmIs, d
<1>16. CASE c.mod # 3
  <2>1. MemoryIs(c, q)
    BY <1>13, <1>16 DEF RmIs
  <2>2. j.b.type = MemoryType(c)
    BY <1>12, <2>1 DEF MemoryIs, Moved
  <2>3. Bare(c) \/ c.mod # 0 => d.b.imm = c.disp
    <3>1. Bare(c) \/ c.mod # 0 => "IMM" \in MemoryType(c)
      BY DEF MemoryType
    <3>2. Bare(c) \/ c.mod # 0 => v = j.b.imm
      BY <2>2, <3>1
    <3>3. q.imm = j.b.imm
      BY <1>12 DEF Moved
    <3> QED BY <1>14, <2>1, <3>2, <3>3 DEF MemoryIs
  <2>4. MemoryIs(c, d.b)
    BY <1>14, <2>1, <2>3 DEF MemoryIs, SameBut
  <2> QED BY <1>10, <1>11, <1>16, <2>4 DEF RegRm, RmIs, d
<1> QED BY <1>15, <1>16

LEMMA JccDecoded ==
  ASSUME NEW c \in Codes, NEW g \in Instructions, c.two, c.op \in 128..143
  PROVE  /\ Is(decode_instr(c, g), c, Jcc[c.op - 127], 32, c.prefix, 4)
         /\ IsImm(decode_instr(c, g).a, c.imm)
<1> DEFINE i == Start(c, g)
           t == Jcc[c.op - 127]
           k == [i EXCEPT !.type = t]
<1>1. t \in Types
  <2>1. c.op - 127 \in 1..16
    BY DEF Codes
  <2> QED BY <2>1, TypeNames
<1>2. i \in Instructions /\ i.len = HeadBytes(c) /\ i.prefix = c.prefix /\ i.size = 32
  BY StartIs
<1>3. Body(c, g) = ImmA(c, k, 4)
  BY DEF Body, decode_0F, Extend
<1> HIDE DEF i, t
<1>4. Alike(k, i) /\ k.type = t /\ k.size = 32
  BY <1>1, <1>2, Named
<1> HIDE DEF k
<1>5. Typed(k, i)
  BY <1>4 DEF Alike, Typed
<1> QED BY <1>2, <1>3, <1>4, <1>5, DecodedImmA DEF t

LEMMA SetDecoded ==
  ASSUME NEW c \in Codes, NEW g \in Instructions, c.two, c.op \in 144..159
  PROVE  /\ Is(decode_instr(c, g), c, SETcc[c.op - 143], 8, c.prefix, 1 + RmBytes(c))
         /\ RegOp(decode_instr(c, g).a) \/ MemOp(decode_instr(c, g).a)
         /\ c.rex \cap {"R", "B"} = {} /\ c.mod = 3 => IsReg(decode_instr(c, g).a, Rm(c))
         /\ c.mod # 3 => "MEM" \in decode_instr(c, g).a.type
<1> DEFINE i == Start(c, g)
           t == SETcc[c.op - 143]
           m == [i EXCEPT !.type = t, !.size = 8]
           k == NoB(m)
           j == Body(c, g)
           d == decode_instr(c, g)
<1>1. t \in Types
  <2>1. c.op - 143 \in 1..16
    BY DEF Codes
  <2> QED BY <2>1, TypeNames
<1>2. i \in Instructions /\ i.len = HeadBytes(c) /\ i.prefix = c.prefix /\ i.size = 32
      /\ 1 + RmBytes(c) \in Nat
  BY StartIs
<1>3. j = RmA(c, k)
  BY DEF Body, decode_0F, Extend, NoB
<1> HIDE DEF i, t
<1>4. Typed(m, i) /\ m.type = t /\ m.size = 8
  BY <1>1, <1>2 DEF Typed, Instructions, Types
<1> HIDE DEF m
<1>5. Typed(k, i) /\ k.type = t /\ k.size = 8
  BY <1>2, <1>4, WithoutB
<1> HIDE DEF k
<1>6. k \in Instructions
  BY <1>5 DEF Typed
<1>7. Like(j, k, k.reverse, 1 + RmBytes(c)) /\ j.a = decode_rm(c, k.a)
  BY <1>3, <1>6, RmAFields
<1> HIDE DEF j, d
<1>8. Parsed(j, i, t, 8, j.reverse, 1 + RmBytes(c)) /\ j \in Instructions /\ j.reverse \in {0, 1}
  BY <1>5, <1>7 DEF Like, Typed, Parsed, Instructions
<1>9. Is(d, c, t, 8, c.prefix, 1 + RmBytes(c)) /\ Extended(c, j, d)
  BY <1>2, <1>8, Rexed DEF j, d
<1>10. RegOp(d.a) \/ MemOp(d.a)
  BY <1>7, <1>8, <1>9, EitherWay, RmShape
<1>11. c.mod # 3 => "MEM" \in d.a.type
  <2>1. c.mod # 3 => "MEM" \in j.a.type
    BY <1>7 DEF decode_rm
  <2>2. d.a.type = j.a.type
    BY <1>9 DEF Extended
  <2> QED BY <2>1, <2>2
<1>12. ASSUME c.rex \cap {"R", "B"} = {}, c.mod = 3 PROVE IsReg(d.a, Rm(c))
  <2>1. Ext(c, "R") = 0 /\ Ext(c, "B") = 0
    BY <1>12 DEF Ext
  <2>2. k.a \in Operands
    BY <1>6 DEF Instructions
  <2>3. IsReg(decode_rm(c, k.a), c.rm)
    BY <1>12, <2>2 DEF decode_rm, IsReg, Operands
  <2>4. IsReg(d.a, c.rm + 0)
    BY <1>7, <1>8, <1>9, <2>1, <2>3, RexOperands, MovedReg
  <2> QED BY <2>1, <2>4 DEF Rm
<1> QED BY <1>9, <1>10, <1>11, <1>12 DEF d, t

LEMMA PlainDecoded ==
  ASSUME NEW c \in Codes, NEW g \in Instructions, c.two, c.op \in {5, 30, 31}
  PROVE  Is(decode_instr(c, g), c, IF c.op = 5 THEN "SYSCALL" ELSE IF c.op = 30 THEN "EBR" ELSE "NOP",
            32, "none", IF c.op = 5 THEN 0 ELSE 1)
<1> DEFINE i == Start(c, g)
           t == IF c.op = 5 THEN "SYSCALL" ELSE IF c.op = 30 THEN "EBR" ELSE "NOP"
           n == IF c.op = 5 THEN 0 ELSE 1
           m == [i EXCEPT !.prefix = "none", !.type = t]
           k == NoA(m)
           j == Body(c, g)
<1>1. t \in Types /\ n \in Nat
  BY TypeNames DEF OtherTypes
<1>2. i \in Instructions /\ i.len = HeadBytes(c) /\ i.size = 32
  BY StartIs
<1>3. c.op = 5 => j = NoA([i EXCEPT !.prefix = "none", !.type = "SYSCALL"])
  BY DEF Body, decode_0F, Extend, NoA
<1>4. c.op = 30 => j = Fetch(NoA([i EXCEPT !.prefix = "none", !.type = "EBR"]), 1)
  BY DEF Body, decode_0F, Extend, NoA
<1>5. c.op = 31 => j = Fetch(NoA([i EXCEPT !.prefix = "none", !.type = "NOP"]), 1)
  BY DEF Body, decode_0F, Extend, NoA
<1>6. c.op = 5 => j = k
  BY <1>3
<1>7. c.op # 5 => j = Fetch(k, 1)
  BY <1>4, <1>5
<1> DEFINE z == [i EXCEPT !.prefix = "none"]
<1> HIDE DEF i, t
<1>8. z \in Instructions /\ z.len = HeadBytes(c) /\ z.prefix = "none"
  BY <1>2 DEF Instructions, Prefixes
<1>9. Typed(m, z) /\ m.type = t /\ m.size = 32
  BY <1>1, <1>2 DEF Typed, Instructions, Types, Prefixes
<1> HIDE DEF z, m
<1>10. Typed(k, z) /\ k.type = t /\ k.size = 32
  BY <1>8, <1>9, WithoutA
<1> HIDE DEF k
<1>11. k \in Instructions
  BY <1>10 DEF Typed
<1>12. CASE c.op = 5
  <2>1. Parsed(k, z, t, 32, k.reverse, 0)
    BY <1>8, <1>10, <1>11 DEF Parsed, Typed, Instructions
  <2> QED BY <1>6, <1>8, <1>12, <2>1, DecodedAny DEF t
<1>13. CASE c.op # 5
  <2>1. Like(j, k, k.reverse, 1)
    BY <1>7, <1>11, <1>13, FetchFields
  <2> QED BY <1>8, <1>10, <1>13, <2>1, DecodedLike DEF t
<1> QED BY <1>12, <1>13

-----------------------------------------------------------------------------
(***************************************************************************)
(* Lengths                                                                  *)
(***************************************************************************)
TailBytes(c) == (IF HasModRM(c) THEN 1 + RmBytes(c) ELSE 0) + ImmSize(c)

LEMMA ImmSizes == ASSUME NEW c \in Codes PROVE ImmSize(c) \in {0, 1, 2, 4, 8}
BY DEF ImmSize, FullSize

LEMMA LengthIs ==
  ASSUME NEW c \in Codes
  PROVE  Length(c) = HeadBytes(c) + TailBytes(c)
<1>1. RmBytes(c) = (IF c.mod # 3 /\ c.rm = 4 THEN 1 ELSE 0) + DispSize(c) /\ DispSize(c) \in {0, 1, 4}
  BY DEF RmBytes, DispSize, NoBase, Bare, Bit, Codes
<1>2. ImmSize(c) \in Int
  BY ImmSizes
<1> QED BY <1>1, <1>2 DEF Length, HeadBytes, TailBytes, Bit, Codes

LEMMA IsLength ==
  ASSUME NEW c \in Codes, NEW d, NEW t, NEW s, NEW p, NEW n, Is(d, c, t, s, p, n), n = TailBytes(c)
  PROVE  d.len = Length(c)
BY LengthIs DEF Is

LEMMA RmTail ==
  ASSUME NEW c \in Codes
  PROVE  /\ ~HasModRM(c) => TailBytes(c) = ImmSize(c)
         /\ HasModRM(c) => TailBytes(c) = 1 + RmBytes(c) + ImmSize(c)
BY ImmSizes, RmBytesSize DEF TailBytes

LEMMA OneByteLength ==
  ASSUME NEW c \in RealCodes, NEW g \in Instructions, ~c.two,
         decode_instr(c, g).type # "panic", ~ShortImmediate(c), ~LongMove(c)
  PROVE  decode_instr(c, g).len = Length(c)
<1> DEFINE d == decode_instr(c, g)
<1>1. c \in Codes /\ (c.op < 64 => c.op % 8 < 6) /\ (c.op = 254 => c.reg \in {0, 1})
      /\ c.op \in 0..255 /\ c.reg \in 0..7 /\ 1 + RmBytes(c) \in Nat
  BY StartIs, RmBytesSize DEF RealCodes, Codes
<1>2. CASE c.op < 64
  <2> DEFINE k == [Start(c, g) EXCEPT !.type = Grp0[c.op \div 8 + 1]]
  <2>1. Alike(k, Start(c, g)) /\ k.size = 32 /\ Body(c, g) = decode_GRP0(c, k)
    BY <1>1, <1>2, ArithmeticDecoded
  <2> HIDE DEF k
  <2>2. CASE c.op % 8 < 4
    <3>1. HasModRM(c) /\ ImmSize(c) = 0
      BY <1>1, <1>2, <2>2 DEF HasModRM, ImmSize
    <3>2. Is(d, c, k.type, ByteOr(c, 32), c.prefix, 1 + RmBytes(c))
      BY <1>1, <2>1, <2>2, DecodedGrp0
    <3> QED BY <1>1, <3>1, <3>2, RmTail, IsLength
  <2>3. CASE c.op % 8 \in {4, 5}
    <3>1. ~HasModRM(c) /\ ImmSize(c) = IF c.op % 8 = 4 THEN 1 ELSE 4
      BY <1>1, <1>2, <2>3 DEF HasModRM, ImmSize, ShortImmediate, FullSize
    <3>2. Is(d, c, k.type, ByteOr(c, 32), c.prefix, IF c.op % 8 = 4 THEN 1 ELSE 4)
      BY <1>1, <2>1, <2>3, DecodedGrp0
    <3> QED BY <1>1, <3>1, <3>2, RmTail, IsLength
  <2> QED BY <1>1, <1>2, <2>2, <2>3
<1>3. CASE c.op \in (80..95) \cup {104, 106, 143}
  <2>1. TailBytes(c) = IF c.op = 104 THEN 4 ELSE IF c.op = 106 THEN 1
                  ELSE IF c.op = 143 THEN 1 + RmBytes(c) ELSE 0
    BY <1>1, <1>3 DEF TailBytes, HasModRM, ImmSize, ShortImmediate, FullSize
  <2> QED BY <1>1, <1>3, <2>1, PushPopDecoded, IsLength
<1>4. CASE c.op \in {99, 141}
  <2>1. HasModRM(c) /\ ImmSize(c) = 0
    BY <1>4 DEF HasModRM, ImmSize
  <2> QED BY <1>1, <1>4, <2>1, MovsxLeaDecoded, RmTail, IsLength
<1>5. CASE c.op = 105
  <2>1. HasModRM(c) /\ ImmSize(c) = 4
    BY <1>5 DEF HasModRM, ImmSize, ShortImmediate, FullSize
  <2> QED BY <1>1, <1>5, <2>1, Imul3Decoded, RmTail, IsLength
<1>6. CASE c.op \in (112..127) \cup {232, 233, 235}
  <2>1. TailBytes(c) = IF c.op \in {232, 233} THEN 4 ELSE 1
    BY <1>6 DEF TailBytes, HasModRM, ImmSize
  <2> QED BY <1>1, <1>6, <2>1, JumpDecoded, IsLength
<1>7. CASE c.op \in {144, 152, 153, 195, 201, 244}
  <2>1. TailBytes(c) = 0
    BY <1>7 DEF TailBytes, HasModRM, ImmSize
  <2> QED BY <1>1, <1>7, <2>1, BareDecoded, IsLength
<1>8. CASE c.op \in {128, 129, 131}
  <2>1. HasModRM(c) /\ ImmSize(c) = IF c.op = 129 THEN 4 ELSE 1
    BY <1>8 DEF HasModRM, ImmSize, ShortImmediate, FullSize
  <2> QED BY <1>1, <1>8, <2>1, ImmediateDecoded, RmTail, IsLength
<1>9. CASE c.op \in {132, 133}
  <2>1. HasModRM(c) /\ ImmSize(c) = 0
    BY <1>9 DEF HasModRM, ImmSize
  <2> QED BY <1>1, <1>9, <2>1, TestDecoded, RmTail, IsLength
<1>10. CASE c.op \in 136..139
  <2> DEFINE k == [Start(c, g) EXCEPT !.type = "MOV"]
  <2>1. Alike(k, Start(c, g)) /\ k.size = 32 /\ Body(c, g) = decode_GRP0(c, k)
    BY <1>1, <1>10, MovDecoded
  <2> HIDE DEF k
  <2>2. HasModRM(c) /\ ImmSize(c) = 0 /\ c.op % 8 < 4
    BY <1>10 DEF HasModRM, ImmSize
  <2>3. Is(d, c, k.type, ByteOr(c, 32), c.prefix, 1 + RmBytes(c))
    BY <1>1, <2>1, <2>2, DecodedGrp0
  <2> QED BY <1>1, <2>2, <2>3, RmTail, IsLength
<1>11. CASE c.op \in 176..183
  <2>1. TailBytes(c) = 1
    BY <1>11 DEF TailBytes, HasModRM, ImmSize
  <2> QED BY <1>1, <1>11, <2>1, MovByteDecoded, IsLength
<1>12. CASE c.op \in 184..191
  <2>1. TailBytes(c) = IF "W" \in c.rex THEN 8 ELSE 4
    BY <1>12 DEF TailBytes, HasModRM, ImmSize, ShortImmediate, FullSize
  <2> QED BY <1>1, <1>12, <2>1, MovWordDecoded, IsLength
<1>13. CASE c.op \in {198, 199}
  <2>1. HasModRM(c)
        /\ ImmSize(c) = IF c.op = 198 THEN 1 ELSE IF c.prefix = "OS" THEN 2 ELSE 4
    BY <1>13 DEF HasModRM, ImmSize, FullSize, LongMove
  <2> QED BY <1>1, <1>13, <2>1, MovRmImmediateDecoded, RmTail, IsLength
<1>14. CASE c.op \in {192, 193} \cup (208..211)
  <2>1. HasModRM(c) /\ ImmSize(c) = IF c.op \in {192, 193} THEN 1 ELSE 0
    BY <1>14 DEF HasModRM, ImmSize
  <2> QED BY <1>1, <1>14, <2>1, ShiftDecoded, RmTail, IsLength
<1>15. CASE c.op = 247 /\ c.reg \in {5, 7}
  <2>1. HasModRM(c) /\ ImmSize(c) = 0
    BY <1>15 DEF HasModRM, ImmSize
  <2> QED BY <1>1, <1>15, <2>1, WideMultiplyDecoded, RmTail, IsLength
<1>16. CASE c.op \in {254, 255} /\ c.reg \in {0, 1, 2, 4, 6}
  <2>1. HasModRM(c) /\ ImmSize(c) = 0
    BY <1>16 DEF HasModRM, ImmSize
  <2> QED BY <1>1, <1>16, <2>1, GroupDecoded, RmTail, IsLength
<1>17. CASE c.op = 255 /\ c.reg \notin {0, 1, 2, 4, 6}
  <2>1. d.type = "panic"
    BY <1>1, <1>17, GroupDecoded DEF Is
  <2> QED BY <2>1
<1>18. CASE /\ c.op >= 64 /\ c.op \notin (80..95) \cup (112..127) \cup (136..139) \cup (176..193)
            /\ c.op \notin {99, 104, 105, 106, 128, 129, 131, 132, 133, 141, 143, 144, 152, 153, 195, 198,
                        199, 201, 232, 233, 235, 244, 254, 255} \cup (208..211)
            /\ ~(c.op = 247 /\ c.reg \in {5, 7})
  <2>1. Body(c, g) = Unknown(Start(c, g))
    <3>1. CASE c.op = 247
      BY <1>1, <1>18, <3>1 DEF Body, DecodeOneByte, DecodeMultiply
    <3>2. CASE c.op # 247
      BY <1>1, <1>18, <3>2 DEF Body, DecodeOneByte
    <3> QED BY <3>1, <3>2
  <2>2. d.type = "panic"
    BY <1>1, <2>1, DecodedUnknown DEF Is
  <2> QED BY <2>2
<1> QED BY <1>1, <1>2, <1>3, <1>4, <1>5, <1>6, <1>7, <1>8, <1>9, <1>10, <1>11, <1>12, <1>13, <1>14,
           <1>15, <1>16, <1>17, <1>18


LEMMA TwoByteLength ==
  ASSUME NEW c \in RealCodes, NEW g \in Instructions, c.two,
         decode_instr(c, g).type # "panic", ~LongNop(c)
  PROVE  decode_instr(c, g).len = Length(c)
<1> DEFINE d == decode_instr(c, g)
<1>1. c \in Codes /\ c.op \in 0..255 /\ 1 + RmBytes(c) \in Nat
  BY StartIs, RmBytesSize DEF RealCodes, Codes
<1>2. c.op \notin {5} \cup (128..143) => TailBytes(c) = 1 + RmBytes(c)
  BY <1>1, RmTail DEF HasModRM, ImmSize
<1>3. CASE c.op \in {5, 30, 31}
  <2>1. c.op = 5 => TailBytes(c) = 0
    BY DEF TailBytes, HasModRM, ImmSize
  <2>2. c.op # 5 => RmBytes(c) = 0
    BY <1>1, <1>3 DEF LongNop, Memory, HasModRM, RmBytes, DispSize, NoBase, Bare, Bit, Codes
  <2>3. TailBytes(c) = IF c.op = 5 THEN 0 ELSE 1
    BY <1>2, <1>3, <2>1, <2>2
  <2> QED BY <1>1, <1>3, <2>3, PlainDecoded, IsLength
<1>4. CASE c.op = 17
  BY <1>1, <1>2, <1>4, StoreVectorDecoded, IsLength
<1>5. CASE c.op \in {42, 110}
  BY <1>1, <1>2, <1>5, ConvertDecoded, IsLength
<1>6. CASE c.op \in {44, 126}
  BY <1>1, <1>2, <1>6, ConvertBackDecoded, IsLength
<1>7. CASE c.op = 47
  BY <1>1, <1>2, <1>7, CompareDecoded, IsLength
<1>8. CASE c.op \in {16, 40, 87, 88, 89, 90, 92, 94, 239}
  BY <1>1, <1>2, <1>8, VectorDecoded, IsLength
<1>9. CASE c.op \in 64..79
  BY <1>1, <1>2, <1>9, SelectDecoded, IsLength
<1>10. CASE c.op \in 128..143
  <2>1. TailBytes(c) = 4
    BY <1>10 DEF TailBytes, HasModRM, ImmSize
  <2> QED BY <1>1, <1>10, <2>1, JccDecoded, IsLength
<1>11. CASE c.op \in 144..159
  BY <1>1, <1>2, <1>11, SetDecoded, IsLength
<1>12. CASE c.op = 175
  BY <1>1, <1>2, <1>12, Imul2Decoded, IsLength
<1>13. CASE c.op \in {182, 183, 190, 191}
  BY <1>1, <1>2, <1>13, ExtendDecoded, IsLength
<1>14. CASE c.op \notin {5, 16, 17, 30, 31, 40, 42, 44, 47, 87, 88, 89, 90, 92, 94, 110, 126, 175, 182, 183,
                         190, 191, 239} \cup (64..79) \cup (128..159)
  <2>1. Body(c, g) = Unknown(Start(c, g))
    BY <1>1, <1>14 DEF Body, decode_0F, Extend
  <2>2. d.type = "panic"
    BY <1>1, <2>1, DecodedUnknown DEF Is
  <2> QED BY <2>2
<1> QED BY <1>1, <1>3, <1>4, <1>5, <1>6, <1>7, <1>8, <1>9, <1>10, <1>11, <1>12, <1>13, <1>14


-----------------------------------------------------------------------------
(***************************************************************************)
(* What every Instruction that decode_instr() returns is like.              *)
(***************************************************************************)
RmOp(op) == RegOp(op) \/ MemOp(op)
XmmReg(op) == op.type = {"REG", "XMM"} /\ op.reg \in 0..15
TwoOps(i) == \/ RegOp(i.a) /\ (RmOp(i.b) \/ ImmOp(i.b))
             \/ MemOp(i.a) /\ (RegOp(i.b) \/ ImmOp(i.b))
XmmOps(i) == \/ XmmReg(i.a) /\ (IF i.type = "CVTSS2SD" THEN XmmReg(i.b) \/ MemOp(i.b) ELSE RmOp(i.b))
             \/ RmOp(i.a) /\ XmmReg(i.b) /\ i.type # "CVTSS2SD"

General == {"ADD", "OR", "ADC", "SBB", "AND", "SUB", "XOR", "CMP", "ROL", "ROR", "RCL", "RCR", "SHL",
            "SHR", "SAL", "SAR", "CMOVO", "CMOVNO", "CMOVB", "CMOVAE", "CMOVE", "CMOVNE", "CMOVBE",
            "CMOVA", "CMOVS", "CMOVNS", "CMOVP", "CMOVPO", "CMOVL", "CMOVGE", "CMOVLE", "CMOVG", "MOVSX",
            "MOV", "TEST", "LEA", "MOVSBL", "MOVZBL", "MOVSWL", "MOVZWL"}
VectorTypes == {"PXOR", "ADDS", "MULS", "CVTSS2SD", "CVTSD2SS", "SUBS", "DIVS", "COMIS", "MOVS", "MOVQ",
                "MOVAPD", "CVTSD2SI", "CVTSI2S"}
Sets == {SETcc[k] : k \in 1..16}
Conditional == {Jcc[k] : k \in 1..16}
Shaped(i) ==
  \/ i.type \in {"panic", "NOP", "EBR", "RET", "LEAVE", "CLTQ", "CLTD", "SYSCALL", "PUSH", "POP"}
  \/ i.type \in Conditional
  \/ i.type \in {"JMP", "CALL"} /\ (RmOp(i.a) \/ ImmOp(i.a))
  \/ i.type \in Sets /\ RmOp(i.a)
  \/ i.type \in VectorTypes /\ XmmOps(i)
  \/ i.type \in General /\ TwoOps(i)
  \/ i.type = "IMUL" /\ RegOp(i.a) /\ RmOp(i.b)
  \/ i.type = "IDIV" /\ RegOp(i.a) /\ i.a.reg \in {0, 8} /\ RmOp(i.b)
Sound(d) == d \in Instructions /\ d.size \in {8, 16, 32, 64} /\ d.len \in 1..15 /\ Shaped(d)

LEMMA ClassNames ==
  /\ \A k \in 1..8 : Grp0[k] \in General /\ Shifts[k] \in General
  /\ \A k \in 1..16 : CMOVcc[k] \in General
BY DEF Grp0, Shifts, CMOVcc, General

LEMMA RegisterNumbers ==
  ASSUME NEW c \in Codes
  PROVE  /\ Reg(c) \in 0..15 /\ Rm(c) \in 0..15 /\ OpReg(c) \in 0..15
         /\ RAX + Ext(c, "R") \in 0..15 /\ RCX + Ext(c, "R") \in 0..15
BY ExtSize DEF Reg, Rm, OpReg, RAX, RCX, Codes

LEMMA RmIsOp ==
  ASSUME NEW c \in Codes, NEW op
  PROVE  /\ RmIs(c, op) => RmOp(op)
         /\ XrmIs(c, op) => XmmReg(op) \/ MemOp(op)
<1>1. Rm(c) \in 0..15
  BY RegisterNumbers
<1>2. ASSUME MemoryIs(c, op) PROVE MemOp(op)
  <2>1. ~Bare(c) => op.reg \in 0..15
    BY <1>2, ExtSize DEF MemoryIs, BaseRegister, Codes
  <2>2. c.rm = 4 => op.idx \in 0..15
    BY <1>2, ExtSize DEF MemoryIs, Codes
  <2>3. op.type = MemoryType(c)
    BY <1>2 DEF MemoryIs
  <2>4. "REG" \in MemoryType(c) \/ "IDX" \in MemoryType(c) \/ MemoryType(c) = {"MEM", "IMM"}
    BY DEF MemoryType
  <2> QED BY <2>1, <2>2, <2>3, <2>4 DEF MemOp, MemoryType
<1> QED BY <1>1, <1>2 DEF RmIs, XrmIs, RmOp, RegOp, XmmReg, XmmIs, IsReg

LEMMA OperandsShaped ==
  ASSUME NEW c \in Codes, NEW d
  PROVE  /\ RmReg(c, d) => TwoOps(d)
         /\ RegRm(c, d) => TwoOps(d) /\ RegOp(d.a) /\ RmOp(d.b)
         /\ \A v : RmImm(c, d, v) => TwoOps(d)
         /\ \A n \in 0..15 : IsReg(d.a, n) => \A v : IsImm(d.b, v) => TwoOps(d)
<1>1. Reg(c) \in 0..15
  BY RegisterNumbers
<1>2. (RmIs(c, d.a) => RmOp(d.a)) /\ (RmIs(c, d.b) => RmOp(d.b))
  BY RmIsOp
<1>3. \A n \in 0..15 : (IsReg(d.a, n) => RegOp(d.a)) /\ (IsReg(d.b, n) => RegOp(d.b))
  BY DEF IsReg, RegOp
<1>4. \A v : IsImm(d.b, v) => ImmOp(d.b)
  BY DEF IsImm, ImmOp
<1> QED BY <1>1, <1>2, <1>3, <1>4 DEF RmReg, RegRm, RmImm, TwoOps, RmOp

LEMMA IsSound ==
  ASSUME NEW c \in Codes, NEW d, NEW t, NEW s \in {8, 16, 32, 64}, NEW p, NEW n \in 0..11,
         Is(d, c, t, s, p, n), Shaped(d)
  PROVE  Sound(d)
<1>1. d.size \in {8, 16, 32, 64}
  BY DEF Is, Wide
<1>2. HeadBytes(c) \in 1..4
  BY DEF HeadBytes, Bit
<1> QED BY <1>1, <1>2 DEF Is, Sound


LEMMA OneByteSound ==
  ASSUME NEW c \in RealCodes, NEW g \in Instructions, ~c.two
  PROVE  Sound(decode_instr(c, g))
<1> DEFINE d == decode_instr(c, g)
<1>1. c \in Codes /\ (c.op < 64 => c.op % 8 < 6) /\ (c.op = 254 => c.reg \in {0, 1})
      /\ c.op \in 0..255 /\ c.reg \in 0..7
  BY DEF RealCodes, Codes
<1>2. 1 + RmBytes(c) \in 1..6 /\ ByteOr(c, 32) \in {8, 32}
  BY <1>1, StartIs, RmBytesSize DEF ByteOr
<1> SUFFICES Sound(d)
  OBVIOUS
<1>3. ASSUME NEW k, k.type \in General, Body(c, g) = decode_GRP0(c, k), Alike(k, Start(c, g)),
             k.size = 32, c.op % 8 < 6
      PROVE  Sound(d)
  <2>1. CASE c.op % 8 < 4
    <3>1. /\ Is(d, c, k.type, ByteOr(c, 32), c.prefix, 1 + RmBytes(c))
          /\ RmReg(c, d) \/ RegRm(c, d)
      BY <1>1, <1>3, <2>1, DecodedGrp0
    <3> HIDE DEF d
    <3>2. Shaped(d)
      BY <1>1, <1>3, <3>1, OperandsShaped DEF Shaped, Is
    <3> QED BY <1>1, <1>2, <3>1, <3>2, IsSound
  <2>2. CASE c.op % 8 \in {4, 5}
    <3>1. /\ Is(d, c, k.type, ByteOr(c, 32), c.prefix, IF c.op % 8 = 4 THEN 1 ELSE 4)
          /\ IsReg(d.a, RAX + Ext(c, "R")) /\ IsImm(d.b, c.imm)
      BY <1>1, <1>3, <2>2, DecodedGrp0
    <3> HIDE DEF d
    <3>2. Shaped(d)
      BY <1>1, <1>3, <3>1, OperandsShaped, RegisterNumbers DEF Shaped, Is
    <3> QED BY <1>1, <1>2, <3>1, <3>2, IsSound
  <2> QED BY <1>1, <1>3, <2>1, <2>2
<1>4. CASE c.op < 64
  <2> DEFINE k == [Start(c, g) EXCEPT !.type = Grp0[c.op \div 8 + 1]]
  <2>1. Alike(k, Start(c, g)) /\ k.size = 32 /\ k.type = Grp0[c.op \div 8 + 1]
        /\ Body(c, g) = decode_GRP0(c, k)
    BY <1>1, <1>4, ArithmeticDecoded
  <2>2. c.op \div 8 + 1 \in 1..8
    BY <1>1, <1>4
  <2> HIDE DEF k
  <2> QED BY <1>1, <1>3, <1>4, <2>1, <2>2, ClassNames
<1>5. CASE c.op \in 136..139
  <2> DEFINE k == [Start(c, g) EXCEPT !.type = "MOV"]
  <2>1. Alike(k, Start(c, g)) /\ k.size = 32 /\ k.type = "MOV" /\ Body(c, g) = decode_GRP0(c, k)
    BY <1>1, <1>5, MovDecoded
  <2>2. c.op % 8 < 6
    BY <1>5
  <2> HIDE DEF k
  <2> QED BY <1>3, <2>1, <2>2 DEF General
<1>6. CASE c.op \in (80..95) \cup {104, 106, 143}
  <2>1. /\ Is(d, c, IF c.op \in (88..95) \cup {143} THEN "POP" ELSE "PUSH",
              IF c.op \in {104, 106} THEN 32 ELSE 64, c.prefix,
              IF c.op = 104 THEN 4 ELSE IF c.op = 106 THEN 1
              ELSE IF c.op = 143 THEN 1 + RmBytes(c) ELSE 0)
    BY <1>1, <1>6, PushPopDecoded
  <2> HIDE DEF d
  <2>2. Shaped(d)
    BY <2>1 DEF Shaped, Is
  <2> QED BY <1>1, <1>2, <2>1, <2>2, IsSound
<1>7. CASE c.op \in {99, 141}
  <2>1. /\ Is(d, c, IF c.op = 99 THEN "MOVSX" ELSE "LEA", 32, c.prefix, 1 + RmBytes(c))
        /\ RegRm(c, d)
    BY <1>1, <1>7, MovsxLeaDecoded
  <2> HIDE DEF d
  <2>2. Shaped(d)
    BY <1>1, <2>1, OperandsShaped DEF Shaped, Is, General
  <2> QED BY <1>1, <1>2, <2>1, <2>2, IsSound
<1>8. CASE c.op = 105
  <2>1. /\ Is(d, c, "IMUL", 32, c.prefix, 1 + RmBytes(c) + 4) /\ IsReg(d.a, Reg(c))
        /\ \E op \in Operands : RmIs(c, op) /\ SameBut(d.b, op)
    BY <1>1, <1>8, Imul3Decoded
  <2> HIDE DEF d
  <2>2. PICK op \in Operands : RmIs(c, op) /\ SameBut(d.b, op)
    BY <2>1
  <2>3. RmOp(op)
    BY <1>1, <2>2, RmIsOp
  <2>4. RmOp(d.b)
    BY <2>2, <2>3 DEF RmOp, RegOp, MemOp, SameBut
  <2>5. RegOp(d.a)
    BY <1>1, <2>1, RegisterNumbers DEF RegOp, IsReg
  <2>6. Shaped(d)
    BY <2>1, <2>4, <2>5 DEF Shaped, Is, General, TwoOps
  <2> QED BY <1>1, <1>2, <2>1, <2>6, IsSound
<1>9. CASE c.op \in (112..127) \cup {232, 233, 235}
  <2> DEFINE t == IF c.op \in 112..127 THEN Jcc[c.op - 111] ELSE IF c.op = 232 THEN "CALL" ELSE "JMP"
  <2>1. /\ Is(d, c, t, 32, c.prefix, IF c.op \in {232, 233} THEN 4 ELSE 1) /\ IsImm(d.a, c.imm)
    BY <1>1, <1>9, JumpDecoded
  <2>2. t \in Conditional \/ t \in {"JMP", "CALL"}
    <3>1. c.op \in 112..127 => c.op - 111 \in 1..16
      BY <1>1
    <3> QED BY <3>1 DEF Conditional
  <2> HIDE DEF d, t
  <2>3. Shaped(d)
    BY <2>1, <2>2 DEF Shaped, Is, IsImm, ImmOp
  <2> QED BY <1>1, <1>2, <2>1, <2>3, IsSound
<1>10. CASE c.op \in {144, 152, 153, 195, 201, 244}
  <2>1. Is(d, c, BareType(c.op), 32, c.prefix, 0)
    BY <1>1, <1>10, BareDecoded
  <2>2. BareType(c.op) \in {"NOP", "CLTQ", "CLTD", "RET", "LEAVE"}
    BY <1>10 DEF BareType
  <2> HIDE DEF d
  <2>3. Shaped(d)
    BY <2>1, <2>2 DEF Shaped, Is
  <2> QED BY <1>1, <1>2, <2>1, <2>3, IsSound
<1>11. CASE c.op \in {128, 129, 131}
  <2>1. /\ Is(d, c, Grp0[c.reg + 1], IF c.op = 128 THEN 8 ELSE 32, c.prefix,
              1 + RmBytes(c) + IF c.op = 129 THEN 4 ELSE 1)
        /\ RmImm(c, d, c.imm)
    BY <1>1, <1>11, ImmediateDecoded
  <2>2. Grp0[c.reg + 1] \in General
    BY <1>1, ClassNames
  <2> HIDE DEF d
  <2>3. Shaped(d)
    BY <1>1, <2>1, <2>2, OperandsShaped DEF Shaped, Is
  <2> QED BY <1>1, <1>2, <2>1, <2>3, IsSound
<1>12. CASE c.op \in {132, 133}
  <2>1. Is(d, c, "TEST", ByteOr(c, 32), c.prefix, 1 + RmBytes(c)) /\ RmReg(c, d)
    BY <1>1, <1>12, TestDecoded
  <2> HIDE DEF d
  <2>2. Shaped(d)
    BY <1>1, <2>1, OperandsShaped DEF Shaped, Is, General
  <2> QED BY <1>1, <1>2, <2>1, <2>2, IsSound
<1>13. CASE c.op \in 176..183
  <2>1. Is(d, c, "MOV", 8, c.prefix, 1) /\ IsReg(d.a, OpReg(c)) /\ IsImm(d.b, c.imm)
    BY <1>1, <1>13, MovByteDecoded
  <2> HIDE DEF d
  <2>2. Shaped(d)
    BY <1>1, <2>1, OperandsShaped, RegisterNumbers DEF Shaped, Is, General
  <2> QED BY <1>1, <1>2, <2>1, <2>2, IsSound
<1>14. CASE c.op \in 184..191
  <2>1. /\ Is(d, c, "MOV", 32, c.prefix, IF "W" \in c.rex THEN 8 ELSE 4)
        /\ IsReg(d.a, OpReg(c)) /\ IsImm(d.b, c.imm)
    BY <1>1, <1>14, MovWordDecoded
  <2> HIDE DEF d
  <2>2. Shaped(d)
    BY <1>1, <2>1, OperandsShaped, RegisterNumbers DEF Shaped, Is, General
  <2> QED BY <1>1, <1>2, <2>1, <2>2, IsSound
<1>15. CASE c.op \in {198, 199}
  <2>1. /\ Is(d, c, "MOV", IF c.op = 198 THEN 8 ELSE IF c.prefix = "OS" THEN 16 ELSE 32, c.prefix,
              1 + RmBytes(c) + (IF c.op = 198 THEN 1 ELSE IF c.prefix = "OS" THEN 2 ELSE 4))
        /\ RmImm(c, d, c.imm)
    BY <1>1, <1>15, MovRmImmediateDecoded
  <2> HIDE DEF d
  <2>2. Shaped(d)
    BY <1>1, <2>1, OperandsShaped DEF Shaped, Is, General
  <2> QED BY <1>1, <1>2, <2>1, <2>2, IsSound
<1>16. CASE c.op \in {192, 193} \cup (208..211)
  <2>1. /\ Is(d, c, Shifts[c.reg + 1], ByteOr(c, 32), c.prefix,
              1 + RmBytes(c) + (IF c.op \in {192, 193} THEN 1 ELSE 0))
        /\ \/ RmImm(c, d, c.imm)
           \/ RmImm(c, d, 1)
           \/ RmIs(c, d.a) /\ IsReg(d.b, RCX + Ext(c, "R"))
    BY <1>1, <1>16, ShiftDecoded
  <2>2. Shifts[c.reg + 1] \in General
    BY <1>1, ClassNames
  <2> HIDE DEF d
  <2>3. RmIs(c, d.a) /\ IsReg(d.b, RCX + Ext(c, "R")) => TwoOps(d)
    BY <1>1, RmIsOp, RegisterNumbers DEF TwoOps, RmOp, RegOp, IsReg
  <2>4. Shaped(d)
    BY <1>1, <2>1, <2>2, <2>3, OperandsShaped DEF Shaped, Is
  <2> QED BY <1>1, <1>2, <2>1, <2>4, IsSound
<1>17. CASE c.op = 247 /\ c.reg \in {5, 7}
  <2>1. /\ Is(d, c, IF c.reg = 7 THEN "IDIV" ELSE "IMUL", 32, c.prefix, 1 + RmBytes(c))
        /\ RegOp(d.a) /\ d.a.reg \in {0, 8} /\ (RegOp(d.b) \/ MemOp(d.b))
    BY <1>1, <1>17, WideMultiplyDecoded
  <2> HIDE DEF d
  <2>2. Shaped(d)
    BY <2>1 DEF Shaped, Is, General, TwoOps, RmOp
  <2> QED BY <1>1, <1>2, <2>1, <2>2, IsSound
<1>18. CASE c.op \in {254, 255}
  <2>1. CASE c.reg \in {0, 1}
    <3>1. /\ Is(d, c, IF c.reg = 0 THEN "ADD" ELSE "SUB", ByteOr(c, 32), c.prefix, 1 + RmBytes(c))
          /\ RmImm(c, d, 1)
      BY <1>1, <1>18, <2>1, GroupDecoded
    <3> HIDE DEF d
    <3>2. Shaped(d)
      BY <1>1, <3>1, OperandsShaped DEF Shaped, Is, General
    <3> QED BY <1>1, <1>2, <3>1, <3>2, IsSound
  <2>2. CASE c.reg \in {2, 4, 6}
    <3>1. /\ Is(d, c, IF c.reg = 2 THEN "CALL" ELSE IF c.reg = 4 THEN "JMP" ELSE "PUSH", 64,
                c.prefix, 1 + RmBytes(c))
          /\ RmIs(c, d.a)
      BY <1>1, <1>18, <2>2, GroupDecoded
    <3> HIDE DEF d
    <3>2. RmOp(d.a)
      BY <1>1, <3>1, RmIsOp
    <3>3. Shaped(d)
      BY <3>1, <3>2 DEF Shaped, Is
    <3> QED BY <1>1, <1>2, <3>1, <3>3, IsSound
  <2>3. CASE c.reg \notin {0, 1, 2, 4, 6}
    <3>1. Is(d, c, "panic", ByteOr(c, 32), c.prefix, 1 + RmBytes(c))
      BY <1>1, <1>18, <2>3, GroupDecoded
    <3> HIDE DEF d
    <3>2. Shaped(d)
      BY <3>1 DEF Shaped, Is
    <3> QED BY <1>1, <1>2, <3>1, <3>2, IsSound
  <2> QED BY <2>1, <2>2, <2>3
<1>19. CASE /\ c.op >= 64 /\ c.op \notin (80..95) \cup (112..127) \cup (136..139) \cup (176..193)
            /\ c.op \notin {99, 104, 105, 106, 128, 129, 131, 132, 133, 141, 143, 144, 152, 153, 195, 198,
                        199, 201, 232, 233, 235, 244, 254, 255} \cup (208..211)
            /\ ~(c.op = 247 /\ c.reg \in {5, 7})
  <2>1. Body(c, g) = Unknown(Start(c, g))
    <3>1. CASE c.op = 247
      BY <1>1, <1>19, <3>1 DEF Body, DecodeOneByte, DecodeMultiply
    <3>2. CASE c.op # 247
      BY <1>1, <1>19, <3>2 DEF Body, DecodeOneByte
    <3> QED BY <3>1, <3>2
  <2>2. Is(d, c, "panic", 32, c.prefix, 0)
    BY <1>1, <2>1, DecodedUnknown
  <2> HIDE DEF d
  <2>3. Shaped(d)
    BY <2>2 DEF Shaped, Is
  <2> QED BY <1>1, <2>2, <2>3, IsSound
<1> QED BY <1>1, <1>4, <1>5, <1>6, <1>7, <1>8, <1>9, <1>10, <1>11, <1>12, <1>13, <1>14, <1>15, <1>16,
           <1>17, <1>18, <1>19


LEMMA TwoByteSound ==
  ASSUME NEW c \in Codes, NEW g \in Instructions, c.two
  PROVE  Sound(decode_instr(c, g))
<1> DEFINE d == decode_instr(c, g)
<1>1. c.op \in 0..255 /\ Reg(c) \in 0..15
  BY RegisterNumbers DEF Codes
<1>2. 1 + RmBytes(c) \in 1..6
  BY StartIs, RmBytesSize
<1> SUFFICES Sound(d)
  OBVIOUS
<1>3. CASE c.op \in {5, 30, 31}
  <2>1. Is(d, c, IF c.op = 5 THEN "SYSCALL" ELSE IF c.op = 30 THEN "EBR" ELSE "NOP",
           32, "none", IF c.op = 5 THEN 0 ELSE 1)
    BY <1>3, PlainDecoded
  <2> HIDE DEF d
  <2>2. Shaped(d)
    BY <2>1 DEF Shaped, Is
  <2> QED BY <1>2, <2>1, <2>2, IsSound
<1>4. CASE c.op = 17
  <2>1. /\ Is(d, c, "MOVS", 32, c.prefix, 1 + RmBytes(c))
        /\ XrmIs(c, d.a) /\ XmmIs(d.b, Reg(c))
    BY <1>4, StoreVectorDecoded
  <2> HIDE DEF d
  <2>2. XmmReg(d.a) \/ MemOp(d.a)
    BY <2>1, RmIsOp
  <2>3. Shaped(d)
    BY <1>1, <2>1, <2>2 DEF Shaped, Is, VectorTypes, XmmOps, XmmReg, XmmIs, RmOp, RegOp
  <2> QED BY <1>2, <2>1, <2>3, IsSound
<1>5. CASE c.op \in {42, 110}
  <2>1. /\ Is(d, c, IF c.op = 42 THEN "CVTSI2S" ELSE "MOVQ", 32, c.prefix, 1 + RmBytes(c))
        /\ XmmIs(d.a, Reg(c)) /\ RmIs(c, d.b)
    BY <1>5, ConvertDecoded
  <2> HIDE DEF d
  <2>2. RmOp(d.b)
    BY <2>1, RmIsOp
  <2>3. Shaped(d)
    BY <1>1, <2>1, <2>2 DEF Shaped, Is, VectorTypes, XmmOps, XmmReg, XmmIs
  <2> QED BY <1>2, <2>1, <2>3, IsSound
<1>6. CASE c.op \in {44, 126}
  <2>1. /\ Is(d, c, IF c.op = 44 THEN "CVTSD2SI" ELSE "MOVQ", 32, c.prefix, 1 + RmBytes(c))
        /\ RmIs(c, d.a) /\ XmmIs(d.b, Reg(c))
    BY <1>6, ConvertBackDecoded
  <2> HIDE DEF d
  <2>2. RmOp(d.a)
    BY <2>1, RmIsOp
  <2>3. Shaped(d)
    BY <1>1, <2>1, <2>2 DEF Shaped, Is, VectorTypes, XmmOps, XmmReg, XmmIs
  <2> QED BY <1>2, <2>1, <2>3, IsSound
<1>7. ASSUME NEW t \in VectorTypes, NEW p, Is(d, c, t, 32, p, 1 + RmBytes(c)),
             XmmIs(d.a, Reg(c)), XrmIs(c, d.b)
      PROVE  Sound(d)
  <2> HIDE DEF d
  <2>1. XmmReg(d.b) \/ MemOp(d.b)
    BY <1>7, RmIsOp
  <2>2. Shaped(d)
    BY <1>1, <1>7, <2>1 DEF Shaped, Is, XmmOps, XmmReg, XmmIs, RmOp, RegOp
  <2> QED BY <1>2, <1>7, <2>2, IsSound
<1>8. CASE c.op = 47
  BY <1>7, <1>8, CompareDecoded DEF VectorTypes
<1>9. CASE c.op \in {16, 40, 87, 88, 89, 90, 92, 94, 239}
  <2>1. VectorType(c) \in VectorTypes
    BY <1>9 DEF VectorType, VectorTypes
  <2> QED BY <1>7, <1>9, <2>1, VectorDecoded
<1>10. ASSUME NEW t \in General \cup {"IMUL"}, Is(d, c, t, 32, c.prefix, 1 + RmBytes(c)), RegRm(c, d)
       PROVE  Sound(d)
  <2> HIDE DEF d
  <2>1. Shaped(d)
    BY <1>10, OperandsShaped DEF Shaped, Is
  <2> QED BY <1>2, <1>10, <2>1, IsSound
<1>11. CASE c.op \in 64..79
  <2>1. c.op - 63 \in 1..16
    BY <1>1, <1>11
  <2> QED BY <1>10, <1>11, <2>1, ClassNames, SelectDecoded
<1>12. CASE c.op = 175
  BY <1>10, <1>12, Imul2Decoded DEF General
<1>13. CASE c.op \in {182, 183, 190, 191}
  BY <1>10, <1>13, ExtendDecoded DEF General, Widening
<1>14. CASE c.op \in 128..143
  <2>1. Is(d, c, Jcc[c.op - 127], 32, c.prefix, 4)
    BY <1>14, JccDecoded
  <2>2. c.op - 127 \in 1..16
    BY <1>1, <1>14
  <2> HIDE DEF d
  <2>3. Shaped(d)
    BY <2>1, <2>2 DEF Shaped, Is, Conditional
  <2> QED BY <2>1, <2>3, IsSound
<1>15. CASE c.op \in 144..159
  <2>1. /\ Is(d, c, SETcc[c.op - 143], 8, c.prefix, 1 + RmBytes(c))
        /\ RegOp(d.a) \/ MemOp(d.a)
    BY <1>15, SetDecoded
  <2>2. c.op - 143 \in 1..16
    BY <1>1, <1>15
  <2> HIDE DEF d
  <2>3. Shaped(d)
    BY <2>1, <2>2 DEF Shaped, Is, Sets, RmOp
  <2> QED BY <1>2, <2>1, <2>3, IsSound
<1>16. CASE c.op \notin {5, 16, 17, 30, 31, 40, 42, 44, 47, 87, 88, 89, 90, 92, 94, 110, 126, 175, 182, 183,
                         190, 191, 239} \cup (64..79) \cup (128..159)
  <2>1. Body(c, g) = Unknown(Start(c, g))
    BY <1>1, <1>16 DEF Body, decode_0F, Extend
  <2>2. Is(d, c, "panic", 32, c.prefix, 0)
    BY <2>1, DecodedUnknown
  <2> HIDE DEF d
  <2>3. Shaped(d)
    BY <2>2 DEF Shaped, Is
  <2> QED BY <2>2, <2>3, IsSound
<1> QED BY <1>1, <1>3, <1>4, <1>5, <1>6, <1>8, <1>9, <1>11, <1>12, <1>13, <1>14, <1>15, <1>16

LEMMA DecodedSound ==
  ASSUME NEW c \in RealCodes, NEW g \in Instructions
  PROVE  Sound(decode_instr(c, g))
BY OneByteSound, TwoByteSound DEF RealCodes, Codes

-----------------------------------------------------------------------------
(***************************************************************************)
(* The translation is a function of the bytes and of the leftover.          *)
(***************************************************************************)
Translated ==
  /\ code \in RealCodes /\ old \in Instructions /\ at \in Nat
  /\ at = 0 => instr = old /\ words = <<>> /\ host = HostOf(Guest)
  /\ at > 0 => /\ instr = decode_instr(code, old)
               /\ words = IF instr.type = "panic" THEN panic ELSE encode(instr, NextIp)

LEMMA InitTranslated == Init => Translated
<1>1. Init => old \in Instructions
  BY CodecAssumption DEF Init
<1> QED BY <1>1, InitCode DEF Init, Translated

LEMMA NextTranslated == Translated /\ [Next]_vars => Translated'
<1> SUFFICES ASSUME Translated, [Next]_vars PROVE Translated'
  OBVIOUS
<1>1. CASE Translate
  BY <1>1 DEF Translate, Translated
<1>2. CASE Run
  <2>1. at \in Nat /\ at > 0 /\ at' = at + 1
    BY <1>2 DEF Run, Translated
  <2> QED BY <1>2, <2>1 DEF Run, Translated
<1>3. CASE UNCHANGED vars
  BY <1>3 DEF vars, Translated
<1> QED BY <1>1, <1>2, <1>3 DEF Next

(* decode() runs an instruction only once encode() has emitted its words:   *)
(* a host that has started runs a translation decode() did not break out of *)
(* and of which it knows the length.                                        *)
THEOREM AlwaysTranslated == Spec => []Translated
BY InitTranslated, NextTranslated, PTL DEF Spec

(* Decoding goes on behind the instruction and not inside it or the next:   *)
(* for every sequence of bytes that is an instruction and whatever the      *)
(* Instruction of decode() held before, decode_instr() has fetched as many  *)
(* bytes as the manual's length of the instruction, but for the three forms *)
(* that Lengths names.                                                      *)
THEOREM LengthsHold == Spec => []Lengths
<1>1. Translated => Lengths
  BY OneByteLength, TwoByteLength DEF Translated, Lengths, RealCodes, Codes
<1> QED BY <1>1, AlwaysTranslated, PTL


-----------------------------------------------------------------------------
(***************************************************************************)
(* The host's words, one by one.                                            *)
(***************************************************************************)
Numbers == 0..(P - 1)
Sizes == {32, 64}
Hosts == [x: [0..31 -> Numbers], v: [0..16 -> Numbers],
          flags: {"none", "SUB", "AND", "FCMP"} \X Int \X Int \X Int, store: Int \X Int \X Int,
          target: Int, bad: BOOLEAN]

LEMMA Modulo ==
  ASSUME NEW a \in Int
  PROVE  (a % P) \in Numbers /\ (a \in Numbers => (a % P) = a)
BY ValuesAssumption DEF Numbers

LEMMA Counts ==
  ASSUME NEW width
  PROVE  /\ Count(width) \in Nat /\ 0 < Count(width) /\ Count(width) \leq P
         /\ Count(32) = Half /\ Count(64) = P
BY ValuesAssumption DEF Count

(* The low bits of a number: cutting twice is cutting once, and 64 bits are  *)
(* all of them.                                                             *)
LEMMA AtRange ==
  ASSUME NEW width, NEW v \in Int
  PROVE  /\ At(width, v) \in Numbers /\ At(width, At(width, v)) = At(width, v)
         /\ (At(width, v) % P) = At(width, v)
         /\ At(64, v) = v % P /\ (v \in Numbers => At(64, v) = v)
<1> DEFINE n == Count(width)
<1>1. n \in Nat /\ 0 < n /\ n \leq P
  BY Counts
<1> HIDE DEF n
<1>2. (v % n) \in 0..(n - 1)
  BY <1>1
<1> DEFINE a == v % n
<1>3. a \in Int /\ 0 \leq a /\ a < n /\ P \in Nat
  BY <1>1, <1>2, ValuesAssumption
<1> HIDE DEF a
<1>4. (a % n) = a /\ (a % P) = a /\ a \in 0..(P - 1)
  BY <1>1, <1>3
<1>5. Count(64) = P
  BY Counts
<1> QED BY <1>4, <1>5, Modulo DEF At, Numbers, n, a

LEMMA SignedRange == ASSUME NEW width, NEW v \in Int PROVE Signed(width, v) \in Int
<1>1. At(width, v) \in Int /\ Count(width) \in Int
  BY AtRange, Counts DEF Numbers
<1> QED BY <1>1 DEF Signed

LEMMA HashRange ==
  ASSUME NEW op \in DOMAIN Key, NEW width \in Int, NEW x \in Int, NEW y \in Int
  PROVE  Hash(op, width, x, y) \in Numbers
<1>1. Key[op] \in Int
  BY DEF Key
<1> DEFINE b == Key[op] * 64 + width
           a == b * 7919 + x * 211 + (IF op \in Commutes THEN y * 211 ELSE y * 1009)
<1>2. b \in Int
  BY <1>1
<1> HIDE DEF b
<1>3. a \in Int
  BY <1>2
<1> HIDE DEF a
<1>4. (a % 1000003) \in Int
  BY <1>3
<1>5. ((a % 1000003) % P) \in Numbers
  BY <1>4, Modulo
<1> QED BY <1>5 DEF Hash, a, b

LEMMA OpRange ==
  ASSUME NEW op \in (DOMAIN Key) \cup {"ADD", "SUB"}, NEW x \in Int, NEW y \in Nat
  PROVE  Op(op, x, y) \in Numbers
<1>1. CASE op \in {"ADD", "SUB"}
  <2>1. x + y \in Int /\ x - y \in Int
    OBVIOUS
  <2>2. ((x + y) % P) \in Numbers /\ ((x - y) % P) \in Numbers
    BY <2>1, Modulo
  <2> QED BY <1>1, <2>2 DEF Op
<1>2. CASE op = "LSL" /\ y < 4
  <2>1. 2^0 = 1 /\ 2^1 = 2 /\ 2^2 = 4 /\ 2^3 = 8
    OBVIOUS
  <2>2. y = 0 \/ y = 1 \/ y = 2 \/ y = 3
    BY <1>2
  <2>3. 2^y \in Int
    BY <2>1, <2>2
  <2> DEFINE p == 2^y
  <2>4. x * p \in Int
    BY <2>3
  <2> HIDE DEF p
  <2>5. ((x * p) % P) \in Numbers
    BY <2>4, Modulo
  <2> QED BY <1>2, <2>5 DEF Op, p
<1>3. CASE op \notin {"ADD", "SUB"} /\ ~(op = "LSL" /\ y < 4)
  <2>1. Op(op, x, y) = Hash(op, 64, x, y)
    BY <1>3 DEF Op
  <2> QED BY <1>3, <2>1, HashRange
<1> QED BY <1>1, <1>2, <1>3

LEMMA OpAtRange ==
  ASSUME NEW op \in (DOMAIN Key) \cup {"ADD", "SUB"}, NEW width \in Int, NEW x \in Int, NEW y \in Nat
  PROVE  /\ OpAt(width, op, x, y) \in Numbers
         /\ At(width, OpAt(width, op, x, y)) = OpAt(width, op, x, y)
<1>1. Op(op, x, y) \in Int
  BY OpRange DEF Numbers
<1>2. CASE width = 64 \/ op \in {"ADD", "SUB"}
  <2>1. OpAt(width, op, x, y) = At(width, Op(op, x, y))
    BY <1>2 DEF OpAt
  <2> QED BY <1>1, <2>1, AtRange
<1>3. CASE ~(width = 64 \/ op \in {"ADD", "SUB"})
  <2> DEFINE a == Hash(op, width, At(width, x), At(width, y))
  <2>1. At(width, x) \in Int /\ At(width, y) \in Int
    BY AtRange DEF Numbers
  <2>2. a \in Int
    BY <1>3, <2>1, HashRange DEF Numbers
  <2>3. OpAt(width, op, x, y) = At(width, a)
    BY <1>3 DEF OpAt
  <2> HIDE DEF a
  <2> QED BY <2>2, <2>3, AtRange
<1> QED BY <1>2, <1>3

LEMMA LoadRange == ASSUME NEW a \in Int PROVE Load(a) \in Numbers
<1>1. (a % P) \in Int
  BY Modulo DEF Numbers
<1>2. "LD" \in DOMAIN Key
  BY DEF Key
<1> QED BY <1>1, <1>2, HashRange DEF Load

(* h2 is h but for the register d, which is val, or for some registers in D. *)
Wrote(h2, h, d, val) ==
  /\ h2 \in Hosts
  /\ h2.x[d] = val /\ \A n \in (0..31) \ {d} : h2.x[n] = h.x[n]
  /\ h2.v = h.v /\ h2.flags = h.flags /\ h2.store = h.store /\ h2.target = h.target
  /\ h2.bad = h.bad
Kept(h2, h, D) == h2 \in Hosts /\ \A n \in (0..31) \ D : h2.x[n] = h.x[n]

LEMMA SetSpWrote ==
  ASSUME NEW h \in Hosts, NEW d \in 0..31, NEW val \in Int
  PROVE  Wrote(SetSp(h, d, val), h, d, (val % P))
<1> DEFINE a == val % P
<1>1. a \in Numbers
  BY Modulo
<1>2. SetSp(h, d, val) = [h EXCEPT !.x = [h.x EXCEPT ![d] = a]]
  BY DEF SetSp
<1> HIDE DEF a
<1>3. [h.x EXCEPT ![d] = a] \in [0..31 -> Numbers]
  BY <1>1 DEF Hosts
<1> QED BY <1>1, <1>2, <1>3 DEF Wrote, Hosts, a

LEMMA WroteKept ==
  ASSUME NEW h, NEW h2, NEW d, NEW val, Wrote(h2, h, d, val), NEW D, d \in D
  PROVE  Kept(h2, h, D)
BY DEF Wrote, Kept

LEMMA SetZKept ==
  ASSUME NEW h \in Hosts, NEW D, NEW d \in 0..31, d \in D \/ d = 31, NEW val \in Int
  PROVE  Kept(SetZ(h, d, val), h, D)
<1>1. CASE d = 31
  BY <1>1 DEF SetZ, Kept
<1>2. CASE d # 31
  BY <1>2, SetSpWrote, WroteKept DEF SetZ
<1> QED BY <1>1, <1>2

LEMMA SetVKept ==
  ASSUME NEW h \in Hosts, NEW D, NEW d \in 0..16, NEW val \in Int
  PROVE  Kept(SetV(h, d, val), h, D)
<1> DEFINE a == val % P
<1>1. a \in Numbers
  BY Modulo
<1>2. SetV(h, d, val) = [h EXCEPT !.v = [h.v EXCEPT ![d] = a]]
  BY DEF SetV
<1> HIDE DEF a
<1>3. [h.v EXCEPT ![d] = a] \in [0..16 -> Numbers]
  BY <1>1 DEF Hosts
<1> QED BY <1>1, <1>2, <1>3 DEF Kept, Hosts

LEMMA SetFlagsKept ==
  ASSUME NEW h, NEW h2, NEW D, Kept(h2, h, D),
         NEW f \in {"SUB", "AND", "FCMP"}, NEW x \in Int, NEW y \in Int, NEW size \in Int
  PROVE  Kept(SetFlags(h2, <<f, x, y, size>>), h, D)
BY DEF Kept, SetFlags, Hosts

LEMMA StoreKept ==
  ASSUME NEW h \in Hosts, NEW D, NEW a \in Int, NEW size \in Int, NEW y \in Int
  PROVE  Kept(Store(h, a, size, y), h, D)
<1> DEFINE b == a % P
           z == At(size, y)
<1>1. b \in Int /\ z \in Int
  BY Modulo, AtRange DEF Numbers
<1>2. Store(h, a, size, y) = [h EXCEPT !.store = <<b, size, z>>]
  BY DEF Store
<1> HIDE DEF b, z
<1> QED BY <1>1, <1>2 DEF Kept, Hosts

LEMMA SetRest ==
  ASSUME NEW h \in Hosts, NEW D
  PROVE  /\ \A a \in Int : Kept([h EXCEPT !.target = a], h, D)
         /\ Kept([h EXCEPT !.bad = TRUE], h, D)
         /\ Kept(h, h, D)
BY DEF Kept, Hosts


(* What a word may name: a register of its own file, and when it writes one  *)
(* of the general registers, one of D.                                      *)
Ternary == {"FMUL", "FDIV", "FADD", "FSUB", "EOR_V"}
VectorD == Ternary \cup {"LDR_V", "STR_V", "SCVTF", "FCVT", "FCVTU", "FMOVR", "MOV_V"}
VectorN == Ternary \cup {"FCMP", "FCVTZS", "FCVT", "FCVTU", "FMOV", "MOV_V"}
VectorM == Ternary \cup {"FCMP"}
Binary == {"ADD", "AND", "EOR", "ORR", "LSL", "ASR", "SDIV", "CSEL_HI", "CSEL_MI"}
Shifted == {"LSL_IMM", "LSR_IMM", "ASR_IMM"}
WritesZ == Binary \cup Shifted
           \cup {"MOV", "ADRP", "GET_FS", "UXTB", "SXTW", "ADDS", "SUBS", "MSUB", "CSET_NE", "CSET_HS",
                 "CSET_EQ", "CSET_LO", "LDR", "LDRB", "LDRH", "LDRSB", "LDRSH", "SMULL", "FCVTZS", "FMOV"}
WritesSp == {"ADD_IMM", "SUB_IMM"}
Others == {"SUBS_IMM", "ANDS", "STR", "STRB", "BR", "BLR", "BRK", "RET", "SVC", "stack", "panic", "garbled"}
Words(D) ==
  {w \in [op: VectorD \cup VectorN \cup WritesZ \cup WritesSp \cup Others,
          d: 0..31, n: 0..31, m: 0..31, imm: Int, size: Sizes] :
     /\ w.op \in WritesSp => w.d \in D
     /\ w.op \in WritesZ => w.d \in D \/ w.d = 31
     /\ w.op \in VectorD => w.d \in 0..16
     /\ w.op \in VectorN => w.n \in 0..16
     /\ w.op \in VectorM => w.m \in 0..16
     /\ w.op \in Shifted => w.imm \in Nat
     /\ w.op = "MSUB" => w.imm \in 0..31}

LEMMA ZNumber ==
  ASSUME NEW h \in Hosts, NEW n \in 0..31
  PROVE  Z(h, n) \in Numbers /\ h.x[n] \in Numbers
<1>1. 0 \in Numbers
  BY ValuesAssumption DEF Numbers
<1> QED BY <1>1 DEF Z, Hosts

LEMMA NumbersAre == Numbers \subseteq Nat /\ Numbers \subseteq Int
BY ValuesAssumption DEF Numbers

LEMMA ExecKept ==
  ASSUME NEW D, NEW w \in Words(D), NEW h \in Hosts
  PROVE  Kept(Exec(w, h), h, D)
<1> DEFINE x == Z(h, w.n)
           y == Z(h, w.m)
           p == h.v[w.n]
           q == h.v[w.m]
<1>1. w.d \in 0..31 /\ w.n \in 0..31 /\ w.m \in 0..31 /\ w.imm \in Int /\ w.size \in Int
  BY DEF Words, Sizes
<1>2. x \in Nat /\ y \in Nat /\ h.x[w.n] \in Nat /\ x \in Int /\ y \in Int /\ h.x[w.n] \in Int
  BY <1>1, ZNumber, NumbersAre
<1>3. /\ w.op \in VectorN => p \in Nat /\ p \in Int
      /\ w.op \in VectorM => q \in Nat /\ q \in Int
  BY NumbersAre DEF Words, Hosts
<1>4. w.op \in WritesZ => \A val \in Int : Kept(SetZ(h, w.d, val), h, D)
  BY <1>1, SetZKept DEF Words
<1>5. w.op \in VectorD => \A val \in Int : Kept(SetV(h, w.d, val), h, D)
  BY <1>1, SetVKept DEF Words
<1>6. w.op \in WritesSp => \A val \in Int : Kept(SetSp(h, w.d, val), h, D)
  BY <1>1, SetSpWrote, WroteKept DEF Words
<1>7. ASSUME NEW op \in (DOMAIN Key) \cup {"ADD", "SUB"}, NEW a \in Int, NEW b \in Nat
      PROVE  Op(op, a, b) \in Int
  BY <1>7, OpRange, NumbersAre
<1>8. LoadOf(w, h) \in Int
  <2>1. h.x[w.n] + w.imm \in Int
    BY <1>1, <1>2
  <2> QED BY <2>1, LoadRange, NumbersAre DEF LoadOf
<1>9. FsBase \in Int
  BY ValuesAssumption
<1>10. DOMAIN Key = {"AND", "ORR", "EOR", "LSL", "LSR", "ASR", "SMULL", "SDIV", "FMUL", "FDIV",
                "FADD", "FSUB", "FCVTZS", "SCVTF", "FCVT", "FCVTU", "CSEL_HI", "CSEL_MI",
                "CSET_NE", "CSET_HS", "CSET_EQ", "CSET_LO", "LD", "HIGH", "MUL"}
  BY DEF Key
<1>28. ASSUME NEW op \in (DOMAIN Key) \cup {"ADD", "SUB"}, NEW a \in Int, NEW b \in Nat
       PROVE  OpAt(w.size, op, a, b) \in Int
  BY <1>1, <1>28, OpAtRange, NumbersAre
<1>29. ASSUME NEW a \in Int, NEW size PROVE At(size, a) \in Nat /\ At(size, a) \in Int /\ Signed(size, a) \in Int
  BY AtRange, SignedRange, NumbersAre
<1> HIDE DEF x, y, p, q
<1>11. CASE w.op \in WritesSp
  <2> DEFINE a == h.x[w.n] + w.imm
  <2>1. Exec(w, h) = IF w.op = "ADD_IMM" THEN SetSp(h, w.d, At(w.size, a)) ELSE SetSp(h, w.d, h.x[w.n] - w.imm)
    BY <1>11 DEF Exec, Cset, WritesSp
  <2>2. a \in Int /\ h.x[w.n] - w.imm \in Int
    BY <1>1, <1>2
  <2> HIDE DEF a
  <2>3. At(w.size, a) \in Int
    BY <1>29, <2>2
  <2> QED BY <1>6, <1>11, <2>1, <2>2, <2>3
<1>12. CASE w.op \in Binary
  <2>1. Exec(w, h) = SetZ(h, w.d, OpAt(w.size, w.op, x, y))
    BY <1>12 DEF Exec, Cset, Binary, x, y
  <2>2. OpAt(w.size, w.op, x, y) \in Int
    BY <1>2, <1>10, <1>12, <1>28 DEF Binary
  <2> QED BY <1>4, <1>12, <2>1, <2>2 DEF WritesZ
<1>13. CASE w.op \in Shifted
  <2> DEFINE op == CASE w.op = "LSL_IMM" -> "LSL" [] w.op = "LSR_IMM" -> "LSR" [] OTHER -> "ASR"
  <2>1. Exec(w, h) = SetZ(h, w.d, Op(op, x, w.imm))
    BY <1>13 DEF Exec, Cset, Shifted, x
  <2>2. op \in DOMAIN Key /\ w.imm \in Nat
    BY <1>10, <1>13 DEF Words, Shifted
  <2> HIDE DEF op
  <2>3. Op(op, x, w.imm) \in Int
    BY <1>2, <1>7, <2>2
  <2> QED BY <1>4, <1>13, <2>1, <2>3 DEF WritesZ
<1>14. CASE w.op \in {"MOV", "ADRP", "GET_FS", "UXTB", "SXTW"}
  <2>1. \E val \in Int : Exec(w, h) = SetZ(h, w.d, val)
    <3>1. Exec(w, h) = CASE w.op \in {"MOV", "ADRP"} -> SetZ(h, w.d, w.imm)
                         [] w.op = "GET_FS" -> SetZ(h, w.d, FsBase)
                         [] w.op = "UXTB" -> SetZ(h, w.d, At(8, x))
                         [] w.op = "SXTW" -> SetZ(h, w.d, Signed(32, x))
      BY <1>14 DEF Exec, Cset, x
    <3>2. At(8, x) \in Int /\ Signed(32, x) \in Int
      BY <1>2, <1>29
    <3> QED BY <1>1, <1>9, <1>14, <3>1, <3>2
  <2> QED BY <1>4, <1>14, <2>1 DEF WritesZ
<1>15. CASE w.op \in {"CSET_NE", "CSET_HS", "CSET_EQ", "CSET_LO"}
  <2>1. Exec(w, h) = SetZ(h, w.d, Op(w.op, 0, 0))
    BY <1>15 DEF Exec, Cset
  <2>2. w.op \in DOMAIN Key /\ 0 \in Int /\ 0 \in Nat
    BY <1>10, <1>15
  <2>3. Op(w.op, 0, 0) \in Int
    BY <1>7, <2>2
  <2> QED BY <1>4, <1>15, <2>1, <2>3 DEF WritesZ
<1>16. CASE w.op \in {"LDR", "LDRB", "LDRH", "LDRSB", "LDRSH"}
  <2> DEFINE a == LoadOf(w, h)
  <2>1. \E size \in {8, 16, w.size} : Exec(w, h) = SetZ(h, w.d, At(size, a))
                                     \/ Exec(w, h) = SetZ(h, w.d, Signed(size, a))
    BY <1>16 DEF Exec, Cset
  <2> HIDE DEF a
  <2>2. \A size \in {8, 16, w.size} : At(size, a) \in Int /\ Signed(size, a) \in Int
    BY <1>8, <1>29 DEF a
  <2> QED BY <1>4, <1>16, <2>1, <2>2 DEF WritesZ
<1>30. CASE w.op = "SMULL"
  <2> DEFINE a == Op("SMULL", At(32, x), At(32, y))
  <2>1. Exec(w, h) = SetZ(h, w.d, a)
    BY <1>30 DEF Exec, Cset, x, y
  <2>2. a \in Int
    BY <1>2, <1>7, <1>10, <1>29
  <2> HIDE DEF a
  <2> QED BY <1>4, <1>30, <2>1, <2>2 DEF WritesZ
<1>17. CASE w.op \in {"ADDS", "SUBS"}
  <2> DEFINE s == w.size
             a == At(s, x)
             b == At(s, y)
             sum == OpAt(s, "ADD", x, y)
             rest == OpAt(s, "SUB", x, y)
  <2>1. sum \in Int /\ rest \in Int /\ a \in Int /\ b \in Int /\ s \in Int
    BY <1>1, <1>2, <1>28, <1>29
  <2>2. CASE w.op = "ADDS"
    <3>1. Exec(w, h) = SetZ(h, w.d, sum)
      BY <2>2 DEF Exec, Cset, x, y
    <3> QED BY <1>4, <2>1, <2>2, <3>1 DEF WritesZ
  <2>3. CASE w.op = "SUBS"
    <3>1. Exec(w, h) = SetFlags(SetZ(h, w.d, rest), <<"SUB", a, b, s>>)
      BY <2>3 DEF Exec, Cset, x, y
    <3> HIDE DEF a, b, rest, s
    <3>2. Kept(SetZ(h, w.d, rest), h, D)
      BY <1>4, <2>1, <2>3 DEF WritesZ
    <3> QED BY <2>1, <3>1, <3>2, SetFlagsKept
  <2> QED BY <1>17, <2>2, <2>3
<1>18. CASE w.op \in {"SUBS_IMM", "ANDS"}
  <2> DEFINE s == w.size
             a == At(s, x)
             b == At(s, y)
             c == At(s, h.x[w.n])
  <2>1. Kept(h, h, D)
    BY SetRest
  <2>2. Exec(w, h) = IF w.op = "ANDS" THEN SetFlags(h, <<"AND", a, b, s>>)
                     ELSE SetFlags(h, <<"SUB", c, w.imm, s>>)
    BY <1>18 DEF Exec, Cset, x, y
  <2>3. a \in Int /\ b \in Int /\ c \in Int /\ s \in Int
    BY <1>1, <1>2, <1>29
  <2> HIDE DEF a, b, c, s
  <2> QED BY <1>1, <2>1, <2>2, <2>3, SetFlagsKept
<1>19. CASE w.op = "MSUB"
  <2> DEFINE a == Op("MUL", x, y)
             z == Z(h, w.imm)
  <2>1. w.imm \in 0..31
    BY <1>19 DEF Words
  <2>2. z \in Int
    BY <2>1, ZNumber, NumbersAre
  <2>3. a \in Nat
    BY <1>2, <1>10, OpRange, NumbersAre
  <2>4. Exec(w, h) = SetZ(h, w.d, Op("SUB", z, a))
    BY <1>19 DEF Exec, Cset, x, y
  <2> HIDE DEF a, z
  <2>5. Op("SUB", z, a) \in Int
    BY <1>7, <2>2, <2>3
  <2> QED BY <1>4, <1>19, <2>4, <2>5 DEF WritesZ
<1>20. CASE w.op \in {"STR", "STRB", "STR_V"}
  <2> DEFINE a == h.x[w.n] + w.imm
             y2 == IF w.op = "STR_V" THEN h.v[w.d] ELSE Z(h, w.d)
             s == IF w.op = "STRB" THEN 8 ELSE w.size
  <2>1. Exec(w, h) = Store(h, a, s, y2)
    BY <1>20 DEF Exec, Cset
  <2>2. a \in Int /\ s \in Int
    BY <1>1, <1>2
  <2>3. w.op = "STR_V" => h.v[w.d] \in Numbers
    BY DEF Words, VectorD, Hosts
  <2>4. Z(h, w.d) \in Int
    BY <1>1, ZNumber, NumbersAre
  <2>5. y2 \in Int
    BY <1>20, <2>3, <2>4, NumbersAre
  <2> HIDE DEF a, y2, s
  <2> QED BY <2>1, <2>2, <2>5, StoreKept
<1>21. CASE w.op = "LDR_V"
  <2>1. Exec(w, h) = SetV(h, w.d, At(w.size, LoadOf(w, h)))
    BY <1>21 DEF Exec, Cset
  <2>2. At(w.size, LoadOf(w, h)) \in Int
    BY <1>8, <1>29
  <2> QED BY <1>5, <1>21, <2>1, <2>2 DEF VectorD
<1>22. CASE w.op \in Ternary
  <2> DEFINE val == IF w.op = "EOR_V" THEN Op("EOR", p, q) ELSE OpAt(w.size, w.op, p, q)
  <2>1. Exec(w, h) = SetV(h, w.d, val)
    BY <1>22 DEF Exec, Ternary, Cset, p, q
  <2>2. val \in Int
    BY <1>3, <1>7, <1>10, <1>22, <1>28 DEF Ternary, VectorN, VectorM
  <2> HIDE DEF val
  <2> QED BY <1>5, <1>22, <2>1, <2>2 DEF VectorD
<1>23. CASE w.op = "FCMP"
  <2> DEFINE s == w.size
             a == At(s, p)
             b == At(s, q)
  <2>1. Exec(w, h) = IF w.d = 0 THEN SetFlags(h, <<"FCMP", a, b, s>>) ELSE [h EXCEPT !.bad = TRUE]
    BY <1>23 DEF Exec, Cset, p, q
  <2>2. Kept(h, h, D) /\ Kept([h EXCEPT !.bad = TRUE], h, D)
    BY SetRest
  <2>3. a \in Int /\ b \in Int /\ s \in Int
    BY <1>1, <1>3, <1>23, <1>29 DEF VectorN, VectorM
  <2> HIDE DEF a, b, s
  <2> QED BY <1>23, <2>1, <2>2, <2>3, SetFlagsKept
<1>24. CASE w.op \in {"FCVTZS", "SCVTF", "FCVT", "FCVTU"}
  <2> DEFINE a == CASE w.op = "SCVTF" -> Signed(w.size, x) [] w.op = "FCVTU" -> At(32, p) [] OTHER -> p
             val == Op(w.op, a, 0)
             cut == CASE w.op = "SCVTF" -> At(w.size, val) [] w.op = "FCVT" -> At(32, val) [] OTHER -> val
  <2>1. Exec(w, h) = IF w.op = "FCVTZS" THEN SetZ(h, w.d, cut) ELSE SetV(h, w.d, cut)
    BY <1>24 DEF Exec, Cset, x, p
  <2>2. a \in Int
    BY <1>2, <1>3, <1>24, <1>29 DEF VectorN
  <2> HIDE DEF a
  <2>3. val \in Int
    BY <1>7, <1>10, <1>24, <2>2
  <2> HIDE DEF val
  <2>4. cut \in Int
    BY <1>29, <2>3
  <2> HIDE DEF cut
  <2> QED BY <1>4, <1>5, <1>24, <2>1, <2>4 DEF WritesZ, VectorD
<1>25. CASE w.op \in {"FMOV", "FMOVR", "MOV_V"}
  <2>1. Exec(w, h) = IF w.op = "FMOV" THEN SetZ(h, w.d, p)
                     ELSE SetV(h, w.d, IF w.op = "FMOVR" THEN x ELSE p)
    BY <1>25 DEF Exec, Cset, x, p
  <2> QED BY <1>2, <1>3, <1>4, <1>5, <1>25, <2>1 DEF WritesZ, VectorD, VectorN
<1>26. CASE w.op \in {"BR", "BLR", "BRK"}
  <2> DEFINE a == IF w.op = "BRK" THEN w.imm % P ELSE x
  <2>1. Exec(w, h) = [h EXCEPT !.target = a]
    BY <1>26 DEF Exec, Cset, x
  <2>2. a \in Int
    BY <1>1, <1>2, Modulo, NumbersAre
  <2> HIDE DEF a
  <2> QED BY <2>1, <2>2, SetRest
<1>27. CASE w.op \in {"RET", "SVC", "stack", "panic", "garbled"}
  <2>1. Exec(w, h) = IF w.op \in {"panic", "garbled"} THEN [h EXCEPT !.bad = TRUE] ELSE h
    BY <1>27 DEF Exec, Cset
  <2> QED BY <2>1, SetRest
<1> QED BY <1>11, <1>12, <1>13, <1>14, <1>15, <1>16, <1>17, <1>18, <1>19, <1>20, <1>21, <1>22, <1>23,
           <1>24, <1>25, <1>26, <1>27, <1>30
        DEF Words, VectorD, VectorN, Ternary, WritesZ, Binary, Shifted, WritesSp, Others


-----------------------------------------------------------------------------
(***************************************************************************)
(* The words of encode(), one encoder after the other.                      *)
(***************************************************************************)
LEMMA HostRegisters ==
  /\ \A k \in 0..21 : X(k) \in 0..31
  /\ \A k \in 0..15 : X(k) \notin {12, 13}
  /\ \A k, l \in 0..15 : X(k) = X(l) => k = l
BY DEF X, x64_regs

LEMMA NamedRegisters ==
  X(0) = 8 /\ X(1) = 3 /\ X(2) = 2 /\ X(4) = 31 /\ X(8) = 4 /\ X(12) = 16 /\ X(16) = 12 /\ X(17) = 13
  /\ X(21) = 31
BY DEF X, x64_regs


(* The registers that the words of i may write: the two scratch registers,   *)
(* the first operand, and what an instruction writes without naming it.      *)
Room(D) == D \subseteq 0..31 /\ 12 \in D /\ 13 \in D
Scope(i, D) ==
  /\ Room(D)
  /\ RegOp(i.a) => X(i.a.reg) \in D
  /\ i.type \in {"CLTQ", "CLTD"} => X(RAX) \in D
  /\ i.type = "CLTD" => X(RDX) \in D
  /\ i.type = "IDIV" => 2 \in D /\ 16 \in D
Code(D) == Seq(Words(D))
Simple == Binary \cup {"MOV", "ADRP", "GET_FS", "UXTB", "SXTW", "ADDS", "SUBS", "CSET_NE", "CSET_HS",
                      "CSET_EQ", "CSET_LO", "LDR", "LDRB", "LDRH", "LDRSB", "LDRSH", "SMULL"}

LEMMA CodeParts ==
  ASSUME NEW D
  PROVE  /\ <<>> \in Code(D)
         /\ \A w \in Words(D) : <<w>> \in Code(D)
         /\ \A s, t \in Code(D) : s \o t \in Code(D)
BY DEF Code

LEMMA OneWord == ASSUME NEW D, NEW w \in Words(D) PROVE <<w>> \in Code(D)
BY CodeParts

LEMMA Joined == ASSUME NEW D, NEW s \in Code(D), NEW t \in Code(D) PROVE s \o t \in Code(D)
BY CodeParts

LEMMA TwoWords ==
  ASSUME NEW D, NEW w \in Words(D), NEW z \in Words(D) PROVE <<w, z>> \in Code(D)
BY DEF Code

LEMMA NoWords == ASSUME NEW D PROVE <<>> \in Code(D)
BY CodeParts

LEMMA Mnemonics ==
  /\ {"SUBS_IMM", "ANDS", "STR", "STRB", "BR", "BLR", "BRK", "RET", "SVC", "stack", "panic", "garbled"}
       \subseteq Others
  /\ {"ADD_IMM", "SUB_IMM"} \subseteq WritesSp
  /\ {"LSL_IMM", "LSR_IMM", "ASR_IMM"} \subseteq Shifted
  /\ Simple \subseteq WritesZ /\ Simple \cap (Shifted \cup {"MSUB", "FCVTZS", "FMOV"}) = {}
BY DEF Others, WritesSp, Shifted, Simple, WritesZ, Binary

LEMMA Small ==
  /\ {0, 2, 12, 13, 16, 30, 31} \subseteq 0..31 /\ 16 \in 0..16 /\ 0 \in 0..16
  /\ 0 \in Int /\ 0 \in Nat /\ 0..15 \subseteq 0..16 /\ 0..15 \subseteq 0..31 /\ 0..15 \subseteq 0..21
OBVIOUS

LEMMA PlainWord ==
  ASSUME NEW D, NEW op \in Others, NEW d \in 0..31, NEW n \in 0..31, NEW m \in 0..31, NEW imm \in Int
  PROVE  W(op, d, n, m, imm) \in Words(D)
BY DEF W, Words, Sizes, VectorD, VectorN, VectorM, Ternary, WritesZ, Binary, Shifted, WritesSp, Others

LEMMA AddWord ==
  ASSUME NEW D, NEW op \in WritesSp, NEW d \in 0..31, d \in D, NEW n \in 0..31, NEW imm \in Int
  PROVE  W(op, d, n, 0, imm) \in Words(D)
BY DEF W, Words, Sizes, VectorD, VectorN, VectorM, Ternary, WritesZ, Binary, Shifted, WritesSp

LEMMA ShiftWord ==
  ASSUME NEW D, NEW op \in Shifted, NEW d \in 0..31, d \in D, NEW n \in 0..31, NEW imm \in Nat
  PROVE  W(op, d, n, 0, imm) \in Words(D)
BY DEF W, Words, Sizes, VectorD, VectorN, VectorM, Ternary, WritesZ, Binary, Shifted, WritesSp

LEMMA ComputeWord ==
  ASSUME NEW D, NEW op \in Simple,
         NEW d \in 0..31, d \in D \/ d = 31, NEW n \in 0..31, NEW m \in 0..31, NEW imm \in Int
  PROVE  W(op, d, n, m, imm) \in Words(D)
BY DEF W, Words, Sizes, Simple, VectorD, VectorN, VectorM, Ternary, WritesZ, Binary, Shifted, WritesSp

LEMMA MsubWord ==
  ASSUME NEW D, NEW d \in 0..31, d \in D, NEW n \in 0..31, NEW m \in 0..31, NEW imm \in 0..31
  PROVE  W("MSUB", d, n, m, imm) \in Words(D)
BY DEF W, Words, Sizes, VectorD, VectorN, VectorM, Ternary, WritesZ, Binary, Shifted, WritesSp

LEMMA VectorWord ==
  ASSUME NEW D, NEW op \in Ternary \cup {"FCMP", "FCVT", "FCVTU", "MOV_V"},
         NEW d \in 0..16, NEW n \in 0..16, NEW m \in 0..16
  PROVE  W(op, d, n, m, 0) \in Words(D)
BY DEF W, Words, Sizes, VectorD, VectorN, VectorM, Ternary, WritesZ, Binary, Shifted, WritesSp

LEMMA IntoVectorWord ==
  ASSUME NEW D, NEW op \in {"LDR_V", "STR_V", "SCVTF", "FMOVR"}, NEW d \in 0..16, NEW n \in 0..31
  PROVE  W(op, d, n, 0, 0) \in Words(D)
BY DEF W, Words, Sizes, VectorD, VectorN, VectorM, Ternary, WritesZ, Binary, Shifted, WritesSp

LEMMA FromVectorWord ==
  ASSUME NEW D, NEW op \in {"FCVTZS", "FMOV"}, NEW d \in 0..31, d \in D, NEW n \in 0..16
  PROVE  W(op, d, n, 0, 0) \in Words(D)
BY DEF W, Words, Sizes, VectorD, VectorN, VectorM, Ternary, WritesZ, Binary, Shifted, WritesSp

(* The size of a word leaves the rest of it as it is.                       *)
LEMMA SizedWord ==
  ASSUME NEW D, NEW w \in Words(D), NEW size \in Sizes
  PROVE  Sized(size, w) \in Words(D)
<1> DEFINE z == Sized(size, w)
<1>1. /\ z \in [op: VectorD \cup VectorN \cup WritesZ \cup WritesSp \cup Others,
                d: 0..31, n: 0..31, m: 0..31, imm: Int, size: Sizes]
      /\ z.op = w.op /\ z.d = w.d /\ z.n = w.n /\ z.m = w.m /\ z.imm = w.imm
  BY DEF Words, Sized
<1> HIDE DEF z
<1> QED BY <1>1 DEF Words, z

LEMMA SizesOf == ASSUME NEW i PROVE Sf(i) \in Sizes /\ Ft(i) \in Sizes /\ 32 \in Sizes /\ 64 \in Sizes
BY DEF Sf, Ft, Sizes

LEMMA PanicCode == ASSUME NEW D PROVE panic \in Code(D)
<1>1. W("panic", 0, 0, 0, 0) \in Words(D)
  BY Zenon, PlainWord, Mnemonics, Small
<1> QED BY Zenon, <1>1, OneWord DEF panic

LEMMA CopyCode ==
  ASSUME NEW D, Room(D), NEW d \in D, NEW n \in 0..31
  PROVE  Copy(d, n) \in Code(D)
<1>1. W("ADD_IMM", d, n, 0, 0) \in Words(D)
  BY Zenon, AddWord, Mnemonics, Small DEF Room
<1> QED BY <1>1, OneWord DEF Copy, R2

LEMMA ImmCode ==
  ASSUME NEW D, Room(D), NEW d \in 0..31, d \in D \/ d = 31, NEW v \in Int
  PROVE  emit_imm(v, d) \in Code(D)
<1>1. W("MOV", d, 0, 0, v) \in Words(D)
  BY Zenon, ComputeWord, Small DEF Simple
<1> QED BY <1>1, OneWord DEF emit_imm

LEMMA Imm12Word ==
  ASSUME NEW D, NEW op, NEW d \in 0..31, NEW n \in 0..31, NEW v \in Int,
         (op \in WritesSp /\ d \in D) \/ op = "SUBS_IMM"
  PROVE  Imm12(op, d, n, v) \in Words(D)
<1>1. W("garbled", d, n, 0, v) \in Words(D)
  BY Zenon, PlainWord, Mnemonics, Small
<1>2. ASSUME NEW u \in Int PROVE W(op, d, n, 0, u) \in Words(D)
  BY Zenon, <1>2, PlainWord, AddWord, Mnemonics, Small
<1> DEFINE u == IF v < 4096 THEN v ELSE (v - 4096) * 4096
<1>3. u \in Int
  OBVIOUS
<1>4. Imm12(op, d, n, v) = IF v < 0 \/ v >= 8192 THEN W("garbled", d, n, 0, v) ELSE W(op, d, n, 0, u)
  BY DEF Imm12
<1> HIDE DEF u
<1> QED BY <1>1, <1>2, <1>3, <1>4

LEMMA SignedCode ==
  ASSUME NEW D, Room(D), NEW d \in D, NEW n \in 0..31, NEW v \in Int
  PROVE  emit_add_signed(d, n, v) \in Code(D) /\ emit_sub_signed(d, n, v) \in Code(D)
<1>1. \A op \in WritesSp, u \in Int : Imm12(op, d, n, u) \in Words(D)
  BY Imm12Word DEF Room
<1>2. -v \in Int /\ "ADD_IMM" \in WritesSp /\ "SUB_IMM" \in WritesSp
  BY DEF WritesSp
<1> QED BY <1>1, <1>2, OneWord DEF emit_add_signed, emit_sub_signed

(* An operand that emit_address_decode can make an address of.              *)
Addressable(op) ==
  /\ op \in Operands
  /\ "REG" \in op.type => op.reg \in 0..15
  /\ "IDX" \in op.type => op.idx \in 0..15
  /\ "REG" \in op.type \/ "IDX" \in op.type \/ op.type = {"MEM", "IMM"}

(* What emit_address_decode emits in its four cases.                        *)
IndexWord(op, reg) == IF op.scale # 0 THEN W("LSL_IMM", reg, X(op.idx), 0, op.scale)
                                      ELSE R2("ADD_IMM", reg, X(op.idx))
BaseWords(op, reg) == IF "REG" \in op.type THEN <<W("ADD", reg, reg, X(op.reg), 0)>> ELSE <<>>
DispWords(op, reg) ==
  IF "IMM" \in op.type /\ op.imm # 0 THEN emit_add_signed(reg, reg, op.imm) ELSE <<>>
IndexedWords(op, reg) == <<IndexWord(op, reg)>> \o BaseWords(op, reg) \o DispWords(op, reg)
SegmentWords(op, reg) == <<R2("GET_FS", reg, 0)>> \o emit_add_signed(reg, reg, op.imm)
NearWords(reg, full) ==
  <<W("ADRP", reg, 0, 0, full - (full % 4096)), W("ADD_IMM", reg, reg, 0, full % 4096)>>
BasedWords(op, reg) == IF "IMM" \in op.type THEN emit_add_signed(reg, X(op.reg), op.imm)
                       ELSE Copy(reg, X(op.reg))

LEMMA AddressIs ==
  ASSUME NEW op, NEW reg, NEW prefix, NEW gp
  PROVE  emit_address_decode(op, reg, prefix, gp) =
           CASE prefix = "FS" -> SegmentWords(op, reg)
             [] prefix # "FS" /\ op.type = {"MEM", "IMM"} -> NearWords(reg, gp + op.imm)
             [] prefix # "FS" /\ "IDX" \in op.type -> IndexedWords(op, reg)
             [] OTHER -> BasedWords(op, reg)
BY Zenon DEF emit_address_decode, SegmentWords, NearWords, IndexedWords, IndexWord, BaseWords, DispWords,
             BasedWords

LEMMA AddressCode ==
  ASSUME NEW D, Room(D), NEW op, Addressable(op), NEW reg \in D, NEW prefix, NEW gp \in Int
  PROVE  emit_address_decode(op, reg, prefix, gp) \in Code(D)
<1>1. reg \in 0..31 /\ op.imm \in Int /\ op.scale \in Nat
  BY DEF Room, Addressable, Operands
<1>2. /\ "REG" \in op.type => X(op.reg) \in 0..31
      /\ "IDX" \in op.type => X(op.idx) \in 0..31
  BY HostRegisters DEF Addressable
<1>3. emit_add_signed(reg, reg, op.imm) \in Code(D)
  BY <1>1, SignedCode
<1>4. SegmentWords(op, reg) \in Code(D)
  <2>1. W("GET_FS", reg, 0, 0, 0) \in Words(D)
    BY Zenon, <1>1, ComputeWord, Small DEF Simple
  <2> DEFINE s == <<W("GET_FS", reg, 0, 0, 0)>>
             t == emit_add_signed(reg, reg, op.imm)
  <2>2. s \in Code(D)
    BY <2>1, OneWord
  <2>3. SegmentWords(op, reg) = s \o t
    BY Zenon DEF SegmentWords, R2
  <2> HIDE DEF s, t
  <2>4. s \o t \in Code(D)
    BY <1>3, <2>2, Joined DEF t
  <2> QED BY <2>3, <2>4
<1>5. NearWords(reg, gp + op.imm) \in Code(D)
  <2> DEFINE full == gp + op.imm
             p == full % 4096
             q == full - p
  <2>1. full \in Int /\ p \in Int
    BY <1>1
  <2>2. q \in Int
    BY <2>1
  <2>3. NearWords(reg, full) = <<W("ADRP", reg, 0, 0, q), W("ADD_IMM", reg, reg, 0, p)>>
    BY Zenon DEF NearWords
  <2> HIDE DEF p, q
  <2>4. W("ADRP", reg, 0, 0, q) \in Words(D)
    BY Zenon, <1>1, <2>2, ComputeWord, Small DEF Simple
  <2>5. W("ADD_IMM", reg, reg, 0, p) \in Words(D)
    BY <1>1, <2>1, AddWord, Mnemonics, Small
  <2> QED BY Zenon, <2>3, <2>4, <2>5, TwoWords
<1>6. ASSUME "IDX" \in op.type PROVE IndexedWords(op, reg) \in Code(D)
  <2>1. IndexWord(op, reg) \in Words(D)
    <3>1. op.scale # 0 => W("LSL_IMM", reg, X(op.idx), 0, op.scale) \in Words(D)
      BY <1>1, <1>2, <1>6, ShiftWord, Mnemonics
    <3>2. W("ADD_IMM", reg, X(op.idx), 0, 0) \in Words(D)
      BY Zenon, <1>1, <1>2, <1>6, AddWord, Mnemonics, Small
    <3> QED BY Zenon, <3>1, <3>2 DEF R2, IndexWord
  <2>2. BaseWords(op, reg) \in Code(D)
    <3>1. "REG" \in op.type => W("ADD", reg, reg, X(op.reg), 0) \in Words(D)
      BY Zenon, <1>1, <1>2, ComputeWord, Small DEF Simple, Binary
    <3> QED BY <3>1, OneWord, NoWords DEF BaseWords
  <2>3. DispWords(op, reg) \in Code(D)
    BY <1>3, NoWords DEF DispWords
  <2>4. <<IndexWord(op, reg)>> \in Code(D)
    BY <2>1, OneWord
  <2>5. <<IndexWord(op, reg)>> \o BaseWords(op, reg) \in Code(D)
    BY <2>2, <2>4, Joined
  <2> QED BY <2>3, <2>5, Joined DEF IndexedWords
<1>7. ASSUME "REG" \in op.type PROVE BasedWords(op, reg) \in Code(D)
  <2>1. emit_add_signed(reg, X(op.reg), op.imm) \in Code(D) /\ Copy(reg, X(op.reg)) \in Code(D)
    BY <1>1, <1>2, <1>7, SignedCode, CopyCode
  <2> QED BY <2>1 DEF BasedWords
<1>8. "REG" \in op.type \/ "IDX" \in op.type \/ op.type = {"MEM", "IMM"}
  BY DEF Addressable
<1> QED BY <1>4, <1>5, <1>6, <1>7, <1>8, AddressIs


LEMMA MemAddressable ==
  ASSUME NEW op \in Operands
  PROVE  /\ MemOp(op) => Addressable(op)
         /\ RegOp(op) => Addressable(op)
         /\ Near(op) \/ Direct(op) => "REG" \in op.type
         /\ RmOp(op) => (IsMem(op) <=> MemOp(op)) /\ (~IsMem(op) <=> RegOp(op))
         /\ ImmOp(op) => ~IsMem(op)
BY DEF MemOp, Addressable, RegOp, Near, Direct, RmOp, IsMem, ImmOp

LEMMA LoadCode ==
  ASSUME NEW D, Room(D), NEW op \in Operands, MemOp(op), NEW rd \in D, NEW sf \in Sizes,
         NEW prefix, NEW gp \in Int
  PROVE  emit_load(rd, op, sf, prefix, gp) \in Code(D)
<1>1. rd \in 0..31 /\ 12 \in 0..31 /\ 12 \in D /\ SC1R = 12 /\ op.imm \in Int
  BY DEF Room, SC1R, Operands
<1>2. "LDR" \in Simple
  BY DEF Simple
<1>3. ASSUME "REG" \in op.type, NEW v \in Int PROVE <<Sized(sf, W("LDR", rd, X(op.reg), 0, v))>> \in Code(D)
  <2>1. X(op.reg) \in 0..31
    BY <1>3, HostRegisters DEF MemOp
  <2>2. W("LDR", rd, X(op.reg), 0, v) \in Words(D)
    BY Zenon, <1>1, <1>2, <1>3, <2>1, ComputeWord, Small
  <2> QED BY Zenon, <2>2, SizedWord, OneWord
<1> DEFINE s == emit_address_decode(op, SC1R, prefix, gp)
<1>4. s \in Code(D)
  BY <1>1, MemAddressable, AddressCode
<1>5. W("LDR", rd, 12, 0, 0) \in Words(D)
  BY Zenon, <1>1, <1>2, ComputeWord, Small
<1>6. s \o <<Sized(sf, R2("LDR", rd, SC1R))>> \in Code(D)
  <2>1. R2("LDR", rd, SC1R) = W("LDR", rd, 12, 0, 0)
    BY <1>1 DEF R2
  <2>2. <<Sized(sf, R2("LDR", rd, SC1R))>> \in Code(D)
    BY Zenon, <1>5, <2>1, SizedWord, OneWord
  <2> HIDE DEF s
  <2> QED BY <1>4, <2>2, Joined
<1>7. Near(op) => <<Sized(sf, W("LDR", rd, X(op.reg), 0, op.imm))>> \in Code(D)
  BY <1>1, <1>3, MemAddressable
<1>8. Direct(op) => <<Sized(sf, R2("LDR", rd, X(op.reg)))>> \in Code(D)
  BY <1>3, MemAddressable, Small DEF R2
<1> QED BY Zenon, <1>6, <1>7, <1>8 DEF emit_load

LEMMA StoreCode ==
  ASSUME NEW D, Room(D), NEW op \in Operands, MemOp(op), NEW rd \in 0..31, NEW sf \in Sizes,
         NEW prefix, NEW gp \in Int, NEW address \in BOOLEAN
  PROVE  emit_store(rd, op, sf, prefix, address, gp) \in Code(D)
<1>1. 12 \in 0..31 /\ 12 \in D /\ SC1R = 12 /\ op.imm \in Int
  BY DEF Room, SC1R, Operands
<1>2. "STR" \in Others
  BY DEF Others
<1>3. ASSUME "REG" \in op.type, NEW v \in Int PROVE <<Sized(sf, W("STR", rd, X(op.reg), 0, v))>> \in Code(D)
  <2>1. X(op.reg) \in 0..31
    BY <1>3, HostRegisters DEF MemOp
  <2>2. W("STR", rd, X(op.reg), 0, v) \in Words(D)
    BY Zenon, <1>2, <1>3, <2>1, PlainWord, Small
  <2> QED BY Zenon, <2>2, SizedWord, OneWord
<1> DEFINE s == IF address THEN emit_address_decode(op, SC1R, prefix, gp) ELSE <<>>
<1>4. s \in Code(D)
  BY <1>1, MemAddressable, AddressCode, NoWords
<1>5. W("STR", rd, 12, 0, 0) \in Words(D)
  BY Zenon, <1>1, <1>2, PlainWord, Small
<1>6. s \o <<Sized(sf, R2("STR", rd, SC1R))>> \in Code(D)
  <2>1. R2("STR", rd, SC1R) = W("STR", rd, 12, 0, 0)
    BY <1>1 DEF R2
  <2>2. <<Sized(sf, R2("STR", rd, SC1R))>> \in Code(D)
    BY Zenon, <1>5, <2>1, SizedWord, OneWord
  <2> HIDE DEF s
  <2> QED BY <1>4, <2>2, Joined
<1>7. Near(op) => <<Sized(sf, W("STR", rd, X(op.reg), 0, op.imm))>> \in Code(D)
  BY <1>1, <1>3, MemAddressable
<1>8. Direct(op) => <<Sized(sf, R2("STR", rd, X(op.reg)))>> \in Code(D)
  BY <1>3, MemAddressable, Small DEF R2
<1> QED BY Zenon, <1>6, <1>7, <1>8 DEF emit_store


(* What a Scope says of the operands of an Instruction.                     *)
LEMMA InScope ==
  ASSUME NEW i \in Instructions, NEW D, Scope(i, D)
  PROVE  /\ Room(D) /\ D \subseteq 0..31 /\ SC1R \in D /\ SC2R \in D
         /\ i.a \in Operands /\ i.b \in Operands /\ i.a.imm \in Int /\ i.b.imm \in Int
         /\ RegOp(i.a) => /\ i.a.reg \in 0..21 /\ i.a.reg \in 0..16
                          /\ X(i.a.reg) \in D /\ X(i.a.reg) \in 0..31
         /\ RegOp(i.b) => i.b.reg \in 0..21 /\ i.b.reg \in 0..16 /\ X(i.b.reg) \in 0..31
         /\ SC1 \in 0..21 /\ SC2 \in 0..21 /\ XZR \in 0..21
         /\ X(SC1) = SC1R /\ X(SC2) = SC2R /\ X(XZR) = 31 /\ SC1R \in 0..31 /\ SC2R \in 0..31
<1>1. i.a \in Operands /\ i.b \in Operands
  BY DEF Instructions
<1>2. i.a.imm \in Int /\ i.b.imm \in Int
  BY <1>1 DEF Operands
<1>3. /\ RegOp(i.a) => i.a.reg \in 0..15
      /\ RegOp(i.b) => i.b.reg \in 0..15
  BY DEF RegOp
<1> QED BY <1>1, <1>2, <1>3, HostRegisters, NamedRegisters
        DEF Scope, Room, SC1R, SC2R, SC1, SC2, XZR

LEMMA RegistersWord ==
  ASSUME NEW D, NEW op \in Simple, NEW rd \in 0..21, X(rd) \in D \/ X(rd) = 31,
         NEW rn \in 0..21, NEW rm \in 0..21, NEW size \in Sizes
  PROVE  RRR(op, rd, rn, rm) \in Words(D) /\ Sized(size, RRR(op, rd, rn, rm)) \in Words(D)
<1>1. X(rd) \in 0..31 /\ X(rn) \in 0..31 /\ X(rm) \in 0..31
  BY HostRegisters
<1> QED BY Zenon, <1>1, ComputeWord, SizedWord, Small DEF RRR

LEMMA FlagsWord ==
  ASSUME NEW D, NEW rn \in 0..21, NEW rm \in 0..21, NEW size \in Sizes
  PROVE  Sized(size, RRR("ANDS", XZR, rn, rm)) \in Words(D)
<1>1. X(XZR) \in 0..31 /\ X(rn) \in 0..31 /\ X(rm) \in 0..31
  BY HostRegisters DEF XZR
<1> QED BY Zenon, <1>1, PlainWord, SizedWord, Mnemonics, Small DEF RRR

LEMMA FromMemoryCode ==
  ASSUME NEW i \in Instructions, NEW D, Scope(i, D), TwoOps(i), NEW gp \in Int
  PROVE  FromMemory(i, gp) \in Code(D)
<1>1. SC2R \in D /\ Room(D) /\ i.a \in Operands /\ i.b \in Operands
  BY InScope
<1>2. (IsMem(i.a) => MemOp(i.a)) /\ (IsMem(i.b) => MemOp(i.b))
  BY <1>1, MemAddressable DEF TwoOps, RmOp
<1>3. /\ IsMem(i.a) => emit_load(SC2R, i.a, Sf(i), i.prefix, gp) \in Code(D)
      /\ IsMem(i.b) => emit_load(SC2R, i.b, Sf(i), i.prefix, gp) \in Code(D)
  BY Zenon, <1>1, <1>2, LoadCode, SizesOf
<1> QED BY Zenon, <1>3, NoWords DEF FromMemory

(* The operand registers of ADD, SUB and CMP.                               *)
LEMMA Sides ==
  ASSUME NEW i \in Instructions, NEW D, Scope(i, D), TwoOps(i)
  PROVE  /\ Left(i) \in 0..21 /\ X(Left(i)) \in D
         /\ RightIsRegister(i) => Right(i) \in 0..21
<1>1. /\ RegOp(i.a) => i.a.reg \in 0..21 /\ X(i.a.reg) \in D
      /\ RegOp(i.b) => i.b.reg \in 0..21
      /\ SC2 \in 0..21 /\ X(SC2) \in D
  BY InScope
<1>2. ~(IsMem(i.a) /\ ~IsMem(i.b)) => RegOp(i.a)
  BY MemAddressable DEF TwoOps, RmOp, Instructions
<1>3. i.b.type = {"REG"} => RegOp(i.b)
  BY DEF TwoOps, RmOp, MemOp, ImmOp
<1> QED BY <1>1, <1>2, <1>3 DEF Left, Right, RightIsRegister

LEMMA AddSubCode ==
  ASSUME NEW i \in Instructions, NEW D, Scope(i, D), TwoOps(i), NEW gp \in Int
  PROVE  EncodeAddSub(i, gp) \in Code(D)
<1> DEFINE r0 == Left(i)
           op == IF i.type = "ADD" THEN "ADDS" ELSE "SUBS"
           add == emit_add_signed(X(r0), X(r0), i.b.imm)
           sub == emit_sub_signed(X(r0), X(r0), i.b.imm)
           f == FromMemory(i, gp)
           t == ToMemory(i, gp)
           m == IF RightIsRegister(i) THEN <<Sized(Sf(i), RRR(op, r0, r0, Right(i)))>>
                ELSE IF i.type = "ADD" THEN add ELSE sub
<1>1. EncodeAddSub(i, gp) = f \o m \o t
  BY Zenon DEF EncodeAddSub
<1>2. f \in Code(D)
  BY FromMemoryCode
<1>3. t \in Code(D)
  <2>1. IsMem(i.a) => MemOp(i.a)
    BY MemAddressable DEF TwoOps, RmOp, Instructions
  <2>2. Room(D) /\ i.a \in Operands /\ SC2R \in 0..31
    BY InScope
  <2>3. IsMem(i.a) => emit_store(SC2R, i.a, Sf(i), i.prefix, FALSE, gp) \in Code(D)
    BY Zenon, <2>1, <2>2, StoreCode, SizesOf
  <2> QED BY Zenon, <2>3, NoWords DEF ToMemory
<1>4. m \in Code(D)
  <2>1. r0 \in 0..21 /\ X(r0) \in D /\ (RightIsRegister(i) => Right(i) \in 0..21)
    BY Sides
  <2>2. Room(D) /\ X(r0) \in 0..31 /\ i.b.imm \in Int
    BY <2>1, InScope
  <2>3. op \in Simple
    BY DEF Simple
  <2> HIDE DEF r0, op
  <2>4. add \in Code(D) /\ sub \in Code(D)
    BY <2>1, <2>2, SignedCode
  <2>5. RightIsRegister(i) => <<Sized(Sf(i), RRR(op, r0, r0, Right(i)))>> \in Code(D)
    BY Zenon, <2>1, <2>3, RegistersWord, SizesOf, OneWord
  <2> HIDE DEF add, sub
  <2> QED BY Zenon, <2>4, <2>5
<1> HIDE DEF f, m, t
<1>5. f \o m \in Code(D)
  BY <1>2, <1>4, Joined
<1> QED BY <1>1, <1>3, <1>5, Joined

LEMMA CmpCode ==
  ASSUME NEW i \in Instructions, NEW D, Scope(i, D), TwoOps(i), NEW gp \in Int
  PROVE  EncodeCmp(i, gp) \in Code(D)
<1> DEFINE f == FromMemory(i, gp)
           w == Sized(Sf(i), RRR("SUBS", XZR, Left(i), Right(i)))
           z == Sized(Sf(i), RRR("SUBS", XZR, Left(i), SC1))
           e == emit_imm(i.b.imm, SC1R)
           m == IF RightIsRegister(i) THEN <<w>> ELSE e \o <<z>>
<1>1. EncodeCmp(i, gp) = f \o m
  BY Zenon DEF EncodeCmp
<1>2. f \in Code(D)
  BY FromMemoryCode
<1>3. /\ Left(i) \in 0..21 /\ (RightIsRegister(i) => Right(i) \in 0..21)
      /\ SC1 \in 0..21 /\ XZR \in 0..21 /\ X(XZR) = 31 /\ SC1R \in D /\ SC1R \in 0..31
      /\ Room(D) /\ i.b.imm \in Int /\ "SUBS" \in Simple
  BY Sides, InScope DEF Simple
<1>4. RightIsRegister(i) => w \in Words(D)
  BY Zenon, <1>3, RegistersWord, SizesOf
<1>5. z \in Words(D)
  BY Zenon, <1>3, RegistersWord, SizesOf
<1>6. e \in Code(D)
  BY <1>3, ImmCode
<1> HIDE DEF f, w, z, e
<1>7. e \o <<z>> \in Code(D)
  BY <1>5, <1>6, OneWord, Joined
<1>8. m \in Code(D)
  BY Zenon, <1>4, <1>7, OneWord
<1> HIDE DEF m
<1> QED BY <1>1, <1>2, <1>8, Joined

LEMMA LogicalCode ==
  ASSUME NEW i \in Instructions, NEW D, Scope(i, D), TwoOps(i), i.type \in DOMAIN Logical
  PROVE  EncodeLogical(i) \in Code(D)
<1> DEFINE r0 == i.a.reg
           r1 == IF i.b.type = {"IMM"} THEN SC2 ELSE i.b.reg
           l == Logical[i.type]
           e == IF i.b.type = {"IMM"} THEN emit_imm(i.b.imm, SC2R) ELSE <<>>
           s == Copy(SC1R, 31) \o <<Sized(Sf(i), RRR("AND", SC1, SC1, r1))>> \o Copy(31, SC1R)
           size == IF i.type = "OR" THEN 64 ELSE Sf(i)
           m == IF i.type = "AND" /\ r0 = RSP THEN s ELSE <<Sized(size, RRR(l, r0, r0, r1))>>
<1>1. EncodeLogical(i) =
        IF i.a.type # {"REG"} \/ i.b.type \notin {{"REG"}, {"IMM"}} THEN panic ELSE e \o m
  BY Zenon DEF EncodeLogical
<1>2. CASE i.a.type # {"REG"} \/ i.b.type \notin {{"REG"}, {"IMM"}}
  BY <1>1, <1>2, PanicCode
<1>3. CASE i.a.type = {"REG"} /\ i.b.type \in {{"REG"}, {"IMM"}}
  <2>1. RegOp(i.a) /\ (i.b.type # {"IMM"} => RegOp(i.b))
    BY <1>3 DEF TwoOps, RmOp, MemOp, ImmOp
  <2>2. /\ r0 \in 0..21 /\ X(r0) \in D /\ r1 \in 0..21 /\ i.b.imm \in Int
        /\ SC2R \in 0..31 /\ SC2R \in D /\ SC1 \in 0..21 /\ X(SC1) \in D /\ SC1R \in D /\ SC1R \in 0..31
        /\ Room(D)
    BY <2>1, InScope
  <2>3. l \in Simple /\ "AND" \in Simple
    BY DEF Logical, Simple, Binary
  <2>4. r0 = RSP => 31 \in D
    BY <2>2, NamedRegisters DEF RSP
  <2>5. e \in Code(D)
    BY Zenon, <2>2, ImmCode, NoWords
  <2>6. /\ Sized(Sf(i), RRR("AND", SC1, SC1, r1)) \in Words(D)
        /\ Sized(size, RRR(l, r0, r0, r1)) \in Words(D)
    <3>1. size \in Sizes
      BY SizesOf
    <3> HIDE DEF r0, r1, l, size
    <3> QED BY Zenon, <2>2, <2>3, <3>1, RegistersWord, SizesOf
  <2>7. r0 = RSP => Copy(SC1R, 31) \in Code(D) /\ Copy(31, SC1R) \in Code(D)
    BY Zenon, <2>2, <2>4, CopyCode, Small
  <2> DEFINE p == Copy(SC1R, 31)
             q == Copy(31, SC1R)
             w == Sized(Sf(i), RRR("AND", SC1, SC1, r1))
  <2>8. r0 = RSP => s \in Code(D)
    <3>1. w \in Words(D) /\ (r0 = RSP => p \in Code(D) /\ q \in Code(D))
      BY <2>6, <2>7
    <3>2. s = p \o <<w>> \o q
      OBVIOUS
    <3> HIDE DEF p, q, w, s, r0
    <3>3. r0 = RSP => p \o <<w>> \in Code(D)
      BY <3>1, OneWord, Joined
    <3> QED BY <3>1, <3>2, <3>3, Joined
  <2> HIDE DEF s, e
  <2>9. m \in Code(D)
    BY Zenon, <2>6, <2>8, OneWord
  <2> HIDE DEF m
  <2> QED BY <1>1, <1>3, <2>5, <2>9, Joined
<1> QED BY <1>2, <1>3

(* What of an operand is decided by its type.                               *)
LEMMA OperandKinds ==
  ASSUME NEW i \in Instructions
  PROVE  /\ TwoOps(i) => /\ i.a.type = {"REG"} => RegOp(i.a)
                         /\ i.b.type = {"REG"} => RegOp(i.b)
                         /\ IsMem(i.a) => MemOp(i.a) /\ (RegOp(i.b) \/ ImmOp(i.b))
                         /\ IsMem(i.b) => MemOp(i.b) /\ RegOp(i.a)
                         /\ ~IsMem(i.a) => RegOp(i.a)
         /\ RmOp(i.b) => /\ i.b.type = {"REG"} => RegOp(i.b)
                         /\ "IMM" \in i.b.type => MemOp(i.b)
         /\ RmOp(i.a) => /\ i.a.type = {"REG"} => RegOp(i.a)
                         /\ IsMem(i.a) => MemOp(i.a)
<1>1. ASSUME NEW op
      PROVE  /\ RegOp(op) => ~IsMem(op) /\ "IMM" \notin op.type
             /\ MemOp(op) => op.type # {"REG"} /\ IsMem(op)
             /\ ImmOp(op) => op.type # {"REG"} /\ ~IsMem(op)
  BY DEF RegOp, MemOp, ImmOp, IsMem
<1> QED BY Zenon, <1>1 DEF TwoOps, RmOp

LEMMA AddrCode ==
  ASSUME NEW i \in Instructions, NEW D, Scope(i, D), NEW op \in Operands, MemOp(op), NEW gp \in Int
  PROVE  Addr(op, i, gp) \in Code(D)
<1>1. Room(D) /\ SC1R \in D /\ Addressable(op)
  BY InScope, MemAddressable
<1> QED BY <1>1, AddressCode DEF Addr

LEMMA ShiftCode ==
  ASSUME NEW i \in Instructions, NEW D, Scope(i, D), TwoOps(i), i.type \in {"SHL", "SHR", "SAR"}
  PROVE  EncodeShift(i) \in Code(D)
<1> DEFINE r == X(i.a.reg)
           imm == i.b.imm % 64
           half == 32 + (imm % 32)
           byReg == i.b.type = {"REG"}
           op == IF i.type = "SHL" THEN "LSL" ELSE "ASR"
           w == CASE i.type = "SHL" -> W("LSL_IMM", r, r, 0, imm)
                  [] i.type = "SHR" -> W("LSR_IMM", r, r, 0, half)
                  [] i.type = "SAR" -> W("ASR_IMM", r, r, 0, imm)
           cl == <<Sized(Sf(i), RRR(op, i.a.reg, i.a.reg, i.b.reg))>>
<1>1. EncodeShift(i) =
        CASE i.a.type # {"REG"} \/ (byReg /\ i.type = "SHR") -> panic
          [] i.a.type = {"REG"} /\ ~byReg -> <<w>>
          [] OTHER -> cl
  BY Zenon DEF EncodeShift
<1> HIDE DEF w, cl
<1>2. CASE i.a.type # {"REG"} \/ (byReg /\ i.type = "SHR")
  BY <1>1, <1>2, PanicCode
<1>3. CASE i.a.type = {"REG"} /\ ~(byReg /\ i.type = "SHR")
  <2>1. RegOp(i.a) /\ (byReg => RegOp(i.b))
    BY <1>3, OperandKinds
  <2>2. /\ i.a.reg \in 0..21 /\ (byReg => i.b.reg \in 0..21) /\ r \in D /\ r \in 0..31 /\ i.b.imm \in Int
    BY <2>1, InScope
  <2>3. imm \in Nat /\ half \in Nat
    BY <2>2
  <2>4. op \in Simple /\ "LSL_IMM" \in Shifted /\ "LSR_IMM" \in Shifted /\ "ASR_IMM" \in Shifted
    BY DEF Simple, Binary, Shifted
  <2> HIDE DEF op, imm, half, r
  <2>5. /\ W("LSL_IMM", r, r, 0, imm) \in Words(D) /\ W("LSR_IMM", r, r, 0, half) \in Words(D)
        /\ W("ASR_IMM", r, r, 0, imm) \in Words(D)
    BY Zenon, <2>2, <2>3, <2>4, ShiftWord
  <2>6. byReg => Sized(Sf(i), RRR(op, i.a.reg, i.a.reg, i.b.reg)) \in Words(D)
    BY Zenon, <2>2, <2>4, RegistersWord, SizesOf DEF r
  <2>7. w \in Words(D)
    BY <2>5 DEF w
  <2>8. <<w>> \in Code(D) /\ (byReg => cl \in Code(D))
    BY Zenon, <2>6, <2>7, OneWord DEF cl
  <2> QED BY <1>1, <1>3, <2>8
<1> QED BY <1>2, <1>3

LEMMA MoveCode ==
  ASSUME NEW i, NEW D, Room(D), X(i.a.reg) \in D, X(i.b.reg) \in 0..31
  PROVE  Move(i) \in Code(D)
<1>1. R2("ADD_IMM", X(i.a.reg), X(i.b.reg)) \in Words(D)
  BY Zenon, AddWord, Mnemonics, Small DEF Room, R2
<1> QED BY Zenon, <1>1, SizedWord, SizesOf, OneWord DEF Move

LEMMA WidenCode ==
  ASSUME NEW i \in Instructions, NEW D, Scope(i, D), TwoOps(i), NEW gp \in Int, i.type \in DOMAIN Widening
  PROVE  EncodeWiden(i, gp) \in Code(D)
<1>1. Room(D) /\ i.b \in Operands /\ i.b.imm \in Int /\ SC1R \in 0..31 /\ Widening[i.type] \in Simple
  BY InScope DEF Simple, Widening
<1>2. i.a.type = {"REG"} => X(i.a.reg) \in D /\ X(i.a.reg) \in 0..31
  BY OperandKinds, InScope
<1>3. i.b.type = {"REG"} => X(i.b.reg) \in 0..31
  BY OperandKinds, InScope
<1>4. i.a.type = {"REG"} /\ i.b.type = {"REG"} => Move(i) \in Code(D)
  BY Zenon, <1>1, <1>2, <1>3, MoveCode
<1>5. i.a.type = {"REG"} => emit_imm(i.b.imm, X(i.a.reg)) \in Code(D)
  BY Zenon, <1>1, <1>2, ImmCode
<1>6. ASSUME IsMem(i.b) PROVE Addr(i.b, i, gp) \o <<R2(Widening[i.type], X(i.a.reg), SC1R)>> \in Code(D)
  <2>1. MemOp(i.b) /\ RegOp(i.a)
    BY <1>6, OperandKinds
  <2>2. X(i.a.reg) \in D /\ X(i.a.reg) \in 0..31
    BY <2>1, InScope
  <2>3. R2(Widening[i.type], X(i.a.reg), SC1R) \in Words(D)
    BY Zenon, <1>1, <2>2, ComputeWord, Small DEF R2
  <2>4. Addr(i.b, i, gp) \in Code(D)
    BY Zenon, <1>1, <2>1, AddrCode
  <2> QED BY <2>3, <2>4, OneWord, Joined
<1> QED BY Zenon, <1>4, <1>5, <1>6, PanicCode DEF EncodeWiden

LEMMA MovCode ==
  ASSUME NEW i \in Instructions, NEW D, Scope(i, D), TwoOps(i), NEW gp \in Int
  PROVE  EncodeMov(i, gp) \in Code(D)
<1>1. /\ Room(D) /\ i.a \in Operands /\ i.b \in Operands /\ i.b.imm \in Int
      /\ SC2R \in D /\ SC2R \in 0..31 /\ X(XZR) \in 0..31
  BY InScope
<1>2. i.a.type = {"REG"} => X(i.a.reg) \in D /\ X(i.a.reg) \in 0..31
  BY OperandKinds, InScope
<1>3. i.b.type = {"REG"} => X(i.b.reg) \in 0..31
  BY OperandKinds, InScope
<1>4. i.a.type = {"REG"} /\ i.b.type = {"REG"} => Move(i) \in Code(D)
  BY Zenon, <1>1, <1>2, <1>3, MoveCode
<1>5. /\ i.a.type = {"REG"} => emit_imm(i.b.imm, X(i.a.reg)) \in Code(D)
      /\ emit_imm(i.b.imm, SC2R) \in Code(D)
  BY Zenon, <1>1, <1>2, ImmCode
<1>6. IsMem(i.b) => emit_load(X(i.a.reg), i.b, Sf(i), i.prefix, gp) \in Code(D)
  <2>1. IsMem(i.b) => MemOp(i.b) /\ X(i.a.reg) \in D
    BY OperandKinds, InScope
  <2> QED BY Zenon, <1>1, <2>1, LoadCode, SizesOf
<1>7. ASSUME IsMem(i.a)
      PROVE  /\ i.b.type # {"IMM"} => emit_store(X(i.b.reg), i.a, Sf(i), i.prefix, TRUE, gp) \in Code(D)
             /\ emit_store(X(XZR), i.a, Sf(i), i.prefix, TRUE, gp) \in Code(D)
             /\ emit_imm(i.b.imm, SC2R) \o emit_store(SC2R, i.a, Sf(i), i.prefix, TRUE, gp) \in Code(D)
  <2>1. MemOp(i.a) /\ (RegOp(i.b) \/ ImmOp(i.b))
    BY <1>7, OperandKinds
  <2>2. i.b.type # {"IMM"} => X(i.b.reg) \in 0..31
    BY <2>1, InScope DEF ImmOp
  <2>3. \A n \in 0..31 : emit_store(n, i.a, Sf(i), i.prefix, TRUE, gp) \in Code(D)
    BY Zenon, <1>1, <2>1, StoreCode, SizesOf
  <2>4. emit_store(SC2R, i.a, Sf(i), i.prefix, TRUE, gp) \in Code(D)
    BY Zenon, <1>1, <2>3
  <2> QED BY Zenon, <1>1, <1>5, <2>2, <2>3, <2>4, Joined
<1> QED BY Zenon, <1>4, <1>5, <1>6, <1>7, PanicCode DEF EncodeMov

LEMMA LeaCode ==
  ASSUME NEW i \in Instructions, NEW D, Scope(i, D), TwoOps(i), NEW gp \in Int, IsMem(i.b)
  PROVE  emit_address_decode(i.b, X(i.a.reg), i.prefix, gp) \in Code(D)
<1>1. MemOp(i.b) /\ RegOp(i.a)
  BY OperandKinds
<1>2. Room(D) /\ i.b \in Operands /\ X(i.a.reg) \in D /\ Addressable(i.b)
  BY <1>1, InScope, MemAddressable
<1> QED BY Zenon, <1>2, AddressCode

LEMMA IdivCode ==
  ASSUME NEW i \in Instructions, NEW D, Scope(i, D), i.type = "IDIV",
         RegOp(i.a), i.a.reg \in {0, 8}, RmOp(i.b)
  PROVE  EncodeIdiv(i) \in Code(D)
<1> DEFINE nn == X(i.b.reg)
           r0 == X(i.a.reg)
           c == Copy(X(SC1R), X(r0))
           w == W("SDIV", r0, SC1R, nn, 0)
           z == W("MSUB", 2, r0, nn, SC1R)
<1>1. EncodeIdiv(i) = IF i.a.type = {"REG"} /\ i.b.type = {"REG"} THEN c \o <<w, z>> ELSE panic
  BY Zenon DEF EncodeIdiv
<1>2. CASE i.b.type = {"REG"}
  <2>1. RegOp(i.b)
    BY <1>2, OperandKinds
  <2>2. nn \in 0..31 /\ r0 \in 0..31 /\ r0 \in D /\ SC1R \in 0..31 /\ Room(D)
    BY <2>1, InScope
  <2>3. r0 \in {8, 4}
    BY NamedRegisters
  <2>4. 2 \in D /\ 16 \in D /\ X(SC1R) = 16 /\ X(r0) \in 0..31 /\ "SDIV" \in Simple
    BY <2>3, HostRegisters, NamedRegisters DEF Scope, SC1R, Simple, Binary
  <2> HIDE DEF nn, r0
  <2>5. c \in Code(D)
    BY Zenon, <2>2, <2>4, CopyCode
  <2>6. w \in Words(D)
    BY Zenon, <2>2, <2>4, ComputeWord, Small
  <2>7. z \in Words(D)
    BY Zenon, <2>2, <2>4, MsubWord, Small
  <2> HIDE DEF c, w, z
  <2>8. <<w, z>> \in Code(D)
    BY <2>6, <2>7, TwoWords
  <2>9. c \o <<w, z>> \in Code(D)
    BY <2>5, <2>8, Joined
  <2> QED BY <1>1, <2>9, PanicCode
<1> QED BY <1>1, <1>2, PanicCode

LEMMA ImulCode ==
  ASSUME NEW i \in Instructions, NEW D, Scope(i, D), RegOp(i.a), RmOp(i.b), NEW gp \in Int
  PROVE  EncodeImul(i, gp) \in Code(D)
<1> DEFINE r0 == X(i.a.reg)
           r1 == X(i.b.reg)
           e == emit_imm(i.b.imm, SC1R)
           l == emit_load(SC2R, i.b, Sf(i), i.prefix, gp)
           w == W("SMULL", r0, r1, SC1R, 0)
           y == W("SMULL", r0, r0, r1, 0)
           z == W("SMULL", r0, r0, SC2R, 0)
<1>1. EncodeImul(i, gp) =
        CASE i.a.type = {"REG"} /\ i.b.type = {"REG"} -> IF i.b.imm # 0 THEN e \o <<w>> ELSE <<y>>
          [] "IMM" \in i.b.type /\ i.b.type # {"REG"} -> l \o <<z>>
          [] OTHER -> panic
  BY Zenon DEF EncodeImul
<1>2. /\ Room(D) /\ i.b \in Operands /\ i.b.imm \in Int /\ SC1R \in D /\ SC1R \in 0..31
      /\ SC2R \in D /\ SC2R \in 0..31 /\ r0 \in D /\ r0 \in 0..31 /\ "SMULL" \in Simple
  BY InScope DEF Simple
<1>3. i.b.type = {"REG"} => r1 \in 0..31
  BY OperandKinds, InScope
<1>4. "IMM" \in i.b.type => MemOp(i.b)
  BY OperandKinds
<1>5. e \in Code(D)
  BY Zenon, <1>2, ImmCode
<1>6. "IMM" \in i.b.type => l \in Code(D)
  BY Zenon, <1>2, <1>4, LoadCode, SizesOf
<1> HIDE DEF r0, r1
<1>7. (i.b.type = {"REG"} => w \in Words(D) /\ y \in Words(D)) /\ z \in Words(D)
  BY Zenon, <1>2, <1>3, ComputeWord, Small
<1> HIDE DEF e, l, w, y, z
<1>8. i.b.type = {"REG"} => e \o <<w>> \in Code(D)
  BY <1>5, <1>7, OneWord, Joined
<1>9. "IMM" \in i.b.type => l \o <<z>> \in Code(D)
  BY <1>6, <1>7, OneWord, Joined
<1> QED BY Zenon, <1>1, <1>7, <1>8, <1>9, OneWord, PanicCode


(* The operands of the vector instructions.                                 *)
LEMMA VectorKinds ==
  ASSUME NEW i \in Instructions, XmmOps(i)
  PROVE  /\ ~IsMem(i.a) => i.a.reg \in 0..15
         /\ ~IsMem(i.b) => i.b.reg \in 0..15
         /\ IsMem(i.a) => MemOp(i.a) /\ i.b.reg \in 0..15
         /\ IsMem(i.b) => MemOp(i.b) /\ i.a.reg \in 0..15
         /\ i.a.type = {"REG"} => RegOp(i.a)
         /\ i.b.type = {"REG"} => RegOp(i.b)
<1>1. ASSUME NEW op
      PROVE  /\ RegOp(op) => ~IsMem(op) /\ op.reg \in 0..15
             /\ XmmReg(op) => ~IsMem(op) /\ op.reg \in 0..15 /\ op.type # {"REG"}
             /\ MemOp(op) => op.type # {"REG"} /\ IsMem(op)
  BY DEF RegOp, MemOp, XmmReg, IsMem
<1> QED BY Zenon, <1>1 DEF XmmOps, RmOp

LEMMA MovsCode ==
  ASSUME NEW i \in Instructions, NEW D, Scope(i, D), XmmOps(i), NEW gp \in Int
  PROVE  EncodeMovs(i, gp) \in Code(D)
<1>1. /\ IsMem(i.a) => Addr(i.a, i, gp) \in Code(D)
      /\ IsMem(i.b) => Addr(i.b, i, gp) \in Code(D)
  BY VectorKinds, InScope, AddrCode
<1>2. SC1R \in 0..31
  BY InScope
<1>3. \A r \in 0..15 : <<Sized(Ft(i), R2("STR_V", r, SC1R))>> \in Code(D) /\ <<Sized(Ft(i), R2("LDR_V", r, SC1R))>> \in Code(D)
  <2> SUFFICES ASSUME NEW r \in 0..15
               PROVE  <<Sized(Ft(i), R2("STR_V", r, SC1R))>> \in Code(D) /\ <<Sized(Ft(i), R2("LDR_V", r, SC1R))>> \in Code(D)
    OBVIOUS
  <2>1. r \in 0..16
    OBVIOUS
  <2>2. R2("STR_V", r, SC1R) \in Words(D) /\ R2("LDR_V", r, SC1R) \in Words(D)
    BY Zenon, <1>2, <2>1, IntoVectorWord DEF R2
  <2> QED BY Zenon, <2>2, SizedWord, SizesOf, OneWord
<1>4. IsMem(i.a) => Addr(i.a, i, gp) \o <<Sized(Ft(i), R2("STR_V", i.b.reg, SC1R))>> \in Code(D)
  BY Zenon, <1>1, <1>3, VectorKinds, Joined
<1>5. IsMem(i.b) => Addr(i.b, i, gp) \o <<Sized(Ft(i), R2("LDR_V", i.a.reg, SC1R))>> \in Code(D)
  BY Zenon, <1>1, <1>3, VectorKinds, Joined
<1> QED BY Zenon, <1>4, <1>5, PanicCode DEF EncodeMovs

LEMMA NeonCode ==
  ASSUME NEW i \in Instructions, NEW D, Scope(i, D), XmmOps(i), NEW gp \in Int,
         NEW op \in {"FMUL", "FDIV", "FADD", "FSUB", "FCMP"}
  PROVE  emit_neon(i, op, gp) \in Code(D)
<1> DEFINE a == Addr(i.a, i, gp)
           b == Addr(i.b, i, gp)
           l == Sized(Ft(i), R2("LDR_V", V16, SC1R))
           s == Sized(Ft(i), R2("STR_V", V16, SC1R))
           u == Sized(Ft(i), W(op, V16, V16, i.b.reg, 0))
           v == Sized(Ft(i), W(op, i.a.reg, i.a.reg, V16, 0))
           w == Sized(Ft(i), W(op, i.a.reg, i.a.reg, i.b.reg, 0))
<1>1. emit_neon(i, op, gp) = IF IsMem(i.a) THEN a \o <<l, u, s>>
                             ELSE IF IsMem(i.b) THEN b \o <<l, v>> ELSE <<w>>
  BY Zenon DEF emit_neon
<1>2. (IsMem(i.a) => a \in Code(D)) /\ (IsMem(i.b) => b \in Code(D))
  BY VectorKinds, InScope, AddrCode
<1>3. /\ ~IsMem(i.a) \/ IsMem(i.b) => i.a.reg \in 0..16
      /\ IsMem(i.a) \/ ~IsMem(i.b) => i.b.reg \in 0..16
      /\ V16 \in 0..16 /\ SC1R \in 0..31 /\ op \in Ternary \cup {"FCMP", "FCVT", "FCVTU", "MOV_V"}
  BY VectorKinds, InScope DEF V16, Ternary
<1>4. l \in Words(D) /\ s \in Words(D)
  BY Zenon, <1>3, IntoVectorWord, SizedWord, SizesOf DEF R2
<1>5. /\ IsMem(i.a) => u \in Words(D)
      /\ IsMem(i.b) => v \in Words(D)
      /\ ~IsMem(i.a) /\ ~IsMem(i.b) => w \in Words(D)
  BY Zenon, <1>3, VectorWord, SizedWord, SizesOf
<1> HIDE DEF a, b, l, s, u, v, w
<1>6. IsMem(i.a) => <<l, u, s>> \in Code(D)
  BY <1>4, <1>5 DEF Code
<1>7. IsMem(i.b) => <<l, v>> \in Code(D)
  BY <1>4, <1>5 DEF Code
<1>8. (IsMem(i.a) => a \o <<l, u, s>> \in Code(D)) /\ (IsMem(i.b) => b \o <<l, v>> \in Code(D))
  BY Zenon, <1>2, <1>6, <1>7, Joined
<1> QED BY Zenon, <1>1, <1>5, <1>8, OneWord

(* The conversions, but for the two that take a register from a leftover.   *)
LEMMA ConvertCode ==
  ASSUME NEW i \in Instructions, NEW D, Scope(i, D), XmmOps(i), ~Unassigned(i), NEW gp \in Int,
         i.type \in {"PXOR", "CVTSD2SI", "CVTSI2S", "CVTSD2SS", "CVTSS2SD", "MOVQ", "MOVAPD"}
  PROVE  EncodeConvert(i, gp) \in Code(D)
<1> DEFINE r0 == i.a.reg
           r1 == i.b.reg
           both == Xmm(i.a) /\ Xmm(i.b)
           load == emit_load(SC1R, i.b, 32, i.prefix, gp)
           address == Addr(i.b, i, gp)
           eor == W("EOR_V", r0, r0, r1, 0)
           fcvtzs == R2("FCVTZS", X(r0), r1)
           scvtf(n) == Sized(Ft(i), R2("SCVTF", r0, n))
           fcvt == Sized(32, R2("FCVT", r0, r1))
           fcvtu == R2("FCVTU", r0, r1)
           ldr == Sized(32, R2("LDR_V", V16, SC1R))
           widen == R2("FCVTU", r0, V16)
           fmov == R2("FMOV", X(r0), r1)
           fmovr == R2("FMOVR", r0, X(r1))
           move == R2(IF i.size = 64 THEN "garbled" ELSE "MOV_V", r0, r1)
           pxor == IF both THEN <<eor>> ELSE panic
           sd2si == IF i.a.type = {"REG"} /\ Xmm(i.b) THEN <<fcvtzs>> ELSE panic
           si2s == IF IsMem(i.b) THEN load \o <<scvtf(SC1R)>>
                   ELSE IF i.b.type = {"REG"} THEN <<scvtf(X(r1))>> ELSE panic
           sd2ss == IF both THEN <<fcvt>> ELSE panic
           ss2sd == IF both THEN <<fcvtu>> ELSE address \o <<ldr, widen>>
           movq == IF "XMM" \in i.b.type THEN <<fmov>> ELSE <<fmovr>>
<1>1. EncodeConvert(i, gp) =
        CASE i.type = "PXOR" -> pxor
          [] i.type = "CVTSD2SI" -> sd2si
          [] i.type = "CVTSI2S" -> si2s
          [] i.type = "CVTSD2SS" -> sd2ss
          [] i.type = "CVTSS2SD" -> ss2sd
          [] i.type = "MOVQ" -> movq
          [] i.type = "MOVAPD" -> <<move>>
  BY Zenon DEF EncodeConvert
<1>2. /\ ~IsMem(i.a) \/ IsMem(i.b) => r0 \in 0..16 /\ r0 \in 0..31
      /\ IsMem(i.a) \/ ~IsMem(i.b) => r1 \in 0..16 /\ r1 \in 0..31
      /\ i.a.type = {"REG"} => X(r0) \in D /\ X(r0) \in 0..31
      /\ i.b.type = {"REG"} => X(r1) \in 0..31
      /\ i.a \in Operands /\ i.b \in Operands
      /\ IsMem(i.b) => MemOp(i.b)
      /\ SC1R \in 0..31 /\ SC1R \in D /\ Room(D) /\ V16 \in 0..16
  BY VectorKinds, InScope DEF V16
<1>3. /\ both => ~IsMem(i.a) /\ ~IsMem(i.b)
      /\ Xmm(i.b) => ~IsMem(i.b)
      /\ i.a.type = {"REG"} => ~IsMem(i.a)
      /\ i.b.type = {"REG"} => ~IsMem(i.b)
  BY DEF Xmm, IsMem
<1> DEFINE Plain == Ternary \cup {"FCMP", "FCVT", "FCVTU", "MOV_V"}
<1>4. "EOR_V" \in Plain /\ "FCVT" \in Plain /\ "FCVTU" \in Plain /\ "MOV_V" \in Plain
  BY DEF Ternary
<1>5. ASSUME i.type = "PXOR" PROVE pxor \in Code(D)
  <2>1. both => eor \in Words(D)
    <3> HIDE DEF both, r0, r1
    <3> QED BY Zenon, <1>2, <1>3, <1>4, VectorWord
  <2> HIDE DEF both, eor
  <2> QED BY Zenon, <2>1, OneWord, PanicCode
<1>6. ASSUME i.type = "CVTSD2SI" PROVE sd2si \in Code(D)
  <2>1. i.a.type = {"REG"} /\ Xmm(i.b) => fcvtzs \in Words(D)
    <3> HIDE DEF r0, r1
    <3> QED BY Zenon, <1>2, <1>3, FromVectorWord DEF R2
  <2> HIDE DEF fcvtzs
  <2> QED BY Zenon, <2>1, OneWord, PanicCode
<1>7. ASSUME i.type = "CVTSI2S" PROVE si2s \in Code(D)
  <2>1. IsMem(i.b) => load \in Code(D)
    BY Zenon, <1>2, LoadCode, SizesOf
  <2>2. i.b.type = {"REG"} => r0 \in 0..16
    BY <1>7 DEF XmmOps, XmmReg, RmOp, RegOp, MemOp
  <2> DEFINE w == scvtf(SC1R)
             z == scvtf(X(r1))
  <2> HIDE DEF r0, r1
  <2>3. IsMem(i.b) => w \in Words(D)
    BY Zenon, <1>2, IntoVectorWord, SizedWord, SizesOf DEF R2
  <2>4. i.b.type = {"REG"} => z \in Words(D)
    BY Zenon, <1>2, <2>2, IntoVectorWord, SizedWord, SizesOf DEF R2
  <2>5. si2s = IF IsMem(i.b) THEN load \o <<w>> ELSE IF i.b.type = {"REG"} THEN <<z>> ELSE panic
    BY Zenon
  <2> HIDE DEF load, w, z, si2s
  <2>6. IsMem(i.b) => load \o <<w>> \in Code(D)
    BY <2>1, <2>3, OneWord, Joined
  <2> QED BY Zenon, <2>4, <2>5, <2>6, OneWord, PanicCode
<1>8. ASSUME i.type = "CVTSD2SS" PROVE sd2ss \in Code(D)
  <2>1. both => fcvt \in Words(D)
    <3> HIDE DEF both, r0, r1
    <3> QED BY Zenon, <1>2, <1>3, <1>4, VectorWord, SizedWord, SizesOf, Small DEF R2
  <2> HIDE DEF both, fcvt
  <2> QED BY Zenon, <2>1, OneWord, PanicCode
<1>9. ASSUME i.type = "CVTSS2SD" PROVE ss2sd \in Code(D)
  <2>1. ~both => IsMem(i.b)
    BY <1>9 DEF XmmOps, XmmReg, Xmm, MemOp, IsMem
  <2>2. IsMem(i.b) => address \in Code(D)
    BY Zenon, <1>2, AddrCode
  <2>3. /\ both => fcvtu \in Words(D)
        /\ IsMem(i.b) => ldr \in Words(D) /\ widen \in Words(D)
    <3> HIDE DEF both, r0, r1
    <3> QED BY Zenon, <1>2, <1>3, <1>4, VectorWord, IntoVectorWord, SizedWord, SizesOf, Small DEF R2
  <2> HIDE DEF both, address, fcvtu, ldr, widen
  <2>4. IsMem(i.b) => <<ldr, widen>> \in Code(D)
    BY <2>3, TwoWords
  <2>5. IsMem(i.b) => address \o <<ldr, widen>> \in Code(D)
    BY <2>2, <2>4, Joined
  <2> QED BY Zenon, <2>1, <2>3, <2>5, OneWord
<1>10. ASSUME i.type \in {"MOVQ", "MOVAPD"} PROVE movq \in Code(D) /\ <<move>> \in Code(D)
  <2>1. r0 \in 0..16 /\ r0 \in 0..31 /\ r1 \in 0..16 /\ r1 \in 0..31
    BY <1>2, <1>10 DEF Unassigned
  <2>2. /\ "XMM" \in i.b.type => X(r0) \in D /\ X(r0) \in 0..31
        /\ "XMM" \notin i.b.type => X(r1) \in 0..31
    <3>1. i.b.reg \in 0..15
      BY <1>10, VectorKinds DEF Unassigned
    <3>2. CASE RegOp(i.a)
      BY <3>1, <3>2, InScope, HostRegisters
    <3>3. CASE ~RegOp(i.a)
      BY <1>10, <3>1, <3>3, HostRegisters DEF XmmOps, XmmReg, RegOp, RmOp, MemOp, Unassigned, IsMem
    <3> QED BY <3>2, <3>3
  <2> HIDE DEF r0, r1
  <2>3. "XMM" \in i.b.type => fmov \in Words(D)
    BY Zenon, <2>1, <2>2, FromVectorWord DEF R2
  <2>4. "XMM" \notin i.b.type => fmovr \in Words(D)
    BY Zenon, <2>1, <2>2, IntoVectorWord DEF R2
  <2>5. move \in Words(D)
    <3>1. R2("garbled", r0, r1) \in Words(D)
      BY Zenon, <2>1, PlainWord, Mnemonics, Small DEF R2
    <3>2. R2("MOV_V", r0, r1) \in Words(D)
      BY Zenon, <1>4, <2>1, VectorWord, Small DEF R2
    <3> QED BY Zenon, <3>1, <3>2
  <2> HIDE DEF fmov, fmovr, move
  <2> QED BY Zenon, <2>3, <2>4, <2>5, OneWord
<1> HIDE DEF pxor, sd2si, si2s, sd2ss, ss2sd, movq, move
<1> QED BY <1>1, <1>5, <1>6, <1>7, <1>8, <1>9, <1>10


LEMMA BranchCode ==
  ASSUME NEW i \in Instructions, NEW D, Scope(i, D), RmOp(i.a) \/ ImmOp(i.a), NEW gp \in Int,
         NEW op \in {"BR", "BLR"}
  PROVE  emit_branch(i, op, gp) \in Code(D)
<1> DEFINE a == emit_address_decode(i.a, SC1R, "none", gp)
           l == R2("LDR", SC1R, SC1R)
           b == R2(op, 0, SC1R)
           r == R2(op, 0, X(i.a.reg))
           k == W("BRK", 0, 0, 0, gp + i.a.imm)
<1>1. emit_branch(i, op, gp) = CASE i.a.type = {"REG"} -> <<r>>
                                 [] i.a.type = {"IMM"} -> <<k>>
                                 [] OTHER -> a \o <<l, b>>
  BY Zenon DEF emit_branch
<1>2. /\ Room(D) /\ SC1R \in D /\ SC1R \in 0..31 /\ i.a \in Operands /\ gp + i.a.imm \in Int
      /\ op \in Others /\ "BRK" \in Others /\ "LDR" \in Simple
  BY InScope DEF Others, Simple
<1>3. /\ i.a.type = {"REG"} => X(i.a.reg) \in 0..31
      /\ i.a.type \notin {{"REG"}, {"IMM"}} => Addressable(i.a)
  <2>1. i.a.type = {"REG"} => RegOp(i.a)
    BY DEF RmOp, RegOp, MemOp, ImmOp
  <2>2. RmOp(i.a) => Addressable(i.a)
    BY <1>2, MemAddressable DEF RmOp
  <2> QED BY <2>1, <2>2, InScope DEF ImmOp
<1>4. i.a.type \notin {{"REG"}, {"IMM"}} => a \in Code(D)
  BY Zenon, <1>2, <1>3, AddressCode
<1>5. l \in Words(D)
  BY Zenon, <1>2, ComputeWord, Small DEF R2
<1>6. b \in Words(D) /\ (i.a.type = {"REG"} => r \in Words(D))
  BY Zenon, <1>2, <1>3, PlainWord, Small DEF R2
<1>7. k \in Words(D)
  <2> DEFINE v == gp + i.a.imm
  <2>1. v \in Int
    BY <1>2
  <2> HIDE DEF v
  <2> QED BY Zenon, <1>2, <2>1, PlainWord, Small DEF v
<1> HIDE DEF a, l, b, r, k
<1>8. <<l, b>> \in Code(D)
  BY <1>5, <1>6, TwoWords
<1>9. i.a.type \notin {{"REG"}, {"IMM"}} => a \o <<l, b>> \in Code(D)
  BY <1>4, <1>8, Joined
<1>10. <<k>> \in Code(D) /\ (i.a.type = {"REG"} => <<r>> \in Code(D))
  BY <1>6, <1>7, OneWord
<1> QED BY <1>1, <1>9, <1>10

(* Instructions of eight bits.                                              *)
LEMMA ByteCode ==
  ASSUME NEW D, NEW d \in 0..31, d \in D, NEW r, X(r) \in 0..31
  PROVE  Byte(d, r) \in Code(D)
<1>1. "UXTB" \in Simple
  BY DEF Simple
<1>2. R2("UXTB", d, X(r)) \in Words(D)
  BY Zenon, <1>1, ComputeWord, Small DEF R2
<1> QED BY Zenon, <1>2, OneWord DEF Byte

LEMMA Mov8Code ==
  ASSUME NEW i \in Instructions, NEW D, Scope(i, D), TwoOps(i), NEW gp \in Int
  PROVE  Mov8(i, gp) \in Code(D)
<1> DEFINE a == Addr(i.a, i, gp)
           v == emit_imm(i.b.imm, SC2R)
           r == R2("STRB", X(i.b.reg), SC1R)
           w == R2("STRB", SC2R, SC1R)
           m == IF i.b.type = {"REG"} THEN <<r>> ELSE v \o <<w>>
<1>1. Mov8(i, gp) = IF ~IsMem(i.a) THEN panic ELSE a \o m
  BY Zenon DEF Mov8
<1>2. /\ Room(D) /\ SC2R \in D /\ SC2R \in 0..31 /\ SC1R \in 0..31 /\ i.b.imm \in Int /\ i.a \in Operands
      /\ i.b.type = {"REG"} => X(i.b.reg) \in 0..31
      /\ IsMem(i.a) => MemOp(i.a)
      /\ "STRB" \in Others
  BY InScope, OperandKinds DEF Others
<1>3. IsMem(i.a) => a \in Code(D)
  BY Zenon, <1>2, AddrCode
<1>4. v \in Code(D)
  BY Zenon, <1>2, ImmCode
<1>5. w \in Words(D) /\ (i.b.type = {"REG"} => r \in Words(D))
  BY Zenon, <1>2, PlainWord, Small DEF R2
<1> HIDE DEF a, v, r, w
<1>6. v \o <<w>> \in Code(D)
  BY <1>4, <1>5, OneWord, Joined
<1>7. m \in Code(D)
  BY Zenon, <1>5, <1>6, OneWord
<1> HIDE DEF m
<1>8. IsMem(i.a) => a \o m \in Code(D)
  BY <1>3, <1>7, Joined
<1> QED BY <1>1, <1>8, PanicCode

LEMMA Test8Code ==
  ASSUME NEW i \in Instructions, NEW D, Scope(i, D), TwoOps(i)
  PROVE  Test8(i) \in Code(D)
<1> DEFINE a == Byte(SC1R, i.a.reg)
           b == Byte(SC2R, i.b.reg)
           v == emit_imm(i.b.imm, SC2R)
           one == <<And32(SC1)>>
           two == <<And32(SC2)>>
           left == i.a.type = {"REG"}
           right == i.b.type = {"REG"}
           same == i.a.reg = i.b.reg
<1>1. Test8(i) = CASE ~left \/ i.b.type \notin {{"REG"}, {"IMM"}} -> panic
                   [] left /\ right -> IF same THEN a \o one ELSE a \o b \o two
                   [] OTHER -> a \o v \o two
  BY Zenon DEF Test8
<1>2. /\ Room(D) /\ SC2R \in D /\ SC2R \in 0..31 /\ SC1R \in D /\ SC1R \in 0..31 /\ i.b.imm \in Int
      /\ left => X(i.a.reg) \in 0..31
      /\ right => X(i.b.reg) \in 0..31
      /\ SC1 \in 0..21 /\ SC2 \in 0..21
  BY InScope, OperandKinds
<1>3. (left => a \in Code(D)) /\ (right => b \in Code(D))
  BY Zenon, <1>2, ByteCode
<1>4. v \in Code(D)
  BY Zenon, <1>2, ImmCode
<1>5. one \in Code(D) /\ two \in Code(D)
  BY Zenon, <1>2, FlagsWord, SizesOf, OneWord DEF And32
<1> HIDE DEF a, b, v, one, two
<1>6. left => a \o one \in Code(D)
  BY Zenon, <1>3, <1>5, Joined
<1>7. left /\ right => a \o b \o two \in Code(D)
  BY Zenon, <1>3, <1>5, Joined
<1>8. left => a \o v \o two \in Code(D)
  BY Zenon, <1>3, <1>4, <1>5, Joined
<1> DEFINE x == a \o one
           y == a \o b \o two
           z == a \o v \o two
<1> HIDE DEF x, y, z
<1>9. Test8(i) = CASE ~left \/ i.b.type \notin {{"REG"}, {"IMM"}} -> panic
                   [] left /\ right -> IF same THEN x ELSE y
                   [] OTHER -> z
  BY Zenon, <1>1 DEF x, y, z
<1>10. (left => x \in Code(D)) /\ (left /\ right => y \in Code(D)) /\ (left => z \in Code(D))
  BY Zenon, <1>6, <1>7, <1>8 DEF x, y, z
<1>11. left /\ right => (IF same THEN x ELSE y) \in Code(D)
  BY Zenon, <1>10
<1>12. CASE ~left
  BY <1>9, <1>12, PanicCode
<1>13. CASE left /\ right
  BY <1>9, <1>11, <1>13
<1>14. CASE left /\ ~right
  BY <1>9, <1>10, <1>14, PanicCode
<1> QED BY <1>12, <1>13, <1>14

LEMMA Cmp8Code ==
  ASSUME NEW i \in Instructions, NEW D, Scope(i, D), TwoOps(i), NEW gp \in Int
  PROVE  Cmp8(i, gp) \in Code(D)
<1> DEFINE a == Byte(SC1R, i.a.reg)
           m == Addr(i.a, i, gp)
           l == R2("LDRB", SC1R, SC1R)
           c == <<Sized(32, Imm12("SUBS_IMM", X(XZR), SC1R, i.b.imm))>>
           x == a \o c
           y == m \o <<l>> \o c
<1>1. Cmp8(i, gp) = CASE i.a.type = {"REG"} -> x [] IsMem(i.a) -> y [] OTHER -> panic
  BY Zenon DEF Cmp8
<1>2. /\ Room(D) /\ SC1R \in D /\ SC1R \in 0..31 /\ i.b.imm \in Int /\ i.a \in Operands
      /\ i.a.type = {"REG"} => X(i.a.reg) \in 0..31
      /\ IsMem(i.a) => MemOp(i.a)
      /\ X(XZR) \in 0..31 /\ "LDRB" \in Simple
  BY InScope, OperandKinds DEF Simple
<1>3. i.a.type = {"REG"} => a \in Code(D)
  BY Zenon, <1>2, ByteCode
<1>4. IsMem(i.a) => m \in Code(D)
  BY Zenon, <1>2, AddrCode
<1>5. c \in Code(D)
  BY Zenon, <1>2, Imm12Word, SizedWord, SizesOf, OneWord
<1>6. <<l>> \in Code(D)
  BY Zenon, <1>2, ComputeWord, OneWord, Small DEF R2
<1> HIDE DEF a, m, l, c
<1>7. i.a.type = {"REG"} => x \in Code(D)
  BY <1>3, <1>5, Joined
<1>8. IsMem(i.a) => y \in Code(D)
  BY Zenon, <1>4, <1>5, <1>6, Joined
<1> HIDE DEF x, y
<1>9. i.a.type = {"REG"} => ~IsMem(i.a)
  BY DEF IsMem
<1> QED BY <1>1, <1>7, <1>8, <1>9, PanicCode


(* The shape of an Instruction by the cases of encode().                    *)
LEMMA ShapesOf ==
  ASSUME NEW i \in Instructions, Shaped(i)
  PROVE  /\ i.type \in General => TwoOps(i)
         /\ i.type \in {"JMP", "CALL"} => RmOp(i.a) \/ ImmOp(i.a)
         /\ i.type \in Sets => RmOp(i.a)
         /\ i.type \in VectorTypes => XmmOps(i)
         /\ i.type = "IMUL" => RegOp(i.a) /\ RmOp(i.b)
         /\ i.type = "IDIV" => RegOp(i.a) /\ i.a.reg \in {0, 8} /\ RmOp(i.b)
<1>1. General \cap (Sets \cup VectorTypes \cup Conditional
                    \cup {"panic", "NOP", "EBR", "RET", "LEAVE", "CLTQ", "CLTD", "SYSCALL", "PUSH", "POP", "JMP",
                          "CALL", "IMUL", "IDIV"}) = {}
  BY DEF General, Sets, VectorTypes, Conditional, SETcc, Jcc
<1>2. Sets \cap (VectorTypes \cup Conditional
                 \cup {"panic", "NOP", "EBR", "RET", "LEAVE", "CLTQ", "CLTD", "SYSCALL", "PUSH", "POP", "JMP",
                       "CALL", "IMUL", "IDIV"}) = {}
  BY DEF Sets, VectorTypes, Conditional, SETcc, Jcc
<1>3. VectorTypes \cap (Conditional
                        \cup {"panic", "NOP", "EBR", "RET", "LEAVE", "CLTQ", "CLTD", "SYSCALL", "PUSH", "POP",
                              "JMP", "CALL", "IMUL", "IDIV"}) = {}
  BY DEF VectorTypes, Conditional, Jcc
<1>4. Conditional \cap {"JMP", "CALL", "IMUL", "IDIV"} = {}
  BY DEF Conditional, Jcc
<1> HIDE DEF General, Sets, VectorTypes, Conditional
<1> QED BY <1>1, <1>2, <1>3, <1>4 DEF Shaped

LEMMA NarrowCode ==
  ASSUME NEW i \in Instructions, NEW D, Scope(i, D), Shaped(i), NEW gp \in Int
  PROVE  encode8bit(i, gp) \in Code(D)
<1>1. i.type \in {"MOV", "TEST", "CMP"} => TwoOps(i)
  BY ShapesOf DEF General
<1>2. /\ i.type = "MOV" => Mov8(i, gp) \in Code(D)
      /\ i.type = "TEST" => Test8(i) \in Code(D)
      /\ i.type = "CMP" => Cmp8(i, gp) \in Code(D)
  BY Zenon, <1>1, Mov8Code, Test8Code, Cmp8Code
<1> DEFINE set == <<R2(Cset[i.type], X(i.a.reg), 0)>>
<1>3. i.type \in DOMAIN Cset /\ i.a.type = {"REG"} => set \in Code(D)
  <2> SUFFICES ASSUME i.type \in DOMAIN Cset, i.a.type = {"REG"} PROVE set \in Code(D)
    OBVIOUS
  <2>1. i.type \in Sets
    BY DEF Cset, Sets, SETcc
  <2>2. RegOp(i.a)
    BY <2>1, ShapesOf, OperandKinds
  <2>3. X(i.a.reg) \in D /\ X(i.a.reg) \in 0..31
    BY <2>2, InScope
  <2>4. Cset[i.type] \in Simple
    BY DEF Cset, Simple
  <2>5. R2(Cset[i.type], X(i.a.reg), 0) \in Words(D)
    BY Zenon, <2>3, <2>4, ComputeWord, Small DEF R2
  <2> QED BY <2>5, OneWord
<1>4. encode8bit(i, gp) = CASE i.type = "MOV" -> Mov8(i, gp)
                            [] i.type = "TEST" -> Test8(i)
                            [] i.type = "CMP" -> Cmp8(i, gp)
                            [] i.type \in DOMAIN Cset -> IF i.a.type = {"REG"} THEN set ELSE panic
                            [] OTHER -> panic
  BY Zenon DEF encode8bit
<1>5. DOMAIN Cset = {"SETNE", "SETAE", "SETE", "SETB"}
  BY DEF Cset
<1> HIDE DEF set
<1> QED BY <1>2, <1>3, <1>4, <1>5, PanicCode

LEMMA WideCode ==
  ASSUME NEW i \in Instructions, NEW D, Scope(i, D), Shaped(i), ~Unassigned(i), NEW gp \in Int
  PROVE  EncodeWide(i, gp) \in Code(D)
<1> DEFINE regs == i.a.type = {"REG"} /\ i.b.type = {"REG"}
           sxtw == <<RRR("SXTW", i.a.reg, i.b.reg, 0)>>
           lea == emit_address_decode(i.b, X(i.a.reg), i.prefix, gp)
           test == <<Sized(Sf(i), RRR("ANDS", XZR, i.a.reg, i.b.reg))>>
           cltq == RRR("SXTW", RAX, RAX, 0)
           cqto == W("ASR_IMM", X(RDX), X(RAX), 0, 63)
           brk == <<W("BRK", 0, 0, 0, gp + i.a.imm)>>
           select == <<Sized(Sf(i), RRR(IF i.type = "CMOVA" THEN "CSEL_HI" ELSE "CSEL_MI",
                                        i.a.reg, i.b.reg, i.a.reg))>>
           stack == <<R2("stack", 0, 0)>>
           svc == <<R2("SVC", 0, 0)>>
           ret == <<R2("RET", 0, 30)>>
           Jumps == {"JG", "JGE", "JL", "JLE", "JNE", "JBE", "JAE", "JE"}
           Crosses == {"PXOR", "CVTSD2SI", "CVTSI2S", "CVTSD2SS", "CVTSS2SD", "MOVQ", "MOVAPD"}
<1>1. EncodeWide(i, gp) =
        CASE i.type \in {"ADD", "SUB"} -> EncodeAddSub(i, gp)
          [] i.type = "CMP" -> EncodeCmp(i, gp)
          [] i.type \in DOMAIN Logical -> EncodeLogical(i)
          [] i.type \in {"SHL", "SHR", "SAR"} -> EncodeShift(i)
          [] i.type = "MOVSX" -> IF regs THEN sxtw ELSE panic
          [] i.type \in DOMAIN Widening -> EncodeWiden(i, gp)
          [] i.type = "MOV" -> EncodeMov(i, gp)
          [] i.type = "LEA" -> IF IsMem(i.b) THEN lea ELSE panic
          [] i.type = "TEST" -> IF regs THEN test ELSE panic
          [] i.type = "CLTQ" -> <<cltq>>
          [] i.type = "CLTD" -> <<cltq, cqto>>
          [] i.type = "IDIV" -> EncodeIdiv(i)
          [] i.type = "IMUL" -> EncodeImul(i, gp)
          [] i.type \in Jumps -> brk
          [] i.type = "JMP" -> emit_branch(i, "BR", gp)
          [] i.type = "CALL" -> emit_branch(i, "BLR", gp)
          [] i.type = "RET" -> ret
          [] i.type \in {"EBR", "NOP"} -> <<>>
          [] i.type = "MOVS" -> EncodeMovs(i, gp)
          [] i.type \in {"CMOVA", "CMOVS"} -> IF regs THEN select ELSE panic
          [] i.type \in DOMAIN Neon -> emit_neon(i, Neon[i.type], gp)
          [] i.type \in Crosses -> EncodeConvert(i, gp)
          [] i.type \in {"PUSH", "POP", "LEAVE"} -> stack
          [] i.type = "SYSCALL" -> svc
          [] OTHER -> panic
  BY Zenon DEF EncodeWide
<1>2. i.type \in {"ADD", "SUB", "CMP", "XOR", "AND", "OR", "SHL", "SHR", "SAR", "MOVSX", "MOV", "LEA", "TEST",
                  "CMOVA", "CMOVS"} \cup DOMAIN Widening => TwoOps(i)
  BY ShapesOf DEF General, Widening
<1>3. DOMAIN Logical = {"XOR", "AND", "OR"} /\ DOMAIN Neon = {"MULS", "DIVS", "ADDS", "SUBS", "COMIS"}
  BY DEF Logical, Neon
<1>4. /\ i.type \in {"ADD", "SUB"} => EncodeAddSub(i, gp) \in Code(D)
      /\ i.type = "CMP" => EncodeCmp(i, gp) \in Code(D)
      /\ i.type \in DOMAIN Widening => EncodeWiden(i, gp) \in Code(D)
      /\ i.type = "MOV" => EncodeMov(i, gp) \in Code(D)
  BY <1>2, AddSubCode, CmpCode, WidenCode, MovCode
<1>5. /\ i.type \in DOMAIN Logical => EncodeLogical(i) \in Code(D)
      /\ i.type \in {"SHL", "SHR", "SAR"} => EncodeShift(i) \in Code(D)
      /\ i.type = "LEA" /\ IsMem(i.b) => lea \in Code(D)
  BY <1>2, <1>3, LogicalCode, ShiftCode, LeaCode
<1>6. /\ i.type = "IDIV" => EncodeIdiv(i) \in Code(D)
      /\ i.type = "IMUL" => EncodeImul(i, gp) \in Code(D)
  BY ShapesOf, IdivCode, ImulCode
<1>7. /\ i.type = "JMP" => emit_branch(i, "BR", gp) \in Code(D)
      /\ i.type = "CALL" => emit_branch(i, "BLR", gp) \in Code(D)
  BY ShapesOf, BranchCode
<1>8. /\ i.type = "MOVS" => EncodeMovs(i, gp) \in Code(D)
      /\ i.type \in Crosses => EncodeConvert(i, gp) \in Code(D)
  BY ShapesOf, MovsCode, ConvertCode DEF VectorTypes
<1>9. i.type \in DOMAIN Neon => emit_neon(i, Neon[i.type], gp) \in Code(D)
  <2> SUFFICES ASSUME i.type \in DOMAIN Neon PROVE emit_neon(i, Neon[i.type], gp) \in Code(D)
    OBVIOUS
  <2>1. Neon[i.type] \in {"FMUL", "FDIV", "FADD", "FSUB", "FCMP"} /\ i.type \in VectorTypes
    BY DEF Neon, VectorTypes
  <2> QED BY Zenon, <2>1, ShapesOf, NeonCode
<1>10. i.type \in {"MOVSX", "TEST", "CMOVA", "CMOVS"} /\ regs =>
         i.a.reg \in 0..21 /\ X(i.a.reg) \in D /\ i.b.reg \in 0..21
  BY <1>2, OperandKinds, InScope
<1>11. /\ i.type = "MOVSX" /\ regs => sxtw \in Code(D)
       /\ i.type \in {"CMOVA", "CMOVS"} /\ regs => select \in Code(D)
  <2> DEFINE op == IF i.type = "CMOVA" THEN "CSEL_HI" ELSE "CSEL_MI"
  <2>1. "SXTW" \in Simple /\ op \in Simple /\ 0 \in 0..21
    BY DEF Simple, Binary
  <2> HIDE DEF op, regs
  <2>2. i.type = "MOVSX" /\ regs => sxtw \in Code(D)
    BY Zenon, <1>10, <2>1, RegistersWord, SizesOf, OneWord
  <2>3. i.type \in {"CMOVA", "CMOVS"} /\ regs => <<Sized(Sf(i), RRR(op, i.a.reg, i.b.reg, i.a.reg))>> \in Code(D)
    BY Zenon, <1>10, <2>1, RegistersWord, SizesOf, OneWord
  <2> QED BY Zenon, <2>2, <2>3 DEF op
<1>12. i.type = "TEST" /\ regs => test \in Code(D)
  <2> HIDE DEF regs
  <2> QED BY Zenon, <1>10, FlagsWord, SizesOf, OneWord
<1>13. /\ i.type \in {"CLTQ", "CLTD"} => <<cltq>> \in Code(D)
       /\ i.type = "CLTD" => <<cltq, cqto>> \in Code(D)
  <2>1. RAX \in 0..21 /\ RDX \in 0..21 /\ 0 \in 0..21 /\ 63 \in Nat
        /\ "SXTW" \in Simple /\ "ASR_IMM" \in Shifted
    BY DEF RAX, RDX, Simple, Shifted
  <2>2. X(RAX) \in 0..31 /\ X(RDX) \in 0..31
    BY <2>1, HostRegisters
  <2>3. i.type \in {"CLTQ", "CLTD"} => cltq \in Words(D)
    BY Zenon, <2>1, RegistersWord, SizesOf DEF Scope
  <2>4. i.type = "CLTD" => cqto \in Words(D)
    BY Zenon, <2>1, <2>2, ShiftWord DEF Scope
  <2> HIDE DEF cltq, cqto
  <2> QED BY <2>3, <2>4, OneWord, TwoWords
<1>14. stack \in Code(D) /\ svc \in Code(D) /\ ret \in Code(D)
  BY Zenon, PlainWord, Mnemonics, Small, OneWord DEF R2
<1>15. brk \in Code(D)
  <2> DEFINE v == gp + i.a.imm
  <2>1. v \in Int
    BY InScope
  <2> HIDE DEF v
  <2> QED BY Zenon, <2>1, PlainWord, Mnemonics, Small, OneWord DEF v
<1> HIDE DEF regs, sxtw, lea, test, cltq, cqto, brk, select, stack, svc, ret
<1> QED BY <1>1, <1>3, <1>4, <1>5, <1>6, <1>7, <1>8, <1>9, <1>11, <1>12, <1>13, <1>14, <1>15,
           PanicCode, NoWords DEF Widening

LEMMA EncodeCode ==
  ASSUME NEW i \in Instructions, NEW D, Scope(i, D), Shaped(i), ~Unassigned(i), NEW gp \in Int
  PROVE  encode(i, gp) \in Code(D)
BY NarrowCode, WideCode DEF encode


-----------------------------------------------------------------------------
(***************************************************************************)
(* The host while it runs the words: all but the registers that the words   *)
(* may write are those that the guest's became.                             *)
(***************************************************************************)
Reach(i) == {12, 13} \cup {X(k) : k \in Written(i) \cap 0..15}
            \cup (IF i.type = "IDIV" THEN {2, 16} ELSE {})

LEMMA ReachScope ==
  ASSUME NEW i
  PROVE  Scope(i, Reach(i))
<1>1. Reach(i) \subseteq 0..31
  BY HostRegisters DEF Reach
<1>2. RegOp(i.a) => i.a.reg \in Written(i) \cap 0..15
  BY DEF RegOp, Written
<1>3. /\ i.type \in {"CLTQ", "CLTD"} => RAX \in Written(i) \cap 0..15
      /\ i.type = "CLTD" => RDX \in Written(i) \cap 0..15
  BY DEF Written, RAX, RDX
<1> QED BY <1>1, <1>2, <1>3 DEF Scope, Room, Reach

HostKept ==
  /\ at <= Len(words) + 1
  /\ at > 0 /\ ~Unassigned(instr) => Kept(host, HostOf(Guest), Reach(instr))
  /\ at > 0 /\ Unassigned(instr) =>
       /\ at = 1 => host = HostOf(Guest)
       /\ host.x \in [0..31 -> Numbers]
       /\ ~(instr.type = "MOVQ" /\ IsMem(instr.a)) => host.x = HostOf(Guest).x

LEMMA StartRegister ==
  ASSUME NEW n \in 0..31
  PROVE  (IF \E k \in 0..15 : X(k) = n THEN Registers[CHOOSE k \in 0..15 : X(k) = n]
          ELSE (900000 + n) % P) \in Numbers
<1> DEFINE named == \E k \in 0..15 : X(k) = n
           r == Registers[CHOOSE k \in 0..15 : X(k) = n]
           e == (900000 + n) % P
<1>1. named => r \in Numbers
  <2> SUFFICES ASSUME named PROVE r \in Numbers
    OBVIOUS
  <2>1. (CHOOSE k \in 0..15 : X(k) = n) \in 0..15
    OBVIOUS
  <2> QED BY <2>1, CodecAssumption DEF Numbers
<1>2. e \in Numbers
  BY Modulo
<1> SUFFICES (IF named THEN r ELSE e) \in Numbers
  OBVIOUS
<1> HIDE DEF named, r, e
<1> QED BY <1>1, <1>2

LEMMA HostStarts == HostOf(Guest) \in Hosts
<1> DEFINE x == [n \in 0..31 |-> IF \E k \in 0..15 : X(k) = n
                                 THEN Registers[CHOOSE k \in 0..15 : X(k) = n] ELSE (900000 + n) % P]
           v == [n \in 0..16 |-> IF n < 16 THEN XmmRegisters[n] ELSE 910000 % P]
<1>1. x \in [0..31 -> Numbers]
  BY StartRegister
<1>2. v \in [0..16 -> Numbers]
  BY CodecAssumption, Modulo DEF Numbers
<1>3. HostOf(Guest) = [x |-> x, v |-> v, flags |-> <<"none", 0, 0, 0>>, store |-> <<0, 0, 0>>,
                       target |-> 0, bad |-> FALSE]
  BY DEF HostOf, Guest
<1> HIDE DEF x, v
<1> QED BY <1>1, <1>2, <1>3 DEF Hosts

(* The words of MOVQ and MOVAPD of memory.                                  *)
UnassignedWord(i) ==
  CASE i.type = "MOVQ" /\ "XMM" \in i.b.type -> R2("FMOV", X(i.a.reg), i.b.reg)
    [] i.type = "MOVQ" /\ "XMM" \notin i.b.type -> R2("FMOVR", i.a.reg, X(i.b.reg))
    [] OTHER -> R2(IF i.size = 64 THEN "garbled" ELSE "MOV_V", i.a.reg, i.b.reg)

LEMMA UnassignedWords ==
  ASSUME NEW i \in Instructions, Unassigned(i), i.size # 8, NEW gp
  PROVE  encode(i, gp) = <<UnassignedWord(i)>>
<1>1. encode(i, gp) = EncodeConvert(i, gp)
  BY DEF Unassigned, encode, EncodeWide, Logical, Neon, Widening
<1> QED BY <1>1 DEF Unassigned, EncodeConvert, UnassignedWord


(* What running one of those words leaves alone.                            *)
LEMMA UnassignedRun ==
  ASSUME NEW i \in Instructions, Unassigned(i), XmmOps(i), i.size # 8, NEW gp, NEW h \in Hosts
  PROVE  /\ Len(encode(i, gp)) = 1
         /\ Exec(encode(i, gp)[1], h).x \in [0..31 -> Numbers]
         /\ ~(i.type = "MOVQ" /\ IsMem(i.a)) => Exec(encode(i, gp)[1], h).x = h.x
<1> DEFINE r0 == i.a.reg
           r1 == i.b.reg
           w == UnassignedWord(i)
<1>1. encode(i, gp) = <<w>>
  BY UnassignedWords
<1>2. Len(encode(i, gp)) = 1 /\ encode(i, gp)[1] = w
  BY <1>1
<1>3. h.x \in [0..31 -> Numbers] /\ h.v \in [0..16 -> Numbers]
  BY DEF Hosts
<1>4. CASE i.type = "MOVQ" /\ "XMM" \in i.b.type
  <2>1. w = R2("FMOV", X(r0), r1)
    BY <1>4 DEF UnassignedWord
  <2>2. IsMem(i.a)
    <3>1. IsMem(i.a) \/ IsMem(i.b)
      BY DEF Unassigned
    <3>2. IsMem(i.b) => "XMM" \notin i.b.type
      BY VectorKinds DEF MemOp
    <3> QED BY Zenon, <1>4, <3>1, <3>2
  <2>3. r1 \in 0..16
    BY <2>2, VectorKinds
  <2>4. h.v[r1] \in Numbers
    BY <1>3, <2>3
  <2>5. Exec(w, h) = SetZ(h, X(r0), h.v[r1])
    BY <2>1 DEF Exec, Cset, R2, W
  <2> DEFINE val == h.v[r1] % P
  <2>6. val \in Numbers
    BY <2>4, NumbersAre, Modulo
  <2> HIDE DEF val
  <2>7. Exec(w, h).x = h.x \/ Exec(w, h).x = [h.x EXCEPT ![X(r0)] = val]
    BY <2>5 DEF SetZ, SetSp, Hosts, val
  <2>8. Exec(w, h).x \in [0..31 -> Numbers]
    BY <1>3, <2>6, <2>7
  <2> QED BY <1>2, <1>4, <2>2, <2>8
<1>5. CASE i.type = "MOVQ" /\ "XMM" \notin i.b.type
  <2>1. w = R2("FMOVR", r0, X(r1))
    BY <1>5 DEF UnassignedWord
  <2>2. Exec(w, h) = SetV(h, r0, Z(h, X(r1)))
    BY <2>1 DEF Exec, Cset, R2, W
  <2>3. Exec(w, h).x = h.x
    BY <2>2 DEF SetV, Hosts
  <2> QED BY <1>2, <1>3, <2>3
<1>6. CASE i.type # "MOVQ" /\ i.size = 64
  <2>1. w = R2("garbled", r0, r1)
    BY <1>6 DEF UnassignedWord
  <2>2. Exec(w, h) = [h EXCEPT !.bad = TRUE]
    BY <2>1 DEF Exec, Cset, R2, W
  <2>3. Exec(w, h).x = h.x
    BY <2>2 DEF Hosts
  <2> QED BY <1>2, <1>3, <2>3
<1>7. CASE i.type # "MOVQ" /\ i.size # 64
  <2>1. w = R2("MOV_V", r0, r1)
    BY <1>7 DEF UnassignedWord
  <2>2. Exec(w, h) = SetV(h, r0, h.v[r1])
    BY <2>1 DEF Exec, Cset, R2, W
  <2>3. Exec(w, h).x = h.x
    BY <2>2 DEF SetV, Hosts
  <2> QED BY <1>2, <1>3, <2>3
<1> QED BY <1>4, <1>5, <1>6, <1>7


(* The words of one Instruction.                                            *)
WordsFor(i) == IF i.type = "panic" THEN panic ELSE encode(i, NextIp)

LEMMA WordsOf ==
  ASSUME NEW i, Sound(i)
  PROVE  /\ ~Unassigned(i) => WordsFor(i) \in Code(Reach(i))
         /\ Unassigned(i) /\ WordsFor(i) # panic => i.size # 8 /\ XmmOps(i) /\ WordsFor(i) = encode(i, NextIp)
         /\ Len(WordsFor(i)) \in Nat
<1>1. i \in Instructions /\ Shaped(i) /\ Scope(i, Reach(i)) /\ NextIp \in Int
  BY ReachScope, ValuesAssumption DEF Sound
<1>2. ~Unassigned(i) => encode(i, NextIp) \in Code(Reach(i))
  BY <1>1, EncodeCode
<1>3. ~Unassigned(i) => WordsFor(i) \in Code(Reach(i))
  BY <1>2, PanicCode DEF WordsFor
<1>4. ASSUME Unassigned(i), WordsFor(i) # panic
      PROVE  i.size # 8 /\ XmmOps(i) /\ WordsFor(i) = encode(i, NextIp)
  <2>1. i.type \in {"MOVQ", "MOVAPD"}
    BY <1>4 DEF Unassigned
  <2>2. XmmOps(i)
    BY <1>1, <2>1, ShapesOf DEF VectorTypes
  <2>3. WordsFor(i) = encode(i, NextIp)
    BY <2>1 DEF WordsFor
  <2>4. encode8bit(i, NextIp) = panic
    BY <2>1 DEF encode8bit, Cset
  <2> QED BY <1>4, <2>2, <2>3, <2>4 DEF encode
<1>5. \A D : \A s \in Code(D) : Len(s) \in Nat
  BY DEF Code
<1>6. Len(panic) \in Nat
  BY DEF panic
<1>7. Unassigned(i) /\ WordsFor(i) # panic => Len(WordsFor(i)) \in Nat
  BY <1>1, <1>4, UnassignedRun, HostStarts
<1> QED BY <1>3, <1>4, <1>5, <1>6, <1>7

LEMMA TranslatedWords ==
  ASSUME Translated, at > 0
  PROVE  /\ Sound(instr) /\ words = WordsFor(instr)
         /\ Len(words) \in Nat
<1>1. Sound(instr) /\ words = WordsFor(instr)
  BY DecodedSound DEF Translated, WordsFor
<1> QED BY <1>1, WordsOf

LEMMA InitHostKept == Init => HostKept
<1>1. Init => at = 0 /\ words = <<>>
  BY DEF Init
<1> QED BY <1>1 DEF HostKept

LEMMA NextHostKept == Translated /\ HostKept /\ [Next]_vars => HostKept'
<1> SUFFICES ASSUME Translated, HostKept, [Next]_vars PROVE HostKept'
  OBVIOUS
<1>1. CASE Translate
  <2>1. at' = 1 /\ host' = HostOf(Guest) /\ host' \in Hosts
    BY <1>1, HostStarts DEF Translate, Translated
  <2>2. /\ instr' = decode_instr(code, old)
        /\ words' = WordsFor(instr')
    BY <1>1 DEF Translate, WordsFor
  <2>3. Sound(instr')
    BY <2>2, DecodedSound DEF Translated
  <2>4. Len(words') \in Nat
    BY <2>2, <2>3, WordsOf
  <2>5. Kept(host', HostOf(Guest), Reach(instr')) /\ host'.x \in [0..31 -> Numbers]
    BY <2>1 DEF Kept, Hosts
  <2> QED BY <2>1, <2>4, <2>5 DEF HostKept
<1>2. CASE Run
  <2>1. /\ at \in 1..Len(words) /\ words # panic /\ host' = Exec(words[at], host) /\ at' = at + 1
        /\ words' = words /\ instr' = instr /\ at > 0
    BY <1>2 DEF Run
  <2>2. Sound(instr) /\ words = WordsFor(instr)
        /\ Len(words) \in Nat
    BY <2>1, TranslatedWords
  <2>3. at' <= Len(words') + 1 /\ at' > 1
    BY <2>1, <2>2
  <2>4. CASE ~Unassigned(instr)
    <3>1. Kept(host, HostOf(Guest), Reach(instr))
      BY <2>1, <2>4 DEF HostKept
    <3>2. words \in Code(Reach(instr))
      BY <2>2, <2>4, WordsOf
    <3>3. words[at] \in Words(Reach(instr))
      BY <2>1, <3>2 DEF Code
    <3>4. host \in Hosts
      BY <3>1 DEF Kept
    <3>5. Kept(host', host, Reach(instr))
      BY <2>1, <3>3, <3>4, ExecKept
    <3>6. Kept(host', HostOf(Guest), Reach(instr))
      BY <3>1, <3>5 DEF Kept
    <3> QED BY <2>1, <2>3, <2>4, <3>6 DEF HostKept
  <2>5. CASE Unassigned(instr)
    <3>1. instr \in Instructions /\ instr.size # 8 /\ XmmOps(instr) /\ words = encode(instr, NextIp)
      BY <2>1, <2>2, <2>5, WordsOf DEF Sound
    <3> DEFINE h == HostOf(Guest)
    <3>2. h \in Hosts
      BY HostStarts
    <3> HIDE DEF h
    <3>3. /\ Len(words) = 1 /\ Exec(words[1], h).x \in [0..31 -> Numbers]
          /\ ~(instr.type = "MOVQ" /\ IsMem(instr.a)) => Exec(words[1], h).x = h.x
      BY <2>5, <3>1, <3>2, UnassignedRun
    <3>4. at = 1 /\ host = h
      BY <2>1, <2>5, <3>3 DEF HostKept, h
    <3> QED BY <2>1, <2>3, <2>5, <3>3, <3>4 DEF HostKept, h
  <2> QED BY <2>4, <2>5
<1>3. CASE UNCHANGED vars
  BY <1>3 DEF vars, HostKept
<1> QED BY <1>1, <1>2, <1>3 DEF Next

\* However far the host has run, it has kept what the translation may not write.
THEOREM AlwaysHostKept == Spec => []HostKept
BY AlwaysTranslated, InitHostKept, NextHostKept, PTL DEF Spec

(* Whatever the bytes of the instruction, the leftover and the guest's       *)
(* registers: decode_instr() gives a type, an operand size and a length that *)
(* encode() knows, and encode() puts into every field of every word a number *)
(* of one of the 32 registers (but where it takes it from a leftover), so    *)
(* that the host's registers stay numbers of the machine.                    *)
THEOREM TypesHold == Spec => []TypeOK
<1>1. Translated /\ HostKept => TypeOK
  <2> SUFFICES ASSUME Translated, HostKept PROVE TypeOK
    OBVIOUS
  <2>1. CASE at = 0
    <3>1. words = <<>> /\ host \in Hosts
      BY <2>1, HostStarts DEF Translated
    <3>2. Len(words) = 0 /\ \A n \in 0..31 : host.x[n] \in 0..(P - 1)
      BY <3>1 DEF Hosts, Numbers
    <3>3. \A k \in 1..Len(words) : {words[k].d, words[k].n, words[k].m} \subseteq 0..31
      BY <3>2
    <3>4. at \in 0..(Len(words) + 1) /\ ~(at > 0)
      BY <2>1, <3>2
    <3> QED BY Zenon, <3>2, <3>3, <3>4 DEF TypeOK
  <2>2. CASE at > 0
    <3>1. Sound(instr) /\ words = WordsFor(instr)
          /\ Len(words) \in Nat
      BY <2>2, TranslatedWords
    <3>2. instr.type \in InstrTypes \cup {"panic"} /\ instr.size \in {8, 16, 32, 64} /\ instr.len \in 1..15
      BY <3>1 DEF Sound, Instructions
    <3>3. ASSUME ~Unassigned(instr), NEW k \in 1..Len(words)
          PROVE  {words[k].d, words[k].n, words[k].m} \subseteq 0..31
      <4>1. words \in Code(Reach(instr))
        BY Zenon, <3>1, <3>3, WordsOf
      <4>2. words[k] \in Words(Reach(instr))
        BY <4>1 DEF Code
      <4> DEFINE w == words[k]
      <4> HIDE DEF w
      <4>3. w.d \in 0..31 /\ w.n \in 0..31 /\ w.m \in 0..31
        BY <4>2 DEF Words, w
      <4> QED BY <4>3 DEF w
    <3>4. at \in 0..(Len(words) + 1)
      BY <2>2, <3>1 DEF HostKept, Translated
    <3>5. host.x \in [0..31 -> Numbers]
      BY <2>2 DEF HostKept, Kept, Hosts
    <3> QED BY <2>2, <3>2, <3>3, <3>4, <3>5 DEF TypeOK, Numbers
  <2> QED BY <2>1, <2>2 DEF Translated
<1> QED BY <1>1, AlwaysTranslated, AlwaysHostKept, PTL

(* A translation that is wrong is wrong in its own operands: for every       *)
(* sequence of bytes that is an instruction, every leftover and every state  *)
(* of the guest, the words leave alone the guest registers that are not the  *)
(* first operand, because encode() writes the host registers of the first    *)
(* operand and the two scratch registers, which hold no guest register.      *)
THEOREM BystandersHold == Spec => []Bystanders
<1>1. Translated /\ HostKept => Bystanders
  <2> SUFFICES ASSUME Translated, HostKept, Done, instr.type # "IDIV",
                      ~(instr.type = "MOVQ" /\ IsMem(instr.a)),
                      NEW k \in (0..15) \ Written(instr)
               PROVE  GuestOf(host).r[k] = Guest.r[k]
    BY Zenon DEF Bystanders
  <2>1. at > 0
    <3>1. at = 0 => words = <<>>
      BY DEF Translated
    <3> QED BY <3>1 DEF Done, Translated
  <2>2. X(k) \in (0..31) \ Reach(instr)
    BY HostRegisters DEF Reach
  <2>3. host.x[X(k)] = HostOf(Guest).x[X(k)]
    BY <2>1, <2>2 DEF HostKept, Kept
  <2>4. HostOf(Guest).x[X(k)] = Guest.r[k]
    <3> DEFINE c == CHOOSE l \in 0..15 : X(l) = X(k)
    <3>1. c = k
      BY HostRegisters
    <3>2. HostOf(Guest).x[X(k)] = Guest.r[c]
      BY <2>2 DEF HostOf
    <3> QED BY <3>1, <3>2
  <2>5. GuestOf(host).r[k] = host.x[X(k)]
    BY DEF GuestOf
  <2> QED BY <2>3, <2>4, <2>5
<1> QED BY <1>1, AlwaysTranslated, AlwaysHostKept, PTL

(***************************************************************************)
(* Running a list of words from one host to another.                        *)
(***************************************************************************)
Listed(ws) == \E S : ws \in Seq(S)
Trace(t, ws, h) ==
  t[0] = h /\ \A k \in 1..Len(ws) : t[k] = Exec(ws[k], t[k - 1])
Runs(ws, h, h2) == Listed(ws) /\ \E t : Trace(t, ws, h) /\ t[Len(ws)] = h2

LEMMA RunsNone == ASSUME NEW h PROVE Runs(<<>>, h, h)
<1> DEFINE t == [k \in {0} |-> h]
<1>1. Trace(t, <<>>, h) /\ t[Len(<<>>)] = h
  BY DEF Trace
<1>2. Listed(<<>>)
  BY DEF Listed
<1> QED BY <1>1, <1>2 DEF Runs

LEMMA RunsWord == ASSUME NEW w, NEW h PROVE Runs(<<w>>, h, Exec(w, h))
<1> DEFINE h2 == Exec(w, h)
           t == [k \in {0, 1} |-> IF k = 0 THEN h ELSE h2]
<1>1. Len(<<w>>) = 1 /\ <<w>>[1] = w /\ <<w>> \in Seq({w})
  OBVIOUS
<1>2. t[0] = h /\ t[1] = h2
  OBVIOUS
<1> HIDE DEF t
<1>3. Trace(t, <<w>>, h) /\ t[Len(<<w>>)] = h2
  <2>1. ASSUME NEW k \in 1..Len(<<w>>) PROVE t[k] = Exec(<<w>>[k], t[k - 1])
    <3>1. k = 1 /\ k - 1 = 0
      BY <1>1
    <3> QED BY <1>1, <1>2, <3>1 DEF h2
  <2> QED BY <1>1, <1>2, <2>1 DEF Trace
<1>4. Listed(<<w>>)
  BY <1>1 DEF Listed
<1> QED BY <1>3, <1>4 DEF Runs

LEMMA RunsJoin ==
  ASSUME NEW s, NEW u, NEW h, NEW h1, NEW h2, Runs(s, h, h1), Runs(u, h1, h2)
  PROVE  Runs(s \o u, h, h2)
<1>1. PICK S : s \in Seq(S)
  BY DEF Runs, Listed
<1>2. PICK U : u \in Seq(U)
  BY DEF Runs, Listed
<1> DEFINE w == s \o u
           m == Len(s)
           n == Len(u)
<1>3. /\ m \in Nat /\ n \in Nat /\ Len(w) = m + n
      /\ \A k \in 1..m : w[k] = s[k]
      /\ \A k \in (m + 1)..(m + n) : w[k] = u[k - m]
  BY <1>1, <1>2
<1>4. Listed(w)
  <2>1. s \in Seq(S \cup U) /\ u \in Seq(S \cup U)
    BY <1>1, <1>2
  <2> QED BY <2>1 DEF Listed
<1>5. PICK a : Trace(a, s, h) /\ a[m] = h1
  BY DEF Runs
<1>6. PICK b : Trace(b, u, h1) /\ b[n] = h2
  BY DEF Runs
<1> DEFINE t == [k \in 0..(m + n) |-> IF k <= m THEN a[k] ELSE b[k - m]]
<1> HIDE DEF w, m, n
<1>7. /\ \A k \in 0..m : t[k] = a[k]
      /\ \A k \in (m + 1)..(m + n) : t[k] = b[k - m]
      /\ t[m] = b[0]
  BY <1>3, <1>5, <1>6 DEF Trace
<1> HIDE DEF t
<1>8. ASSUME NEW k \in 1..(m + n) PROVE t[k] = Exec(w[k], t[k - 1])
  <2>1. CASE k <= m
    <3>1. t[k] = a[k] /\ t[k - 1] = a[k - 1] /\ w[k] = s[k] /\ k \in 1..m
      BY <1>3, <1>7, <2>1
    <3> QED BY <1>5, <3>1 DEF Trace, m
  <2>2. CASE k > m
    <3> DEFINE j == k - m
    <3>1. t[k] = b[j] /\ w[k] = u[j] /\ j \in 1..n
      BY <1>3, <1>7, <2>2
    <3>2. t[k - 1] = b[j - 1]
      BY <1>3, <1>7, <2>2
    <3> QED BY <1>6, <3>1, <3>2 DEF Trace, n
  <2> QED BY <1>3, <2>1, <2>2
<1>9. t[m + n] = h2
  <2>1. CASE n = 0
    BY <1>3, <1>6, <1>7, <2>1 DEF Trace
  <2>2. CASE n > 0
    BY <1>3, <1>6, <1>7, <2>2
  <2> QED BY <1>3, <2>1, <2>2
<1>10. t[0] = h
  BY <1>3, <1>5, <1>7 DEF Trace
<1> QED BY <1>3, <1>4, <1>8, <1>9, <1>10 DEF Runs, Trace, w

(* What each word does to the host.                                         *)
LEMMA ExecMoves ==
  ASSUME NEW h, NEW d, NEW n, NEW m, NEW v
  PROVE  /\ Exec(W("ADD_IMM", d, n, m, v), h) = SetSp(h, d, At(64, h.x[n] + v))
         /\ Exec(W("SUB_IMM", d, n, m, v), h) = SetSp(h, d, h.x[n] - v)
         /\ Exec(W("MOV", d, n, m, v), h) = SetZ(h, d, v)
         /\ Exec(W("ADRP", d, n, m, v), h) = SetZ(h, d, v)
         /\ Exec(W("GET_FS", d, n, m, v), h) = SetZ(h, d, FsBase)
         /\ Exec(W("UXTB", d, n, m, v), h) = SetZ(h, d, At(8, Z(h, n)))
         /\ Exec(W("SXTW", d, n, m, v), h) = SetZ(h, d, Signed(32, Z(h, n)))
         /\ Exec(W("LSL_IMM", d, n, m, v), h) = SetZ(h, d, Op("LSL", Z(h, n), v))
         /\ Exec(W("ASR_IMM", d, n, m, v), h) = SetZ(h, d, Op("ASR", Z(h, n), v))
         /\ Exec(W("LDRB", d, n, m, v), h) = SetZ(h, d, At(8, Load(h.x[n] + v)))
         /\ Exec(W("LDRH", d, n, m, v), h) = SetZ(h, d, At(16, Load(h.x[n] + v)))
         /\ Exec(W("LDRSB", d, n, m, v), h) = SetZ(h, d, Signed(8, Load(h.x[n] + v)))
         /\ Exec(W("LDRSH", d, n, m, v), h) = SetZ(h, d, Signed(16, Load(h.x[n] + v)))
         /\ Exec(W("STRB", d, n, m, v), h) = Store(h, h.x[n] + v, 8, Z(h, d))
BY DEF Exec, W, Cset, LoadOf

LEMMA SizedIs ==
  ASSUME NEW size, NEW op, NEW d, NEW n, NEW m, NEW v
  PROVE  /\ Sized(size, W(op, d, n, m, v)) =
              [op |-> op, d |-> d, n |-> n, m |-> m, imm |-> v, size |-> size]
         /\ Sized(64, W(op, d, n, m, v)) = W(op, d, n, m, v)
BY DEF Sized, W

LEMMA ExecSized ==
  ASSUME NEW size, NEW h, NEW d, NEW n, NEW m, NEW v
  PROVE  /\ Exec(Sized(size, W("ADD_IMM", d, n, m, v)), h) = SetSp(h, d, At(size, h.x[n] + v))
         /\ Exec(Sized(size, W("LDR", d, n, m, v)), h) = SetZ(h, d, At(size, Load(h.x[n] + v)))
         /\ Exec(Sized(size, W("STR", d, n, m, v)), h) = Store(h, h.x[n] + v, size, Z(h, d))
<1> DEFINE Word(o) == [op |-> o, d |-> d, n |-> n, m |-> m, imm |-> v, size |-> size]
<1>1. /\ Exec(Word("ADD_IMM"), h) = SetSp(h, d, At(size, h.x[n] + v))
      /\ Exec(Word("LDR"), h) = SetZ(h, d, At(size, Load(h.x[n] + v)))
      /\ Exec(Word("STR"), h) = Store(h, h.x[n] + v, size, Z(h, d))
  BY DEF Exec, Cset, LoadOf
<1>2. \A o : Sized(size, W(o, d, n, m, v)) = Word(o)
  BY DEF Sized, W
<1> HIDE DEF Word
<1> QED BY <1>1, <1>2

LEMMA ExecAdds ==
  ASSUME NEW size, NEW h, NEW d, NEW n, NEW m, NEW v
  PROVE  Exec(Sized(size, W("ADDS", d, n, m, v)), h)
           = SetZ(h, d, OpAt(size, "ADD", Z(h, n), Z(h, m)))
<1> DEFINE w == [op |-> "ADDS", d |-> d, n |-> n, m |-> m, imm |-> v, size |-> size]
<1>1. Exec(w, h) = SetZ(h, d, OpAt(size, "ADD", Z(h, n), Z(h, m)))
  BY DEF Exec, Cset
<1>2. Sized(size, W("ADDS", d, n, m, v)) = w
  BY DEF Sized, W
<1> HIDE DEF w
<1> QED BY <1>1, <1>2

LEMMA ExecSubs ==
  ASSUME NEW size, NEW h, NEW d, NEW n, NEW m, NEW v
  PROVE  Exec(Sized(size, W("SUBS", d, n, m, v)), h)
           = SetFlags(SetZ(h, d, OpAt(size, "SUB", Z(h, n), Z(h, m))),
                      <<"SUB", At(size, Z(h, n)), At(size, Z(h, m)), size>>)
<1> DEFINE w == [op |-> "SUBS", d |-> d, n |-> n, m |-> m, imm |-> v, size |-> size]
<1>1. Exec(w, h) = SetFlags(SetZ(h, d, OpAt(size, "SUB", Z(h, n), Z(h, m))),
                 <<"SUB", At(size, Z(h, n)), At(size, Z(h, m)), size>>)
  BY DEF Exec, Cset
<1>2. Sized(size, W("SUBS", d, n, m, v)) = w
  BY DEF Sized, W
<1> HIDE DEF w
<1> QED BY <1>1, <1>2

LEMMA ExecAnds ==
  ASSUME NEW size, NEW h, NEW d, NEW n, NEW m, NEW v
  PROVE  Exec(Sized(size, W("ANDS", d, n, m, v)), h)
           = SetFlags(h, <<"AND", At(size, Z(h, n)), At(size, Z(h, m)), size>>)
<1> DEFINE w == [op |-> "ANDS", d |-> d, n |-> n, m |-> m, imm |-> v, size |-> size]
<1>1. Exec(w, h) = SetFlags(h, <<"AND", At(size, Z(h, n)), At(size, Z(h, m)), size>>)
  BY DEF Exec, Cset
<1>2. Sized(size, W("ANDS", d, n, m, v)) = w
  BY DEF Sized, W
<1> HIDE DEF w
<1> QED BY <1>1, <1>2

LEMMA BinaryIs ==
  ASSUME NEW size, NEW op \in Binary, NEW h, NEW d, NEW n, NEW m, NEW v
  PROVE  Exec(Sized(size, W(op, d, n, m, v)), h) = SetZ(h, d, OpAt(size, op, Z(h, n), Z(h, m)))
<1> DEFINE Word(o) == [op |-> o, d |-> d, n |-> n, m |-> m, imm |-> v, size |-> size]
<1>1. Exec(Word(op), h) = SetZ(h, d, OpAt(size, op, Z(h, n), Z(h, m)))
  BY DEF Exec, Binary, Cset
<1>2. \A o : Sized(size, W(o, d, n, m, v)) = Word(o)
  BY DEF Sized, W
<1> HIDE DEF Word
<1> QED BY <1>1, <1>2

LEMMA ExecBranches ==
  ASSUME NEW h, NEW d, NEW n, NEW m, NEW v
  PROVE  /\ \A op \in {"BR", "BLR"} : Exec(W(op, d, n, m, v), h) = [h EXCEPT !.target = Z(h, n)]
         /\ Exec(W("BRK", d, n, m, v), h) = [h EXCEPT !.target = v % P]
         /\ \A op \in {"RET", "SVC", "stack"} : Exec(W(op, d, n, m, v), h) = h
BY DEF Exec, W, Cset

LEMMA SetZWrote ==
  ASSUME NEW h \in Hosts, NEW d \in 0..30, NEW val \in Int
  PROVE  Wrote(SetZ(h, d, val), h, d, (val % P))
<1>1. d \in 0..31 /\ d # 31
  OBVIOUS
<1> QED BY <1>1, SetSpWrote DEF SetZ

LEMMA SetZNumber ==
  ASSUME NEW h \in Hosts, NEW d \in 0..30, NEW val \in Numbers
  PROVE  Wrote(SetZ(h, d, val), h, d, val)
<1>1. val \in Int /\ (val % P) = val
  BY NumbersAre, Modulo
<1> QED BY <1>1, SetZWrote

(* h2 is h but for a vector register, the flags, the store or the target.   *)
WroteV(h2, h, d, val) ==
  /\ h2 \in Hosts
  /\ h2.v[d] = val /\ \A n \in (0..16) \ {d} : h2.v[n] = h.v[n]
  /\ h2.x = h.x /\ h2.flags = h.flags /\ h2.store = h.store /\ h2.target = h.target
  /\ h2.bad = h.bad

LEMMA SetVWrote ==
  ASSUME NEW h \in Hosts, NEW d \in 0..16, NEW val \in Numbers
  PROVE  WroteV(SetV(h, d, val), h, d, val)
<1>1. val \in Int /\ (val % P) = val
  BY NumbersAre, Modulo
<1>2. SetV(h, d, val) = [h EXCEPT !.v = [h.v EXCEPT ![d] = val]]
  BY <1>1 DEF SetV
<1>3. [h.v EXCEPT ![d] = val] \in [0..16 -> Numbers]
  BY DEF Hosts
<1> QED BY <1>2, <1>3 DEF WroteV, Hosts

LEMMA WroteTwice ==
  ASSUME NEW h, NEW h1, NEW h2, NEW d, NEW a, NEW b, Wrote(h1, h, d, a), Wrote(h2, h1, d, b)
  PROVE  Wrote(h2, h, d, b)
BY DEF Wrote

(* What the guest sees of that.                                             *)
Guests == [r: [0..15 -> Numbers], v: [0..15 -> Numbers],
           flags: {"none", "SUB", "AND", "FCMP"} \X Int \X Int \X Int,
           store: Int \X Int \X Int, target: Int]

LEMMA GuestFields ==
  ASSUME NEW h \in Hosts
  PROVE  /\ GuestOf(h) \in Guests
         /\ \A k \in 0..15 : GuestOf(h).r[k] = h.x[X(k)] /\ GuestOf(h).v[k] = h.v[k]
         /\ GuestOf(h).flags = h.flags /\ GuestOf(h).store = h.store /\ GuestOf(h).target = h.target
BY HostRegisters DEF GuestOf, Guests, Hosts

LEMMA GuestSame ==
  ASSUME NEW h, NEW h2, \A k \in 0..15 : h2.x[X(k)] = h.x[X(k)],
         \A k \in 0..15 : h2.v[k] = h.v[k],
         h2.flags = h.flags, h2.store = h.store, h2.target = h.target
  PROVE  GuestOf(h2) = GuestOf(h)
BY DEF GuestOf

LEMMA HostApart ==
  /\ \A k \in 0..15, j \in 0..15 : X(k) = X(j) => k = j
  /\ \A k \in 0..15 : X(k) \in 0..31 /\ X(k) # 12 /\ X(k) # 13 /\ (X(k) = 31 <=> k = RSP)
  /\ \A k \in (0..15) \ {RSP} : X(k) \in 0..30
  /\ X(SC1) = 12 /\ X(SC2) = 13 /\ X(XZR) = 31 /\ X(RSP) = 31
BY DEF X, x64_regs, SC1, SC2, XZR, RSP

LEMMA GuestScratch ==
  ASSUME NEW h \in Hosts, NEW h2, NEW d \in {12, 13}, NEW val, Wrote(h2, h, d, val)
  PROVE  GuestOf(h2) = GuestOf(h)
<1>1. \A k \in 0..15 : h2.x[X(k)] = h.x[X(k)]
  BY HostApart DEF Wrote
<1> QED BY <1>1, GuestSame DEF Wrote

LEMMA GuestScratchV ==
  ASSUME NEW h \in Hosts, NEW h2, NEW val, WroteV(h2, h, 16, val)
  PROVE  GuestOf(h2) = GuestOf(h)
BY GuestSame DEF WroteV

LEMMA GuestWrote ==
  ASSUME NEW h \in Hosts, NEW h2, NEW k \in 0..15, NEW val, Wrote(h2, h, X(k), val)
  PROVE  GuestOf(h2) = [GuestOf(h) EXCEPT !.r[k] = val]
<1> DEFINE f == [j \in 0..15 |-> h.x[X(j)]]
           f2 == [j \in 0..15 |-> h2.x[X(j)]]
<1>1. f2 = [f EXCEPT ![k] = val]
  <2>1. ASSUME NEW j \in 0..15 PROVE h2.x[X(j)] = IF j = k THEN val ELSE h.x[X(j)]
    BY HostApart DEF Wrote
  <2> QED BY <2>1
<1>2. h2.v = h.v /\ h2.flags = h.flags /\ h2.store = h.store /\ h2.target = h.target
  BY DEF Wrote
<1>3. GuestOf(h) = [r |-> f, v |-> [j \in 0..15 |-> h.v[j]], flags |-> h.flags, store |-> h.store,
                    target |-> h.target]
  BY DEF GuestOf
<1>4. GuestOf(h2) = [r |-> f2, v |-> [j \in 0..15 |-> h.v[j]], flags |-> h.flags, store |-> h.store,
                     target |-> h.target]
  BY <1>2 DEF GuestOf
<1> HIDE DEF f, f2
<1> QED BY <1>1, <1>3, <1>4

LEMMA GuestWroteV ==
  ASSUME NEW h \in Hosts, NEW h2, NEW k \in 0..15, NEW val, WroteV(h2, h, k, val)
  PROVE  GuestOf(h2) = [GuestOf(h) EXCEPT !.v[k] = val]
<1> DEFINE f == [j \in 0..15 |-> h.v[j]]
           f2 == [j \in 0..15 |-> h2.v[j]]
           r == [j \in 0..15 |-> h.x[X(j)]]
<1>1. f2 = [f EXCEPT ![k] = val]
  <2>1. ASSUME NEW j \in 0..15 PROVE h2.v[j] = IF j = k THEN val ELSE h.v[j]
    BY DEF WroteV
  <2> QED BY <2>1
<1>2. h2.x = h.x /\ h2.flags = h.flags /\ h2.store = h.store /\ h2.target = h.target
  BY DEF WroteV
<1>3. GuestOf(h) = [r |-> r, v |-> f, flags |-> h.flags, store |-> h.store, target |-> h.target]
  BY DEF GuestOf
<1>4. GuestOf(h2) = [r |-> r, v |-> f2, flags |-> h.flags, store |-> h.store, target |-> h.target]
  BY <1>2 DEF GuestOf
<1> HIDE DEF f, f2, r
<1> QED BY <1>1, <1>3, <1>4

LEMMA GuestRest ==
  ASSUME NEW h \in Hosts, NEW a, NEW f
  PROVE  /\ GuestOf([h EXCEPT !.store = a]) = [GuestOf(h) EXCEPT !.store = a]
         /\ GuestOf([h EXCEPT !.target = a]) = [GuestOf(h) EXCEPT !.target = a]
         /\ GuestOf(SetFlags(h, f)) = [GuestOf(h) EXCEPT !.flags = f]
         /\ [h EXCEPT !.store = a].bad = h.bad /\ [h EXCEPT !.target = a].bad = h.bad
         /\ SetFlags(h, f).bad = h.bad
<1> DEFINE hs == [h EXCEPT !.store = a]
           ht == [h EXCEPT !.target = a]
           hf == [h EXCEPT !.flags = f]
           r == [j \in 0..15 |-> h.x[X(j)]]
           v == [j \in 0..15 |-> h.v[j]]
<1>1. /\ hs.x = h.x /\ hs.v = h.v /\ hs.flags = h.flags /\ hs.store = a /\ hs.target = h.target
      /\ hs.bad = h.bad
  BY DEF Hosts
<1>2. /\ ht.x = h.x /\ ht.v = h.v /\ ht.flags = h.flags /\ ht.store = h.store /\ ht.target = a
      /\ ht.bad = h.bad
  BY DEF Hosts
<1>3. /\ hf.x = h.x /\ hf.v = h.v /\ hf.flags = f /\ hf.store = h.store /\ hf.target = h.target
      /\ hf.bad = h.bad
  BY DEF Hosts
<1>4. GuestOf(h) = [r |-> r, v |-> v, flags |-> h.flags, store |-> h.store, target |-> h.target]
  BY DEF GuestOf
<1> HIDE DEF hs, ht, hf
<1>5. GuestOf(hs) = [r |-> r, v |-> v, flags |-> h.flags, store |-> a, target |-> h.target]
  BY <1>1 DEF GuestOf
<1>6. GuestOf(ht) = [r |-> r, v |-> v, flags |-> h.flags, store |-> h.store, target |-> a]
  BY <1>2 DEF GuestOf
<1>7. GuestOf(hf) = [r |-> r, v |-> v, flags |-> f, store |-> h.store, target |-> h.target]
  BY <1>3 DEF GuestOf
<1> HIDE DEF r, v
<1>8. SetFlags(h, f) = hf
  BY DEF SetFlags, hf
<1> QED BY <1>1, <1>2, <1>3, <1>4, <1>5, <1>6, <1>7, <1>8 DEF hs, ht

(***************************************************************************)
(* Numbers modulo P.                                                        *)
(***************************************************************************)
LEMMA ModuloIs ==
  ASSUME NEW a \in Int, NEW q \in Int, NEW r \in Numbers, a = P * q + r
  PROVE  (a % P) = r
BY ValuesAssumption DEF Numbers

LEMMA ModuloHas ==
  ASSUME NEW a \in Int
  PROVE  \E q \in Int : a = P * q + (a % P)
<1>1. a = P * (a \div P) + (a % P) /\ (a \div P) \in Int
  BY ValuesAssumption
<1> QED BY <1>1

LEMMA ModuloPlus ==
  ASSUME NEW a \in Int, NEW b \in Int
  PROVE  (((a % P) + b) % P) = ((a + b) % P)
<1> DEFINE r == a % P
           s == (r + b) % P
<1>1. r \in Int /\ r + b \in Int
  BY ValuesAssumption
<1>2. PICK q \in Int : a = P * q + r
  BY ModuloHas
<1> HIDE DEF r
<1>3. PICK p \in Int : r + b = P * p + s
  BY <1>1, ModuloHas
<1>4. s \in Numbers
  BY <1>1, Modulo
<1> HIDE DEF s
<1>5. a + b = P * (q + p) + s
  <2>1. P * (q + p) = P * q + P * p
    BY ValuesAssumption
  <2> DEFINE u == P * q
             w == P * p
  <2>2. u \in Int /\ w \in Int /\ s \in Int
    BY <1>4, NumbersAre, ValuesAssumption
  <2>3. a = u + r /\ r + b = w + s
    BY <1>2, <1>3
  <2>4. P * (q + p) = u + w
    BY <2>1
  <2> HIDE DEF u, w
  <2>5. a + b = (u + w) + s
    BY <1>1, <2>2, <2>3
  <2> QED BY <2>4, <2>5
<1>6. a + b \in Int /\ q + p \in Int
  OBVIOUS
<1>7. ((a + b) % P) = s
  BY <1>4, <1>5, <1>6, ModuloIs
<1> QED BY <1>7 DEF s, r

LEMMA ModuloSum ==
  ASSUME NEW a \in Int, NEW b \in Int
  PROVE  /\ (((a % P) + b) % P) = ((a + b) % P)
         /\ ((a + (b % P)) % P) = ((a + b) % P)
         /\ (((a % P) + (b % P)) % P) = ((a + b) % P)
         /\ (((a % P) % P)) = (a % P)
<1>1. (a % P) \in Int /\ (b % P) \in Int
  BY Modulo, NumbersAre
<1>2. (((a % P) + b) % P) = ((a + b) % P)
  BY ModuloPlus
<1>3. (((b % P) + a) % P) = ((b + a) % P)
  BY ModuloPlus
<1>4. (((b % P) + (a % P)) % P) = ((b + (a % P)) % P)
  BY <1>1, ModuloPlus
<1>5. a + b = b + a /\ a + (b % P) = (b % P) + a /\ (a % P) + (b % P) = (b % P) + (a % P)
      /\ b + (a % P) = (a % P) + b
  BY <1>1
<1>6. ((a % P) % P) = (a % P)
  BY <1>1, Modulo
<1> QED BY <1>2, <1>3, <1>4, <1>5, <1>6

LEMMA ModuloMinus ==
  ASSUME NEW a \in Int, NEW b \in Int
  PROVE  ((a - (b % P)) % P) = ((a - b) % P)
<1> DEFINE r == b % P
           s == (a - b) % P
<1>1. r \in Int /\ a - b \in Int
  BY ValuesAssumption
<1>2. PICK q \in Int : b = P * q + r
  BY ModuloHas
<1> HIDE DEF r
<1>3. PICK p \in Int : a - b = P * p + s
  BY <1>1, ModuloHas
<1>4. s \in Numbers
  BY <1>1, Modulo
<1> HIDE DEF s
<1>5. a - r = P * (p + q) + s
  <2>1. P * (p + q) = P * p + P * q
    BY ValuesAssumption
  <2>2. P * q \in Int /\ P * p \in Int /\ s \in Int
    BY <1>4, NumbersAre, ValuesAssumption
  <2> QED BY <1>1, <1>2, <1>3, <2>1, <2>2
<1>6. a - r \in Int /\ p + q \in Int
  BY <1>1
<1>7. ((a - r) % P) = s
  BY <1>4, <1>5, <1>6, ModuloIs
<1> QED BY <1>7 DEF s, r

Wrap(a) == a % P

LEMMA Wraps ==
  ASSUME NEW a \in Int
  PROVE  Wrap(a) \in Numbers /\ Wrap(a) \in Int /\ (a \in Numbers => Wrap(a) = a)
<1>1. Wrap(a) \in Numbers /\ (a \in Numbers => Wrap(a) = a)
  BY Modulo DEF Wrap
<1> QED BY <1>1, NumbersAre

LEMMA WrapSum ==
  ASSUME NEW a \in Int, NEW b \in Int
  PROVE  /\ Wrap(Wrap(a) + b) = Wrap(a + b)
         /\ Wrap(a + Wrap(b)) = Wrap(a + b)
         /\ Wrap(Wrap(a) + Wrap(b)) = Wrap(a + b)
         /\ Wrap(a - Wrap(b)) = Wrap(a - b)
BY Zenon, ModuloSum, ModuloMinus DEF Wrap

LEMMA AtWraps ==
  ASSUME NEW width, NEW a \in Int
  PROVE  /\ At(width, a) \in Numbers /\ At(width, a) \in Int
         /\ At(width, At(width, a)) = At(width, a) /\ Wrap(At(width, a)) = At(width, a)
         /\ At(64, a) = Wrap(a) /\ (a \in Numbers => At(64, a) = a)
<1>1. At(width, a) \in Numbers
  BY AtRange
<1> QED BY <1>1, AtRange, NumbersAre DEF Wrap

(***************************************************************************)
(* The emitters of single words and of addresses.                           *)
(***************************************************************************)
\* some run of the words ends in a host that is h but for d, which is val
Gives(ws, h, d, val) == \E h2 : Runs(ws, h, h2) /\ Wrote(h2, h, d, val)

LEMMA GivesWord ==
  ASSUME NEW w, NEW h, NEW d, NEW val, Wrote(Exec(w, h), h, d, val)
  PROVE  Gives(<<w>>, h, d, val)
BY RunsWord DEF Gives

LEMMA GivesJoin ==
  ASSUME NEW s, NEW u, NEW h, NEW d, NEW a, NEW b, Gives(s, h, d, a),
         \A h1 : Wrote(h1, h, d, a) => Gives(u, h1, d, b)
  PROVE  Gives(s \o u, h, d, b)
<1>1. PICK h1 : Runs(s, h, h1) /\ Wrote(h1, h, d, a)
  BY DEF Gives
<1>2. PICK h2 : Runs(u, h1, h2) /\ Wrote(h2, h1, d, b)
  BY <1>1 DEF Gives
<1> QED BY <1>1, <1>2, RunsJoin, WroteTwice DEF Gives

LEMMA GivesNone ==
  ASSUME NEW h \in Hosts, NEW d \in 0..31
  PROVE  Gives(<<>>, h, d, h.x[d])
BY RunsNone DEF Gives, Wrote

LEMMA HostNumber ==
  ASSUME NEW h \in Hosts, NEW n \in 0..31
  PROVE  /\ h.x[n] \in Numbers /\ h.x[n] \in Int
         /\ Z(h, n) \in Numbers /\ Z(h, n) \in Int
         /\ n # 31 => Z(h, n) = h.x[n]
<1>1. h.x[n] \in Numbers /\ Z(h, n) \in Numbers
  BY ZNumber
<1>2. h.x[n] \in Int /\ Z(h, n) \in Int
  BY <1>1, NumbersAre
<1>3. n # 31 => Z(h, n) = h.x[n]
  BY DEF Z
<1> QED BY <1>1, <1>2, <1>3

LEMMA SpGives ==
  ASSUME NEW h \in Hosts, NEW d \in 0..31, NEW val \in Int, NEW w, Exec(w, h) = SetSp(h, d, val)
  PROVE  Gives(<<w>>, h, d, Wrap(val))
<1>1. Wrote(SetSp(h, d, val), h, d, Wrap(val))
  BY SetSpWrote DEF Wrap
<1> QED BY <1>1, GivesWord

LEMMA ZGives ==
  ASSUME NEW h \in Hosts, NEW d \in 0..30, NEW val \in Int, NEW w, Exec(w, h) = SetZ(h, d, val)
  PROVE  Gives(<<w>>, h, d, Wrap(val))
<1>1. Wrote(SetZ(h, d, val), h, d, Wrap(val))
  BY SetZWrote DEF Wrap
<1> QED BY <1>1, GivesWord

LEMMA ZGivesNumber ==
  ASSUME NEW h \in Hosts, NEW d \in 0..30, NEW val \in Numbers, NEW w, Exec(w, h) = SetZ(h, d, val)
  PROVE  Gives(<<w>>, h, d, val)
<1>1. Wrote(SetZ(h, d, val), h, d, val)
  BY SetZNumber
<1> QED BY <1>1, GivesWord

LEMMA AddImmGives ==
  ASSUME NEW h \in Hosts, NEW d \in 0..31, NEW n \in 0..31, NEW m, NEW v \in Int
  PROVE  Gives(<<W("ADD_IMM", d, n, m, v)>>, h, d, Wrap(h.x[n] + v))
<1>1. h.x[n] + v \in Int
  BY HostNumber
<1> DEFINE y == h.x[n] + v
<1>2. Exec(W("ADD_IMM", d, n, m, v), h) = SetSp(h, d, At(64, y))
  BY ExecMoves
<1> HIDE DEF y
<1>3. At(64, y) = Wrap(y) /\ Wrap(y) \in Int /\ Wrap(Wrap(y)) = Wrap(y)
  BY <1>1, AtWraps, Wraps DEF y
<1>4. Gives(<<W("ADD_IMM", d, n, m, v)>>, h, d, Wrap(Wrap(y)))
  BY <1>2, <1>3, SpGives
<1> QED BY <1>3, <1>4 DEF y

LEMMA MoveGives ==
  ASSUME NEW h \in Hosts, NEW i, X(i.a.reg) \in 0..31, X(i.b.reg) \in 0..31
  PROVE  Gives(Move(i), h, X(i.a.reg), At(Sf(i), h.x[X(i.b.reg)]))
<1> DEFINE d == X(i.a.reg)
           n == X(i.b.reg)
           y == h.x[n]
           val == At(Sf(i), y)
           w == Sized(Sf(i), W("ADD_IMM", d, n, 0, 0))
<1>1. y \in Int /\ y + 0 = y
  BY HostNumber
<1>2. Exec(w, h) = SetSp(h, d, At(Sf(i), h.x[n] + 0))
  BY ExecSized
<1>3. Move(i) = <<w>>
  BY DEF Move, R2
<1> HIDE DEF w, d, n
<1>4. Exec(w, h) = SetSp(h, d, val)
  BY <1>1, <1>2
<1> HIDE DEF y
<1>5. val \in Int /\ Wrap(val) = val
  BY <1>1, AtWraps
<1> HIDE DEF val
<1>6. Gives(<<w>>, h, d, Wrap(val))
  BY <1>4, <1>5, SpGives DEF d
<1> QED BY <1>3, <1>5, <1>6 DEF val, y, d, n

LEMMA SubImmGives ==
  ASSUME NEW h \in Hosts, NEW d \in 0..31, NEW n \in 0..31, NEW m, NEW v \in Int
  PROVE  Gives(<<W("SUB_IMM", d, n, m, v)>>, h, d, Wrap(h.x[n] - v))
<1>1. h.x[n] - v \in Int
  BY HostNumber
<1>2. Exec(W("SUB_IMM", d, n, m, v), h) = SetSp(h, d, h.x[n] - v)
  BY ExecMoves
<1> QED BY <1>1, <1>2, SpGives

Short(v) == v \in Int /\ v < 4096 /\ -4096 < v

LEMMA SignedIs ==
  ASSUME NEW d, NEW n, NEW v, Short(v)
  PROVE  /\ emit_add_signed(d, n, v) =
              <<IF v > 0 THEN W("ADD_IMM", d, n, 0, v) ELSE W("SUB_IMM", d, n, 0, -v)>>
         /\ emit_sub_signed(d, n, v) =
              <<IF v > 0 THEN W("SUB_IMM", d, n, 0, v) ELSE W("ADD_IMM", d, n, 0, -v)>>
<1> DEFINE u == -v
<1>1. CASE v > 0
  <2>1. \A op : Imm12(op, d, n, v) = W(op, d, n, 0, v)
    BY <1>1 DEF Imm12, Short
  <2> QED BY <1>1, <2>1 DEF emit_add_signed, emit_sub_signed
<1>2. CASE ~(v > 0)
  <2>1. u \in Int /\ u >= 0 /\ u < 4096
    BY <1>2 DEF Short
  <2>2. /\ emit_add_signed(d, n, v) = <<Imm12("SUB_IMM", d, n, u)>>
        /\ emit_sub_signed(d, n, v) = <<Imm12("ADD_IMM", d, n, u)>>
    BY <1>2 DEF emit_add_signed, emit_sub_signed
  <2> HIDE DEF u
  <2>3. \A op : Imm12(op, d, n, u) = W(op, d, n, 0, u)
    BY <2>1 DEF Imm12
  <2> QED BY <1>2, <2>2, <2>3 DEF u
<1> QED BY <1>1, <1>2

LEMMA SignedGives ==
  ASSUME NEW h \in Hosts, NEW d \in 0..31, NEW n \in 0..31, NEW v, Short(v)
  PROVE  /\ Gives(emit_add_signed(d, n, v), h, d, Wrap(h.x[n] + v))
         /\ Gives(emit_sub_signed(d, n, v), h, d, Wrap(h.x[n] - v))
<1> DEFINE u == -v
<1>1. h.x[n] \in Int
  BY HostNumber
<1>2. v \in Int /\ u \in Int
  BY DEF Short
<1>3. h.x[n] - u = h.x[n] + v /\ h.x[n] + u = h.x[n] - v
  BY <1>1, <1>2
<1>4. CASE v > 0
  <2>1. /\ emit_add_signed(d, n, v) = <<W("ADD_IMM", d, n, 0, v)>>
        /\ emit_sub_signed(d, n, v) = <<W("SUB_IMM", d, n, 0, v)>>
    BY <1>4, SignedIs
  <2> QED BY <1>2, <2>1, AddImmGives, SubImmGives
<1>5. CASE ~(v > 0)
  <2>1. /\ emit_add_signed(d, n, v) = <<W("SUB_IMM", d, n, 0, u)>>
        /\ emit_sub_signed(d, n, v) = <<W("ADD_IMM", d, n, 0, u)>>
    BY <1>5, SignedIs
  <2> HIDE DEF u
  <2> QED BY <1>2, <1>3, <2>1, AddImmGives, SubImmGives
<1> QED BY <1>4, <1>5

LEMMA CopyGives ==
  ASSUME NEW h \in Hosts, NEW d \in 0..31, NEW n \in 0..31
  PROVE  Gives(Copy(d, n), h, d, h.x[n])
<1>1. h.x[n] \in Int /\ h.x[n] \in Numbers
  BY HostNumber
<1>2. h.x[n] + 0 = h.x[n] /\ 0 \in Int
  BY <1>1
<1>3. Wrap(h.x[n]) = h.x[n]
  BY <1>1, Wraps
<1>4. Gives(<<W("ADD_IMM", d, n, 0, 0)>>, h, d, Wrap(h.x[n] + 0))
  BY <1>2, AddImmGives
<1> QED BY <1>2, <1>3, <1>4 DEF Copy, R2

LEMMA ImmGives ==
  ASSUME NEW h \in Hosts, NEW d \in 0..30, NEW v \in Int
  PROVE  Gives(emit_imm(v, d), h, d, Wrap(v))
<1>1. Exec(W("MOV", d, 0, 0, v), h) = SetZ(h, d, v)
  BY ExecMoves
<1> QED BY <1>1, ZGives DEF emit_imm

(* The addresses the manual computes, by the forms of the operand.          *)
Disp(c) == IF c.mod = 0 /\ ~NoBase(c) THEN 0 ELSE c.disp
Index(c) == c.index + Ext(c, "X")
Scaled(c, g) == g.r[Index(c)] * 2^c.scale

LEMMA Registers16 ==
  ASSUME NEW c \in Codes
  PROVE  /\ Reg(c) \in 0..15 /\ Rm(c) \in 0..15 /\ OpReg(c) \in 0..15
         /\ BaseRegister(c) \in 0..15 /\ Index(c) \in 0..15
         /\ Disp(c) \in Int /\ c.disp \in Int /\ c.imm \in Int /\ c.scale \in 0..3
         /\ c.index # 4 => Index(c) # 4
<1>1. c.op % 8 \in 0..7
  BY DEF Codes
<1> QED BY <1>1, ExtSize DEF Codes, Reg, Rm, OpReg, BaseRegister, Index, Disp

LEMMA OffsetIs ==
  ASSUME NEW c \in Codes, Memory(c), ~R12Index(c), NEW g \in Guests
  PROVE  /\ NoBase(c) /\ c.rm # 4 => Offset(c, g) = NextIp + Disp(c)
         /\ NoBase(c) /\ c.rm = 4 /\ ~Indexed(c) => Offset(c, g) = Disp(c)
         /\ ~NoBase(c) /\ ~Indexed(c) => Offset(c, g) = g.r[BaseRegister(c)] + Disp(c)
         /\ NoBase(c) /\ Indexed(c) => Offset(c, g) = Disp(c) + Scaled(c, g)
         /\ ~NoBase(c) /\ Indexed(c) =>
              Offset(c, g) = (g.r[BaseRegister(c)] + Disp(c)) + Scaled(c, g)
<1> DEFINE s == Scaled(c, g)
           b == g.r[BaseRegister(c)]
<1>1. c.disp \in Int /\ Disp(c) \in Int /\ BaseRegister(c) \in 0..15
  BY Registers16
<1>2. b \in Int
  BY <1>1, NumbersAre DEF Guests
<1>3. CASE c.rm # 4
  <2>1. ~Indexed(c) /\ BaseRegister(c) = Rm(c)
    BY <1>3 DEF Indexed, Sib, BaseRegister, Rm
  <2> QED BY <1>1, <1>2, <1>3, <2>1 DEF Offset, Disp
<1>4. CASE c.rm = 4
  <2>1. BaseRegister(c) = c.base + Ext(c, "B")
    BY <1>4 DEF BaseRegister
  <2>2. Offset(c, g) = (IF NoBase(c) THEN c.disp ELSE b + (IF c.mod = 0 THEN 0 ELSE c.disp))
                       + (IF Index(c) = 4 THEN 0 ELSE s)
    BY Zenon, <1>4, <2>1 DEF Offset, Index, Scaled
  <2>3. Indexed(c) => Index(c) # 4
    BY Registers16 DEF Indexed
  <2>4. ~Indexed(c) => Index(c) = 4
    <3> SUFFICES ASSUME ~Indexed(c) PROVE Index(c) = 4
      OBVIOUS
    <3>1. c.index = 4 /\ "X" \notin c.rex
      BY <1>4 DEF Indexed, Sib, R12Index
    <3> QED BY <3>1 DEF Index, Ext
  <2> HIDE DEF s, b
  <2>5. Indexed(c) =>
          Offset(c, g) = (IF NoBase(c) THEN c.disp ELSE b + (IF c.mod = 0 THEN 0 ELSE c.disp)) + s
    BY <2>2, <2>3
  <2>6. ~Indexed(c) =>
          Offset(c, g) = (IF NoBase(c) THEN c.disp ELSE b + (IF c.mod = 0 THEN 0 ELSE c.disp))
    BY <1>1, <1>2, <2>2, <2>4
  <2>7. (IF NoBase(c) THEN c.disp ELSE b + (IF c.mod = 0 THEN 0 ELSE c.disp))
        = IF NoBase(c) THEN Disp(c) ELSE b + Disp(c)
    BY DEF Disp
  <2> QED BY <1>4, <2>5, <2>6, <2>7 DEF s, b
<1> QED BY <1>3, <1>4

(* The forms whose address the encoder gets right.                          *)
Reachable(c) ==
  /\ Memory(c) /\ ~ScaledOnStack(c) /\ ~R12Index(c) /\ ~Segment(c) /\ ~SegmentRelative(c)
  /\ ~WideOffset(c) /\ ~Absolute(c)

LEMMA OperandIs ==
  ASSUME NEW c \in Codes, NEW op, MemoryIs(c, op)
  PROVE  /\ "MEM" \in op.type /\ "XMM" \notin op.type
         /\ "REG" \in op.type <=> ~NoBase(c)
         /\ "IMM" \in op.type <=> (NoBase(c) \/ c.mod # 0)
         /\ "IDX" \in op.type <=> (c.rm = 4 /\ c.index # 4)
         /\ ~NoBase(c) => op.reg = BaseRegister(c)
         /\ "IMM" \in op.type => op.imm = Disp(c)
         /\ "IMM" \notin op.type => Disp(c) = 0
         /\ c.rm = 4 => op.idx = Index(c) /\ op.scale = c.scale
         /\ op.type = {"MEM", "IMM"} <=> (NoBase(c) /\ ~(c.rm = 4 /\ c.index # 4))
<1>1. NoBase(c) <=> Bare(c)
  BY DEF NoBase, Bare
<1>2. op.type = {"MEM"} \cup {t \in {"IDX"} : c.rm = 4 /\ c.index # 4}
                 \cup {t \in {"REG"} : ~NoBase(c)} \cup {t \in {"IMM"} : NoBase(c) \/ c.mod # 0}
  BY <1>1 DEF MemoryIs, MemoryType
<1>3. /\ "MEM" \in op.type /\ "XMM" \notin op.type
      /\ "REG" \in op.type <=> ~NoBase(c)
      /\ "IMM" \in op.type <=> (NoBase(c) \/ c.mod # 0)
      /\ "IDX" \in op.type <=> (c.rm = 4 /\ c.index # 4)
      /\ op.type \subseteq {"MEM", "REG", "IDX", "IMM"}
  BY <1>2
<1>4. op.type = {"MEM", "IMM"} <=> (NoBase(c) /\ ~(c.rm = 4 /\ c.index # 4))
  BY <1>3
<1>5. /\ ~NoBase(c) => op.reg = BaseRegister(c)
      /\ "IMM" \in op.type => op.imm = Disp(c)
      /\ "IMM" \notin op.type => Disp(c) = 0
      /\ c.rm = 4 => op.idx = Index(c) /\ op.scale = c.scale
  BY <1>1, <1>3 DEF MemoryIs, Disp, Index
<1> QED BY <1>3, <1>4, <1>5

LEMMA ReachableIs ==
  ASSUME NEW c \in Codes, Reachable(c)
  PROVE  /\ c.mod # 3 /\ Memory(c) /\ ~R12Index(c)
         /\ c.prefix = "FS" => NoBase(c) /\ ~Indexed(c) /\ c.rm = 4
         /\ c.prefix # "FS" /\ NoBase(c) /\ ~Indexed(c) => c.rm # 4
         /\ Indexed(c) <=> (c.rm = 4 /\ c.index # 4)
         /\ Indexed(c) \/ ~NoBase(c) \/ c.prefix = "FS" => Short(Disp(c))
         /\ Indexed(c) /\ ~NoBase(c) => BaseRegister(c) # RSP
<1>1. c.mod # 3 /\ Memory(c) /\ ~R12Index(c)
  BY DEF Reachable, Memory
<1>2. Indexed(c) <=> (c.rm = 4 /\ c.index # 4)
  BY <1>1 DEF Indexed, Sib
<1>3. c.prefix = "FS" => NoBase(c) /\ ~Indexed(c) /\ c.rm = 4
  BY <1>1 DEF Reachable, Segment, SegmentRelative
<1>4. c.prefix # "FS" /\ NoBase(c) /\ ~Indexed(c) => c.rm # 4
  BY <1>1, <1>2 DEF Reachable, Absolute, Sib
<1>5. Indexed(c) \/ ~NoBase(c) \/ c.prefix = "FS" => Short(Disp(c))
  <2> SUFFICES ASSUME Indexed(c) \/ ~NoBase(c) \/ c.prefix = "FS" PROVE Short(Disp(c))
    OBVIOUS
  <2>1. c.disp \in Int /\ c.disp < 4096 /\ -4096 < c.disp
    <3>1. ~(c.disp > 4095 \/ c.disp < -4095)
      BY <1>1 DEF Reachable, WideOffset
    <3>2. c.disp \in Int
      BY DEF Codes
    <3> QED BY <3>1, <3>2
  <2> QED BY <2>1 DEF Disp, Short
<1>6. ASSUME Indexed(c), ~NoBase(c) PROVE BaseRegister(c) # RSP
  <2>1. ~(c.base = RSP /\ "B" \notin c.rex)
    BY <1>6 DEF Reachable, ScaledOnStack
  <2>2. BaseRegister(c) = c.base + Ext(c, "B")
    BY <1>2, <1>6 DEF BaseRegister
  <2>3. c.base \in 0..7
    BY DEF Codes
  <2>4. CASE "B" \in c.rex
    BY <2>2, <2>3, <2>4 DEF Ext, RSP
  <2>5. CASE "B" \notin c.rex
    BY <2>1, <2>2, <2>3, <2>5 DEF Ext, RSP
  <2> QED BY <2>4, <2>5
<1> QED BY <1>1, <1>2, <1>3, <1>4, <1>5, <1>6

LEMMA ScaledNumber ==
  ASSUME NEW c \in Codes, NEW g \in Guests
  PROVE  Scaled(c, g) \in Int
<1>1. 2^0 = 1 /\ 2^1 = 2 /\ 2^2 = 4 /\ 2^3 = 8
  OBVIOUS
<1>2. c.scale = 0 \/ c.scale = 1 \/ c.scale = 2 \/ c.scale = 3
  BY DEF Codes
<1>3. 2^c.scale \in Int
  BY <1>1, <1>2
<1>4. g.r[Index(c)] \in Int
  BY Registers16, NumbersAre DEF Guests
<1> QED BY <1>3, <1>4 DEF Scaled

LEMMA IndexGives ==
  ASSUME NEW c \in Codes, NEW op, op.idx = Index(c), op.scale = c.scale, c.index # 4,
         NEW h \in Hosts, NEW reg \in 0..30
  PROVE  Gives(<<IndexWord(op, reg)>>, h, reg, Wrap(Scaled(c, GuestOf(h))))
<1> DEFINE k == Index(c)
           n == X(k)
           x == h.x[n]
<1>1. k \in 0..15 /\ k # RSP
  BY Registers16 DEF RSP
<1>2. n \in 0..30 /\ GuestOf(h).r[k] = x
  BY <1>1, HostApart, GuestFields
<1>3. x \in Int /\ Z(h, n) = x
  <2>1. n \in 0..31 /\ n # 31
    BY <1>2
  <2> QED BY <2>1, HostNumber
<1>4. Scaled(c, GuestOf(h)) = x * 2^c.scale
  BY <1>2 DEF Scaled
<1> HIDE DEF k, n, x
<1>5. CASE c.scale = 0
  <2>1. 2^c.scale = 1
    BY <1>5
  <2>2. Scaled(c, GuestOf(h)) = x + 0
    BY <1>3, <1>4, <2>1
  <2>3. IndexWord(op, reg) = W("ADD_IMM", reg, n, 0, 0)
    BY <1>5 DEF IndexWord, R2, n, k
  <2>4. n \in 0..31 /\ reg \in 0..31 /\ 0 \in Int
    BY <1>2
  <2>5. Gives(<<W("ADD_IMM", reg, n, 0, 0)>>, h, reg, Wrap(h.x[n] + 0))
    BY <2>4, AddImmGives
  <2> QED BY <2>2, <2>3, <2>5 DEF x
<1>6. CASE c.scale # 0
  <2>1. c.scale < 4 /\ c.scale \in Nat
    BY DEF Codes
  <2>2. Op("LSL", x, c.scale) = Wrap(x * 2^c.scale)
    BY <2>1 DEF Op, Wrap
  <2>3. IndexWord(op, reg) = W("LSL_IMM", reg, n, 0, c.scale)
    BY <1>6 DEF IndexWord, n, k
  <2>4. Exec(W("LSL_IMM", reg, n, 0, c.scale), h) = SetZ(h, reg, Op("LSL", Z(h, n), c.scale))
    BY ExecMoves
  <2>5. Wrap(Scaled(c, GuestOf(h))) \in Numbers
    BY ScaledNumber, GuestFields, Wraps
  <2>6. Op("LSL", Z(h, n), c.scale) = Wrap(Scaled(c, GuestOf(h)))
    BY <1>3, <1>4, <2>2
  <2> QED BY <2>3, <2>4, <2>5, <2>6, ZGivesNumber
<1> QED BY <1>5, <1>6

LEMMA PlusGives ==
  ASSUME NEW h \in Hosts, NEW d \in 0..30, NEW n \in 0..30, NEW a \in Int, h.x[d] = Wrap(a)
  PROVE  Gives(<<W("ADD", d, d, n, 0)>>, h, d, Wrap(a + h.x[n]))
<1>1. /\ d \in 0..31 /\ n \in 0..31 /\ d # 31 /\ n # 31
      /\ Z(h, d) = h.x[d] /\ Z(h, n) = h.x[n] /\ h.x[d] \in Int /\ h.x[n] \in Int
  <2>1. d \in 0..31 /\ n \in 0..31 /\ d # 31 /\ n # 31
    OBVIOUS
  <2>2. Z(h, d) = h.x[d] /\ h.x[d] \in Int
    BY Zenon, <2>1, HostNumber
  <2>3. Z(h, n) = h.x[n] /\ h.x[n] \in Int
    BY Zenon, <2>1, HostNumber
  <2> QED BY <2>1, <2>2, <2>3
<1>2. Exec(W("ADD", d, d, n, 0), h) = SetZ(h, d, OpAt(64, "ADD", Z(h, d), Z(h, n)))
  <2>1. "ADD" \in Binary
    BY DEF Binary
  <2>2. Exec(Sized(64, W("ADD", d, d, n, 0)), h) = SetZ(h, d, OpAt(64, "ADD", Z(h, d), Z(h, n)))
    BY <2>1, BinaryIs
  <2> QED BY <2>2, SizedIs
<1>3. OpAt(64, "ADD", Z(h, d), Z(h, n)) = Wrap(Wrap(a) + h.x[n])
  <2> DEFINE y == h.x[d] + h.x[n]
  <2>1. y \in Int /\ OpAt(64, "ADD", Z(h, d), Z(h, n)) = At(64, Wrap(y))
    BY <1>1 DEF Op, OpAt, Wrap
  <2> HIDE DEF y
  <2>2. Wrap(y) \in Int /\ At(64, Wrap(y)) = Wrap(y)
    BY <2>1, Wraps, AtWraps
  <2> QED BY <2>1, <2>2 DEF y
<1>4. Wrap(Wrap(a) + h.x[n]) = Wrap(a + h.x[n])
  BY <1>1, WrapSum
<1>5. a + h.x[n] \in Int
  BY <1>1
<1>6. Wrap(a + h.x[n]) \in Numbers
  BY <1>5, Wraps
<1> QED BY <1>2, <1>3, <1>4, <1>6, ZGivesNumber

LEMMA DispGives ==
  ASSUME NEW op, NEW v, Short(v), "IMM" \in op.type => op.imm = v, "IMM" \notin op.type => v = 0,
         NEW h \in Hosts, NEW d \in 0..31, NEW a \in Int, h.x[d] = Wrap(a)
  PROVE  Gives(DispWords(op, d), h, d, Wrap(a + v))
<1>0. v \in Int
  BY DEF Short
<1>1. CASE "IMM" \in op.type /\ op.imm # 0
  <2>1. DispWords(op, d) = emit_add_signed(d, d, v)
    BY <1>1 DEF DispWords
  <2>2. Wrap(h.x[d] + v) = Wrap(a + v)
    BY <1>0, WrapSum
  <2> QED BY <2>1, <2>2, SignedGives
<1>2. CASE ~("IMM" \in op.type /\ op.imm # 0)
  <2>1. DispWords(op, d) = <<>> /\ v = 0
    BY <1>2 DEF DispWords
  <2>2. a + v = a
    BY <2>1
  <2> QED BY <2>1, <2>2, GivesNone
<1> QED BY <1>1, <1>2

(* emit_address_decode() puts the address into a register, as far as it is  *)
(* not the base it still needs.                                             *)
LEMMA AddressGives ==
  ASSUME NEW c \in Codes, Reachable(c), NEW op, MemoryIs(c, op), NEW h \in Hosts, NEW reg \in 0..31,
         Indexed(c) /\ ~NoBase(c) => reg # X(BaseRegister(c)),
         reg = 31 => ~NoBase(c) /\ ~Indexed(c)
  PROVE  Gives(emit_address_decode(op, reg, c.prefix, NextIp), h, reg, Address(c, GuestOf(h)))
<1> DEFINE g == GuestOf(h)
           s == Scaled(c, g)
           k == BaseRegister(c)
           n == X(k)
           b == h.x[n]
           v == Disp(c)
           a == Offset(c, g)
           ws == emit_address_decode(op, reg, c.prefix, NextIp)
<1>1. g \in Guests /\ k \in 0..15 /\ n \in 0..31 /\ g.r[k] = b
  BY Registers16, GuestFields, HostApart
<1>2. b \in Int /\ s \in Int /\ v \in Int /\ reg \in 0..31
  <2>1. b \in Int
    BY <1>1, HostNumber
  <2>2. s \in Int
    BY <1>1, ScaledNumber
  <2>3. v \in Int
    BY Registers16
  <2> QED BY <2>1, <2>2, <2>3
<1>3. NextIp \in Int /\ FsBase \in Int
  BY ValuesAssumption
<1>4. c.prefix # "FS" => Address(c, g) = Wrap(a + 0)
  BY DEF Address, Wrap
<1>5. /\ NoBase(c) /\ c.rm # 4 => a = NextIp + v
      /\ NoBase(c) /\ c.rm = 4 /\ ~Indexed(c) => a = v
      /\ ~NoBase(c) /\ ~Indexed(c) => a = b + v
      /\ NoBase(c) /\ Indexed(c) => a = v + s
      /\ ~NoBase(c) /\ Indexed(c) => a = (b + v) + s
  BY <1>1, ReachableIs, OffsetIs
<1> HIDE DEF a, b, v, s, g
<1>6. CASE c.prefix = "FS"
  <2>0. reg \in 0..30
    BY <1>6, ReachableIs
  <2>1. a = v /\ Short(v)
    BY <1>5, <1>6, ReachableIs DEF v
  <2>2. "IMM" \in op.type /\ op.imm = v
    BY <1>6, ReachableIs, OperandIs DEF v
  <2>3. ws = <<W("GET_FS", reg, 0, 0, 0)>> \o emit_add_signed(reg, reg, v)
    BY <1>6, <2>2, AddressIs DEF SegmentWords, R2
  <2>4. Gives(<<W("GET_FS", reg, 0, 0, 0)>>, h, reg, Wrap(FsBase))
    <3>1. Exec(W("GET_FS", reg, 0, 0, 0), h) = SetZ(h, reg, FsBase)
      BY ExecMoves
    <3> QED BY <1>3, <2>0, <3>1, ZGives
  <2>5. ASSUME NEW h1, Wrote(h1, h, reg, Wrap(FsBase))
        PROVE  Gives(emit_add_signed(reg, reg, v), h1, reg, Wrap(a + FsBase))
    <3>1. h1 \in Hosts /\ h1.x[reg] = Wrap(FsBase)
      BY <2>5 DEF Wrote
    <3>2. Gives(emit_add_signed(reg, reg, v), h1, reg, Wrap(Wrap(FsBase) + v))
      BY <1>2, <2>1, <3>1, SignedGives
    <3>3. Wrap(Wrap(FsBase) + v) = Wrap(FsBase + v)
      BY <1>2, <1>3, WrapSum
    <3>4. FsBase + v = a + FsBase
      BY <1>2, <1>3, <2>1
    <3> QED BY <3>2, <3>3, <3>4
  <2>6. Address(c, g) = Wrap(a + FsBase)
    BY <1>6 DEF Address, Wrap, a
  <2> QED BY <2>3, <2>4, <2>5, <2>6, GivesJoin DEF g
<1>7. CASE c.prefix # "FS" /\ NoBase(c) /\ ~Indexed(c)
  <2> DEFINE full == NextIp + v
             p == full % 4096
             q == full - p
  <2>0. reg \in 0..30
    BY <1>7
  <2>1. c.rm # 4 /\ a = full
    BY <1>5, <1>7, ReachableIs
  <2>2. op.type = {"MEM", "IMM"} /\ op.imm = v
    BY <1>7, ReachableIs, OperandIs DEF v
  <2>3. full \in Int /\ p \in Int
    BY <1>2, <1>3
  <2>4. q \in Int /\ q + p = full
    BY <2>3
  <2>5. ws = <<W("ADRP", reg, 0, 0, q), W("ADD_IMM", reg, reg, 0, p)>>
    BY <1>7, <2>2, AddressIs DEF NearWords
  <2> HIDE DEF p, q, full
  <2>6. ws = <<W("ADRP", reg, 0, 0, q)>> \o <<W("ADD_IMM", reg, reg, 0, p)>>
    BY <2>5
  <2>7. Gives(<<W("ADRP", reg, 0, 0, q)>>, h, reg, Wrap(q))
    <3>1. Exec(W("ADRP", reg, 0, 0, q), h) = SetZ(h, reg, q)
      BY ExecMoves
    <3> QED BY <2>0, <2>4, <3>1, ZGives
  <2>8. ASSUME NEW h1, Wrote(h1, h, reg, Wrap(q))
        PROVE  Gives(<<W("ADD_IMM", reg, reg, 0, p)>>, h1, reg, Wrap(full))
    <3>1. h1 \in Hosts /\ h1.x[reg] = Wrap(q)
      BY <2>8 DEF Wrote
    <3>2. Gives(<<W("ADD_IMM", reg, reg, 0, p)>>, h1, reg, Wrap(Wrap(q) + p))
      BY <1>2, <2>3, <3>1, AddImmGives
    <3>3. Wrap(Wrap(q) + p) = Wrap(full)
      BY <2>3, <2>4, WrapSum
    <3> QED BY <3>2, <3>3
  <2>9. Address(c, g) = Wrap(full)
    <3>1. full + 0 = full
      BY <2>3
    <3> QED BY <1>4, <1>7, <2>1, <3>1
  <2> QED BY <2>6, <2>7, <2>8, <2>9, GivesJoin DEF g
<1>8. CASE c.prefix # "FS" /\ Indexed(c)
  <2> DEFINE m == IF NoBase(c) THEN s ELSE s + b
  <2>0. reg \in 0..30
    BY <1>8
  <2>1. "IDX" \in op.type /\ op.idx = Index(c) /\ op.scale = c.scale /\ c.index # 4 /\ Short(v)
        /\ op.type # {"MEM", "IMM"}
    BY <1>8, ReachableIs, OperandIs DEF v
  <2>2. ws = (<<IndexWord(op, reg)>> \o BaseWords(op, reg)) \o DispWords(op, reg)
    BY <1>8, <2>1, AddressIs DEF IndexedWords
  <2>3. Gives(<<IndexWord(op, reg)>>, h, reg, Wrap(s))
    BY <2>0, <2>1, IndexGives DEF s, g
  <2>4. m \in Int /\ m + v = a + 0
    BY <1>2, <1>5, <1>8
  <2>5. ASSUME NEW h1, Wrote(h1, h, reg, Wrap(s))
        PROVE  Gives(BaseWords(op, reg), h1, reg, Wrap(m))
    <3>1. h1 \in Hosts /\ h1.x[reg] = Wrap(s)
      BY <2>5 DEF Wrote
    <3>2. CASE NoBase(c)
      <4>1. BaseWords(op, reg) = <<>> /\ m = s
        BY <3>2, OperandIs DEF BaseWords
      <4> QED BY <1>2, <3>1, <4>1, GivesNone
    <3>3. CASE ~NoBase(c)
      <4>1. k # RSP /\ op.reg = k /\ "REG" \in op.type
        BY <1>8, <3>3, ReachableIs, OperandIs
      <4>2. n \in 0..30 /\ n # reg
        BY <1>1, <1>8, <3>3, <4>1, HostApart
      <4>3. h1.x[n] = b
        BY <2>5, <1>1, <4>2 DEF Wrote, b
      <4>4. BaseWords(op, reg) = <<W("ADD", reg, reg, n, 0)>> /\ m = s + b
        BY <3>3, <4>1 DEF BaseWords
      <4> HIDE DEF m
      <4>5. Gives(<<W("ADD", reg, reg, n, 0)>>, h1, reg, Wrap(s + h1.x[n]))
        BY <1>2, <2>0, <3>1, <4>2, PlusGives
      <4> QED BY <4>3, <4>4, <4>5
    <3> QED BY <3>2, <3>3
  <2> HIDE DEF m
  <2>6. ASSUME NEW h1, Wrote(h1, h, reg, Wrap(m))
        PROVE  Gives(DispWords(op, reg), h1, reg, Wrap(m + v))
    <3>1. h1 \in Hosts /\ h1.x[reg] = Wrap(m)
      BY <2>6 DEF Wrote
    <3>2. ("IMM" \in op.type => op.imm = v) /\ ("IMM" \notin op.type => v = 0)
      BY OperandIs DEF v
    <3> QED BY <1>2, <2>1, <2>4, <3>1, <3>2, DispGives
  <2>7. Gives(<<IndexWord(op, reg)>> \o BaseWords(op, reg), h, reg, Wrap(m))
    BY <2>3, <2>5, GivesJoin
  <2>8. Gives((<<IndexWord(op, reg)>> \o BaseWords(op, reg)) \o DispWords(op, reg), h, reg, Wrap(m + v))
    BY <2>6, <2>7, GivesJoin
  <2> QED BY <1>4, <1>8, <2>2, <2>4, <2>8 DEF g
<1>9. CASE c.prefix # "FS" /\ ~NoBase(c) /\ ~Indexed(c)
  <2>1. op.reg = k /\ "IDX" \notin op.type /\ op.type # {"MEM", "IMM"} /\ Short(v) /\ a = b + v
    BY <1>5, <1>9, ReachableIs, OperandIs DEF v
  <2>2. ws = BasedWords(op, reg)
    BY <1>9, <2>1, AddressIs
  <2>3. a + 0 = a
    BY <1>2, <2>1
  <2>4. CASE "IMM" \in op.type
    <3>1. op.imm = v
      BY <2>4, OperandIs DEF v
    <3>2. ws = emit_add_signed(reg, n, v)
      BY <2>1, <2>2, <2>4, <3>1 DEF BasedWords
    <3>3. Gives(emit_add_signed(reg, n, v), h, reg, Wrap(b + v))
      BY <1>1, <1>2, <2>1, SignedGives DEF b
    <3> QED BY <1>4, <1>9, <2>1, <2>3, <3>2, <3>3 DEF g
  <2>5. CASE "IMM" \notin op.type
    <3>1. v = 0
      BY <2>5, OperandIs DEF v
    <3>2. ws = Copy(reg, n)
      BY <2>1, <2>2, <2>5 DEF BasedWords
    <3>3. Gives(Copy(reg, n), h, reg, b)
      BY <1>1, <1>2, CopyGives DEF b
    <3>4. Wrap(b + v) = b
      <4>1. b + v = b /\ b \in Numbers
        BY <1>1, <1>2, <3>1, HostNumber DEF b
      <4> QED BY <1>2, <4>1, Wraps
    <3> QED BY <1>4, <1>9, <2>1, <2>3, <3>2, <3>3, <3>4 DEF g
  <2> QED BY <2>4, <2>5
<1> QED BY <1>6, <1>7, <1>8, <1>9

(***************************************************************************)
(* Loads and stores.                                                        *)
(***************************************************************************)
LEMMA LoadWrap == ASSUME NEW a \in Int PROVE Load(Wrap(a)) = Load(a)
<1>1. \A x : Load(x) = Hash("LD", 64, Wrap(x), 0)
  BY DEF Load, Wrap
<1>2. Wrap(Wrap(a)) = Wrap(a)
  BY Wraps
<1> QED BY <1>1, <1>2

\* h1 is h but for the registers the translation may use
Scratched(h1, h) ==
  /\ h1 \in Hosts /\ \A n \in (0..31) \ {12, 13} : h1.x[n] = h.x[n]
  /\ \A n \in 0..15 : h1.v[n] = h.v[n]
  /\ h1.flags = h.flags /\ h1.store = h.store /\ h1.target = h.target /\ h1.bad = h.bad

LEMMA ScratchedSelf == ASSUME NEW h \in Hosts PROVE Scratched(h, h)
BY DEF Scratched

LEMMA ScratchedAfter ==
  ASSUME NEW h, NEW h1, NEW h2, Scratched(h1, h), Scratched(h2, h1)
  PROVE  Scratched(h2, h)
BY DEF Scratched

LEMMA ScratchedWrote ==
  ASSUME NEW h, NEW h1, NEW d \in {12, 13}, NEW val, Wrote(h1, h, d, val)
  PROVE  Scratched(h1, h)
BY DEF Scratched, Wrote

LEMMA ScratchedWroteV ==
  ASSUME NEW h, NEW h1, NEW val, WroteV(h1, h, 16, val)
  PROVE  Scratched(h1, h)
BY DEF Scratched, WroteV

LEMMA ScratchedGuest ==
  ASSUME NEW h, NEW h1, Scratched(h1, h)
  PROVE  /\ GuestOf(h1) = GuestOf(h) /\ h1 \in Hosts /\ h1.bad = h.bad
         /\ \A k \in 0..15 : h1.x[X(k)] = h.x[X(k)]
<1>1. \A k \in 0..15 : h1.x[X(k)] = h.x[X(k)]
  BY HostApart DEF Scratched
<1> QED BY <1>1, GuestSame DEF Scratched

\* some run of the words ends in the guest's state e
Reaches(ws, h, e) == \E h2 : Runs(ws, h, h2) /\ h2.bad = h.bad /\ GuestOf(h2) = e

LEMMA ReachesAfter ==
  ASSUME NEW s, NEW u, NEW h, NEW h1, NEW e, Runs(s, h, h1), h1.bad = h.bad, Reaches(u, h1, e)
  PROVE  Reaches(s \o u, h, e)
<1>1. PICK h2 : Runs(u, h1, h2) /\ h2.bad = h1.bad /\ GuestOf(h2) = e
  BY DEF Reaches
<1> QED BY <1>1, RunsJoin DEF Reaches

LEMMA ReachesWord ==
  ASSUME NEW w, NEW h, NEW e, Exec(w, h).bad = h.bad, GuestOf(Exec(w, h)) = e
  PROVE  Reaches(<<w>>, h, e)
BY RunsWord DEF Reaches

(* What a step of the guest or of the host puts into its state.             *)
PutR(g, k, val) == [g EXCEPT !.r[k] = val]
PutV(g, k, val) == [g EXCEPT !.v[k] = val]
Stores(g, a, size, val) == [g EXCEPT !.store = <<a, size, At(size, val)>>]
Jumps(g, a) == [g EXCEPT !.target = a]

LEMMA ReachesGives ==
  ASSUME NEW ws, NEW h \in Hosts, NEW k \in 0..15, NEW d, d = X(k), NEW val, Gives(ws, h, d, val)
  PROVE  Reaches(ws, h, PutR(GuestOf(h), k, val))
<1>1. PICK h2 : Runs(ws, h, h2) /\ Wrote(h2, h, X(k), val)
  BY DEF Gives
<1>2. GuestOf(h2) = PutR(GuestOf(h), k, val)
  BY <1>1, GuestWrote DEF PutR
<1> QED BY <1>1, <1>2 DEF Reaches, Wrote

LEMMA ReachesScratch ==
  ASSUME NEW s, NEW u, NEW h \in Hosts, NEW d \in {12, 13}, NEW a, Gives(s, h, d, a), NEW e,
         \A h1 \in Hosts : Scratched(h1, h) /\ Wrote(h1, h, d, a) => Reaches(u, h1, e)
  PROVE  Reaches(s \o u, h, e)
<1>1. PICK h1 : Runs(s, h, h1) /\ Wrote(h1, h, d, a)
  BY DEF Gives
<1>2. Scratched(h1, h) /\ h1 \in Hosts /\ h1.bad = h.bad
  BY <1>1, ScratchedWrote DEF Wrote
<1>3. Reaches(u, h1, e)
  BY <1>1, <1>2
<1> QED BY <1>1, <1>2, <1>3, ReachesAfter

LEMMA LdrGives ==
  ASSUME NEW h \in Hosts, NEW d \in 0..30, NEW n \in 0..31, NEW v \in Int, NEW size
  PROVE  /\ Gives(<<Sized(size, W("LDR", d, n, 0, v))>>, h, d, At(size, Load(h.x[n] + v)))
         /\ Gives(<<Sized(size, R2("LDR", d, n))>>, h, d, At(size, Load(h.x[n])))
<1>1. ASSUME NEW w \in Int
      PROVE  Gives(<<Sized(size, W("LDR", d, n, 0, w))>>, h, d, At(size, Load(h.x[n] + w)))
  <2>1. h.x[n] + w \in Int
    BY HostNumber
  <2>2. At(size, Load(h.x[n] + w)) \in Numbers
    BY <2>1, LoadRange, NumbersAre, AtRange
  <2>3. Exec(Sized(size, W("LDR", d, n, 0, w)), h) = SetZ(h, d, At(size, Load(h.x[n] + w)))
    BY ExecSized
  <2> QED BY <2>2, <2>3, ZGivesNumber
<1>2. h.x[n] + 0 = h.x[n] /\ 0 \in Int
  BY HostNumber
<1>3. Gives(<<Sized(size, R2("LDR", d, n))>>, h, d, At(size, Load(h.x[n] + 0)))
  BY <1>1, <1>2 DEF R2
<1> QED BY <1>1, <1>2, <1>3

\* op is the memory operand at a, for the guest's state g
NearAt(op, g, a) ==
  /\ Near(op) => op.reg \in 0..15 /\ op.imm \in Int /\ a = Wrap(g.r[op.reg] + op.imm)
  /\ Direct(op) => op.reg \in 0..15 /\ a = g.r[op.reg]
MemAt(op, prefix, g, a) ==
  /\ "MEM" \in op.type /\ a \in Numbers
  /\ \A h \in Hosts : GuestOf(h) = g => Gives(emit_address_decode(op, SC1R, prefix, NextIp), h, 12, a)
  /\ NearAt(op, g, a)

LEMMA AddressNumber ==
  ASSUME NEW c \in Codes, Reachable(c), NEW g \in Guests
  PROVE  /\ Offset(c, g) \in Int /\ Address(c, g) \in Numbers
         /\ c.prefix # "FS" => Address(c, g) = Wrap(Offset(c, g))
<1> DEFINE b == g.r[BaseRegister(c)]
           s == Scaled(c, g)
           v == Disp(c)
           a == Offset(c, g)
<1>1. b \in Int /\ s \in Int /\ v \in Int /\ NextIp \in Int /\ FsBase \in Int
  <2>1. b \in Int
    BY Registers16, NumbersAre DEF Guests
  <2> QED BY <2>1, ScaledNumber, Registers16, ValuesAssumption
<1>2. a = NextIp + v \/ a = v \/ a = b + v \/ a = v + s \/ a = (b + v) + s
  BY ReachableIs, OffsetIs
<1> HIDE DEF a, b, s, v
<1>3. a \in Int
  BY <1>1, <1>2
<1>4. a + FsBase \in Int /\ a + 0 = a
  BY <1>1, <1>3
<1>5. Address(c, g) = Wrap(a + (IF c.prefix = "FS" THEN FsBase ELSE 0))
  BY DEF Address, Wrap, a
<1>6. CASE c.prefix = "FS"
  BY <1>3, <1>4, <1>5, <1>6, Wraps DEF a
<1>7. CASE c.prefix # "FS"
  BY <1>3, <1>4, <1>5, <1>7, Wraps DEF a
<1> QED BY <1>6, <1>7

LEMMA MemAtIs ==
  ASSUME NEW c \in Codes, Reachable(c), NEW op, MemoryIs(c, op), NEW g \in Guests
  PROVE  MemAt(op, c.prefix, g, Address(c, g))
<1> DEFINE a == Address(c, g)
           k == BaseRegister(c)
<1>1. "MEM" \in op.type /\ a \in Numbers
  BY OperandIs, AddressNumber
<1>2. ASSUME NEW h \in Hosts, GuestOf(h) = g
      PROVE  Gives(emit_address_decode(op, SC1R, c.prefix, NextIp), h, 12, a)
  <2>1. SC1R = 12 /\ 12 \in 0..30 /\ 12 # X(k)
    BY Registers16, HostApart DEF SC1R
  <2> QED BY <1>2, <2>1, AddressGives
<1>3. ASSUME Near(op) \/ Direct(op)
      PROVE  /\ ~NoBase(c) /\ ~Indexed(c) /\ op.reg = k /\ k \in 0..15
             /\ a = Wrap(g.r[k] + Disp(c)) /\ g.r[k] \in Numbers /\ g.r[k] \in Int
             /\ "IMM" \in op.type => op.imm = Disp(c) /\ Disp(c) \in Int
             /\ "IMM" \notin op.type => Disp(c) = 0
  <2>1. "REG" \in op.type /\ "IDX" \notin op.type
    BY <1>3 DEF Near, Direct
  <2>2. ~NoBase(c) /\ ~Indexed(c)
    BY <2>1, OperandIs, ReachableIs
  <2>3. c.prefix # "FS"
    BY <2>2, ReachableIs
  <2>4. a = Wrap(Offset(c, g)) /\ Offset(c, g) = g.r[k] + Disp(c)
    BY <2>2, <2>3, AddressNumber, OffsetIs, ReachableIs
  <2>5. op.reg = k /\ k \in 0..15 /\ Disp(c) \in Int
    BY <2>2, OperandIs, Registers16
  <2>6. g.r[k] \in Numbers
    BY <2>5 DEF Guests
  <2>7. ("IMM" \in op.type => op.imm = Disp(c)) /\ ("IMM" \notin op.type => Disp(c) = 0)
    BY OperandIs
  <2> QED BY <2>2, <2>4, <2>5, <2>6, <2>7, NumbersAre
<1> HIDE DEF a, k
<1>4. Near(op) => op.reg \in 0..15 /\ op.imm \in Int /\ a = Wrap(g.r[op.reg] + op.imm)
  <2> SUFFICES ASSUME Near(op)
               PROVE  op.reg \in 0..15 /\ op.imm \in Int /\ a = Wrap(g.r[op.reg] + op.imm)
    OBVIOUS
  <2>1. "IMM" \in op.type
    BY DEF Near
  <2> QED BY <1>3, <2>1
<1>5. Direct(op) => op.reg \in 0..15 /\ a = g.r[op.reg]
  <2> SUFFICES ASSUME Direct(op) PROVE op.reg \in 0..15 /\ a = g.r[op.reg]
    OBVIOUS
  <2>1. "IMM" \notin op.type
    BY DEF Direct
  <2>2. a = Wrap(g.r[k] + 0) /\ g.r[k] + 0 = g.r[k]
    BY <1>3, <2>1
  <2> QED BY <1>3, <2>2, Wraps
<1> QED BY <1>1, <1>2, <1>4, <1>5 DEF MemAt, NearAt, a

LEMMA MemAtRegister ==
  ASSUME NEW op, NEW h \in Hosts, NEW a, NearAt(op, GuestOf(h), a)
  PROVE  /\ Near(op) => /\ X(op.reg) \in 0..31 /\ op.imm \in Int
                        /\ a = Wrap(h.x[X(op.reg)] + op.imm)
         /\ Direct(op) => X(op.reg) \in 0..31 /\ a = h.x[X(op.reg)]
<1> DEFINE g == GuestOf(h)
<1>1. \A k \in 0..15 : g.r[k] = h.x[X(k)] /\ X(k) \in 0..31
  BY GuestFields, HostApart
<1> HIDE DEF g
<1>2. NearAt(op, g, a)
  BY DEF g
<1>3. Near(op) => op.reg \in 0..15 /\ op.imm \in Int /\ a = Wrap(g.r[op.reg] + op.imm)
  BY Zenon, <1>2 DEF NearAt
<1>4. Direct(op) => op.reg \in 0..15 /\ a = g.r[op.reg]
  BY Zenon, <1>2 DEF NearAt
<1> QED BY <1>1, <1>3, <1>4

\* emit_load(); where it computes the address that stays in SC1R
Loaded(ws, op, size, h, rd, a) ==
  \E h1, h2 : /\ Runs(ws, h, h2) /\ Scratched(h1, h) /\ Wrote(h2, h1, rd, At(size, Load(a)))
              /\ Near(op) \/ Direct(op) \/ h1.x[12] = a

LEMMA LoadGives ==
  ASSUME NEW op, NEW prefix, NEW h \in Hosts, NEW a, MemAt(op, prefix, GuestOf(h), a),
         NEW rd \in 0..30, NEW size
  PROVE  Loaded(emit_load(rd, op, size, prefix, NextIp), op, size, h, rd, a)
<1> DEFINE ws == emit_load(rd, op, size, prefix, NextIp)
<1>1. Scratched(h, h)
  BY ScratchedSelf
<1>0. NearAt(op, GuestOf(h), a)
  BY DEF MemAt
<1>2. ~(Near(op) /\ Direct(op))
  BY DEF Near, Direct
<1>3. CASE Near(op)
  <2>1. ws = <<Sized(size, W("LDR", rd, X(op.reg), 0, op.imm))>>
    BY <1>2, <1>3 DEF emit_load
  <2> DEFINE n == X(op.reg)
             v == op.imm
  <2>2. n \in 0..31 /\ v \in Int /\ a = Wrap(h.x[n] + v)
    BY <1>0, <1>3, MemAtRegister
  <2> HIDE DEF n, v
  <2>3. h.x[n] + v \in Int
    BY <2>2, HostNumber
  <2>4. Load(a) = Load(h.x[n] + v)
    BY <2>2, <2>3, LoadWrap
  <2>5. n \in 0..31 /\ v \in Int /\ Load(a) = Load(h.x[n] + v) /\ ws = <<Sized(size, W("LDR", rd, n, 0, v))>>
    BY <2>1, <2>2, <2>4 DEF n, v
  <2> HIDE DEF ws
  <2>6. Gives(<<Sized(size, W("LDR", rd, n, 0, v))>>, h, rd, At(size, Load(h.x[n] + v)))
    BY <2>5, LdrGives
  <2>7. Gives(ws, h, rd, At(size, Load(a)))
    BY <2>5, <2>6
  <2> QED BY <1>1, <1>3, <2>7 DEF Gives, ws, Loaded
<1>4. CASE Direct(op)
  <2>1. ws = <<Sized(size, R2("LDR", rd, X(op.reg)))>>
    BY <1>2, <1>4 DEF emit_load
  <2>2. X(op.reg) \in 0..31 /\ a = h.x[X(op.reg)]
    BY <1>0, <1>4, MemAtRegister
  <2>3. X(op.reg) \in 0..31 /\ 0 \in Int
    BY <2>2
  <2> DEFINE n == X(op.reg)
  <2> HIDE DEF n, ws
  <2>4. Gives(<<Sized(size, R2("LDR", rd, n))>>, h, rd, At(size, Load(h.x[n])))
    BY <2>3, LdrGives DEF n
  <2>5. Gives(ws, h, rd, At(size, Load(a)))
    BY <2>1, <2>2, <2>4 DEF n
  <2> QED BY <1>1, <1>4, <2>5 DEF Gives, ws, Loaded
<1>5. CASE ~Near(op) /\ ~Direct(op)
  <2> DEFINE s == emit_address_decode(op, SC1R, prefix, NextIp)
  <2>1. ws = s \o <<Sized(size, R2("LDR", rd, 12))>>
    BY <1>5 DEF emit_load, SC1R
  <2>2. PICK h1 : Runs(s, h, h1) /\ Wrote(h1, h, 12, a)
    BY DEF MemAt, Gives
  <2>3. Scratched(h1, h) /\ h1 \in Hosts /\ h1.x[12] = a
    BY <2>2, ScratchedWrote DEF Wrote
  <2>4. Gives(<<Sized(size, R2("LDR", rd, 12))>>, h1, rd, At(size, Load(a)))
    <3>1. 12 \in 0..31 /\ 0 \in Int
      OBVIOUS
    <3> QED BY <2>3, <3>1, LdrGives
  <2>5. PICK h2 : Runs(<<Sized(size, R2("LDR", rd, 12))>>, h1, h2) /\ Wrote(h2, h1, rd, At(size, Load(a)))
    BY <2>4 DEF Gives
  <2>6. Runs(ws, h, h2)
    BY <2>1, <2>2, <2>5, RunsJoin
  <2> QED BY <2>3, <2>5, <2>6 DEF Loaded
<1> QED BY <1>3, <1>4, <1>5

LEMMA StrIs ==
  ASSUME NEW h, NEW d, NEW n, NEW v, NEW size, NEW a, a = Wrap(h.x[n] + v)
  PROVE  Exec(Sized(size, W("STR", d, n, 0, v)), h) = Stores(h, a, size, Z(h, d))
BY ExecSized DEF Wrap, Stores, Store

LEMMA StrSimple ==
  ASSUME NEW h \in Hosts, NEW d, NEW n \in 0..31, NEW size
  PROVE  Exec(Sized(size, R2("STR", d, n)), h) = Stores(h, h.x[n], size, Z(h, d))
<1>1. h.x[n] = Wrap(h.x[n] + 0)
  BY HostNumber, Wraps
<1>2. Exec(Sized(size, W("STR", d, n, 0, 0)), h) = Stores(h, h.x[n], size, Z(h, d))
  BY <1>1, StrIs
<1> QED BY <1>2 DEF R2

LEMMA ReachesStore ==
  ASSUME NEW h \in Hosts, NEW w, NEW a, NEW size, NEW val, Exec(w, h) = Stores(h, a, size, val)
  PROVE  Reaches(<<w>>, h, Stores(GuestOf(h), a, size, val))
<1>1. GuestOf(Stores(h, a, size, val)) = Stores(GuestOf(h), a, size, val) /\ Stores(h, a, size, val).bad = h.bad
  BY GuestRest DEF Stores
<1> QED BY <1>1, ReachesWord

\* emit_store(): the address is computed, or still in SC1R
LEMMA StoreReaches ==
  ASSUME NEW op, NEW prefix, NEW h \in Hosts, NEW a, NearAt(op, GuestOf(h), a),
         NEW rd \in 0..31, rd # 12, NEW size, NEW address \in BOOLEAN,
         address => MemAt(op, prefix, GuestOf(h), a),
         address \/ Near(op) \/ Direct(op) \/ h.x[12] = a
  PROVE  Reaches(emit_store(rd, op, size, prefix, address, NextIp), h,
                 Stores(GuestOf(h), a, size, Z(h, rd)))
<1> DEFINE ws == emit_store(rd, op, size, prefix, address, NextIp)
           e == Stores(GuestOf(h), a, size, Z(h, rd))
<1>1. ~(Near(op) /\ Direct(op))
  BY DEF Near, Direct
<1>2. CASE Near(op)
  <2>1. ws = <<Sized(size, W("STR", rd, X(op.reg), 0, op.imm))>>
    BY <1>1, <1>2 DEF emit_store
  <2> DEFINE n == X(op.reg)
             v == op.imm
  <2>2. n \in 0..31 /\ a = Wrap(h.x[n] + v)
    BY <1>2, MemAtRegister
  <2>3. ws = <<Sized(size, W("STR", rd, n, 0, v))>>
    BY <2>1
  <2> HIDE DEF n, v, ws, e
  <2>4. Exec(Sized(size, W("STR", rd, n, 0, v)), h) = Stores(h, a, size, Z(h, rd))
    BY <2>2, StrIs
  <2>5. ws = <<Sized(size, W("STR", rd, n, 0, v))>> /\ Wrap(h.x[n] + v) = a
    BY <2>2, <2>3
  <2>6. Reaches(<<Sized(size, W("STR", rd, n, 0, v))>>, h, e)
    BY <2>4, <2>5, ReachesStore DEF e
  <2>7. Reaches(ws, h, e)
    BY <2>5, <2>6
  <2> QED BY <2>7 DEF ws, e
<1>3. CASE Direct(op)
  <2>1. ws = <<Sized(size, R2("STR", rd, X(op.reg)))>>
    BY <1>1, <1>3 DEF emit_store
  <2>2. X(op.reg) \in 0..31 /\ a = h.x[X(op.reg)]
    BY <1>3, MemAtRegister
  <2>3. X(op.reg) \in 0..31
    BY <2>2
  <2> DEFINE n == X(op.reg)
  <2> HIDE DEF n, ws, e
  <2>4. Exec(Sized(size, R2("STR", rd, n)), h) = Stores(h, h.x[n], size, Z(h, rd))
    BY <2>3, StrSimple DEF n
  <2>5. ws = <<Sized(size, R2("STR", rd, n))>> /\ h.x[n] = a
    BY <2>1, <2>2 DEF n
  <2>6. Reaches(<<Sized(size, R2("STR", rd, n))>>, h, e)
    BY <2>4, <2>5, ReachesStore DEF e
  <2>7. Reaches(ws, h, e)
    BY <2>5, <2>6
  <2> QED BY <2>7 DEF ws, e
<1>4. CASE ~Near(op) /\ ~Direct(op)
  <2> DEFINE s == emit_address_decode(op, SC1R, prefix, NextIp)
             u == <<Sized(size, R2("STR", rd, 12))>>
  <2>1. ws = (IF address THEN s ELSE <<>>) \o u
    BY <1>4 DEF emit_store, SC1R
  <2>2. ASSUME NEW h1 \in Hosts, Scratched(h1, h), h1.x[12] = a, Z(h1, rd) = Z(h, rd)
        PROVE  Reaches(u, h1, e)
    <3>1. 12 \in 0..31
      OBVIOUS
    <3> HIDE DEF e
    <3>2. Exec(Sized(size, R2("STR", rd, 12)), h1) = Stores(h1, h1.x[12], size, Z(h1, rd))
      BY <3>1, StrSimple
    <3>3. GuestOf(h1) = GuestOf(h)
      BY <2>2, ScratchedGuest
    <3>4. Reaches(u, h1, Stores(GuestOf(h1), h1.x[12], size, Z(h1, rd)))
      BY <3>2, ReachesStore
    <3> QED BY <2>2, <3>3, <3>4 DEF e
  <2> HIDE DEF e, s, u
  <2>3. CASE address
    <3>1. ws = s \o u
      BY <2>1, <2>3
    <3>2. PICK h1 : Runs(s, h, h1) /\ Wrote(h1, h, 12, a)
      BY <2>3 DEF MemAt, Gives, s
    <3>3. Scratched(h1, h) /\ h1 \in Hosts /\ h1.x[12] = a /\ h1.bad = h.bad /\ Z(h1, rd) = Z(h, rd)
      BY <3>2, ScratchedWrote DEF Wrote, Z
    <3>4. Reaches(u, h1, e)
      BY <2>2, <3>3
    <3> QED BY <3>1, <3>2, <3>3, <3>4, ReachesAfter DEF e
  <2>4. CASE ~address
    <3>1. ws = <<>> \o u
      BY <2>1, <2>4
    <3>2. Reaches(u, h, e)
      BY <1>4, <2>2, <2>4, ScratchedSelf
    <3> QED BY <3>1, <3>2, RunsNone, ReachesAfter DEF e
  <2> QED BY <2>3, <2>4
<1> QED BY <1>2, <1>3, <1>4

(***************************************************************************)
(* What the operands of an Instruction hold.                                *)
(***************************************************************************)
GeneralAt(op) == op.type = {"REG"} /\ op.reg \in 0..15
ImmAt(op) == op.type = {"IMM"} /\ op.imm \in Int
Fit(op, prefix, g, a) == MemAt(op, prefix, g, a) \/ GeneralAt(op) \/ ImmAt(op)
Held(size, op, g, a) == IF IsMem(op) THEN At(size, Load(a))
                        ELSE IF op.type = {"IMM"} THEN Wrap(op.imm) ELSE g.r[op.reg]
Stored(size, op, g, a, val) ==
  IF IsMem(op) THEN Stores(g, a, size, val) ELSE PutR(g, op.reg, val)
NotStack(op) == op.type = {"REG"} => op.reg # RSP

LEMMA OperandSorts ==
  ASSUME NEW op
  PROVE  /\ GeneralAt(op) => ~IsMem(op) /\ op.type # {"IMM"} /\ op.type = {"REG"}
         /\ ImmAt(op) => ~IsMem(op) /\ op.type # {"REG"} /\ op.type = {"IMM"}
         /\ IsMem(op) => op.type # {"REG"} /\ op.type # {"IMM"} /\ ~GeneralAt(op) /\ ~ImmAt(op)
         /\ \A prefix, g, a : MemAt(op, prefix, g, a) => IsMem(op) /\ a \in Numbers
<1>1. /\ op.type = {"REG"} => ~IsMem(op) /\ op.type # {"IMM"}
      /\ op.type = {"IMM"} => ~IsMem(op) /\ op.type # {"REG"}
  BY DEF IsMem
<1>2. \A prefix, g, a : MemAt(op, prefix, g, a) => IsMem(op) /\ a \in Numbers
  BY DEF MemAt, IsMem
<1> QED BY <1>1, <1>2 DEF GeneralAt, ImmAt

LEMMA FitSorts ==
  ASSUME NEW op, NEW prefix, NEW g, NEW a, Fit(op, prefix, g, a)
  PROVE  /\ IsMem(op) => MemAt(op, prefix, g, a) /\ a \in Numbers /\ NearAt(op, g, a)
         /\ ~IsMem(op) => GeneralAt(op) \/ ImmAt(op)
<1>1. CASE MemAt(op, prefix, g, a)
  <2>1. a \in Numbers /\ NearAt(op, g, a)
    BY <1>1 DEF MemAt
  <2> QED BY <1>1, <2>1, OperandSorts
<1>2. CASE GeneralAt(op) \/ ImmAt(op)
  <2>1. ~IsMem(op)
    BY <1>2, OperandSorts
  <2> QED BY <1>2, <2>1
<1> QED BY <1>1, <1>2 DEF Fit

LEMMA GeneralValue ==
  ASSUME NEW h \in Hosts, NEW op, NEW a, NEW size, GeneralAt(op)
  PROVE  /\ X(op.reg) \in 0..31 /\ h.x[X(op.reg)] = Held(size, op, GuestOf(h), a)
         /\ NotStack(op) => X(op.reg) \in 0..30 /\ Z(h, X(op.reg)) = Held(size, op, GuestOf(h), a)
<1> DEFINE k == op.reg
           n == X(k)
<1>1. k \in 0..15 /\ Held(size, op, GuestOf(h), a) = GuestOf(h).r[k]
  BY OperandSorts DEF GeneralAt, Held
<1>2. n \in 0..31 /\ GuestOf(h).r[k] = h.x[n]
  BY <1>1, GuestFields, HostApart
<1>3. NotStack(op) => k # RSP
  BY DEF NotStack, GeneralAt
<1>4. k # RSP => n \in 0..30
  BY <1>1, HostApart
<1>5. n \in 0..30 => Z(h, n) = h.x[n]
  BY DEF Z
<1> QED BY <1>1, <1>2, <1>3, <1>4, <1>5

LEMMA ValueNumber ==
  ASSUME NEW op, NEW prefix, NEW g \in Guests, NEW a, NEW size, Fit(op, prefix, g, a)
  PROVE  Held(size, op, g, a) \in Numbers /\ Held(size, op, g, a) \in Int
<1>1. CASE MemAt(op, prefix, g, a)
  <2>1. Held(size, op, g, a) = At(size, Load(a)) /\ a \in Int
    BY <1>1, OperandSorts, NumbersAre DEF Held
  <2>2. Load(a) \in Int
    BY <2>1, LoadRange, NumbersAre
  <2> QED BY <2>1, <2>2, AtWraps
<1>2. CASE GeneralAt(op)
  <2>1. Held(size, op, g, a) = g.r[op.reg] /\ op.reg \in 0..15
    BY <1>2, OperandSorts DEF Held, GeneralAt
  <2>2. g.r[op.reg] \in Numbers
    BY <2>1 DEF Guests
  <2> QED BY <2>1, <2>2, NumbersAre
<1>3. CASE ImmAt(op)
  <2>1. Held(size, op, g, a) = Wrap(op.imm) /\ op.imm \in Int
    BY <1>3, OperandSorts DEF Held, ImmAt
  <2> QED BY <2>1, Wraps
<1> QED BY <1>1, <1>2, <1>3 DEF Fit

(* A result that is alike but for the flags, which the guest's instruction  *)
(* sets in a way the translation does not follow.                           *)
Same(g, e) == g.r = e.r /\ g.v = e.v /\ g.store = e.store /\ g.target = e.target
Yields(ws, h, e) == \E h2 : Runs(ws, h, h2) /\ h2.bad = h.bad /\ Same(GuestOf(h2), e)

LEMMA YieldsAfter ==
  ASSUME NEW s, NEW u, NEW h, NEW h1, NEW e, Runs(s, h, h1), h1.bad = h.bad, Yields(u, h1, e)
  PROVE  Yields(s \o u, h, e)
<1>1. PICK h2 : Runs(u, h1, h2) /\ h2.bad = h1.bad /\ Same(GuestOf(h2), e)
  BY DEF Yields
<1> QED BY <1>1, RunsJoin DEF Yields

LEMMA YieldsReached ==
  ASSUME NEW ws, NEW h, NEW e, NEW e2, Reaches(ws, h, e), Same(e, e2)
  PROVE  Yields(ws, h, e2)
BY DEF Reaches, Yields

LEMMA SameSelf == ASSUME NEW e PROVE Same(e, e)
BY DEF Same

LEMMA FlagsSame ==
  ASSUME NEW g \in Guests, NEW f, NEW op, NEW a, NEW size, NEW val
  PROVE  Same(Stored(size, op, SetFlags(g, f), a, val), Stored(size, op, g, a, val))
<1> DEFINE q == SetFlags(g, f)
<1>1. /\ q = [r |-> g.r, v |-> g.v, flags |-> f, store |-> g.store, target |-> g.target]
      /\ g = [r |-> g.r, v |-> g.v, flags |-> g.flags, store |-> g.store, target |-> g.target]
  BY DEF Guests, SetFlags
<1>2. CASE IsMem(op)
  <2>1. Stored(size, op, q, a, val) = Stores(q, a, size, val) /\ Stored(size, op, g, a, val) = Stores(g, a, size, val)
    BY <1>2 DEF Stored
  <2> HIDE DEF q
  <2>2. Same(Stores(q, a, size, val), Stores(g, a, size, val))
    BY <1>1 DEF Same, Stores
  <2> QED BY <2>1, <2>2 DEF q
<1>3. CASE ~IsMem(op)
  <2>1. /\ Stored(size, op, q, a, val) = PutR(q, op.reg, val)
        /\ Stored(size, op, g, a, val) = PutR(g, op.reg, val)
    BY <1>3 DEF Stored
  <2> HIDE DEF q
  <2>2. Same(PutR(q, op.reg, val), PutR(g, op.reg, val))
    BY <1>1 DEF Same, PutR
  <2> QED BY <2>1, <2>2 DEF q
<1> QED BY <1>2, <1>3

(***************************************************************************)
(* ADD, SUB and CMP.                                                        *)
(***************************************************************************)
LEMMA FromMemoryGives ==
  ASSUME NEW i, NEW h \in Hosts, NEW a, Fit(i.a, i.prefix, GuestOf(h), a),
         Fit(i.b, i.prefix, GuestOf(h), a), ~IsMem(i.a) \/ ~IsMem(i.b)
  PROVE  \E h1 : /\ Runs(FromMemory(i, NextIp), h, h1) /\ Scratched(h1, h)
                 /\ IsMem(i.a) \/ IsMem(i.b) => h1.x[13] = At(Sf(i), Load(a))
                 /\ IsMem(i.a) => Near(i.a) \/ Direct(i.a) \/ h1.x[12] = a
<1>1. ASSUME NEW op \in {i.a, i.b}, IsMem(op), IsMem(i.a) => op = i.a,
             FromMemory(i, NextIp) = emit_load(SC2R, op, Sf(i), i.prefix, NextIp)
      PROVE  \E h1 : /\ Runs(FromMemory(i, NextIp), h, h1) /\ Scratched(h1, h)
                     /\ h1.x[13] = At(Sf(i), Load(a))
                     /\ IsMem(i.a) => Near(i.a) \/ Direct(i.a) \/ h1.x[12] = a
  <2>1. MemAt(op, i.prefix, GuestOf(h), a)
    <3>1. op = i.a \/ op = i.b
      OBVIOUS
    <3>2. Fit(op, i.prefix, GuestOf(h), a)
      BY Zenon, <3>1
    <3> QED BY Zenon, <1>1, <3>2, FitSorts
  <2>2. SC2R = 13 /\ 13 \in 0..30
    BY DEF SC2R
  <2>3. PICK h1, h2 : /\ Runs(emit_load(13, op, Sf(i), i.prefix, NextIp), h, h2)
                      /\ Scratched(h1, h) /\ Wrote(h2, h1, 13, At(Sf(i), Load(a)))
                      /\ Near(op) \/ Direct(op) \/ h1.x[12] = a
    <3>1. Loaded(emit_load(13, op, Sf(i), i.prefix, NextIp), op, Sf(i), h, 13, a)
      BY <2>1, <2>2, LoadGives
    <3> QED BY <3>1 DEF Loaded
  <2>4. Scratched(h2, h)
    <3>1. 13 \in {12, 13}
      OBVIOUS
    <3>2. Scratched(h2, h1)
      BY Zenon, <2>3, <3>1, ScratchedWrote
    <3> QED BY Zenon, <2>3, <3>2, ScratchedAfter
  <2>5. h2.x[13] = At(Sf(i), Load(a)) /\ h2.x[12] = h1.x[12]
    BY <2>3 DEF Wrote
  <2> QED BY <1>1, <2>2, <2>3, <2>4, <2>5
<1>2. CASE IsMem(i.b)
  <2>1. FromMemory(i, NextIp) = emit_load(SC2R, i.b, Sf(i), i.prefix, NextIp)
    BY <1>2 DEF FromMemory
  <2> QED BY <1>1, <1>2, <2>1
<1>3. CASE ~IsMem(i.b) /\ IsMem(i.a)
  <2>1. FromMemory(i, NextIp) = emit_load(SC2R, i.a, Sf(i), i.prefix, NextIp)
    BY <1>3 DEF FromMemory
  <2> QED BY <1>1, <1>3, <2>1
<1>4. CASE ~IsMem(i.b) /\ ~IsMem(i.a)
  <2>1. FromMemory(i, NextIp) = <<>>
    BY <1>4 DEF FromMemory
  <2> QED BY <1>4, <2>1, RunsNone, ScratchedSelf
<1> QED BY <1>2, <1>3, <1>4

\* the registers the words name hold the operands
LEMMA SidesHold ==
  ASSUME NEW i, NEW h \in Hosts, NEW a, Fit(i.a, i.prefix, GuestOf(h), a),
         Fit(i.b, i.prefix, GuestOf(h), a), ~IsMem(i.a) \/ ~IsMem(i.b), i.a.type # {"IMM"},
         NEW h1, Scratched(h1, h), IsMem(i.a) \/ IsMem(i.b) => h1.x[13] = At(Sf(i), Load(a))
  PROVE  /\ X(Left(i)) \in 0..31 /\ h1.x[X(Left(i))] = Held(Sf(i), i.a, GuestOf(h), a)
         /\ NotStack(i.a) => /\ X(Left(i)) \in 0..30
                             /\ Z(h1, X(Left(i))) = Held(Sf(i), i.a, GuestOf(h), a)
         /\ RightIsRegister(i) /\ NotStack(i.b) => /\ X(Right(i)) \in 0..30
                                                   /\ Z(h1, X(Right(i))) = Held(Sf(i), i.b, GuestOf(h), a)
         /\ IsMem(i.a) => X(Left(i)) = 13
         /\ ~IsMem(i.a) => GeneralAt(i.a) /\ Left(i) = i.a.reg
         /\ ~RightIsRegister(i) => ImmAt(i.b)
<1> DEFINE g == GuestOf(h)
<1>1. h1 \in Hosts /\ GuestOf(h1) = g
  BY ScratchedGuest
<1>2. 13 \in 0..30 /\ 13 \in 0..31 /\ Z(h1, 13) = h1.x[13] /\ X(SC2) = 13
  BY HostApart DEF Z
<1>3. ~IsMem(i.a) => GeneralAt(i.a) /\ Left(i) = i.a.reg
  BY OperandSorts DEF Fit, ImmAt, Left
<1>4. IsMem(i.a) => X(Left(i)) = 13 /\ Held(Sf(i), i.a, g, a) = At(Sf(i), Load(a))
  BY <1>2 DEF Left, Held
<1>5. ~IsMem(i.a) =>
        /\ X(Left(i)) \in 0..31 /\ h1.x[X(Left(i))] = Held(Sf(i), i.a, g, a)
        /\ NotStack(i.a) => X(Left(i)) \in 0..30 /\ Z(h1, X(Left(i))) = Held(Sf(i), i.a, g, a)
  BY <1>1, <1>3, GeneralValue
<1>6. IsMem(i.b) => X(Right(i)) = 13 /\ Held(Sf(i), i.b, g, a) = At(Sf(i), Load(a))
  BY <1>2 DEF Right, Held
<1>7. ~IsMem(i.b) => GeneralAt(i.b) \/ ImmAt(i.b)
  BY OperandSorts DEF Fit
<1>8. ~IsMem(i.b) /\ RightIsRegister(i) => GeneralAt(i.b) /\ Right(i) = i.b.reg
  BY <1>7, OperandSorts DEF RightIsRegister, Right
<1>9. ~RightIsRegister(i) => ImmAt(i.b)
  BY <1>7 DEF RightIsRegister, GeneralAt
<1>10. GeneralAt(i.b) /\ NotStack(i.b) =>
         X(i.b.reg) \in 0..30 /\ Z(h1, X(i.b.reg)) = Held(Sf(i), i.b, g, a)
  BY <1>1, GeneralValue
<1> QED BY <1>2, <1>3, <1>4, <1>5, <1>6, <1>8, <1>9, <1>10

\* the words for the addition or subtraction itself, and the flags they leave
SumWords(i) ==
  LET r0 == Left(i)
  IN IF RightIsRegister(i)
     THEN <<Sized(Sf(i), RRR(IF i.type = "ADD" THEN "ADDS" ELSE "SUBS", r0, r0, Right(i)))>>
     ELSE IF i.type = "ADD" THEN emit_add_signed(X(r0), X(r0), i.b.imm)
                            ELSE emit_sub_signed(X(r0), X(r0), i.b.imm)

LEMMA AddSubIs ==
  ASSUME NEW i
  PROVE  EncodeAddSub(i, NextIp) = (FromMemory(i, NextIp) \o SumWords(i)) \o ToMemory(i, NextIp)
BY DEF EncodeAddSub, SumWords

Marked(h1, h) == h1 \in Hosts /\ (h1 = h \/ \E f : h1 = SetFlags(h, f))

LEMMA MarkedFields ==
  ASSUME NEW h \in Hosts, NEW h1, Marked(h1, h)
  PROVE  /\ h1.x = h.x /\ h1.bad = h.bad
         /\ \A size, op, a, val : Same(Stored(size, op, GuestOf(h1), a, val), Stored(size, op, GuestOf(h), a, val))
         /\ \A op, a : NearAt(op, GuestOf(h), a) => NearAt(op, GuestOf(h1), a)
<1> DEFINE g == GuestOf(h)
<1>1. CASE h1 = h
  BY <1>1, SameSelf
<1>2. CASE \E f : h1 = SetFlags(h, f)
  <2>1. PICK f : h1 = SetFlags(h, f)
    BY <1>2
  <2>2. h1.x = h.x /\ h1.bad = h.bad
    BY <2>1 DEF SetFlags, Hosts
  <2>3. g \in Guests /\ GuestOf(h1) = SetFlags(g, f)
    <3>1. g \in Guests
      BY GuestFields
    <3>2. GuestOf(SetFlags(h, f)) = [g EXCEPT !.flags = f]
      BY GuestRest
    <3> HIDE DEF g
    <3> QED BY <2>1, <3>1, <3>2 DEF SetFlags
  <2> HIDE DEF g
  <2>4. \A size, op, a, val : Same(Stored(size, op, GuestOf(h1), a, val), Stored(size, op, g, a, val))
    BY <2>3, FlagsSame
  <2>5. GuestOf(h1).r = g.r
    BY <2>3 DEF SetFlags, Guests
  <2>6. \A op, a : NearAt(op, g, a) => NearAt(op, GuestOf(h1), a)
    BY <2>5 DEF NearAt
  <2> QED BY <2>2, <2>4, <2>6 DEF g
<1> QED BY <1>1, <1>2 DEF Marked

LEMMA SubsGives ==
  ASSUME NEW h \in Hosts, NEW d \in 0..30, NEW m \in 0..30, NEW size \in Sizes,
         NEW val \in Numbers, val = OpAt(size, "SUB", Z(h, d), Z(h, m))
  PROVE  \E h1, h2 : /\ Marked(h1, h) /\ Runs(<<Sized(size, W("SUBS", d, d, m, 0))>>, h, h2)
                     /\ Wrote(h2, h1, d, val)
<1> DEFINE f == <<"SUB", At(size, Z(h, d)), At(size, Z(h, m)), size>>
           h1 == SetFlags(h, f)
           w == Sized(size, W("SUBS", d, d, m, 0))
<1>1. f \in {"none", "SUB", "AND", "FCMP"} \X Int \X Int \X Int
  <2>1. d \in 0..31 /\ m \in 0..31 /\ size \in Int
    BY DEF Sizes
  <2>2. At(size, Z(h, d)) \in Int /\ At(size, Z(h, m)) \in Int
    BY <2>1, HostNumber, AtWraps
  <2> QED BY <2>1, <2>2
<1>2. Exec(w, h) = SetFlags(SetZ(h, d, val), f)
  BY ExecSubs
<1> HIDE DEF f, w
<1>3. h1 \in Hosts
  BY <1>1 DEF SetFlags, Hosts
<1>4. SetFlags(SetZ(h, d, val), f) = SetZ(h1, d, val)
  BY DEF SetFlags, SetZ, SetSp, Hosts
<1>5. Marked(h1, h)
  BY <1>3 DEF Marked
<1> HIDE DEF h1
<1>6. Wrote(SetZ(h1, d, val), h1, d, val)
  BY <1>3, SetZNumber
<1>7. Runs(<<w>>, h, SetZ(h1, d, val))
  BY <1>2, <1>4, RunsWord
<1> QED BY <1>5, <1>6, <1>7 DEF w

LEMMA AddsIs ==
  ASSUME NEW h, NEW d, NEW n, NEW m, NEW size
  PROVE  Exec(Sized(size, W("ADDS", d, n, m, 0)), h) = SetZ(h, d, OpAt(size, "ADD", Z(h, n), Z(h, m)))
BY ExecAdds

LEMMA SumIs ==
  ASSUME NEW x \in Int, NEW v \in Int
  PROVE  /\ Op("ADD", x, v) = Wrap(x + v) /\ Op("SUB", x, v) = Wrap(x - v)
         /\ Op("ADD", x, Wrap(v)) = Wrap(x + v) /\ Op("SUB", x, Wrap(v)) = Wrap(x - v)
<1>1. \A y : Op("ADD", x, y) = Wrap(x + y) /\ Op("SUB", x, y) = Wrap(x - y)
  BY DEF Op, Wrap
<1> QED BY <1>1, WrapSum

\* an immediate is added to all 64 bits
Summed(i, x, y) == IF RightIsRegister(i) THEN OpAt(Sf(i), i.type, x, y) ELSE Op(i.type, x, y)

LEMMA ArithGives ==
  ASSUME NEW i, i.type \in {"ADD", "SUB"}, NEW h \in Hosts, NEW x \in Int, NEW y \in Int,
         X(Left(i)) \in 0..31, h.x[X(Left(i))] = x,
         RightIsRegister(i) => /\ X(Left(i)) \in 0..30 /\ X(Right(i)) \in 0..30
                               /\ Z(h, X(Left(i))) = x /\ Z(h, X(Right(i))) = y,
         ~RightIsRegister(i) => Short(i.b.imm) /\ y = Wrap(i.b.imm)
  PROVE  \E h1, h2 : /\ Marked(h1, h) /\ Runs(SumWords(i), h, h2)
                     /\ Wrote(h2, h1, X(Left(i)), Summed(i, x, y))
<1> DEFINE d == X(Left(i))
           m == X(Right(i))
           v == i.b.imm
           ws == SumWords(i)
           sz == Sf(i)
           val == Summed(i, x, y)
<1>1. Marked(h, h)
  BY DEF Marked
<1>2. Op(i.type, x, y) = IF i.type = "ADD" THEN Wrap(x + y) ELSE Wrap(x - y)
  BY SumIs
<1>3. val \in Numbers /\ sz \in Sizes
  <2>1. Op(i.type, x, y) \in Numbers
    <3>1. x + y \in Int /\ x - y \in Int
      OBVIOUS
    <3>2. Wrap(x + y) \in Numbers /\ Wrap(x - y) \in Numbers
      BY <3>1, Wraps
    <3> QED BY <1>2, <3>2
  <2>2. OpAt(sz, i.type, x, y) \in Numbers
    <3>1. OpAt(sz, i.type, x, y) = At(sz, Op(i.type, x, y))
      BY DEF OpAt
    <3> QED BY <2>1, <3>1, NumbersAre, AtRange
  <2>3. sz \in Sizes
    BY SizesOf
  <2> QED BY <2>1, <2>2, <2>3 DEF Summed
<1>4. CASE RightIsRegister(i) /\ i.type = "ADD"
  <2>1. ws = <<Sized(sz, W("ADDS", d, d, m, 0))>>
    BY <1>4 DEF SumWords, RRR
  <2>2. Z(h, d) = x /\ Z(h, m) = y /\ d \in 0..30
    BY <1>4
  <2>3. val = OpAt(sz, "ADD", x, y)
    BY <1>4 DEF Summed
  <2> HIDE DEF val, d, m, ws, sz
  <2>4. Exec(Sized(sz, W("ADDS", d, d, m, 0)), h) = SetZ(h, d, val)
    BY <2>2, <2>3, AddsIs
  <2>5. Gives(<<Sized(sz, W("ADDS", d, d, m, 0))>>, h, d, val)
    BY <1>3, <2>2, <2>4, ZGivesNumber
  <2> QED BY <1>1, <2>1, <2>5 DEF Gives, d, val, ws
<1>5. CASE RightIsRegister(i) /\ i.type = "SUB"
  <2>1. ws = <<Sized(sz, W("SUBS", d, d, m, 0))>>
    BY <1>5 DEF SumWords, RRR
  <2>2. Z(h, d) = x /\ Z(h, m) = y /\ d \in 0..30 /\ m \in 0..30
    BY <1>5
  <2>3. val = OpAt(sz, "SUB", x, y)
    BY <1>5 DEF Summed
  <2> HIDE DEF val, d, m, ws, sz
  <2>4. val = OpAt(sz, "SUB", Z(h, d), Z(h, m)) /\ sz \in Sizes /\ val \in Numbers
    BY <1>3, <2>2, <2>3
  <2>5. \E h1, h2 : /\ Marked(h1, h) /\ Runs(<<Sized(sz, W("SUBS", d, d, m, 0))>>, h, h2)
                    /\ Wrote(h2, h1, d, val)
    BY <2>2, <2>4, SubsGives
  <2> QED BY <2>1, <2>5 DEF d, val, ws
<1>6. CASE ~RightIsRegister(i)
  <2>1. ws = IF i.type = "ADD" THEN emit_add_signed(d, d, v) ELSE emit_sub_signed(d, d, v)
    BY <1>6 DEF SumWords
  <2>2. Short(v) /\ v \in Int /\ y = Wrap(v) /\ d \in 0..31 /\ h.x[d] = x
    BY <1>6 DEF Short
  <2>3. val = IF i.type = "ADD" THEN Wrap(x + v) ELSE Wrap(x - v)
    BY <1>6, <2>2, SumIs DEF Summed
  <2> HIDE DEF val, d, v, ws
  <2>4. Gives(emit_add_signed(d, d, v), h, d, Wrap(x + v)) /\ Gives(emit_sub_signed(d, d, v), h, d, Wrap(x - v))
    BY <2>2, SignedGives
  <2>5. Gives(ws, h, d, val)
    BY <2>1, <2>3, <2>4
  <2> QED BY <1>1, <2>5 DEF Gives, d, val, ws
<1> QED BY <1>4, <1>5, <1>6

LEMMA SummedStored ==
  ASSUME NEW i, i.type \in {"ADD", "SUB"}, NEW g, NEW a, NEW x \in Int, NEW y \in Int,
         RightIsRegister(i) \/ Sf(i) = 64 \/ IsMem(i.a)
  PROVE  Stored(Sf(i), i.a, g, a, OpAt(Sf(i), i.type, x, y)) = Stored(Sf(i), i.a, g, a, Summed(i, x, y))
<1> DEFINE sz == Sf(i)
           op == Op(i.type, x, y)
           cut == OpAt(sz, i.type, x, y)
<1>1. cut = At(sz, op)
  BY DEF OpAt
<1>2. op \in Numbers /\ op \in Int
  <2>1. x + y \in Int /\ x - y \in Int
    OBVIOUS
  <2>2. op = Wrap(x + y) \/ op = Wrap(x - y)
    BY SumIs
  <2> HIDE DEF op
  <2> QED BY <2>1, <2>2, Wraps
<1> HIDE DEF op, cut
<1>3. CASE RightIsRegister(i)
  BY <1>3 DEF Summed, cut, op
<1>4. CASE ~RightIsRegister(i)
  <2>1. Summed(i, x, y) = op
    BY <1>4 DEF Summed, op
  <2>2. CASE sz = 64
    <3>1. cut = op
      BY <1>1, <1>2, <2>2, AtWraps
    <3> QED BY <2>1, <3>1 DEF cut
  <2>3. CASE IsMem(i.a)
    <3>1. At(sz, cut) = At(sz, op)
      BY <1>1, <1>2, AtWraps
    <3> HIDE DEF sz
    <3>2. Stores(g, a, sz, cut) = Stores(g, a, sz, op)
      BY <3>1 DEF Stores
    <3>3. Stored(sz, i.a, g, a, cut) = Stored(sz, i.a, g, a, op)
      BY <2>3, <3>2 DEF Stored
    <3> QED BY <2>1, <3>3 DEF sz, cut
  <2> QED BY <1>4, <2>2, <2>3 DEF sz
<1> QED BY <1>3, <1>4

LEMMA AddSubYields ==
  ASSUME NEW i, i.type \in {"ADD", "SUB"}, NEW h \in Hosts, NEW a,
         Fit(i.a, i.prefix, GuestOf(h), a), Fit(i.b, i.prefix, GuestOf(h), a),
         ~IsMem(i.a) \/ ~IsMem(i.b), i.a.type # {"IMM"},
         RightIsRegister(i) => NotStack(i.a) /\ NotStack(i.b),
         i.b.type = {"IMM"} => Short(i.b.imm) /\ (Sf(i) = 64 \/ IsMem(i.a))
  PROVE  Yields(EncodeAddSub(i, NextIp), h,
                Stored(Sf(i), i.a, GuestOf(h), a,
                       OpAt(Sf(i), i.type, Held(Sf(i), i.a, GuestOf(h), a), Held(Sf(i), i.b, GuestOf(h), a))))
<1> DEFINE g == GuestOf(h)
           x == Held(Sf(i), i.a, g, a)
           y == Held(Sf(i), i.b, g, a)
           val == Summed(i, x, y)
           d == X(Left(i))
           e == Stored(Sf(i), i.a, g, a, val)
<1>1. PICK h1 : /\ Runs(FromMemory(i, NextIp), h, h1) /\ Scratched(h1, h)
                /\ IsMem(i.a) \/ IsMem(i.b) => h1.x[13] = At(Sf(i), Load(a))
                /\ IsMem(i.a) => Near(i.a) \/ Direct(i.a) \/ h1.x[12] = a
  BY FromMemoryGives
<1>2. x \in Int /\ y \in Int
  BY GuestFields, ValueNumber
<1>3. GuestOf(h1) = g /\ h1 \in Hosts /\ h1.bad = h.bad
  BY <1>1, ScratchedGuest
<1>4. /\ d \in 0..31 /\ h1.x[d] = x
      /\ NotStack(i.a) => d \in 0..30 /\ Z(h1, d) = x
      /\ RightIsRegister(i) /\ NotStack(i.b) => X(Right(i)) \in 0..30 /\ Z(h1, X(Right(i))) = y
      /\ IsMem(i.a) => d = 13
      /\ ~IsMem(i.a) => GeneralAt(i.a) /\ Left(i) = i.a.reg
      /\ ~RightIsRegister(i) => ImmAt(i.b)
  BY <1>1, SidesHold
<1>5. ~RightIsRegister(i) => Short(i.b.imm) /\ y = Wrap(i.b.imm)
  BY <1>4, OperandSorts DEF Held
<1>12. Stored(Sf(i), i.a, g, a, OpAt(Sf(i), i.type, x, y)) = e
  BY <1>2, <1>4, OperandSorts, SummedStored
<1> HIDE DEF x, y, g
<1>6. PICK h2, h3 : Marked(h2, h1) /\ Runs(SumWords(i), h1, h3) /\ Wrote(h3, h2, d, val)
  BY <1>2, <1>3, <1>4, <1>5, ArithGives
<1> HIDE DEF val
<1>7. h2 \in Hosts /\ h3 \in Hosts /\ h3.bad = h.bad /\ h3.x[d] = val
      /\ \A n \in (0..31) \ {d} : h3.x[n] = h1.x[n]
  BY <1>3, <1>6, MarkedFields DEF Marked, Wrote
<1>8. Runs(FromMemory(i, NextIp) \o SumWords(i), h, h3)
  BY <1>1, <1>6, RunsJoin
<1>9. Same(Stored(Sf(i), i.a, GuestOf(h2), a, val), e)
  BY <1>3, <1>6, MarkedFields
<1>10. CASE IsMem(i.a)
  <2>1. ToMemory(i, NextIp) = emit_store(13, i.a, Sf(i), i.prefix, FALSE, NextIp)
    BY <1>10 DEF ToMemory, SC2R
  <2>2. d = 13
    BY <1>4, <1>10
  <2>3. GuestOf(h3) = GuestOf(h2)
    BY <1>6, <1>7, <2>2, GuestScratch
  <2>4. NearAt(i.a, g, a)
    BY <1>10, FitSorts DEF g
  <2>5. NearAt(i.a, GuestOf(h3), a)
    BY <1>3, <1>6, <2>3, <2>4, MarkedFields
  <2>6. Near(i.a) \/ Direct(i.a) \/ h3.x[12] = a
    BY <1>1, <1>7, <1>10, <2>2
  <2>7. Z(h3, 13) = val
    BY <1>7, <2>2 DEF Z
  <2>8. Reaches(emit_store(13, i.a, Sf(i), i.prefix, FALSE, NextIp), h3, Stores(GuestOf(h3), a, Sf(i), Z(h3, 13)))
    <3>1. 13 \in 0..31 /\ 13 # 12 /\ FALSE \in BOOLEAN
      OBVIOUS
    <3> QED BY <1>7, <2>5, <2>6, <3>1, StoreReaches
  <2>9. Reaches(ToMemory(i, NextIp), h3, Stored(Sf(i), i.a, GuestOf(h2), a, val))
    BY <1>10, <2>1, <2>3, <2>7, <2>8 DEF Stored
  <2>10. Yields(ToMemory(i, NextIp), h3, e)
    BY <1>9, <2>9, YieldsReached
  <2>11. Yields((FromMemory(i, NextIp) \o SumWords(i)) \o ToMemory(i, NextIp), h, e)
    BY <1>7, <1>8, <2>10, YieldsAfter
  <2> QED BY <1>12, <2>11, AddSubIs DEF x, y, g
<1>11. CASE ~IsMem(i.a)
  <2>1. ToMemory(i, NextIp) = <<>>
    BY <1>11 DEF ToMemory
  <2>2. i.a.reg \in 0..15 /\ d = X(i.a.reg)
    BY <1>4, <1>11 DEF GeneralAt
  <2>3. GuestOf(h3) = Stored(Sf(i), i.a, GuestOf(h2), a, val)
    BY <1>6, <1>7, <1>11, <2>2, GuestWrote DEF Stored, PutR
  <2>4. Yields(<<>>, h3, e)
    BY <1>9, <2>3, RunsNone DEF Yields
  <2>5. Yields((FromMemory(i, NextIp) \o SumWords(i)) \o ToMemory(i, NextIp), h, e)
    BY <1>7, <1>8, <2>1, <2>4, YieldsAfter
  <2> QED BY <1>12, <2>5, AddSubIs DEF x, y, g
<1> QED BY <1>10, <1>11

LEMMA ReachesFlags ==
  ASSUME NEW h \in Hosts, NEW w, NEW f, Exec(w, h) = SetFlags(h, f)
  PROVE  Reaches(<<w>>, h, SetFlags(GuestOf(h), f))
<1>1. GuestOf(SetFlags(h, f)) = SetFlags(GuestOf(h), f) /\ SetFlags(h, f).bad = h.bad
  BY GuestRest DEF SetFlags
<1> QED BY <1>1, ReachesWord

LEMMA SubsFlags ==
  ASSUME NEW h, NEW n, NEW m, NEW size
  PROVE  Exec(Sized(size, W("SUBS", 31, n, m, 0)), h)
           = SetFlags(h, <<"SUB", At(size, Z(h, n)), At(size, Z(h, m)), size>>)
<1>1. \A val : SetZ(h, 31, val) = h
  BY DEF SetZ
<1> QED BY <1>1, ExecSubs

LEMMA AndsFlags ==
  ASSUME NEW h, NEW n, NEW m, NEW size
  PROVE  Exec(Sized(size, W("ANDS", 31, n, m, 0)), h)
           = SetFlags(h, <<"AND", At(size, Z(h, n)), At(size, Z(h, m)), size>>)
BY ExecAnds

LEMMA CmpReaches ==
  ASSUME NEW i, NEW h \in Hosts, NEW a,
         Fit(i.a, i.prefix, GuestOf(h), a), Fit(i.b, i.prefix, GuestOf(h), a),
         ~IsMem(i.a) \/ ~IsMem(i.b), i.a.type # {"IMM"}, NotStack(i.a), NotStack(i.b)
  PROVE  Reaches(EncodeCmp(i, NextIp), h,
                 SetFlags(GuestOf(h), <<"SUB", At(Sf(i), Held(Sf(i), i.a, GuestOf(h), a)),
                                       At(Sf(i), Held(Sf(i), i.b, GuestOf(h), a)), Sf(i)>>))
<1> DEFINE g == GuestOf(h)
           x == Held(Sf(i), i.a, g, a)
           y == Held(Sf(i), i.b, g, a)
           sz == Sf(i)
           d == X(Left(i))
           m == X(Right(i))
           v == i.b.imm
           e == SetFlags(g, <<"SUB", At(sz, x), At(sz, y), sz>>)
           tail == IF RightIsRegister(i) THEN <<Sized(sz, RRR("SUBS", XZR, Left(i), Right(i)))>>
                   ELSE emit_imm(v, SC1R) \o <<Sized(sz, RRR("SUBS", XZR, Left(i), SC1))>>
<1>1. PICK h1 : /\ Runs(FromMemory(i, NextIp), h, h1) /\ Scratched(h1, h)
                /\ IsMem(i.a) \/ IsMem(i.b) => h1.x[13] = At(Sf(i), Load(a))
  BY FromMemoryGives
<1>2. GuestOf(h1) = g /\ h1 \in Hosts /\ h1.bad = h.bad
  BY <1>1, ScratchedGuest
<1>3. /\ d \in 0..30 /\ Z(h1, d) = x
      /\ RightIsRegister(i) => m \in 0..30 /\ Z(h1, m) = y
      /\ ~RightIsRegister(i) => ImmAt(i.b)
      /\ IsMem(i.a) => d = 13
      /\ ~IsMem(i.a) => i.a.reg \in 0..15 /\ d = X(i.a.reg)
  BY <1>1, SidesHold DEF GeneralAt
<1>4. ~RightIsRegister(i) => v \in Int /\ y = Wrap(v)
  BY <1>3, OperandSorts DEF Held, ImmAt
<1>5. d # 12
  BY <1>3, HostApart
<1>6. EncodeCmp(i, NextIp) = FromMemory(i, NextIp) \o tail
  BY DEF EncodeCmp
<1> HIDE DEF x, y, sz
<1>7. CASE RightIsRegister(i)
  <2>1. tail = <<Sized(sz, W("SUBS", 31, d, m, 0))>>
    BY <1>7, HostApart DEF RRR
  <2> HIDE DEF d, m, g, e, tail
  <2>2. Exec(Sized(sz, W("SUBS", 31, d, m, 0)), h1) = SetFlags(h1, <<"SUB", At(sz, x), At(sz, y), sz>>)
    BY <1>3, <1>7, SubsFlags
  <2>3. Reaches(tail, h1, e)
    BY <1>2, <2>1, <2>2, ReachesFlags DEF e
  <2>4. Reaches(EncodeCmp(i, NextIp), h, e)
    BY <1>1, <1>2, <1>6, <2>3, ReachesAfter
  <2> QED BY <2>4 DEF e, x, y, g, sz
<1>8. CASE ~RightIsRegister(i)
  <2> DEFINE w == Sized(sz, W("SUBS", 31, d, 12, 0))
  <2>1. tail = emit_imm(v, 12) \o <<w>>
    BY <1>8, HostApart DEF RRR, SC1R
  <2>2. Gives(emit_imm(v, 12), h1, 12, y)
    <3>1. 12 \in 0..30
      OBVIOUS
    <3> QED BY <1>2, <1>4, <1>8, <3>1, ImmGives
  <2> HIDE DEF g, e, tail, v
  <2>3. ASSUME NEW h2 \in Hosts, Scratched(h2, h1), Wrote(h2, h1, 12, y)
        PROVE  Reaches(<<w>>, h2, e)
    <3>1. h2.x[12] = y /\ h2.x[d] = h1.x[d]
      BY <1>3, <1>5, <2>3 DEF Wrote
    <3>2. Z(h2, 12) = y /\ Z(h2, d) = x
      BY <1>3, <3>1 DEF Z
    <3>3. GuestOf(h2) = g
      BY <1>2, <2>3, ScratchedGuest
    <3>4. Exec(w, h2) = SetFlags(h2, <<"SUB", At(sz, x), At(sz, y), sz>>)
      BY <3>2, SubsFlags
    <3> QED BY <3>3, <3>4, ReachesFlags DEF e
  <2> HIDE DEF w
  <2>4. Reaches(emit_imm(v, 12) \o <<w>>, h1, e)
    <3>1. 12 \in {12, 13}
      OBVIOUS
    <3> QED BY Zenon, <1>2, <2>2, <2>3, <3>1, ReachesScratch
  <2>5. Reaches(EncodeCmp(i, NextIp), h, e)
    BY <1>1, <1>2, <1>6, <2>1, <2>4, ReachesAfter
  <2> QED BY <2>5 DEF e, x, y, g, sz
<1> QED BY <1>7, <1>8
=============================================================================
