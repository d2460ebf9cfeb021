---------------------------- MODULE ComputesProofs ----------------------------
(***************************************************************************)
(* The words compute what the instruction computes: opcode after opcode,   *)
(* then the decoded operands, then the specification.                      *)
(***************************************************************************)
EXTENDS CodecProofs

(***************************************************************************)
(* The instructions of registers.                                           *)
(***************************************************************************)
LEMMA BinaryGives ==
  ASSUME NEW s \in Sizes, NEW op \in Binary, NEW h \in Hosts, NEW d \in 0..30, NEW n \in 0..31,
         NEW m \in 0..31
  PROVE  Gives(<<Sized(s, W(op, d, n, m, 0))>>, h, d, OpAt(s, op, Z(h, n), Z(h, m)))
<1>1. op \in (DOMAIN Key) \cup {"ADD", "SUB"}
  BY DEF Binary, Key
<1>2. Z(h, n) \in Int /\ s \in Int
  BY HostNumber DEF Sizes
<1>3. Z(h, m) \in Numbers
  BY HostNumber
<1>4. Z(h, m) \in Nat
  BY <1>3, NumbersAre
<1>5. OpAt(s, op, Z(h, n), Z(h, m)) \in Numbers
  BY <1>1, <1>2, <1>4, OpAtRange
<1>6. Exec(Sized(s, W(op, d, n, m, 0)), h) = SetZ(h, d, OpAt(s, op, Z(h, n), Z(h, m)))
  BY BinaryIs
<1> QED BY <1>5, <1>6, ZGivesNumber

LEMMA ReachesReg ==
  ASSUME NEW ws, NEW h \in Hosts, NEW op, GeneralAt(op), NEW val, Gives(ws, h, X(op.reg), val)
  PROVE  Reaches(ws, h, PutR(GuestOf(h), op.reg, val))
BY ReachesGives DEF GeneralAt

\* a word that computes its first operand from both
LEMMA ComputeReaches ==
  ASSUME NEW s \in Sizes, NEW op \in Binary, NEW h \in Hosts, NEW a, NEW b, NEW o, NEW adr,
         GeneralAt(a), GeneralAt(b), GeneralAt(o), NotStack(a), NotStack(b), NotStack(o)
  PROVE  Reaches(<<Sized(s, RRR(op, o.reg, a.reg, b.reg))>>, h,
                 PutR(GuestOf(h), o.reg, OpAt(s, op, Held(s, a, GuestOf(h), adr), Held(s, b, GuestOf(h), adr))))
<1> DEFINE d == X(o.reg)
           n == X(a.reg)
           m == X(b.reg)
           val == OpAt(s, op, Z(h, n), Z(h, m))
<1>1. Z(h, n) = Held(s, a, GuestOf(h), adr) /\ n \in 0..30
  BY GeneralValue
<1>2. Z(h, m) = Held(s, b, GuestOf(h), adr) /\ m \in 0..30
  BY GeneralValue
<1>3. d \in 0..30 /\ n \in 0..31 /\ m \in 0..31
  BY <1>1, <1>2, GeneralValue
<1> HIDE DEF d, n, m
<1>4. Gives(<<Sized(s, W(op, d, n, m, 0))>>, h, d, val)
  BY <1>3, BinaryGives
<1> HIDE DEF val
<1>5. Reaches(<<Sized(s, W(op, d, n, m, 0))>>, h, PutR(GuestOf(h), o.reg, val))
  BY <1>4, ReachesReg DEF d
<1> QED BY <1>1, <1>2, <1>5 DEF RRR, val, d, n, m

LEMMA ImmReaches ==
  ASSUME NEW h \in Hosts, NEW d \in {12, 13}, NEW v \in Int, NEW u, NEW e,
         \A h1 \in Hosts : Scratched(h1, h) /\ Wrote(h1, h, d, Wrap(v)) => Reaches(u, h1, e)
  PROVE  Reaches(emit_imm(v, d) \o u, h, e)
<1>1. d \in 0..30
  OBVIOUS
<1>2. Gives(emit_imm(v, d), h, d, Wrap(v))
  BY <1>1, ImmGives
<1> QED BY Zenon, <1>2, ReachesScratch

\* the other registers hold their values when a scratch register is written
LEMMA BesideScratch ==
  ASSUME NEW h \in Hosts, NEW h1, NEW d \in {12, 13}, NEW val, Wrote(h1, h, d, val)
  PROVE  /\ h1 \in Hosts /\ Scratched(h1, h) /\ GuestOf(h1) = GuestOf(h) /\ h1.bad = h.bad
         /\ h1.x[d] = val /\ Z(h1, d) = val
         /\ \A n \in 0..31 : n # d => h1.x[n] = h.x[n] /\ Z(h1, n) = Z(h, n)
<1>1. Scratched(h1, h)
  BY ScratchedWrote
<1> QED BY <1>1, ScratchedGuest DEF Wrote, Z

LogicalOps == {"AND", "EOR", "ORR"}

LogicalSize(i) == IF i.type = "OR" THEN 64 ELSE Sf(i)

LEMMA LogicalIs ==
  ASSUME NEW i, i.type \in DOMAIN Logical, GeneralAt(i.a), GeneralAt(i.b) \/ ImmAt(i.b)
  PROVE  /\ Logical[i.type] \in LogicalOps /\ (i.type = "AND" => Logical[i.type] = "AND")
         /\ GeneralAt(i.b) /\ NotStack(i.a) =>
              EncodeLogical(i) = <<Sized(LogicalSize(i), RRR(Logical[i.type], i.a.reg, i.a.reg, i.b.reg))>>
         /\ ImmAt(i.b) /\ NotStack(i.a) =>
              EncodeLogical(i) = emit_imm(i.b.imm, 13)
                                 \o <<Sized(LogicalSize(i), W(Logical[i.type], X(i.a.reg), X(i.a.reg), 13, 0))>>
         /\ ImmAt(i.b) /\ ~NotStack(i.a) /\ i.type = "AND" =>
              EncodeLogical(i) = emit_imm(i.b.imm, 13)
                                 \o ((Copy(12, 31) \o <<Sized(LogicalSize(i), W("AND", 12, 12, 13, 0))>>) \o Copy(31, 12))
<1>1. Logical[i.type] \in LogicalOps /\ (i.type = "AND" => Logical[i.type] = "AND")
  BY DEF Logical, LogicalOps
<1>2. i.a.type = {"REG"} /\ (NotStack(i.a) <=> i.a.reg # RSP)
  BY OperandSorts DEF NotStack
<1>3. /\ GeneralAt(i.b) => i.b.type = {"REG"} /\ i.b.type # {"IMM"}
      /\ ImmAt(i.b) => i.b.type = {"IMM"}
  BY OperandSorts
<1>4. SC2R = 13 /\ SC1R = 12 /\ X(SC2) = 13 /\ X(SC1) = 12
  BY HostApart DEF SC2R, SC1R
<1>5. ASSUME GeneralAt(i.b), NotStack(i.a)
      PROVE  EncodeLogical(i) = <<Sized(LogicalSize(i), RRR(Logical[i.type], i.a.reg, i.a.reg, i.b.reg))>>
  BY <1>2, <1>3, <1>5 DEF EncodeLogical, LogicalSize
<1>6. ASSUME ImmAt(i.b), NotStack(i.a)
      PROVE  EncodeLogical(i) = emit_imm(i.b.imm, 13)
                                 \o <<Sized(LogicalSize(i), W(Logical[i.type], X(i.a.reg), X(i.a.reg), 13, 0))>>
  BY <1>2, <1>3, <1>4, <1>6 DEF EncodeLogical, LogicalSize, RRR
<1>7. ASSUME ImmAt(i.b), ~NotStack(i.a), i.type = "AND"
      PROVE  EncodeLogical(i) = emit_imm(i.b.imm, 13)
                                 \o ((Copy(12, 31) \o <<Sized(LogicalSize(i), W("AND", 12, 12, 13, 0))>>) \o Copy(31, 12))
  BY <1>2, <1>3, <1>4, <1>7 DEF EncodeLogical, LogicalSize, RRR
<1> QED BY <1>1, <1>5, <1>6, <1>7

LEMMA LogicalReaches ==
  ASSUME NEW i, i.type \in DOMAIN Logical, NEW h \in Hosts, NEW a, GeneralAt(i.a),
         GeneralAt(i.b) \/ ImmAt(i.b), NotStack(i.b),
         NotStack(i.a) \/ (i.type = "AND" /\ ImmAt(i.b))
  PROVE  Reaches(EncodeLogical(i), h,
                 PutR(GuestOf(h), i.a.reg, OpAt(LogicalSize(i), Logical[i.type], Held(LogicalSize(i), i.a, GuestOf(h), a),
                                              Held(LogicalSize(i), i.b, GuestOf(h), a))))
<1> DEFINE s == LogicalSize(i)
           op == Logical[i.type]
           g == GuestOf(h)
           x == Held(s, i.a, g, a)
           y == Held(s, i.b, g, a)
           d == X(i.a.reg)
           v == i.b.imm
           e == PutR(g, i.a.reg, OpAt(s, op, x, y))
<1>8. s \in Sizes
  BY SizesOf DEF LogicalSize
<1>1. op \in Binary
  BY LogicalIs DEF LogicalOps, Binary
<1>2. ImmAt(i.b) => v \in Int /\ y = Wrap(v)
  BY OperandSorts DEF Held, ImmAt
<1>3. d \in 0..31 /\ h.x[d] = x /\ i.a.reg \in 0..15
  BY GeneralValue DEF GeneralAt
<1>4. NotStack(i.a) => d \in 0..30 /\ Z(h, d) = x /\ d # 13
  BY <1>3, GeneralValue, HostApart
<1>5. CASE GeneralAt(i.b) /\ NotStack(i.a)
  <2>1. EncodeLogical(i) = <<Sized(s, RRR(op, i.a.reg, i.a.reg, i.b.reg))>>
    BY <1>5, LogicalIs
  <2> HIDE DEF s, op
  <2>2. Reaches(<<Sized(s, RRR(op, i.a.reg, i.a.reg, i.b.reg))>>, h, e)
    BY <1>1, <1>5, <1>8, ComputeReaches
  <2> QED BY <2>1, <2>2 DEF op, s
<1>6. CASE ImmAt(i.b) /\ NotStack(i.a)
  <2> DEFINE w == Sized(s, W(op, d, d, 13, 0))
  <2>1. EncodeLogical(i) = emit_imm(v, 13) \o <<w>>
    BY <1>6, LogicalIs
  <2> HIDE DEF s, op, x, y, d, v
  <2>2. ASSUME NEW h1 \in Hosts, Wrote(h1, h, 13, Wrap(v))
        PROVE  Reaches(<<w>>, h1, e)
    <3>1. GuestOf(h1) = g /\ Z(h1, 13) = y /\ Z(h1, d) = x
      BY <1>2, <1>3, <1>4, <1>6, <2>2, BesideScratch
    <3>2. d \in 0..30 /\ d \in 0..31 /\ 13 \in 0..31
      BY <1>4, <1>6
    <3>3. Gives(<<w>>, h1, d, OpAt(s, op, x, y))
      BY <1>1, <1>8, <3>1, <3>2, BinaryGives
    <3> HIDE DEF w
    <3> QED BY <3>1, <3>3, ReachesReg DEF d
  <2> HIDE DEF w, e
  <2>3. Reaches(emit_imm(v, 13) \o <<w>>, h, e)
    BY <1>2, <1>6, <2>2, ImmReaches
  <2> QED BY <2>1, <2>3 DEF e, s, op, x, y, v
<1>7. CASE ImmAt(i.b) /\ ~NotStack(i.a)
  <2> DEFINE u == (Copy(12, 31) \o <<Sized(s, W("AND", 12, 12, 13, 0))>>) \o Copy(31, 12)
             val == OpAt(s, "AND", x, y)
  <2>1. i.type = "AND" /\ op = "AND" /\ i.a.reg = RSP /\ d = 31
    BY <1>7, LogicalIs, HostApart DEF NotStack
  <2>2. EncodeLogical(i) = emit_imm(v, 13) \o u
    BY <1>7, <2>1, LogicalIs
  <2>3. 12 \in 0..30 /\ 12 \in 0..31 /\ 31 \in 0..31 /\ 13 \in 0..31
    OBVIOUS
  <2> HIDE DEF s, op, x, y, d, v
  <2>4. ASSUME NEW h1 \in Hosts, Wrote(h1, h, 13, Wrap(v))
        PROVE  Reaches(u, h1, e)
    <3>1. GuestOf(h1) = g /\ h1.x[13] = y /\ h1.x[31] = x
      BY <1>2, <1>3, <1>7, <2>1, <2>4, BesideScratch
    <3>2. Gives(Copy(12, 31), h1, 12, x)
      BY <2>3, <3>1, CopyGives
    <3>3. ASSUME NEW h2, Wrote(h2, h1, 12, x)
          PROVE  Gives(<<Sized(s, W("AND", 12, 12, 13, 0))>>, h2, 12, val)
      <4>1. h2 \in Hosts /\ h2.x[13] = y /\ h2.x[12] = x
        BY <3>1, <3>3, BesideScratch
      <4>2. Z(h2, 12) = x /\ Z(h2, 13) = y
        BY <4>1 DEF Z
      <4>3. "AND" \in Binary
        BY DEF Binary
      <4> QED BY <2>3, <4>1, <4>2, <4>3, <1>8, BinaryGives
    <3> DEFINE q == Copy(12, 31) \o <<Sized(s, W("AND", 12, 12, 13, 0))>>
    <3>4. Gives(q, h1, 12, val)
      BY <3>2, <3>3, GivesJoin
    <3>5. ASSUME NEW h2 \in Hosts, Wrote(h2, h1, 12, val)
          PROVE  Reaches(Copy(31, 12), h2, e)
      <4>1. GuestOf(h2) = g /\ h2.x[12] = val
        BY <3>1, <3>5, BesideScratch
      <4>2. Gives(Copy(31, 12), h2, 31, val)
        BY <2>3, <4>1, CopyGives
      <4>3. i.a.reg \in 0..15 /\ X(i.a.reg) = 31
        BY <1>3, <2>1 DEF d
      <4>4. Reaches(Copy(31, 12), h2, PutR(GuestOf(h2), i.a.reg, val))
        BY <4>2, <4>3, ReachesGives
      <4> QED BY <2>1, <4>1, <4>4
    <3> HIDE DEF q, e
    <3>6. Reaches(q \o Copy(31, 12), h1, e)
      BY <3>4, <3>5, ReachesScratch
    <3> QED BY <3>6 DEF q
  <2> HIDE DEF u, e
  <2>5. Reaches(emit_imm(v, 13) \o u, h, e)
    BY <1>2, <1>7, <2>4, ImmReaches
  <2> QED BY <2>2, <2>5 DEF e, s, op, x, y, v
<1> QED BY <1>5, <1>6, <1>7

\* by how much and how a register is shifted
ShiftOp(type) == IF type = "SHL" THEN "LSL" ELSE "ASR"

LEMMA LslGives ==
  ASSUME NEW h \in Hosts, NEW d \in 0..30, NEW n \in 0..31, NEW v \in Nat
  PROVE  Gives(<<W("LSL_IMM", d, n, 0, v)>>, h, d, Op("LSL", Z(h, n), v))
<1>1. Z(h, n) \in Int
  BY HostNumber
<1>2. "LSL" \in (DOMAIN Key) \cup {"ADD", "SUB"}
  BY DEF Key
<1>3. Op("LSL", Z(h, n), v) \in Numbers
  BY <1>1, <1>2, OpRange
<1>4. Exec(W("LSL_IMM", d, n, 0, v), h) = SetZ(h, d, Op("LSL", Z(h, n), v))
  BY ExecMoves
<1> QED BY <1>3, <1>4, ZGivesNumber

LEMMA AsrGives ==
  ASSUME NEW h \in Hosts, NEW d \in 0..30, NEW n \in 0..31, NEW v \in Nat
  PROVE  Gives(<<W("ASR_IMM", d, n, 0, v)>>, h, d, Op("ASR", Z(h, n), v))
<1>1. Z(h, n) \in Int
  BY HostNumber
<1>2. "ASR" \in (DOMAIN Key) \cup {"ADD", "SUB"}
  BY DEF Key
<1>3. Op("ASR", Z(h, n), v) \in Numbers
  BY <1>1, <1>2, OpRange
<1>4. Exec(W("ASR_IMM", d, n, 0, v), h) = SetZ(h, d, Op("ASR", Z(h, n), v))
  BY ExecMoves
<1> QED BY <1>3, <1>4, ZGivesNumber

LEMMA WholeOp ==
  ASSUME NEW op \in (DOMAIN Key) \cup {"ADD", "SUB"}, NEW x \in Int, NEW y \in Nat
  PROVE  OpAt(64, op, x, y) = Op(op, x, y)
<1>1. Op(op, x, y) \in Numbers /\ Op(op, x, y) \in Int
  BY OpRange, NumbersAre
<1> QED BY <1>1, AtWraps DEF OpAt

LEMMA ShiftReaches ==
  ASSUME NEW i, i.type \in {"SHL", "SAR"}, NEW h \in Hosts, NEW a, NEW y,
         GeneralAt(i.a), NotStack(i.a),
         \/ GeneralAt(i.b) /\ NotStack(i.b) /\ y = Held(Sf(i), i.b, GuestOf(h), a)
         \/ ImmAt(i.b) /\ y = i.b.imm % 64 /\ Sf(i) = 64
  PROVE  Reaches(EncodeShift(i), h,
                 PutR(GuestOf(h), i.a.reg, OpAt(Sf(i), ShiftOp(i.type), Held(Sf(i), i.a, GuestOf(h), a), y)))
<1> DEFINE d == X(i.a.reg)
           v == i.b.imm % 64
           op == ShiftOp(i.type)
           e == PutR(GuestOf(h), i.a.reg, OpAt(Sf(i), op, Held(Sf(i), i.a, GuestOf(h), a), y))
<1>1. i.a.type = {"REG"} /\ (GeneralAt(i.b) => i.b.type = {"REG"}) /\ (ImmAt(i.b) => i.b.type # {"REG"})
  BY OperandSorts
<1>2. CASE GeneralAt(i.b) /\ NotStack(i.b) /\ y = Held(Sf(i), i.b, GuestOf(h), a)
  <2>1. EncodeShift(i) = <<Sized(Sf(i), RRR(op, i.a.reg, i.a.reg, i.b.reg))>>
    BY <1>1, <1>2 DEF EncodeShift, ShiftOp
  <2>2. op \in Binary
    BY DEF Binary, ShiftOp
  <2> HIDE DEF op
  <2>3. Reaches(<<Sized(Sf(i), RRR(op, i.a.reg, i.a.reg, i.b.reg))>>, h, e)
    BY <1>2, <2>2, SizesOf, ComputeReaches
  <2> QED BY <2>1, <2>3 DEF op
<1>3. CASE ImmAt(i.b) /\ y = i.b.imm % 64 /\ Sf(i) = 64
  <2>1. EncodeShift(i) = IF i.type = "SHL" THEN <<W("LSL_IMM", d, d, 0, v)>> ELSE <<W("ASR_IMM", d, d, 0, v)>>
    BY <1>1, <1>3 DEF EncodeShift
  <2>2. v \in Nat
    BY <1>3 DEF ImmAt
  <2>3. d \in 0..30 /\ Z(h, d) = Held(Sf(i), i.a, GuestOf(h), a) /\ d \in 0..31
    BY GeneralValue
  <2> HIDE DEF d, v
  <2>9. \/ EncodeShift(i) = <<W("LSL_IMM", d, d, 0, v)>> /\ op = "LSL"
        \/ EncodeShift(i) = <<W("ASR_IMM", d, d, 0, v)>> /\ op = "ASR"
    BY <2>1 DEF ShiftOp
  <2> HIDE DEF op
  <2>10. ASSUME op = "LSL", EncodeShift(i) = <<W("LSL_IMM", d, d, 0, v)>>
         PROVE  Gives(EncodeShift(i), h, d, Op(op, Z(h, d), v))
    BY Zenon, <2>2, <2>3, <2>10, LslGives
  <2>11. ASSUME op = "ASR", EncodeShift(i) = <<W("ASR_IMM", d, d, 0, v)>>
         PROVE  Gives(EncodeShift(i), h, d, Op(op, Z(h, d), v))
    BY Zenon, <2>2, <2>3, <2>11, AsrGives
  <2>4. Gives(EncodeShift(i), h, d, Op(op, Z(h, d), v))
    BY <2>9, <2>10, <2>11
  <2>5. Reaches(EncodeShift(i), h, PutR(GuestOf(h), i.a.reg, Op(op, Z(h, d), v)))
    BY <2>4, ReachesReg DEF d
  <2>6. Z(h, d) \in Int
    BY <2>3, HostNumber
  <2>7. op \in (DOMAIN Key) \cup {"ADD", "SUB"}
    BY DEF op, ShiftOp, Key
  <2>8. OpAt(64, op, Z(h, d), v) = Op(op, Z(h, d), v)
    BY <2>2, <2>6, <2>7, WholeOp
  <2> QED BY <1>3, <2>3, <2>5, <2>8 DEF v, op
<1> QED BY <1>2, <1>3

LEMMA SignedNumber ==
  ASSUME NEW width, NEW v \in Int
  PROVE  Signed(width, v) \in Int
<1>1. At(width, v) \in Int /\ Count(width) \in Int
  BY AtWraps, Counts
<1> QED BY <1>1 DEF Signed

LEMMA ExtendReaches ==
  ASSUME NEW o, NEW op, NEW h \in Hosts, NEW a, NEW s,
         GeneralAt(o), GeneralAt(op), NotStack(o), NotStack(op)
  PROVE  Reaches(<<RRR("SXTW", o.reg, op.reg, 0)>>, h,
                 PutR(GuestOf(h), o.reg, Wrap(Signed(32, Held(s, op, GuestOf(h), a)))))
<1> DEFINE d == X(o.reg)
           n == X(op.reg)
<1>1. d \in 0..30
  BY GeneralValue
<1>2. n \in 0..31 /\ Z(h, n) = Held(s, op, GuestOf(h), a)
  BY GeneralValue
<1>3. Signed(32, Z(h, n)) \in Int
  BY <1>2, HostNumber, SignedNumber
<1>4. Exec(W("SXTW", d, n, X(0), 0), h) = SetZ(h, d, Signed(32, Z(h, n)))
  BY ExecMoves
<1>5. Gives(<<W("SXTW", d, n, X(0), 0)>>, h, d, Wrap(Signed(32, Z(h, n))))
  BY <1>1, <1>3, <1>4, ZGives
<1> HIDE DEF n
<1>6. Reaches(<<W("SXTW", d, n, X(0), 0)>>, h, PutR(GuestOf(h), o.reg, Wrap(Signed(32, Z(h, n)))))
  BY <1>5, ReachesReg
<1> QED BY <1>2, <1>6 DEF RRR, n

LEMMA MoveReaches ==
  ASSUME NEW i, NEW h \in Hosts, NEW a, NEW s, GeneralAt(i.a), GeneralAt(i.b)
  PROVE  Reaches(Move(i), h, PutR(GuestOf(h), i.a.reg, At(Sf(i), Held(s, i.b, GuestOf(h), a))))
<1> DEFINE d == X(i.a.reg)
           n == X(i.b.reg)
<1>1. d \in 0..31
  BY GeneralValue
<1>2. n \in 0..31 /\ h.x[n] = Held(s, i.b, GuestOf(h), a)
  BY GeneralValue
<1>3. Gives(Move(i), h, d, At(Sf(i), h.x[n]))
  BY <1>1, <1>2, MoveGives
<1> HIDE DEF n
<1>4. Reaches(Move(i), h, PutR(GuestOf(h), i.a.reg, At(Sf(i), h.x[n])))
  BY <1>3, ReachesReg
<1> QED BY <1>2, <1>4

LEMMA ImmRegReaches ==
  ASSUME NEW o, NEW op, NEW h \in Hosts, NEW a, NEW s, GeneralAt(o), NotStack(o), ImmAt(op)
  PROVE  Reaches(emit_imm(op.imm, X(o.reg)), h, PutR(GuestOf(h), o.reg, Held(s, op, GuestOf(h), a)))
<1>1. X(o.reg) \in 0..30
  BY GeneralValue
<1>2. Held(s, op, GuestOf(h), a) = Wrap(op.imm) /\ op.imm \in Int
  BY OperandSorts DEF Held, ImmAt
<1>3. Gives(emit_imm(op.imm, X(o.reg)), h, X(o.reg), Wrap(op.imm))
  BY <1>1, <1>2, ImmGives
<1> QED BY <1>2, <1>3, ReachesReg

LEMMA TestReaches ==
  ASSUME NEW o, NEW op, NEW h \in Hosts, NEW a, NEW s,
         GeneralAt(o), GeneralAt(op), NotStack(o), NotStack(op)
  PROVE  Reaches(<<Sized(s, RRR("ANDS", XZR, o.reg, op.reg))>>, h,
                 SetFlags(GuestOf(h), <<"AND", At(s, Held(s, o, GuestOf(h), a)),
                                       At(s, Held(s, op, GuestOf(h), a)), s>>))
<1> DEFINE n == X(o.reg)
           m == X(op.reg)
<1>1. Z(h, n) = Held(s, o, GuestOf(h), a)
  BY GeneralValue
<1>2. Z(h, m) = Held(s, op, GuestOf(h), a)
  BY GeneralValue
<1>3. RRR("ANDS", XZR, o.reg, op.reg) = W("ANDS", 31, n, m, 0)
  BY HostApart DEF RRR
<1> HIDE DEF n, m
<1>4. Exec(Sized(s, W("ANDS", 31, n, m, 0)), h) = SetFlags(h, <<"AND", At(s, Z(h, n)), At(s, Z(h, m)), s>>)
  BY AndsFlags
<1> QED BY <1>1, <1>2, <1>3, <1>4, ReachesFlags


(***************************************************************************)
(* The instructions of memory.                                              *)
(***************************************************************************)
LEMMA AddressReaches ==
  ASSUME NEW op, NEW prefix, NEW h \in Hosts, NEW a, MemAt(op, prefix, GuestOf(h), a), NEW u, NEW e,
         \A h1 \in Hosts : Scratched(h1, h) /\ h1.x[12] = a => Reaches(u, h1, e)
  PROVE  Reaches(emit_address_decode(op, SC1R, prefix, NextIp) \o u, h, e)
<1>1. Gives(emit_address_decode(op, SC1R, prefix, NextIp), h, 12, a)
  BY DEF MemAt
<1>2. \A h1 \in Hosts : Scratched(h1, h) /\ Wrote(h1, h, 12, a) => Reaches(u, h1, e)
  BY DEF Wrote
<1>3. 12 \in {12, 13}
  OBVIOUS
<1> QED BY Zenon, <1>1, <1>2, <1>3, ReachesScratch

LEMMA ScratchedMemAt ==
  ASSUME NEW op, NEW prefix, NEW h, NEW h1, NEW a, MemAt(op, prefix, GuestOf(h), a), Scratched(h1, h)
  PROVE  MemAt(op, prefix, GuestOf(h1), a)
BY ScratchedGuest

LEMMA LoadReaches ==
  ASSUME NEW o, GeneralAt(o), NotStack(o), NEW op, NEW prefix, NEW h \in Hosts, NEW a,
         MemAt(op, prefix, GuestOf(h), a), NEW s
  PROVE  Reaches(emit_load(X(o.reg), op, s, prefix, NextIp), h, PutR(GuestOf(h), o.reg, At(s, Load(a))))
<1> DEFINE d == X(o.reg)
           ws == emit_load(d, op, s, prefix, NextIp)
<1>1. d \in 0..30 /\ o.reg \in 0..15
  BY GeneralValue DEF GeneralAt
<1>2. Loaded(ws, op, s, h, d, a)
  BY <1>1, LoadGives
<1> HIDE DEF ws
<1>3. PICK h1, h2 : Runs(ws, h, h2) /\ Scratched(h1, h) /\ Wrote(h2, h1, d, At(s, Load(a)))
  BY <1>2 DEF Loaded
<1>4. GuestOf(h1) = GuestOf(h) /\ h1 \in Hosts /\ h1.bad = h.bad
  BY <1>3, ScratchedGuest
<1>5. GuestOf(h2) = PutR(GuestOf(h1), o.reg, At(s, Load(a)))
  BY <1>1, <1>3, <1>4, GuestWrote DEF PutR
<1>6. h2.bad = h.bad
  BY <1>3, <1>4 DEF Wrote
<1> QED BY <1>3, <1>4, <1>5, <1>6 DEF Reaches, ws

\* what a word that widens loads
Widened(word, v) ==
  CASE word = "LDRB" -> At(8, v) [] word = "LDRH" -> At(16, v)
    [] word = "LDRSB" -> Wrap(Signed(8, v)) [] word = "LDRSH" -> Wrap(Signed(16, v))

LEMMA WidenedGives ==
  ASSUME NEW h \in Hosts, NEW d \in 0..30, NEW word \in {"LDRB", "LDRH", "LDRSB", "LDRSH"}
  PROVE  Gives(<<R2(word, d, 12)>>, h, d, Widened(word, Load(h.x[12])))
<1> DEFINE v == Load(h.x[12])
<1>1. h.x[12] \in Int /\ h.x[12] + 0 = h.x[12]
  BY HostNumber
<1>2. v \in Int
  BY <1>1, LoadRange, NumbersAre
<1>3. At(8, v) \in Numbers /\ At(16, v) \in Numbers /\ Signed(8, v) \in Int /\ Signed(16, v) \in Int
  BY <1>2, AtWraps, SignedNumber
<1>4. /\ Exec(W("LDRB", d, 12, 0, 0), h) = SetZ(h, d, At(8, v))
      /\ Exec(W("LDRH", d, 12, 0, 0), h) = SetZ(h, d, At(16, v))
      /\ Exec(W("LDRSB", d, 12, 0, 0), h) = SetZ(h, d, Signed(8, v))
      /\ Exec(W("LDRSH", d, 12, 0, 0), h) = SetZ(h, d, Signed(16, v))
  <2> HIDE DEF v
  <2> QED BY <1>1, ExecMoves DEF v
<1> HIDE DEF v
<1>5. CASE word = "LDRB"
  <2>1. Gives(<<W("LDRB", d, 12, 0, 0)>>, h, d, At(8, v))
    BY <1>3, <1>4, ZGivesNumber
  <2> QED BY <1>5, <2>1 DEF R2, Widened, v
<1>6. CASE word = "LDRH"
  <2>1. Gives(<<W("LDRH", d, 12, 0, 0)>>, h, d, At(16, v))
    BY <1>3, <1>4, ZGivesNumber
  <2> QED BY <1>6, <2>1 DEF R2, Widened, v
<1>7. CASE word = "LDRSB"
  <2>1. Gives(<<W("LDRSB", d, 12, 0, 0)>>, h, d, Wrap(Signed(8, v)))
    BY <1>3, <1>4, ZGives
  <2> QED BY <1>7, <2>1 DEF R2, Widened, v
<1>8. CASE word = "LDRSH"
  <2>1. Gives(<<W("LDRSH", d, 12, 0, 0)>>, h, d, Wrap(Signed(16, v)))
    BY <1>3, <1>4, ZGives
  <2> QED BY <1>8, <2>1 DEF R2, Widened, v
<1> QED BY <1>5, <1>6, <1>7, <1>8

LEMMA WidenLoadReaches ==
  ASSUME NEW o, GeneralAt(o), NotStack(o), NEW op, NEW prefix, NEW h \in Hosts, NEW a,
         MemAt(op, prefix, GuestOf(h), a), NEW word \in {"LDRB", "LDRH", "LDRSB", "LDRSH"}
  PROVE  Reaches(emit_address_decode(op, SC1R, prefix, NextIp) \o <<R2(word, X(o.reg), SC1R)>>, h,
                 PutR(GuestOf(h), o.reg, Widened(word, Load(a))))
<1> DEFINE d == X(o.reg)
           u == <<R2(word, d, 12)>>
           e == PutR(GuestOf(h), o.reg, Widened(word, Load(a)))
<1>1. d \in 0..30 /\ SC1R = 12
  BY GeneralValue DEF SC1R
<1>2. ASSUME NEW h1 \in Hosts, Scratched(h1, h), h1.x[12] = a
      PROVE  Reaches(u, h1, e)
  <2>1. Gives(u, h1, d, Widened(word, Load(h1.x[12])))
    BY Zenon, <1>1, WidenedGives
  <2>2. Gives(u, h1, d, Widened(word, Load(a)))
    BY <1>2, <2>1
  <2>3. GuestOf(h1) = GuestOf(h)
    BY <1>2, ScratchedGuest
  <2> HIDE DEF u
  <2>4. Reaches(u, h1, PutR(GuestOf(h1), o.reg, Widened(word, Load(a))))
    BY <2>2, ReachesReg
  <2> QED BY <2>3, <2>4
<1> HIDE DEF u, e
<1>3. Reaches(emit_address_decode(op, SC1R, prefix, NextIp) \o u, h, e)
  BY <1>2, AddressReaches
<1> QED BY <1>1, <1>3 DEF u, e

LEMMA StoreRegReaches ==
  ASSUME NEW op, NEW prefix, NEW h \in Hosts, NEW a, MemAt(op, prefix, GuestOf(h), a),
         NEW rd \in 0..31, rd # 12, NEW s
  PROVE  Reaches(emit_store(rd, op, s, prefix, TRUE, NextIp), h, Stores(GuestOf(h), a, s, Z(h, rd)))
<1>1. NearAt(op, GuestOf(h), a)
  BY DEF MemAt
<1>2. TRUE \in BOOLEAN
  OBVIOUS
<1> QED BY Zenon, <1>1, <1>2, StoreReaches

LEMMA MovReaches ==
  ASSUME NEW i, NEW h \in Hosts, NEW a,
         Fit(i.a, i.prefix, GuestOf(h), a), Fit(i.b, i.prefix, GuestOf(h), a),
         ~IsMem(i.a) \/ ~IsMem(i.b), i.a.type # {"IMM"},
         (GeneralAt(i.a) /\ GeneralAt(i.b)) \/ (NotStack(i.a) /\ NotStack(i.b)),
         GeneralAt(i.a) /\ ImmAt(i.b) => At(Sf(i), Wrap(i.b.imm)) = Wrap(i.b.imm)
  PROVE  Reaches(EncodeMov(i, NextIp), h,
                 Stored(Sf(i), i.a, GuestOf(h), a, At(Sf(i), Held(Sf(i), i.b, GuestOf(h), a))))
<1> DEFINE g == GuestOf(h)
           s == Sf(i)
           y == Held(s, i.b, g, a)
           e == Stored(s, i.a, g, a, At(s, y))
<1>1. /\ IsMem(i.a) => MemAt(i.a, i.prefix, g, a)
      /\ IsMem(i.b) => MemAt(i.b, i.prefix, g, a)
      /\ ~IsMem(i.a) => GeneralAt(i.a)
      /\ ~IsMem(i.b) => GeneralAt(i.b) \/ ImmAt(i.b)
  BY FitSorts, OperandSorts
<1>8. y \in Int
  BY GuestFields, ValueNumber
<1>9. IsMem(i.a) => e = Stores(g, a, s, y)
  <2> HIDE DEF y
  <2> QED BY <1>8, AtWraps DEF Stored, Stores
<1>2. CASE GeneralAt(i.a) /\ GeneralAt(i.b)
  <2>1. EncodeMov(i, NextIp) = Move(i)
    <3>1. i.a.type = {"REG"} /\ i.b.type = {"REG"} /\ i.b.type # {"IMM"} /\ ~IsMem(i.a) /\ ~IsMem(i.b)
      BY <1>2, OperandSorts
    <3> QED BY <3>1 DEF EncodeMov
  <2>2. e = PutR(g, i.a.reg, At(s, y))
    BY <1>2, OperandSorts DEF Stored
  <2> QED BY <1>2, <2>1, <2>2, MoveReaches
<1>3. CASE GeneralAt(i.a) /\ ImmAt(i.b)
  <2>1. EncodeMov(i, NextIp) = emit_imm(i.b.imm, X(i.a.reg))
    <3>1. i.a.type = {"REG"} /\ i.b.type = {"IMM"} /\ i.b.type # {"REG"} /\ ~IsMem(i.a) /\ ~IsMem(i.b)
      BY <1>3, OperandSorts
    <3> QED BY <3>1 DEF EncodeMov
  <2>2. e = PutR(g, i.a.reg, y)
    BY <1>3, OperandSorts DEF Stored, Held
  <2>3. NotStack(i.a)
    BY <1>3, OperandSorts
  <2> QED BY <1>3, <2>1, <2>2, <2>3, ImmRegReaches
<1>4. CASE IsMem(i.b)
  <2>1. GeneralAt(i.a) /\ NotStack(i.a)
    BY <1>1, <1>4, OperandSorts
  <2>2. EncodeMov(i, NextIp) = emit_load(X(i.a.reg), i.b, s, i.prefix, NextIp)
    BY <1>4, OperandSorts DEF EncodeMov
  <2>3. e = PutR(g, i.a.reg, At(s, Load(a)))
    <3>1. a \in Int /\ Load(a) \in Int
      BY <1>1, <1>4, OperandSorts, LoadRange, NumbersAre
    <3>2. y = At(s, Load(a)) /\ At(s, At(s, Load(a))) = At(s, Load(a))
      BY <1>4, <3>1, AtWraps DEF Held
    <3> QED BY <2>1, <3>2, OperandSorts DEF Stored
  <2> QED BY <1>1, <1>4, <2>1, <2>2, <2>3, LoadReaches
<1>5. CASE IsMem(i.a) /\ GeneralAt(i.b)
  <2> DEFINE d == X(i.b.reg)
  <2>1. NotStack(i.b) /\ ~IsMem(i.b) /\ i.b.type # {"IMM"} /\ i.a.type # {"REG"}
    BY <1>5, OperandSorts
  <2>2. EncodeMov(i, NextIp) = emit_store(d, i.a, s, i.prefix, TRUE, NextIp)
    BY <1>5, <2>1 DEF EncodeMov
  <2>3. d \in 0..30 /\ Z(h, d) = y /\ d # 12 /\ i.b.reg \in 0..15
    <3>1. i.b.reg \in 0..15
      BY <1>5 DEF GeneralAt
    <3> QED BY <1>5, <2>1, <3>1, GeneralValue, HostApart
  <2>4. e = Stores(g, a, s, Z(h, d))
    BY <1>5, <1>9, <2>3
  <2>5. d \in 0..31
    BY <2>3
  <2> HIDE DEF d, e
  <2> QED BY <1>1, <1>5, <2>2, <2>3, <2>4, <2>5, StoreRegReaches DEF e
<1>6. CASE IsMem(i.a) /\ ImmAt(i.b) /\ i.b.imm = 0
  <2>1. ~IsMem(i.b) /\ i.b.type = {"IMM"} /\ i.a.type # {"REG"}
    BY <1>6, OperandSorts
  <2>2. EncodeMov(i, NextIp) = emit_store(31, i.a, s, i.prefix, TRUE, NextIp)
    BY <1>6, <2>1, HostApart DEF EncodeMov
  <2>3. Z(h, 31) = 0
    BY DEF Z
  <2>4. y = 0
    <3>1. 0 \in Numbers /\ 0 \in Int
      BY ValuesAssumption DEF Numbers
    <3> QED BY <1>6, <2>1, <3>1, Wraps DEF Held
  <2>5. e = Stores(g, a, s, Z(h, 31))
    BY <1>6, <1>9, <2>3, <2>4
  <2>6. 31 \in 0..31 /\ 31 # 12
    OBVIOUS
  <2> HIDE DEF e
  <2> QED BY <1>1, <1>6, <2>2, <2>5, <2>6, StoreRegReaches DEF e
<1>7. CASE IsMem(i.a) /\ ImmAt(i.b) /\ i.b.imm # 0
  <2> DEFINE v == i.b.imm
             u == emit_store(13, i.a, s, i.prefix, TRUE, NextIp)
  <2>1. ~IsMem(i.b) /\ i.b.type = {"IMM"} /\ i.a.type # {"REG"} /\ v \in Int
    BY <1>7, OperandSorts DEF ImmAt
  <2>2. EncodeMov(i, NextIp) = emit_imm(v, 13) \o u
    BY <1>7, <2>1 DEF EncodeMov, SC2R
  <2>3. e = Stores(g, a, s, Wrap(v))
    BY <1>7, <1>9, <2>1 DEF Held
  <2>4. ASSUME NEW h1 \in Hosts, Wrote(h1, h, 13, Wrap(v))
        PROVE  Reaches(u, h1, e)
    <3>1. Scratched(h1, h) /\ GuestOf(h1) = g /\ Z(h1, 13) = Wrap(v)
      BY <2>4, BesideScratch
    <3>2. MemAt(i.a, i.prefix, GuestOf(h1), a)
      BY <1>1, <1>7, <3>1
    <3>3. 13 \in 0..31 /\ 13 # 12
      OBVIOUS
    <3>4. Reaches(u, h1, Stores(GuestOf(h1), a, s, Z(h1, 13)))
      BY <3>2, <3>3, StoreRegReaches
    <3> QED BY <2>3, <3>1, <3>4
  <2> HIDE DEF u, e, v
  <2>5. Reaches(emit_imm(v, 13) \o u, h, e)
    BY <2>1, <2>4, ImmReaches
  <2> QED BY <2>2, <2>5 DEF e
<1> QED BY <1>1, <1>2, <1>3, <1>4, <1>5, <1>6, <1>7

LEMMA WidenReaches ==
  ASSUME NEW i, i.type \in DOMAIN Widening, NEW h \in Hosts, NEW a, GeneralAt(i.a), NotStack(i.a),
         MemAt(i.b, i.prefix, GuestOf(h), a)
  PROVE  Reaches(EncodeWiden(i, NextIp), h,
                 PutR(GuestOf(h), i.a.reg, Widened(Widening[i.type], Load(a))))
<1> DEFINE word == Widening[i.type]
<1>1. i.a.type = {"REG"} /\ ~IsMem(i.a) /\ IsMem(i.b) /\ i.b.type # {"REG"} /\ i.b.type # {"IMM"}
  BY OperandSorts
<1>2. word \in {"LDRB", "LDRH", "LDRSB", "LDRSH"}
  BY DEF Widening
<1>3. EncodeWiden(i, NextIp) = emit_address_decode(i.b, SC1R, i.prefix, NextIp)
                               \o <<R2(word, X(i.a.reg), SC1R)>>
  BY <1>1 DEF EncodeWiden, Addr
<1> HIDE DEF word
<1> QED BY <1>2, <1>3, WidenLoadReaches DEF word

LEMMA TwoJoined == ASSUME NEW w, NEW z PROVE <<w>> \o <<z>> = <<w, z>>
<1> DEFINE s == <<w>>
           u == <<z>>
           t == <<w, z>>
<1>1. s \in Seq({w, z}) /\ u \in Seq({w, z}) /\ t \in Seq({w, z}) /\ Len(s) = 1 /\ Len(u) = 1 /\ Len(t) = 2
  OBVIOUS
<1>2. s[1] = w /\ u[1] = z /\ t[1] = w /\ t[2] = z
  OBVIOUS
<1> HIDE DEF s, u, t
<1>3. s \o u \in Seq({w, z}) /\ Len(s \o u) = 2 /\ (s \o u)[1] = w /\ (s \o u)[2] = z
  BY <1>1, <1>2, ConcatProperties
<1>4. s \o u = t
  <2>1. Len(s \o u) = Len(t) /\ \A k \in 1..Len(s \o u) : (s \o u)[k] = t[k]
    BY <1>1, <1>2, <1>3
  <2> QED BY <1>1, <1>3, <2>1, SeqEqual
<1> QED BY <1>4 DEF s, u, t

\* CLTQ
LEMMA SignReaches ==
  ASSUME NEW h \in Hosts
  PROVE  Reaches(<<RRR("SXTW", RAX, RAX, 0)>>, h, PutR(GuestOf(h), 0, Wrap(Signed(32, GuestOf(h).r[0]))))
<1> DEFINE x == h.x[8]
<1>1. RRR("SXTW", RAX, RAX, 0) = W("SXTW", 8, 8, 8, 0) /\ X(0) = 8
  BY NamedRegisters DEF RRR, RAX
<1>2. 8 \in 0..30 /\ 8 \in 0..31 /\ 0 \in 0..15
  OBVIOUS
<1>3. Z(h, 8) = x /\ GuestOf(h).r[0] = x /\ x \in Int
  BY <1>1, <1>2, GuestFields, HostNumber
<1>4. Exec(W("SXTW", 8, 8, 8, 0), h) = SetZ(h, 8, Signed(32, Z(h, 8)))
  BY ExecMoves
<1> HIDE DEF x
<1>5. Gives(<<W("SXTW", 8, 8, 8, 0)>>, h, 8, Wrap(Signed(32, x)))
  BY <1>2, <1>3, <1>4, SignedNumber, ZGives
<1>6. Reaches(<<W("SXTW", 8, 8, 8, 0)>>, h, PutR(GuestOf(h), 0, Wrap(Signed(32, x))))
  BY <1>1, <1>2, <1>5, ReachesGives
<1> QED BY <1>1, <1>3, <1>6

LEMMA ReachesJump ==
  ASSUME NEW h \in Hosts, NEW w, NEW a, Exec(w, h) = [h EXCEPT !.target = a]
  PROVE  Reaches(<<w>>, h, Jumps(GuestOf(h), a))
<1>1. GuestOf([h EXCEPT !.target = a]) = Jumps(GuestOf(h), a) /\ [h EXCEPT !.target = a].bad = h.bad
  BY GuestRest DEF Jumps
<1> QED BY <1>1, ReachesWord

LEMMA BrkReaches ==
  ASSUME NEW h \in Hosts, NEW v \in Int
  PROVE  Reaches(<<W("BRK", 0, 0, 0, v)>>, h, Jumps(GuestOf(h), Wrap(v)))
<1>1. Exec(W("BRK", 0, 0, 0, v), h) = [h EXCEPT !.target = Wrap(v)]
  BY ExecBranches DEF Wrap
<1> QED BY <1>1, ReachesJump

LEMMA BranchIs ==
  ASSUME NEW h, NEW d, NEW n, NEW op \in {"BR", "BLR"}
  PROVE  Exec(R2(op, d, n), h) = [h EXCEPT !.target = Z(h, n)]
BY ExecBranches DEF R2

LEMMA BranchReaches ==
  ASSUME NEW i, NEW op \in {"BR", "BLR"}, NEW h \in Hosts, NEW a,
         \/ GeneralAt(i.a) /\ NotStack(i.a)
         \/ ImmAt(i.a)
         \/ MemAt(i.a, "none", GuestOf(h), a)
  PROVE  Reaches(emit_branch(i, op, NextIp), h,
                 Jumps(GuestOf(h), IF ImmAt(i.a) THEN Wrap(NextIp + i.a.imm) ELSE Held(64, i.a, GuestOf(h), a)))
<1> DEFINE g == GuestOf(h)
<1>1. CASE GeneralAt(i.a) /\ NotStack(i.a)
  <2>1. i.a.type = {"REG"} /\ i.a.type # {"IMM"} /\ ~ImmAt(i.a)
    BY <1>1, OperandSorts DEF ImmAt
  <2>2. emit_branch(i, op, NextIp) = <<R2(op, 0, X(i.a.reg))>>
    BY <2>1 DEF emit_branch
  <2>3. Z(h, X(i.a.reg)) = Held(64, i.a, g, a)
    BY <1>1, GeneralValue
  <2>4. Exec(R2(op, 0, X(i.a.reg)), h) = [h EXCEPT !.target = Held(64, i.a, g, a)]
    BY <2>3, BranchIs
  <2> QED BY <2>1, <2>2, <2>4, ReachesJump
<1>2. CASE ImmAt(i.a)
  <2>1. i.a.type # {"REG"} /\ i.a.type = {"IMM"} /\ NextIp + i.a.imm \in Int
    BY <1>2, OperandSorts, ValuesAssumption DEF ImmAt
  <2>2. emit_branch(i, op, NextIp) = <<W("BRK", 0, 0, 0, NextIp + i.a.imm)>>
    BY <2>1 DEF emit_branch
  <2> QED BY <1>2, <2>1, <2>2, BrkReaches
<1>3. CASE MemAt(i.a, "none", g, a)
  <2> DEFINE s == <<R2("LDR", 12, 12)>>
             u == <<R2(op, 0, 12)>>
             e == Jumps(g, Load(a))
  <2>1. IsMem(i.a) /\ i.a.type # {"REG"} /\ i.a.type # {"IMM"} /\ ~ImmAt(i.a)
    BY <1>3, OperandSorts
  <2>2. emit_branch(i, op, NextIp) = emit_address_decode(i.a, SC1R, "none", NextIp) \o (s \o u)
    BY <2>1 DEF emit_branch, SC1R
  <2>7. a \in Int /\ Load(a) \in Numbers /\ Load(a) \in Int
    BY <1>3, OperandSorts, LoadRange, NumbersAre
  <2>3. Held(64, i.a, g, a) = Load(a)
    BY <2>1, <2>7, AtWraps DEF Held
  <2>4. 12 \in 0..30 /\ 12 \in 0..31 /\ 12 \in {12, 13} /\ 0 \in Int
    OBVIOUS
  <2>5. ASSUME NEW h1 \in Hosts, Scratched(h1, h), h1.x[12] = a
        PROVE  Reaches(s \o u, h1, e)
    <3>1. GuestOf(h1) = g
      BY <2>5, ScratchedGuest
    <3>2. Gives(<<Sized(64, R2("LDR", 12, 12))>>, h1, 12, At(64, Load(h1.x[12])))
      BY Zenon, <2>4, LdrGives
    <3>5. Sized(64, R2("LDR", 12, 12)) = R2("LDR", 12, 12)
      BY SizedIs DEF R2
    <3>6. At(64, Load(a)) = Load(a)
      BY <2>7, AtWraps
    <3>3. Gives(s, h1, 12, Load(a))
      BY <2>5, <3>2, <3>5, <3>6
    <3>4. ASSUME NEW h2 \in Hosts, Wrote(h2, h1, 12, Load(a))
          PROVE  Reaches(u, h2, e)
      <4>1. GuestOf(h2) = g /\ Z(h2, 12) = Load(a)
        BY <2>4, <3>1, <3>4, BesideScratch
      <4>2. Exec(R2(op, 0, 12), h2) = [h2 EXCEPT !.target = Load(a)]
        BY <4>1, BranchIs
      <4> QED BY <4>1, <4>2, ReachesJump
    <3> HIDE DEF s, u, e
    <3> QED BY Zenon, <2>4, <3>3, <3>4, ReachesScratch
  <2> HIDE DEF s, u, e
  <2>6. Reaches(emit_address_decode(i.a, SC1R, "none", NextIp) \o (s \o u), h, e)
    BY <1>3, <2>5, AddressReaches
  <2> QED BY <2>1, <2>2, <2>3, <2>6 DEF e
<1> QED BY <1>1, <1>2, <1>3

(* Instructions of eight bits.                                              *)
LEMMA StrbScratch ==
  ASSUME NEW h \in Hosts, NEW d
  PROVE  Reaches(<<R2("STRB", d, 12)>>, h, Stores(GuestOf(h), h.x[12], 8, Z(h, d)))
<1>1. h.x[12] \in Numbers /\ h.x[12] \in Int
  BY HostNumber
<1>2. h.x[12] + 0 = h.x[12] /\ (h.x[12] % P) = h.x[12]
  BY <1>1, Wraps DEF Wrap
<1>3. Exec(R2("STRB", d, 12), h) = Store(h, h.x[12], 8, Z(h, d))
  BY <1>2, ExecMoves DEF R2
<1>4. Exec(R2("STRB", d, 12), h) = Stores(h, h.x[12], 8, Z(h, d))
  BY <1>2, <1>3 DEF Store, Stores
<1> QED BY <1>4, ReachesStore

LEMMA Mov8Reaches ==
  ASSUME NEW i, NEW h \in Hosts, NEW a, MemAt(i.a, i.prefix, GuestOf(h), a),
         (GeneralAt(i.b) /\ NotStack(i.b)) \/ ImmAt(i.b)
  PROVE  Reaches(Mov8(i, NextIp), h, Stores(GuestOf(h), a, 8, Held(8, i.b, GuestOf(h), a)))
<1> DEFINE g == GuestOf(h)
           y == Held(8, i.b, g, a)
           e == Stores(g, a, 8, y)
           s == emit_address_decode(i.a, SC1R, i.prefix, NextIp)
<1>1. IsMem(i.a)
  BY OperandSorts
<1>2. CASE GeneralAt(i.b) /\ NotStack(i.b)
  <2> DEFINE d == X(i.b.reg)
             u == <<R2("STRB", d, 12)>>
  <2>1. Mov8(i, NextIp) = s \o u
    BY <1>1, <1>2, OperandSorts DEF Mov8, Addr, SC1R
  <2>2. d \in 0..30 /\ Z(h, d) = y /\ i.b.reg \in 0..15
    <3>1. i.b.reg \in 0..15
      BY <1>2 DEF GeneralAt
    <3> QED BY <1>2, <3>1, GeneralValue
  <2>3. d # 12 /\ d # 13
    BY <2>2, HostApart
  <2> HIDE DEF d, y
  <2>4. ASSUME NEW h1 \in Hosts, Scratched(h1, h), h1.x[12] = a
        PROVE  Reaches(u, h1, e)
    <3>1. GuestOf(h1) = g
      BY <2>4, ScratchedGuest
    <3>2. Z(h1, d) = y
      BY <2>2, <2>3, <2>4 DEF Scratched, Z
    <3> QED BY <2>4, <3>1, <3>2, StrbScratch
  <2> HIDE DEF s, u, e
  <2>5. Reaches(s \o u, h, e)
    BY <2>4, AddressReaches DEF s
  <2> QED BY <2>1, <2>5 DEF e, y
<1>3. CASE ImmAt(i.b)
  <2> DEFINE v == i.b.imm
             u == <<R2("STRB", 13, 12)>>
             t == emit_imm(v, 13)
  <2>1. Mov8(i, NextIp) = s \o (t \o u)
    BY <1>1, <1>3, OperandSorts DEF Mov8, Addr, SC1R, SC2R
  <2>2. y = Wrap(v) /\ v \in Int
    BY <1>3, OperandSorts DEF Held, ImmAt
  <2> HIDE DEF y
  <2>3. ASSUME NEW h1 \in Hosts, Scratched(h1, h), h1.x[12] = a
        PROVE  Reaches(t \o u, h1, e)
    <3>1. GuestOf(h1) = g
      BY <2>3, ScratchedGuest
    <3>2. ASSUME NEW h2 \in Hosts, Wrote(h2, h1, 13, Wrap(v))
          PROVE  Reaches(u, h2, e)
      <4>1. GuestOf(h2) = g /\ Z(h2, 13) = y
        BY <2>2, <3>1, <3>2, BesideScratch
      <4>2. h2.x[12] = a
        <5>1. 12 \in 0..31 /\ 12 # 13 /\ 13 \in {12, 13}
          OBVIOUS
        <5> QED BY <2>3, <3>2, <5>1, BesideScratch
      <4> QED BY <4>1, <4>2, StrbScratch
    <3> HIDE DEF u, e
    <3> QED BY <2>2, <3>2, ImmReaches
  <2> HIDE DEF s, t, u, e
  <2>4. Reaches(s \o (t \o u), h, e)
    BY <2>3, AddressReaches DEF s
  <2> QED BY <2>1, <2>4 DEF e, y
<1> QED BY <1>2, <1>3

(***************************************************************************)
(* The instructions of vector registers.                                    *)
(***************************************************************************)
XmmAt(op) == op.type = {"REG", "XMM"} /\ op.reg \in 0..15
ValueV(s, op, g, a) == IF IsMem(op) THEN At(s, Load(a)) ELSE g.v[op.reg]

LEMMA XmmSorts ==
  ASSUME NEW op
  PROVE  /\ XmmAt(op) => /\ ~IsMem(op) /\ op.type # {"REG"} /\ op.type # {"IMM"} /\ Xmm(op)
                         /\ "XMM" \in op.type
         /\ IsMem(op) => ~Xmm(op) /\ op.type # {"REG"}
         /\ GeneralAt(op) => "XMM" \notin op.type /\ ~Xmm(op)
BY DEF XmmAt, GeneralAt, IsMem, Xmm

LEMMA VectorNumber ==
  ASSUME NEW h \in Hosts, NEW n \in 0..16
  PROVE  h.v[n] \in Numbers /\ h.v[n] \in Int
BY NumbersAre DEF Hosts

LEMMA XmmValue ==
  ASSUME NEW h \in Hosts, NEW op, XmmAt(op), NEW a, NEW s
  PROVE  op.reg \in 0..15 /\ op.reg \in 0..16 /\ h.v[op.reg] = ValueV(s, op, GuestOf(h), a)
<1>1. op.reg \in 0..15 /\ op.reg \in 0..16
  BY DEF XmmAt
<1>2. GuestOf(h).v[op.reg] = h.v[op.reg]
  BY <1>1, GuestFields
<1> QED BY <1>1, <1>2, XmmSorts DEF ValueV

\* a word that writes a vector register
LEMMA VectorReaches ==
  ASSUME NEW h \in Hosts, NEW k \in 0..15, NEW val \in Numbers, NEW w, Exec(w, h) = SetV(h, k, val)
  PROVE  Reaches(<<w>>, h, PutV(GuestOf(h), k, val))
<1>1. k \in 0..16
  OBVIOUS
<1>2. WroteV(SetV(h, k, val), h, k, val)
  BY <1>1, SetVWrote
<1>3. GuestOf(SetV(h, k, val)) = PutV(GuestOf(h), k, val)
  BY <1>2, GuestWroteV DEF PutV
<1>4. SetV(h, k, val).bad = h.bad
  BY <1>2 DEF WroteV
<1> QED BY <1>3, <1>4, ReachesWord

(* What the words on vector registers do.                                   *)
LEMMA FloatIs ==
  ASSUME NEW op \in {"FMUL", "FDIV", "FADD", "FSUB"}, NEW size, NEW h, NEW d, NEW n, NEW m
  PROVE  Exec(Sized(size, W(op, d, n, m, 0)), h) = SetV(h, d, OpAt(size, op, h.v[n], h.v[m]))
<1> DEFINE w == [op |-> op, d |-> d, n |-> n, m |-> m, imm |-> 0, size |-> size]
<1>1. Exec(w, h) = SetV(h, d, OpAt(size, op, h.v[n], h.v[m]))
  BY DEF Exec, Cset, LoadOf
<1>2. Sized(size, W(op, d, n, m, 0)) = w
  BY DEF Sized, W
<1> HIDE DEF w
<1> QED BY <1>1, <1>2

LEMMA FcmpIs ==
  ASSUME NEW size, NEW h, NEW n, NEW m
  PROVE  Exec(Sized(size, W("FCMP", 0, n, m, 0)), h) = SetFlags(h, <<"FCMP", At(size, h.v[n]), At(size, h.v[m]), size>>)
<1> DEFINE w == [op |-> "FCMP", d |-> 0, n |-> n, m |-> m, imm |-> 0, size |-> size]
<1>1. Exec(w, h) = SetFlags(h, <<"FCMP", At(size, h.v[n]), At(size, h.v[m]), size>>)
  BY DEF Exec, Cset, LoadOf
<1>2. Sized(size, W("FCMP", 0, n, m, 0)) = w
  BY DEF Sized, W
<1> HIDE DEF w
<1> QED BY <1>1, <1>2

LEMMA LoadVIs ==
  ASSUME NEW size, NEW h, NEW d, NEW n, NEW m
  PROVE  Exec(Sized(size, W("LDR_V", d, n, m, 0)), h) = SetV(h, d, At(size, Load(h.x[n] + 0)))
<1> DEFINE w == [op |-> "LDR_V", d |-> d, n |-> n, m |-> m, imm |-> 0, size |-> size]
<1>1. Exec(w, h) = SetV(h, d, At(size, Load(h.x[n] + 0)))
  BY DEF Exec, Cset, LoadOf
<1>2. Sized(size, W("LDR_V", d, n, m, 0)) = w
  BY DEF Sized, W
<1> HIDE DEF w
<1> QED BY <1>1, <1>2

LEMMA StoreVIs ==
  ASSUME NEW size, NEW h, NEW d, NEW n, NEW m
  PROVE  Exec(Sized(size, W("STR_V", d, n, m, 0)), h) = Store(h, h.x[n] + 0, size, h.v[d])
<1> DEFINE w == [op |-> "STR_V", d |-> d, n |-> n, m |-> m, imm |-> 0, size |-> size]
<1>1. Exec(w, h) = Store(h, h.x[n] + 0, size, h.v[d])
  BY DEF Exec, Cset, LoadOf
<1>2. Sized(size, W("STR_V", d, n, m, 0)) = w
  BY DEF Sized, W
<1> HIDE DEF w
<1> QED BY <1>1, <1>2

LEMMA ScvtfIs ==
  ASSUME NEW size, NEW h, NEW d, NEW n, NEW m
  PROVE  Exec(Sized(size, W("SCVTF", d, n, m, 0)), h) = SetV(h, d, At(size, Op("SCVTF", Signed(size, Z(h, n)), 0)))
<1> DEFINE w == [op |-> "SCVTF", d |-> d, n |-> n, m |-> m, imm |-> 0, size |-> size]
<1>1. Exec(w, h) = SetV(h, d, At(size, Op("SCVTF", Signed(size, Z(h, n)), 0)))
  BY DEF Exec, Cset, LoadOf
<1>2. Sized(size, W("SCVTF", d, n, m, 0)) = w
  BY DEF Sized, W
<1> HIDE DEF w
<1> QED BY <1>1, <1>2

LEMMA FcvtIs ==
  ASSUME NEW size, NEW h, NEW d, NEW n, NEW m
  PROVE  Exec(Sized(size, W("FCVT", d, n, m, 0)), h) = SetV(h, d, At(32, Op("FCVT", h.v[n], 0)))
<1> DEFINE w == [op |-> "FCVT", d |-> d, n |-> n, m |-> m, imm |-> 0, size |-> size]
<1>1. Exec(w, h) = SetV(h, d, At(32, Op("FCVT", h.v[n], 0)))
  BY DEF Exec, Cset, LoadOf
<1>2. Sized(size, W("FCVT", d, n, m, 0)) = w
  BY DEF Sized, W
<1> HIDE DEF w
<1> QED BY <1>1, <1>2

LEMMA MovesV ==
  ASSUME NEW h, NEW d, NEW n, NEW m
  PROVE  /\ Exec(W("EOR_V", d, n, m, 0), h) = SetV(h, d, Op("EOR", h.v[n], h.v[m]))
         /\ Exec(W("FCVTU", d, n, m, 0), h) = SetV(h, d, Op("FCVTU", At(32, h.v[n]), 0))
         /\ Exec(W("FMOV", d, n, m, 0), h) = SetZ(h, d, h.v[n])
         /\ Exec(W("FMOVR", d, n, m, 0), h) = SetV(h, d, Z(h, n))
         /\ Exec(W("MOV_V", d, n, m, 0), h) = SetV(h, d, h.v[n])
BY DEF Exec, W, Cset

FloatOps == {"FMUL", "FDIV", "FADD", "FSUB"}

LEMMA FloatReaches ==
  ASSUME NEW s \in Sizes, NEW op \in FloatOps, NEW h \in Hosts, NEW k \in 0..15, NEW n \in 0..16,
         NEW m \in 0..16
  PROVE  Reaches(<<Sized(s, W(op, k, n, m, 0))>>, h, PutV(GuestOf(h), k, OpAt(s, op, h.v[n], h.v[m])))
<1>1. op \in (DOMAIN Key) \cup {"ADD", "SUB"} /\ s \in Int
  BY DEF Key, FloatOps, Sizes
<1>2. h.v[n] \in Int
  BY VectorNumber
<1>3. h.v[m] \in Numbers
  BY VectorNumber
<1>4. h.v[m] \in Nat
  BY <1>3, NumbersAre
<1>5. OpAt(s, op, h.v[n], h.v[m]) \in Numbers
  BY <1>1, <1>2, <1>4, OpAtRange
<1>6. Exec(Sized(s, W(op, k, n, m, 0)), h) = SetV(h, k, OpAt(s, op, h.v[n], h.v[m]))
  BY FloatIs DEF FloatOps
<1> QED BY <1>5, <1>6, VectorReaches

\* a word that converts one register into another
LEMMA ConvertReaches ==
  ASSUME NEW op \in {"FCVT", "FCVTU", "SCVTF", "EOR"}, NEW h \in Hosts, NEW k \in 0..15, NEW x \in Int,
         NEW y \in Nat, NEW s, NEW w, Exec(w, h) = SetV(h, k, At(s, Op(op, x, y)))
  PROVE  Reaches(<<w>>, h, PutV(GuestOf(h), k, At(s, Op(op, x, y))))
<1>1. op \in (DOMAIN Key) \cup {"ADD", "SUB"}
  BY DEF Key
<1>2. Op(op, x, y) \in Int
  BY <1>1, OpRange, NumbersAre
<1>3. At(s, Op(op, x, y)) \in Numbers
  BY <1>2, AtWraps
<1> QED BY <1>3, VectorReaches

\* a vector operand from memory goes through V16
LEMMA VectorLoadReaches ==
  ASSUME NEW op, NEW prefix, NEW h \in Hosts, NEW a, MemAt(op, prefix, GuestOf(h), a), NEW w, NEW e, NEW s,
         \A h1 \in Hosts : Scratched(h1, h) /\ h1.v[16] = At(s, Load(a)) => Reaches(<<w>>, h1, e)
  PROVE  Reaches(emit_address_decode(op, SC1R, prefix, NextIp) \o <<Sized(s, R2("LDR_V", V16, SC1R)), w>>, h, e)
<1> DEFINE t == <<Sized(s, R2("LDR_V", 16, 12))>>
           u == <<w>>
           val == At(s, Load(a))
<1>1. t \o u = <<Sized(s, R2("LDR_V", V16, SC1R)), w>>
  BY TwoJoined DEF V16, SC1R
<1>2. ASSUME NEW h1 \in Hosts, Scratched(h1, h), h1.x[12] = a
      PROVE  Reaches(t \o u, h1, e)
  <2> DEFINE h2 == SetV(h1, 16, val)
  <2>1. val \in Numbers
    <3>1. a \in Int
      BY OperandSorts, NumbersAre
    <3>2. Load(a) \in Int
      BY <3>1, LoadRange, NumbersAre
    <3> QED BY <3>2, AtWraps
  <2>2. Exec(Sized(s, R2("LDR_V", 16, 12)), h1) = h2
    <3>1. h1.x[12] \in Int /\ h1.x[12] + 0 = h1.x[12]
      BY HostNumber
    <3>2. Exec(Sized(s, W("LDR_V", 16, 12, 0, 0)), h1) = SetV(h1, 16, At(s, Load(h1.x[12] + 0)))
      BY LoadVIs
    <3> QED BY <1>2, <3>1, <3>2 DEF R2
  <2>3. 16 \in 0..16
    OBVIOUS
  <2>4. WroteV(h2, h1, 16, val)
    BY <2>1, <2>3, SetVWrote
  <2>5. Runs(t, h1, h2)
    BY <2>2, RunsWord
  <2> HIDE DEF h2, t, u, val
  <2>6. Scratched(h2, h1) /\ h2 \in Hosts /\ h2.v[16] = val /\ h2.bad = h1.bad
    BY <2>4, ScratchedWroteV DEF WroteV
  <2>7. Scratched(h2, h)
    BY <1>2, <2>6, ScratchedAfter
  <2>8. Reaches(u, h2, e)
    BY <2>6, <2>7 DEF u, val
  <2> QED BY <2>5, <2>6, <2>8, ReachesAfter
<1> HIDE DEF t, u
<1>3. Reaches(emit_address_decode(op, SC1R, prefix, NextIp) \o (t \o u), h, e)
  BY <1>2, AddressReaches
<1> QED BY <1>1, <1>3

\* what a scratched host holds in its vector registers
LEMMA ScratchedVector ==
  ASSUME NEW h, NEW h1, Scratched(h1, h), NEW k \in 0..15
  PROVE  h1.v[k] = h.v[k]
BY DEF Scratched

LEMMA NeonReaches ==
  ASSUME NEW i, NEW op \in FloatOps, NEW h \in Hosts, NEW a, XmmAt(i.a),
         XmmAt(i.b) \/ MemAt(i.b, i.prefix, GuestOf(h), a)
  PROVE  Reaches(emit_neon(i, op, NextIp), h,
                 PutV(GuestOf(h), i.a.reg, OpAt(Ft(i), op, ValueV(Ft(i), i.a, GuestOf(h), a), ValueV(Ft(i), i.b, GuestOf(h), a))))
<1> DEFINE g == GuestOf(h)
           s == Ft(i)
           k == i.a.reg
           x == ValueV(Ft(i), i.a, g, a)
           y == ValueV(Ft(i), i.b, g, a)
           e == PutV(g, k, OpAt(s, op, x, y))
<1>1. k \in 0..15 /\ k \in 0..16 /\ h.v[k] = x /\ ~IsMem(i.a) /\ 16 \in 0..16
  BY XmmValue, XmmSorts
<1>2. s \in Sizes
  BY SizesOf
<1>3. CASE XmmAt(i.b)
  <2> DEFINE m == i.b.reg
  <2>1. m \in 0..16 /\ h.v[m] = y /\ ~IsMem(i.b)
    BY <1>3, XmmValue, XmmSorts
  <2>2. emit_neon(i, op, NextIp) = <<Sized(s, W(op, k, k, m, 0))>>
    BY <1>1, <2>1 DEF emit_neon
  <2> HIDE DEF k, m, x, y, s
  <2>3. Reaches(<<Sized(s, W(op, k, k, m, 0))>>, h, PutV(GuestOf(h), k, OpAt(s, op, h.v[k], h.v[m])))
    BY <1>1, <1>2, <2>1, FloatReaches
  <2> QED BY <1>1, <1>2, <2>1, <2>2, <2>3 DEF k, x, y, s
<1>4. CASE MemAt(i.b, i.prefix, g, a)
  <2> DEFINE w == Sized(s, W(op, k, k, 16, 0))
  <2>1. IsMem(i.b) /\ y = At(s, Load(a))
    BY <1>4, OperandSorts DEF ValueV
  <2>2. emit_neon(i, op, NextIp) = emit_address_decode(i.b, SC1R, i.prefix, NextIp)
                                   \o <<Sized(s, R2("LDR_V", V16, SC1R)), w>>
    BY <1>1, <2>1 DEF emit_neon, Addr, V16
  <2> HIDE DEF k, x, y, s
  <2>3. ASSUME NEW h1 \in Hosts, Scratched(h1, h), h1.v[16] = At(s, Load(a))
        PROVE  Reaches(<<w>>, h1, e)
    <3>1. GuestOf(h1) = g
      BY <2>3, ScratchedGuest
    <3>2. h1.v[k] = x
      BY <1>1, <2>3, ScratchedVector
    <3>3. Reaches(<<Sized(s, W(op, k, k, 16, 0))>>, h1, PutV(GuestOf(h1), k, OpAt(s, op, h1.v[k], h1.v[16])))
      BY <1>1, <1>2, FloatReaches
    <3> QED BY <1>2, <2>1, <2>3, <3>1, <3>2, <3>3
  <2> HIDE DEF w, e
  <2>4. Reaches(emit_address_decode(i.b, SC1R, i.prefix, NextIp) \o <<Sized(s, R2("LDR_V", V16, SC1R)), w>>, h, e)
    BY <1>4, <2>3, VectorLoadReaches
  <2> QED BY <2>2, <2>4 DEF e, k, x, y, s
<1> QED BY <1>3, <1>4

LEMMA FcmpReaches ==
  ASSUME NEW h \in Hosts, NEW n, NEW m, NEW s
  PROVE  Reaches(<<Sized(s, W("FCMP", 0, n, m, 0))>>, h,
                 SetFlags(GuestOf(h), <<"FCMP", At(s, h.v[n]), At(s, h.v[m]), s>>))
<1>1. Exec(Sized(s, W("FCMP", 0, n, m, 0)), h) = SetFlags(h, <<"FCMP", At(s, h.v[n]), At(s, h.v[m]), s>>)
  BY FcmpIs
<1> QED BY <1>1, ReachesFlags

\* the comparison names the first register twice, and the first must be 0
LEMMA ComisReaches ==
  ASSUME NEW i, NEW h \in Hosts, NEW a, XmmAt(i.a), i.a.reg = 0,
         XmmAt(i.b) \/ MemAt(i.b, i.prefix, GuestOf(h), a)
  PROVE  Reaches(emit_neon(i, "FCMP", NextIp), h,
                 SetFlags(GuestOf(h), <<"FCMP", At(Ft(i), ValueV(Ft(i), i.a, GuestOf(h), a)),
                                       At(Ft(i), ValueV(Ft(i), i.b, GuestOf(h), a)), Ft(i)>>))
<1> DEFINE g == GuestOf(h)
           s == Ft(i)
           x == ValueV(Ft(i), i.a, g, a)
           y == ValueV(Ft(i), i.b, g, a)
           e == SetFlags(g, <<"FCMP", At(s, x), At(s, y), s>>)
<1>1. h.v[0] = x /\ ~IsMem(i.a) /\ 0 \in 0..15
  BY XmmValue, XmmSorts
<1>2. CASE XmmAt(i.b)
  <2> DEFINE m == i.b.reg
  <2>1. h.v[m] = y /\ ~IsMem(i.b)
    BY <1>2, XmmValue, XmmSorts
  <2>2. emit_neon(i, "FCMP", NextIp) = <<Sized(s, W("FCMP", 0, 0, m, 0))>>
    BY <1>1, <2>1 DEF emit_neon
  <2> HIDE DEF m, x, y, s
  <2>3. Reaches(<<Sized(s, W("FCMP", 0, 0, m, 0))>>, h, SetFlags(g, <<"FCMP", At(s, h.v[0]), At(s, h.v[m]), s>>))
    BY FcmpReaches
  <2> QED BY <1>1, <2>1, <2>2, <2>3 DEF x, y, s
<1>3. CASE MemAt(i.b, i.prefix, g, a)
  <2> DEFINE w == Sized(s, W("FCMP", 0, 0, 16, 0))
  <2>1. IsMem(i.b) /\ y = At(s, Load(a))
    BY <1>3, OperandSorts DEF ValueV
  <2>2. emit_neon(i, "FCMP", NextIp) = emit_address_decode(i.b, SC1R, i.prefix, NextIp)
                                       \o <<Sized(s, R2("LDR_V", V16, SC1R)), Sized(s, W("FCMP", 0, 0, 16, 0))>>
    BY <1>1, <2>1 DEF emit_neon, Addr, V16
  <2> HIDE DEF x, y, s
  <2>3. ASSUME NEW h1 \in Hosts, Scratched(h1, h), h1.v[16] = At(s, Load(a))
        PROVE  Reaches(<<w>>, h1, e)
    <3>1. GuestOf(h1) = g
      BY <2>3, ScratchedGuest
    <3>2. h1.v[0] = x
      BY <1>1, <2>3, ScratchedVector
    <3>3. Reaches(<<Sized(s, W("FCMP", 0, 0, 16, 0))>>, h1, SetFlags(GuestOf(h1), <<"FCMP", At(s, h1.v[0]), At(s, h1.v[16]), s>>))
      BY FcmpReaches
    <3> QED BY <2>1, <2>3, <3>1, <3>2, <3>3
  <2> HIDE DEF e
  <2>4. Reaches(emit_address_decode(i.b, SC1R, i.prefix, NextIp) \o <<Sized(s, R2("LDR_V", V16, SC1R)), w>>, h, e)
    BY <1>3, <2>3, VectorLoadReaches
  <2> QED BY <2>2, <2>4 DEF e, x, y, s
<1> QED BY <1>2, <1>3

LEMMA MovsLoadReaches ==
  ASSUME NEW i, NEW h \in Hosts, NEW a, XmmAt(i.a), MemAt(i.b, i.prefix, GuestOf(h), a)
  PROVE  Reaches(EncodeMovs(i, NextIp), h, PutV(GuestOf(h), i.a.reg, At(Ft(i), Load(a))))
<1> DEFINE g == GuestOf(h)
           k == i.a.reg
           u == <<Sized(Ft(i), R2("LDR_V", k, 12))>>
           s == Ft(i)
           val == At(s, Load(a))
           e == PutV(g, k, val)
<1>1. k \in 0..15 /\ ~IsMem(i.a) /\ IsMem(i.b)
  BY XmmSorts, OperandSorts DEF XmmAt
<1>2. EncodeMovs(i, NextIp) = emit_address_decode(i.b, SC1R, i.prefix, NextIp) \o u
  BY <1>1 DEF EncodeMovs, Addr, SC1R
<1>3. val \in Numbers
  <2>1. a \in Int
    BY OperandSorts, NumbersAre
  <2>2. Load(a) \in Int
    BY <2>1, LoadRange, NumbersAre
  <2> QED BY <2>2, AtWraps
<1> HIDE DEF k
<1>4. ASSUME NEW h1 \in Hosts, Scratched(h1, h), h1.x[12] = a
      PROVE  Reaches(u, h1, e)
  <2>1. GuestOf(h1) = g
    BY <1>4, ScratchedGuest
  <2>2. Exec(Sized(s, R2("LDR_V", k, 12)), h1) = SetV(h1, k, val)
    <3>1. h1.x[12] \in Int /\ h1.x[12] + 0 = h1.x[12]
      BY HostNumber
    <3>2. Exec(Sized(s, W("LDR_V", k, 12, 0, 0)), h1) = SetV(h1, k, At(s, Load(h1.x[12] + 0)))
      BY LoadVIs
    <3> QED BY <1>4, <3>1, <3>2 DEF R2
  <2> QED BY <1>1, <1>3, <2>1, <2>2, VectorReaches
<1> HIDE DEF u, e
<1>5. Reaches(emit_address_decode(i.b, SC1R, i.prefix, NextIp) \o u, h, e)
  BY <1>4, AddressReaches
<1> QED BY <1>2, <1>5 DEF e, k

LEMMA MovsStoreReaches ==
  ASSUME NEW i, NEW h \in Hosts, NEW a, XmmAt(i.b), MemAt(i.a, i.prefix, GuestOf(h), a)
  PROVE  Reaches(EncodeMovs(i, NextIp), h, Stores(GuestOf(h), a, Ft(i), ValueV(Ft(i), i.b, GuestOf(h), a)))
<1> DEFINE g == GuestOf(h)
           k == i.b.reg
           s == Ft(i)
           y == ValueV(s, i.b, g, a)
           u == <<Sized(s, R2("STR_V", k, 12))>>
           e == Stores(g, a, s, y)
<1>1. k \in 0..15 /\ h.v[k] = y /\ IsMem(i.a)
  BY XmmValue, OperandSorts
<1>2. EncodeMovs(i, NextIp) = emit_address_decode(i.a, SC1R, i.prefix, NextIp) \o u
  BY <1>1 DEF EncodeMovs, Addr, SC1R
<1> HIDE DEF k, y
<1>3. ASSUME NEW h1 \in Hosts, Scratched(h1, h), h1.x[12] = a
      PROVE  Reaches(u, h1, e)
  <2>1. GuestOf(h1) = g
    BY <1>3, ScratchedGuest
  <2>2. Exec(Sized(s, R2("STR_V", k, 12)), h1) = Stores(h1, h1.x[12], s, h1.v[k])
    <3>1. h1.x[12] \in Int /\ h1.x[12] + 0 = h1.x[12] /\ (h1.x[12] % P) = h1.x[12]
      BY HostNumber, Wraps DEF Wrap
    <3>2. Exec(Sized(s, W("STR_V", k, 12, 0, 0)), h1) = Store(h1, h1.x[12] + 0, s, h1.v[k])
      BY StoreVIs
    <3> QED BY <3>1, <3>2 DEF R2, Store, Stores
  <2>3. h1.v[k] = y
    BY <1>1, <1>3, ScratchedVector
  <2> QED BY <1>3, <2>1, <2>2, <2>3, ReachesStore
<1> HIDE DEF u, e
<1>4. Reaches(emit_address_decode(i.a, SC1R, i.prefix, NextIp) \o u, h, e)
  BY <1>3, AddressReaches
<1> QED BY <1>2, <1>4 DEF e, y


(* Conversions and moves between the two register files.                    *)
LEMMA ConvertCases ==
  ASSUME NEW i
  PROVE  /\ i.type = "PXOR" /\ Xmm(i.a) /\ Xmm(i.b) =>
              EncodeConvert(i, NextIp) = <<W("EOR_V", i.a.reg, i.a.reg, i.b.reg, 0)>>
         /\ i.type = "CVTSI2S" /\ IsMem(i.b) =>
              EncodeConvert(i, NextIp) = emit_load(12, i.b, 32, i.prefix, NextIp)
                                         \o <<Sized(Ft(i), R2("SCVTF", i.a.reg, 12))>>
         /\ i.type = "CVTSI2S" /\ ~IsMem(i.b) /\ i.b.type = {"REG"} =>
              EncodeConvert(i, NextIp) = <<Sized(Ft(i), R2("SCVTF", i.a.reg, X(i.b.reg)))>>
         /\ i.type = "CVTSD2SS" /\ Xmm(i.a) /\ Xmm(i.b) =>
              EncodeConvert(i, NextIp) = <<Sized(32, R2("FCVT", i.a.reg, i.b.reg))>>
         /\ i.type = "CVTSS2SD" /\ Xmm(i.a) /\ Xmm(i.b) =>
              EncodeConvert(i, NextIp) = <<R2("FCVTU", i.a.reg, i.b.reg)>>
         /\ i.type = "CVTSS2SD" /\ ~Xmm(i.b) =>
              EncodeConvert(i, NextIp) = emit_address_decode(i.b, SC1R, i.prefix, NextIp)
                \o <<Sized(32, R2("LDR_V", V16, SC1R)), R2("FCVTU", i.a.reg, 16)>>
         /\ i.type = "MOVQ" /\ "XMM" \in i.b.type =>
              EncodeConvert(i, NextIp) = <<R2("FMOV", X(i.a.reg), i.b.reg)>>
         /\ i.type = "MOVQ" /\ "XMM" \notin i.b.type =>
              EncodeConvert(i, NextIp) = <<R2("FMOVR", i.a.reg, X(i.b.reg))>>
         /\ i.type = "MOVAPD" /\ i.size # 64 =>
              EncodeConvert(i, NextIp) = <<R2("MOV_V", i.a.reg, i.b.reg)>>
<1>1. i.type = "PXOR" /\ Xmm(i.a) /\ Xmm(i.b) =>
        EncodeConvert(i, NextIp) = <<W("EOR_V", i.a.reg, i.a.reg, i.b.reg, 0)>>
  BY DEF EncodeConvert
<1>2. i.type = "CVTSI2S" /\ IsMem(i.b) =>
        EncodeConvert(i, NextIp) = emit_load(12, i.b, 32, i.prefix, NextIp)
                                   \o <<Sized(Ft(i), R2("SCVTF", i.a.reg, 12))>>
  BY DEF EncodeConvert, SC1R
<1>3. i.type = "CVTSI2S" /\ ~IsMem(i.b) /\ i.b.type = {"REG"} =>
        EncodeConvert(i, NextIp) = <<Sized(Ft(i), R2("SCVTF", i.a.reg, X(i.b.reg)))>>
  BY DEF EncodeConvert
<1>4. i.type = "CVTSD2SS" /\ Xmm(i.a) /\ Xmm(i.b) =>
        EncodeConvert(i, NextIp) = <<Sized(32, R2("FCVT", i.a.reg, i.b.reg))>>
  BY DEF EncodeConvert
<1>5. i.type = "CVTSS2SD" /\ Xmm(i.a) /\ Xmm(i.b) =>
        EncodeConvert(i, NextIp) = <<R2("FCVTU", i.a.reg, i.b.reg)>>
  BY DEF EncodeConvert
<1>6. i.type = "CVTSS2SD" /\ ~Xmm(i.b) =>
        EncodeConvert(i, NextIp) = emit_address_decode(i.b, SC1R, i.prefix, NextIp)
          \o <<Sized(32, R2("LDR_V", V16, SC1R)), R2("FCVTU", i.a.reg, 16)>>
  BY DEF EncodeConvert, Addr, V16
<1>7. i.type = "MOVQ" /\ "XMM" \in i.b.type =>
        EncodeConvert(i, NextIp) = <<R2("FMOV", X(i.a.reg), i.b.reg)>>
  BY DEF EncodeConvert
<1>8. i.type = "MOVQ" /\ "XMM" \notin i.b.type =>
        EncodeConvert(i, NextIp) = <<R2("FMOVR", i.a.reg, X(i.b.reg))>>
  BY DEF EncodeConvert
<1>9. i.type = "MOVAPD" /\ i.size # 64 =>
        EncodeConvert(i, NextIp) = <<R2("MOV_V", i.a.reg, i.b.reg)>>
  BY DEF EncodeConvert
<1> QED BY <1>1, <1>2, <1>3, <1>4, <1>5, <1>6, <1>7, <1>8, <1>9

LEMMA XorReaches ==
  ASSUME NEW i, i.type = "PXOR", NEW h \in Hosts, NEW a, XmmAt(i.a), XmmAt(i.b)
  PROVE  Reaches(EncodeConvert(i, NextIp), h,
                 PutV(GuestOf(h), i.a.reg,
                      OpAt(64, "EOR", ValueV(64, i.a, GuestOf(h), a), ValueV(64, i.b, GuestOf(h), a))))
<1> DEFINE k == i.a.reg
           m == i.b.reg
           x == h.v[i.a.reg]
           y == h.v[i.b.reg]
           w == W("EOR_V", i.a.reg, i.a.reg, i.b.reg, 0)
<1>1. k \in 0..15 /\ k \in 0..16 /\ m \in 0..16
  BY XmmValue
<1>2. x = ValueV(64, i.a, GuestOf(h), a) /\ y = ValueV(64, i.b, GuestOf(h), a)
  BY XmmValue
<1>3. EncodeConvert(i, NextIp) = <<w>>
  BY ConvertCases, XmmSorts
<1>4. x \in Int /\ y \in Numbers
  BY <1>1, VectorNumber
<1>5. y \in Nat
  BY <1>4, NumbersAre
<1>6. Exec(w, h) = SetV(h, k, Op("EOR", x, y))
  BY MovesV
<1>7. "EOR" \in (DOMAIN Key) \cup {"ADD", "SUB"}
  BY DEF Key
<1> HIDE DEF x, y, w, k, m
<1>8. OpAt(64, "EOR", x, y) = Op("EOR", x, y) /\ 64 \in Int
  BY <1>4, <1>5, <1>7, WholeOp
<1>9. OpAt(64, "EOR", x, y) \in Numbers
  BY <1>4, <1>5, <1>7, <1>8, OpAtRange
<1>10. Reaches(<<w>>, h, PutV(GuestOf(h), k, OpAt(64, "EOR", x, y)))
  BY <1>1, <1>6, <1>8, <1>9, VectorReaches
<1> QED BY <1>2, <1>3, <1>10 DEF k

\* the integer in a register of the host, as it is read from the guest
LEMMA ScvtfReaches ==
  ASSUME NEW h \in Hosts, NEW k \in 0..15, NEW n \in 0..31, NEW s
  PROVE  Reaches(<<Sized(s, R2("SCVTF", k, n))>>, h,
                 PutV(GuestOf(h), k, At(s, Op("SCVTF", Signed(s, Z(h, n)), 0))))
<1> DEFINE x == Signed(s, Z(h, n))
<1>1. Z(h, n) \in Int
  BY HostNumber
<1>2. x \in Int /\ 0 \in Nat
  BY <1>1, SignedNumber
<1>3. Exec(Sized(s, R2("SCVTF", k, n)), h) = SetV(h, k, At(s, Op("SCVTF", x, 0)))
  BY ScvtfIs DEF R2
<1> HIDE DEF x
<1>4. Reaches(<<Sized(s, R2("SCVTF", k, n))>>, h, PutV(GuestOf(h), k, At(s, Op("SCVTF", x, 0))))
  BY <1>2, <1>3, ConvertReaches
<1> QED BY <1>4 DEF x

LEMMA FromIntegerReaches ==
  ASSUME NEW i, i.type = "CVTSI2S", NEW h \in Hosts, NEW a, XmmAt(i.a),
         \/ GeneralAt(i.b) /\ NotStack(i.b)
         \/ MemAt(i.b, i.prefix, GuestOf(h), a) /\ Ft(i) = 32
  PROVE  Reaches(EncodeConvert(i, NextIp), h,
                 PutV(GuestOf(h), i.a.reg,
                      At(Ft(i), Op("SCVTF", Signed(Ft(i), Held(Ft(i), i.b, GuestOf(h), a)), 0))))
<1> DEFINE g == GuestOf(h)
           k == i.a.reg
           s == Ft(i)
           y == Held(s, i.b, g, a)
           e == PutV(g, k, At(s, Op("SCVTF", Signed(s, y), 0)))
<1>1. k \in 0..15
  BY DEF XmmAt
<1>2. CASE GeneralAt(i.b) /\ NotStack(i.b)
  <2> DEFINE n == X(i.b.reg)
  <2>1. n \in 0..31 /\ Z(h, n) = y
    BY <1>2, GeneralValue
  <2>2. EncodeConvert(i, NextIp) = <<Sized(s, R2("SCVTF", k, n))>>
    BY <1>2, ConvertCases, OperandSorts
  <2> HIDE DEF k, n, y, s
  <2>3. Reaches(<<Sized(s, R2("SCVTF", k, n))>>, h, PutV(GuestOf(h), k, At(s, Op("SCVTF", Signed(s, Z(h, n)), 0))))
    BY <1>1, <2>1, ScvtfReaches
  <2> QED BY <2>1, <2>2, <2>3 DEF k, y, s
<1>3. CASE MemAt(i.b, i.prefix, g, a) /\ s = 32
  <2> DEFINE l == emit_load(12, i.b, 32, i.prefix, NextIp)
             u == <<Sized(s, R2("SCVTF", k, 12))>>
  <2>1. IsMem(i.b) /\ y = At(32, Load(a))
    BY <1>3, OperandSorts DEF Held
  <2>2. EncodeConvert(i, NextIp) = l \o u
    BY <2>1, ConvertCases
  <2>3. 12 \in 0..30 /\ 12 \in 0..31 /\ 12 \in {12, 13}
    OBVIOUS
  <2>4. Loaded(l, i.b, 32, h, 12, a)
    BY <1>3, <2>3, LoadGives
  <2> HIDE DEF k, y, l, s
  <2>5. PICK h1 : Runs(l, h, h1) /\ Scratched(h1, h) /\ h1.x[12] = At(32, Load(a)) /\ h1 \in Hosts /\ h1.bad = h.bad
    <3>1. PICK h0, h1 : Runs(l, h, h1) /\ Scratched(h0, h) /\ Wrote(h1, h0, 12, At(32, Load(a)))
      BY <2>4 DEF Loaded
    <3>2. h0 \in Hosts
      BY <3>1, ScratchedGuest
    <3>3. Scratched(h1, h0) /\ h1.x[12] = At(32, Load(a))
      BY <2>3, <3>1, <3>2, BesideScratch
    <3>4. Scratched(h1, h)
      BY <3>1, <3>3, ScratchedAfter
    <3> QED BY <3>1, <3>3, <3>4, ScratchedGuest
  <2>6. GuestOf(h1) = g /\ Z(h1, 12) = y
    <3>1. Z(h1, 12) = h1.x[12]
      BY DEF Z
    <3> QED BY <2>1, <2>5, <3>1, ScratchedGuest
  <2>7. Reaches(<<Sized(s, R2("SCVTF", k, 12))>>, h1,
                PutV(GuestOf(h1), k, At(s, Op("SCVTF", Signed(s, Z(h1, 12)), 0))))
    BY <1>1, <2>3, <2>5, ScvtfReaches
  <2>8. Reaches(u, h1, e)
    BY <2>6, <2>7
  <2> HIDE DEF u, e
  <2>9. Reaches(l \o u, h, e)
    BY <2>5, <2>8, ReachesAfter
  <2> QED BY <2>2, <2>9 DEF e, k, y, s
<1> QED BY <1>2, <1>3

LEMMA NarrowReaches ==
  ASSUME NEW i, i.type = "CVTSD2SS", NEW h \in Hosts, NEW a, XmmAt(i.a), XmmAt(i.b)
  PROVE  Reaches(EncodeConvert(i, NextIp), h,
                 PutV(GuestOf(h), i.a.reg, At(32, Op("FCVT", ValueV(64, i.b, GuestOf(h), a), 0))))
<1> DEFINE k == i.a.reg
           m == i.b.reg
           x == h.v[i.b.reg]
           w == Sized(32, R2("FCVT", i.a.reg, i.b.reg))
<1>1. k \in 0..15 /\ m \in 0..16 /\ x = ValueV(64, i.b, GuestOf(h), a)
  BY XmmValue
<1>2. x \in Int /\ 0 \in Nat
  BY <1>1, VectorNumber
<1>3. EncodeConvert(i, NextIp) = <<w>>
  BY Zenon, ConvertCases, XmmSorts
<1>4. Exec(w, h) = SetV(h, k, At(32, Op("FCVT", x, 0)))
  BY FcvtIs DEF R2
<1> HIDE DEF k, m, x, w
<1>5. Reaches(<<w>>, h, PutV(GuestOf(h), k, At(32, Op("FCVT", x, 0))))
  BY <1>1, <1>2, <1>4, ConvertReaches
<1> QED BY <1>1, <1>3, <1>5 DEF k

\* a single-precision number in a register of the host
LEMMA FcvtuReaches ==
  ASSUME NEW h \in Hosts, NEW k \in 0..15, NEW m \in 0..16
  PROVE  Reaches(<<R2("FCVTU", k, m)>>, h, PutV(GuestOf(h), k, At(64, Op("FCVTU", At(32, h.v[m]), 0))))
<1> DEFINE x == At(32, h.v[m])
<1>1. h.v[m] \in Int
  BY VectorNumber
<1>2. x \in Int /\ 0 \in Nat
  BY <1>1, AtWraps
<1>3. "FCVTU" \in (DOMAIN Key) \cup {"ADD", "SUB"}
  BY DEF Key
<1>4. Exec(R2("FCVTU", k, m), h) = SetV(h, k, Op("FCVTU", x, 0))
  BY MovesV DEF R2
<1> HIDE DEF x
<1>5. Op("FCVTU", x, 0) \in Numbers /\ Op("FCVTU", x, 0) \in Int
  BY <1>2, <1>3, OpRange, NumbersAre
<1>6. At(64, Op("FCVTU", x, 0)) = Op("FCVTU", x, 0)
  BY <1>5, AtWraps
<1>7. Exec(R2("FCVTU", k, m), h) = SetV(h, k, At(64, Op("FCVTU", x, 0)))
  BY <1>4, <1>6
<1>8. Reaches(<<R2("FCVTU", k, m)>>, h, PutV(GuestOf(h), k, At(64, Op("FCVTU", x, 0))))
  BY <1>2, <1>7, ConvertReaches
<1> QED BY <1>8 DEF x

LEMMA LengthenReaches ==
  ASSUME NEW i, i.type = "CVTSS2SD", NEW h \in Hosts, NEW a, XmmAt(i.a),
         XmmAt(i.b) \/ MemAt(i.b, i.prefix, GuestOf(h), a)
  PROVE  Reaches(EncodeConvert(i, NextIp), h,
                 PutV(GuestOf(h), i.a.reg, At(64, Op("FCVTU", At(32, ValueV(32, i.b, GuestOf(h), a)), 0))))
<1> DEFINE g == GuestOf(h)
           k == i.a.reg
           y == ValueV(32, i.b, g, a)
           e == PutV(g, k, At(64, Op("FCVTU", At(32, y), 0)))
<1>1. k \in 0..15 /\ 16 \in 0..16
  BY DEF XmmAt
<1>2. CASE XmmAt(i.b)
  <2> DEFINE m == i.b.reg
  <2>1. m \in 0..16 /\ h.v[m] = y
    BY <1>2, XmmValue
  <2>2. EncodeConvert(i, NextIp) = <<R2("FCVTU", k, m)>>
    BY Zenon, <1>2, ConvertCases, XmmSorts
  <2> HIDE DEF k, m, y
  <2>3. Reaches(<<R2("FCVTU", k, m)>>, h, PutV(GuestOf(h), k, At(64, Op("FCVTU", At(32, h.v[m]), 0))))
    BY <1>1, <2>1, FcvtuReaches
  <2> QED BY <2>1, <2>2, <2>3 DEF k, y
<1>3. CASE MemAt(i.b, i.prefix, g, a)
  <2> DEFINE w == R2("FCVTU", k, 16)
  <2>1. IsMem(i.b) /\ y = At(32, Load(a)) /\ ~Xmm(i.b)
    BY <1>3, OperandSorts, XmmSorts DEF ValueV
  <2>2. EncodeConvert(i, NextIp) = emit_address_decode(i.b, SC1R, i.prefix, NextIp)
                                   \o <<Sized(32, R2("LDR_V", V16, SC1R)), w>>
    BY <2>1, ConvertCases
  <2> HIDE DEF k, y
  <2>3. ASSUME NEW h1 \in Hosts, Scratched(h1, h), h1.v[16] = At(32, Load(a))
        PROVE  Reaches(<<w>>, h1, e)
    <3>1. GuestOf(h1) = g
      BY <2>3, ScratchedGuest
    <3>2. Reaches(<<R2("FCVTU", k, 16)>>, h1, PutV(GuestOf(h1), k, At(64, Op("FCVTU", At(32, h1.v[16]), 0))))
      BY <1>1, <2>3, FcvtuReaches
    <3> QED BY <2>1, <2>3, <3>1, <3>2
  <2> HIDE DEF w, e
  <2>4. Reaches(emit_address_decode(i.b, SC1R, i.prefix, NextIp) \o <<Sized(32, R2("LDR_V", V16, SC1R)), w>>, h, e)
    BY <1>3, <2>3, VectorLoadReaches
  <2> QED BY <2>2, <2>4 DEF e, k, y
<1> QED BY <1>2, <1>3

LEMMA ToVectorReaches ==
  ASSUME NEW i, i.type = "MOVQ", NEW h \in Hosts, NEW a, NEW s, XmmAt(i.a), GeneralAt(i.b), NotStack(i.b)
  PROVE  Reaches(EncodeConvert(i, NextIp), h, PutV(GuestOf(h), i.a.reg, Held(s, i.b, GuestOf(h), a)))
<1> DEFINE k == i.a.reg
           y == Held(s, i.b, GuestOf(h), a)
           n == X(i.b.reg)
<1>1. k \in 0..15 /\ n \in 0..31 /\ Z(h, n) = y
  BY GeneralValue DEF XmmAt
<1>2. y \in Numbers
  BY <1>1, HostNumber
<1>3. EncodeConvert(i, NextIp) = <<R2("FMOVR", k, n)>>
  BY ConvertCases, XmmSorts
<1>4. Exec(R2("FMOVR", k, n), h) = SetV(h, k, Z(h, n))
  BY MovesV DEF R2
<1> HIDE DEF y, n, k
<1> QED BY <1>1, <1>2, <1>3, <1>4, VectorReaches DEF y, k

LEMMA FromVectorReaches ==
  ASSUME NEW i, i.type = "MOVQ", NEW h \in Hosts, NEW a, NEW s, GeneralAt(i.a), NotStack(i.a), XmmAt(i.b)
  PROVE  Reaches(EncodeConvert(i, NextIp), h, PutR(GuestOf(h), i.a.reg, ValueV(s, i.b, GuestOf(h), a)))
<1> DEFINE y == ValueV(s, i.b, GuestOf(h), a)
           n == X(i.a.reg)
           m == i.b.reg
<1>1. n \in 0..30 /\ h.v[m] = y /\ m \in 0..16
  BY XmmValue, GeneralValue
<1>2. y \in Numbers
  BY <1>1, VectorNumber
<1>3. EncodeConvert(i, NextIp) = <<R2("FMOV", n, m)>>
  BY ConvertCases, XmmSorts
<1>4. Exec(R2("FMOV", n, m), h) = SetZ(h, n, h.v[m])
  BY MovesV DEF R2
<1> HIDE DEF m
<1>5. Gives(<<R2("FMOV", n, m)>>, h, n, y)
  BY <1>1, <1>2, <1>4, ZGivesNumber
<1>6. Reaches(<<R2("FMOV", n, m)>>, h, PutR(GuestOf(h), i.a.reg, y))
  BY <1>5, ReachesReg
<1> QED BY <1>3, <1>6

LEMMA MovapdReaches ==
  ASSUME NEW i, i.type = "MOVAPD", i.size # 64, NEW h \in Hosts, NEW a, NEW s, XmmAt(i.a), XmmAt(i.b)
  PROVE  Reaches(EncodeConvert(i, NextIp), h, PutV(GuestOf(h), i.a.reg, ValueV(s, i.b, GuestOf(h), a)))
<1> DEFINE k == i.a.reg
           m == i.b.reg
           y == ValueV(s, i.b, GuestOf(h), a)
<1>1. k \in 0..15 /\ m \in 0..16 /\ h.v[m] = y
  BY XmmValue
<1>2. y \in Numbers
  BY <1>1, VectorNumber
<1>3. EncodeConvert(i, NextIp) = <<R2("MOV_V", k, m)>>
  BY ConvertCases
<1>4. Exec(R2("MOV_V", k, m), h) = SetV(h, k, h.v[m])
  BY MovesV DEF R2
<1> HIDE DEF y, k
<1> QED BY <1>1, <1>2, <1>3, <1>4, VectorReaches DEF y, k



(* LEA, and the instructions without an effect on the registers.            *)
LEMMA LeaReaches ==
  ASSUME NEW c \in Codes, Reachable(c), c.prefix # "FS", NEW i, MemoryIs(c, i.b), GeneralAt(i.a),
         NEW h \in Hosts, Indexed(c) /\ ~NoBase(c) => i.a.reg # BaseRegister(c),
         i.a.reg = RSP => ~NoBase(c) /\ ~Indexed(c)
  PROVE  Reaches(emit_address_decode(i.b, X(i.a.reg), c.prefix, NextIp), h,
                 PutR(GuestOf(h), i.a.reg, Wrap(Offset(c, GuestOf(h)))))
<1> DEFINE k == i.a.reg
           n == X(k)
           b == BaseRegister(c)
<1>1. k \in 0..15 /\ b \in 0..15
  BY Registers16 DEF GeneralAt
<1>2. n \in 0..31 /\ (n = 31 => k = RSP) /\ (n = X(b) => k = b)
  BY <1>1, HostApart
<1>3. Indexed(c) /\ ~NoBase(c) => n # X(b)
  BY <1>2
<1>4. n = 31 => ~NoBase(c) /\ ~Indexed(c)
  BY <1>2
<1>5. Address(c, GuestOf(h)) = Wrap(Offset(c, GuestOf(h)))
  BY AddressNumber, GuestFields
<1> HIDE DEF n
<1>6. Gives(emit_address_decode(i.b, n, c.prefix, NextIp), h, n, Address(c, GuestOf(h)))
  BY <1>2, <1>3, <1>4, AddressGives
<1> QED BY <1>5, <1>6, ReachesReg DEF n

LEMMA NothingReaches ==
  ASSUME NEW h \in Hosts
  PROVE  /\ Reaches(<<>>, h, GuestOf(h))
         /\ \A op \in {"RET", "SVC", "stack"} : \A n : Reaches(<<R2(op, 0, n)>>, h, GuestOf(h))
<1>1. Reaches(<<>>, h, GuestOf(h))
  BY RunsNone DEF Reaches
<1>2. ASSUME NEW op \in {"RET", "SVC", "stack"}, NEW n
      PROVE  Reaches(<<R2(op, 0, n)>>, h, GuestOf(h))
  <2>1. Exec(R2(op, 0, n), h) = h
    BY DEF Exec, R2, W, Cset
  <2> QED BY <2>1, ReachesWord
<1> QED BY <1>1, <1>2

(***************************************************************************)
(* What the operands of the manual are, of the decoder's Instruction, where *)
(* the operands have 32 or 64 bits.                                        *)
(***************************************************************************)
Registered == {"reg", "opreg", "rax", "cl"}
Numbered(kind, c) ==
  CASE kind = "reg" -> Reg(c) [] kind = "opreg" -> OpReg(c) [] kind = "rax" -> RAX [] kind = "cl" -> RCX
Denotes(kind, c, op) ==
  \/ kind \in Registered /\ IsReg(op, Numbered(kind, c))
  \/ kind = "rm" /\ RmIs(c, op) /\ (c.mod # 3 => Reachable(c))
  \/ kind = "imm" /\ IsImm(op, c.imm)
  \/ kind = "one" /\ IsImm(op, 1)
Immediates == {"imm", "one"}

LEMMA WholeRegister ==
  ASSUME NEW c, Width(c) \in Sizes, NEW g, NEW n
  PROVE  /\ Value(c, g, n) = g.r[n]
         /\ \A val : SetRegister(c, g, n, val) = PutR(g, n, At(Width(c), val))
BY DEF Value, SetRegister, PutR, Sizes

LEMMA RegisteredIs ==
  ASSUME NEW c \in Codes, Width(c) \in Sizes, NEW kind \in Registered, NEW op,
         IsReg(op, Numbered(kind, c)), NEW g \in Guests, NEW a
  PROVE  /\ GeneralAt(op) /\ Get(kind, c, g) = Held(Width(c), op, g, a) /\ Get(kind, c, g) \in Numbers
         /\ kind # "cl" =>
              \A val \in Int : Put(kind, c, g, val) = Stored(Width(c), op, g, a, At(Width(c), val))
<1> DEFINE n == Numbered(kind, c)
<1>1. n \in 0..15
  BY Registers16 DEF Numbered, Registered, RAX, RCX
<1>2. GeneralAt(op) /\ op.reg = n
  BY <1>1 DEF GeneralAt, IsReg
<1>3. Held(Width(c), op, g, a) = g.r[n] /\ \A val : Stored(Width(c), op, g, a, val) = PutR(g, n, val)
  BY <1>2, OperandSorts DEF Held, Stored
<1>4. g.r[n] \in Numbers
  BY <1>1 DEF Guests
<1>5. Get(kind, c, g) = g.r[n]
  BY WholeRegister DEF Get, Numbered, Registered, RAX, RCX
<1>6. kind # "cl" => \A val : Put(kind, c, g, val) = SetRegister(c, g, n, val)
  BY DEF Put, Numbered, Registered, RAX
<1>7. \A val : SetRegister(c, g, n, val) = PutR(g, n, At(Width(c), val))
  BY WholeRegister
<1> HIDE DEF n
<1> QED BY <1>2, <1>3, <1>4, <1>5, <1>6, <1>7

LEMMA RmFits ==
  ASSUME NEW c \in Codes, Width(c) \in Sizes, NEW op, RmIs(c, op), c.mod # 3 => Reachable(c), NEW g \in Guests
  PROVE  /\ c.mod = 3 => GeneralAt(op) /\ op.reg = Rm(c)
         /\ c.mod # 3 => MemAt(op, c.prefix, g, Address(c, g)) /\ MemoryIs(c, op)
         /\ Get("rm", c, g) = Held(Width(c), op, g, Address(c, g)) /\ Get("rm", c, g) \in Numbers
         /\ \A val \in Int : Put("rm", c, g, val) = Stored(Width(c), op, g, Address(c, g), At(Width(c), val))
<1> DEFINE a == Address(c, g)
<1>1. CASE c.mod = 3
  <2> DEFINE n == Rm(c)
  <2>1. n \in 0..15 /\ op.reg = n /\ GeneralAt(op)
    BY <1>1, Registers16 DEF GeneralAt, IsReg, RmIs
  <2>2. Held(Width(c), op, g, a) = g.r[n] /\ \A val : Stored(Width(c), op, g, a, val) = PutR(g, n, val)
    BY <2>1, OperandSorts DEF Held, Stored
  <2>3. g.r[n] \in Numbers
    BY <2>1 DEF Guests
  <2>4. Get("rm", c, g) = g.r[n]
    BY <1>1, WholeRegister DEF Get
  <2>5. \A val : Put("rm", c, g, val) = SetRegister(c, g, n, val)
    BY <1>1 DEF Put
  <2>6. \A val : SetRegister(c, g, n, val) = PutR(g, n, At(Width(c), val))
    BY WholeRegister
  <2> HIDE DEF n, a
  <2> QED BY <1>1, <2>1, <2>2, <2>3, <2>4, <2>5, <2>6 DEF n, a
<1>2. CASE c.mod # 3
  <2>1. MemAt(op, c.prefix, g, a) /\ MemoryIs(c, op)
    BY <1>2, MemAtIs DEF RmIs
  <2>2. IsMem(op) /\ a \in Numbers
    BY <2>1, OperandSorts
  <2>3. Held(Width(c), op, g, a) = At(Width(c), Load(a))
        /\ \A val : Stored(Width(c), op, g, a, val) = Stores(g, a, Width(c), val)
    BY <2>2 DEF Held, Stored
  <2>4. At(Width(c), Load(a)) \in Numbers
    BY <2>2, NumbersAre, LoadRange, AtRange
  <2>5. Get("rm", c, g) = At(Width(c), Load(a))
    BY <1>2 DEF Get
  <2>6. ASSUME NEW val \in Int
        PROVE  Put("rm", c, g, val) = Stores(g, a, Width(c), At(Width(c), val))
    <3>1. At(Width(c), At(Width(c), val)) = At(Width(c), val)
      BY AtWraps
    <3>2. Put("rm", c, g, val) = [g EXCEPT !.store = <<a, Width(c), At(Width(c), val)>>]
      BY <1>2 DEF Put
    <3> HIDE DEF a
    <3> QED BY <3>1, <3>2 DEF Stores
  <2> HIDE DEF a
  <2> QED BY <1>2, <2>1, <2>3, <2>4, <2>5, <2>6 DEF a
<1> QED BY <1>1, <1>2

LEMMA XrmFits ==
  ASSUME NEW c \in Codes, NEW op, XrmIs(c, op), c.mod # 3 => Reachable(c), NEW g \in Guests
  PROVE  /\ c.mod = 3 => XmmAt(op)
         /\ c.mod # 3 => MemAt(op, c.prefix, g, Address(c, g)) /\ MemoryIs(c, op)
         /\ Get("xrm", c, g) = ValueV(Scalar(c), op, g, Address(c, g)) /\ Get("xrm", c, g) \in Numbers
         /\ c.mod # 3 => \A val : Put("xrm", c, g, val) = Stores(g, Address(c, g), ScalarResult(c), val)
<1> DEFINE a == Address(c, g)
           w == Scalar(c)
<1>1. CASE c.mod = 3
  <2> DEFINE n == Rm(c)
  <2>1. n \in 0..15 /\ op.reg = n /\ XmmAt(op)
    BY <1>1, Registers16 DEF XmmAt, XmmIs, XrmIs
  <2>2. ValueV(w, op, g, a) = g.v[n]
    BY <2>1, XmmSorts DEF ValueV
  <2>3. g.v[n] \in Numbers
    BY <2>1 DEF Guests
  <2>4. Get("xrm", c, g) = g.v[n]
    BY <1>1 DEF Get
  <2> HIDE DEF n, a, w
  <2> QED BY <1>1, <2>1, <2>2, <2>3, <2>4 DEF a, w
<1>2. CASE c.mod # 3
  <2>1. MemAt(op, c.prefix, g, a) /\ MemoryIs(c, op)
    BY <1>2, MemAtIs DEF XrmIs
  <2>2. IsMem(op) /\ a \in Numbers
    BY <2>1, OperandSorts
  <2>3. ValueV(w, op, g, a) = At(w, Load(a))
    BY <2>2 DEF ValueV
  <2>4. At(w, Load(a)) \in Numbers
    BY <2>2, NumbersAre, LoadRange, AtRange
  <2>5. Get("xrm", c, g) = At(w, Load(a))
    BY <1>2 DEF Get
  <2>6. \A val : Put("xrm", c, g, val) = Stores(g, a, ScalarResult(c), val)
    BY <1>2 DEF Put, Stores
  <2> HIDE DEF a, w
  <2> QED BY <1>2, <2>1, <2>3, <2>4, <2>5, <2>6 DEF a, w
<1> QED BY <1>1, <1>2

LEMMA XregFits ==
  ASSUME NEW c \in Codes, NEW op, XmmIs(op, Reg(c)), NEW g \in Guests, NEW a, NEW s
  PROVE  /\ XmmAt(op) /\ op.reg = Reg(c)
         /\ Get("xreg", c, g) = ValueV(s, op, g, a) /\ Get("xreg", c, g) \in Numbers
         /\ \A val : Put("xreg", c, g, val) = PutV(g, op.reg, At(ScalarResult(c), val))
<1> DEFINE n == Reg(c)
<1>1. n \in 0..15 /\ op.reg = n /\ XmmAt(op)
  BY Registers16 DEF XmmAt, XmmIs
<1>2. ValueV(s, op, g, a) = g.v[n]
  BY <1>1, XmmSorts DEF ValueV
<1>3. g.v[n] \in Numbers
  BY <1>1 DEF Guests
<1>4. Get("xreg", c, g) = g.v[n]
  BY DEF Get
<1>5. \A val : Put("xreg", c, g, val) = PutV(g, n, At(ScalarResult(c), val))
  BY DEF Put, PutV
<1> HIDE DEF n
<1> QED BY <1>1, <1>2, <1>3, <1>4, <1>5 DEF n

(* An operand of the Instruction stands for the manual's.                   *)
LEMMA Denoted ==
  ASSUME NEW c \in Codes, Width(c) \in Sizes, NEW kind, NEW op, Denotes(kind, c, op), NEW g \in Guests
  PROVE  /\ Fit(op, c.prefix, g, Address(c, g))
         /\ Get(kind, c, g) = Held(Width(c), op, g, Address(c, g)) /\ Get(kind, c, g) \in Numbers
         /\ kind \in Immediates <=> ImmAt(op)
         /\ kind \notin Immediates =>
              /\ op.type # {"IMM"}
              /\ kind # "cl" => \A val \in Int :
                   Put(kind, c, g, val) = Stored(Width(c), op, g, Address(c, g), At(Width(c), val))
         /\ IsMem(op) <=> kind = "rm" /\ c.mod # 3
         /\ GeneralAt(op) <=> kind \in Registered \/ (kind = "rm" /\ c.mod = 3)
<1> DEFINE a == Address(c, g)
           w == Width(c)
<1>1. CASE kind \in Registered /\ IsReg(op, Numbered(kind, c))
  <2>1. /\ GeneralAt(op) /\ Get(kind, c, g) = Held(w, op, g, a) /\ Get(kind, c, g) \in Numbers
        /\ kind # "cl" => \A val \in Int : Put(kind, c, g, val) = Stored(w, op, g, a, At(w, val))
    BY <1>1, RegisteredIs
  <2>3. kind \notin Immediates /\ kind # "rm" /\ op.type # {"IMM"} /\ ~ImmAt(op) /\ ~IsMem(op)
    BY <1>1, <2>1, OperandSorts DEF Registered, Immediates
  <2>4. Fit(op, c.prefix, g, a)
    BY <2>1 DEF Fit
  <2> QED BY <1>1, <2>1, <2>3, <2>4
<1>2. CASE kind = "rm" /\ RmIs(c, op) /\ (c.mod # 3 => Reachable(c))
  <2>1. /\ c.mod = 3 => GeneralAt(op)
        /\ c.mod # 3 => MemAt(op, c.prefix, g, a)
        /\ Get("rm", c, g) = Held(w, op, g, a) /\ Get("rm", c, g) \in Numbers
        /\ \A val \in Int : Put("rm", c, g, val) = Stored(w, op, g, a, At(w, val))
    BY <1>2, RmFits
  <2>3. Fit(op, c.prefix, g, a)
    BY <2>1 DEF Fit
  <2>4. kind \notin Immediates /\ kind \notin Registered /\ kind # "cl"
    BY <1>2 DEF Registered, Immediates
  <2>5. /\ c.mod = 3 => op.type # {"IMM"} /\ ~ImmAt(op) /\ ~IsMem(op)
        /\ c.mod # 3 => op.type # {"IMM"} /\ ~ImmAt(op) /\ IsMem(op) /\ ~GeneralAt(op)
    BY <2>1, OperandSorts
  <2> QED BY <1>2, <2>1, <2>3, <2>4, <2>5
<1>3. CASE (kind = "imm" /\ IsImm(op, c.imm)) \/ (kind = "one" /\ IsImm(op, 1))
  <2>1. kind \in Immediates /\ kind \notin Registered /\ kind # "rm"
    BY <1>3 DEF Immediates, Registered
  <2>2. 1 \in Numbers /\ Wrap(1) = 1
    BY ValuesAssumption, Wraps DEF Numbers
  <2>3. op.type = {"IMM"} /\ op.imm \in Int /\ Get(kind, c, g) = Wrap(op.imm)
    BY <1>3, <2>2, Registers16 DEF Get, IsImm, Wrap
  <2>4. ImmAt(op)
    BY <2>3 DEF ImmAt
  <2>5. ~IsMem(op) /\ ~GeneralAt(op)
    BY <2>4, OperandSorts DEF GeneralAt
  <2>6. Held(w, op, g, a) = Wrap(op.imm)
    BY <2>3, <2>5 DEF Held
  <2>7. Fit(op, c.prefix, g, a)
    BY <2>4 DEF Fit
  <2>8. Get(kind, c, g) \in Numbers
    BY <2>3, Wraps
  <2> QED BY <2>1, <2>3, <2>4, <2>5, <2>6, <2>7, <2>8
<1> QED BY <1>1, <1>2, <1>3 DEF Denotes

LEMMA DenotedFree ==
  ASSUME NEW c \in Codes, NEW kind, NEW op, Denotes(kind, c, op),
         kind = "reg" => Reg(c) # RSP, kind = "rm" /\ c.mod = 3 => Rm(c) # RSP,
         kind = "opreg" => OpReg(c) # RSP
  PROVE  NotStack(op)
<1>1. CASE kind \in Registered /\ IsReg(op, Numbered(kind, c))
  <2>1. Numbered(kind, c) # RSP
    BY <1>1 DEF Numbered, Registered, RAX, RCX, RSP
  <2> QED BY <1>1, <2>1 DEF NotStack, IsReg
<1>2. CASE kind = "rm" /\ RmIs(c, op)
  <2>1. CASE c.mod = 3
    BY <1>2, <2>1 DEF NotStack, RmIs, IsReg
  <2>2. CASE c.mod # 3
    <3>1. "MEM" \in op.type
      BY <1>2, <2>2, OperandIs DEF RmIs
    <3> QED BY <3>1 DEF NotStack
  <2> QED BY <2>1, <2>2
<1>3. CASE op.type = {"IMM"}
  BY <1>3 DEF NotStack
<1> QED BY <1>1, <1>2, <1>3 DEF Denotes, IsImm

(* encode() by the type of the Instruction.                                 *)
LEMMA WideArithmetic ==
  ASSUME NEW i
  PROVE  /\ i.type = "ADD" => EncodeWide(i, NextIp) = EncodeAddSub(i, NextIp)
         /\ i.type = "SUB" => EncodeWide(i, NextIp) = EncodeAddSub(i, NextIp)
         /\ i.type = "CMP" => EncodeWide(i, NextIp) = EncodeCmp(i, NextIp)
         /\ i.type = "XOR" => EncodeWide(i, NextIp) = EncodeLogical(i)
         /\ i.type = "AND" => EncodeWide(i, NextIp) = EncodeLogical(i)
         /\ i.type = "OR" => EncodeWide(i, NextIp) = EncodeLogical(i)
         /\ i.type = "SHL" => EncodeWide(i, NextIp) = EncodeShift(i)
         /\ i.type = "SAR" => EncodeWide(i, NextIp) = EncodeShift(i)
         /\ i.type = "MOV" => EncodeWide(i, NextIp) = EncodeMov(i, NextIp)
<1>1. i.type = "ADD" => EncodeWide(i, NextIp) = EncodeAddSub(i, NextIp)
  BY DEF EncodeWide, Logical, Neon, Widening
<1>2. i.type = "SUB" => EncodeWide(i, NextIp) = EncodeAddSub(i, NextIp)
  BY DEF EncodeWide, Logical, Neon, Widening
<1>3. i.type = "CMP" => EncodeWide(i, NextIp) = EncodeCmp(i, NextIp)
  BY DEF EncodeWide, Logical, Neon, Widening
<1>4. i.type = "XOR" => EncodeWide(i, NextIp) = EncodeLogical(i)
  BY DEF EncodeWide, Logical, Neon, Widening
<1>5. i.type = "AND" => EncodeWide(i, NextIp) = EncodeLogical(i)
  BY DEF EncodeWide, Logical, Neon, Widening
<1>6. i.type = "OR" => EncodeWide(i, NextIp) = EncodeLogical(i)
  BY DEF EncodeWide, Logical, Neon, Widening
<1>7. i.type = "SHL" => EncodeWide(i, NextIp) = EncodeShift(i)
  BY DEF EncodeWide, Logical, Neon, Widening
<1>8. i.type = "SAR" => EncodeWide(i, NextIp) = EncodeShift(i)
  BY DEF EncodeWide, Logical, Neon, Widening
<1>9. i.type = "MOV" => EncodeWide(i, NextIp) = EncodeMov(i, NextIp)
  BY DEF EncodeWide, Logical, Neon, Widening
<1> QED BY <1>1, <1>2, <1>3, <1>4, <1>5, <1>6, <1>7, <1>8, <1>9

LEMMA WideOthers ==
  ASSUME NEW i
  PROVE  /\ i.type = "JMP" => EncodeWide(i, NextIp) = emit_branch(i, "BR", NextIp)
         /\ i.type = "CALL" => EncodeWide(i, NextIp) = emit_branch(i, "BLR", NextIp)
         /\ i.type = "CLTQ" => EncodeWide(i, NextIp) = <<RRR("SXTW", RAX, RAX, 0)>>
         /\ i.type = "RET" => EncodeWide(i, NextIp) = <<R2("RET", 0, 30)>>
         /\ i.type = "EBR" => EncodeWide(i, NextIp) = <<>>
         /\ i.type = "NOP" => EncodeWide(i, NextIp) = <<>>
         /\ i.type = "MOVS" => EncodeWide(i, NextIp) = EncodeMovs(i, NextIp)
         /\ i.type = "MULS" => EncodeWide(i, NextIp) = emit_neon(i, "FMUL", NextIp)
         /\ i.type = "DIVS" => EncodeWide(i, NextIp) = emit_neon(i, "FDIV", NextIp)
         /\ i.type = "ADDS" => EncodeWide(i, NextIp) = emit_neon(i, "FADD", NextIp)
         /\ i.type = "SUBS" => EncodeWide(i, NextIp) = emit_neon(i, "FSUB", NextIp)
         /\ i.type = "COMIS" => EncodeWide(i, NextIp) = emit_neon(i, "FCMP", NextIp)
<1>1. i.type = "JMP" => EncodeWide(i, NextIp) = emit_branch(i, "BR", NextIp)
  BY DEF EncodeWide, Logical, Neon, Widening
<1>2. i.type = "CALL" => EncodeWide(i, NextIp) = emit_branch(i, "BLR", NextIp)
  BY DEF EncodeWide, Logical, Neon, Widening
<1>3. i.type = "CLTQ" => EncodeWide(i, NextIp) = <<RRR("SXTW", RAX, RAX, 0)>>
  BY DEF EncodeWide, Logical, Neon, Widening
<1>4. i.type = "RET" => EncodeWide(i, NextIp) = <<R2("RET", 0, 30)>>
  BY DEF EncodeWide, Logical, Neon, Widening
<1>5. i.type = "EBR" => EncodeWide(i, NextIp) = <<>>
  BY DEF EncodeWide, Logical, Neon, Widening
<1>6. i.type = "NOP" => EncodeWide(i, NextIp) = <<>>
  BY DEF EncodeWide, Logical, Neon, Widening
<1>7. i.type = "MOVS" => EncodeWide(i, NextIp) = EncodeMovs(i, NextIp)
  BY DEF EncodeWide, Logical, Neon, Widening
<1>8. i.type = "MULS" => EncodeWide(i, NextIp) = emit_neon(i, "FMUL", NextIp)
  BY DEF EncodeWide, Logical, Neon, Widening
<1>9. i.type = "DIVS" => EncodeWide(i, NextIp) = emit_neon(i, "FDIV", NextIp)
  BY DEF EncodeWide, Logical, Neon, Widening
<1>10. i.type = "ADDS" => EncodeWide(i, NextIp) = emit_neon(i, "FADD", NextIp)
  BY DEF EncodeWide, Logical, Neon, Widening
<1>11. i.type = "SUBS" => EncodeWide(i, NextIp) = emit_neon(i, "FSUB", NextIp)
  BY DEF EncodeWide, Logical, Neon, Widening
<1>12. i.type = "COMIS" => EncodeWide(i, NextIp) = emit_neon(i, "FCMP", NextIp)
  BY DEF EncodeWide, Logical, Neon, Widening
<1> QED BY <1>1, <1>2, <1>3, <1>4, <1>5, <1>6, <1>7, <1>8, <1>9, <1>10, <1>11, <1>12

LEMMA WideClasses ==
  ASSUME NEW i
  PROVE  /\ i.type \in DOMAIN Widening =>
              EncodeWide(i, NextIp) = EncodeWiden(i, NextIp)
         /\ i.type \in {"PXOR", "CVTSI2S", "CVTSD2SS", "CVTSS2SD", "MOVQ", "MOVAPD"} =>
              EncodeWide(i, NextIp) = EncodeConvert(i, NextIp)
         /\ i.type \in {"PUSH", "POP", "LEAVE"} =>
              EncodeWide(i, NextIp) = <<R2("stack", 0, 0)>>
         /\ i.type \in {"SYSCALL"} =>
              EncodeWide(i, NextIp) = <<R2("SVC", 0, 0)>>
         /\ i.type \in {"ADC", "SBB", "ROL", "ROR", "RCL", "RCR", "SAL"} =>
              EncodeWide(i, NextIp) = panic
         /\ i.type \in {CMOVcc[k] : k \in 1..16} \ {"CMOVA", "CMOVS"} =>
              EncodeWide(i, NextIp) = panic
         /\ i.type \in {Jcc[k] : k \in 1..16} \ {"JG", "JGE", "JL", "JLE", "JNE", "JBE", "JAE", "JE"} =>
              EncodeWide(i, NextIp) = panic
         /\ i.type \in {"JG", "JGE", "JL", "JLE", "JNE", "JBE", "JAE", "JE"} =>
              EncodeWide(i, NextIp) = <<W("BRK", 0, 0, 0, NextIp + i.a.imm)>>
         /\ i.type \in {SETcc[k] : k \in 1..16} =>
              EncodeWide(i, NextIp) = panic
<1>1. i.type \in DOMAIN Widening =>
        EncodeWide(i, NextIp) = EncodeWiden(i, NextIp)
  BY DEF EncodeWide, Logical, Neon, Widening
<1>2. i.type \in {"PXOR", "CVTSI2S", "CVTSD2SS", "CVTSS2SD", "MOVQ", "MOVAPD"} =>
        EncodeWide(i, NextIp) = EncodeConvert(i, NextIp)
  BY DEF EncodeWide, Logical, Neon, Widening
<1>3. i.type \in {"PUSH", "POP", "LEAVE"} =>
        EncodeWide(i, NextIp) = <<R2("stack", 0, 0)>>
  BY DEF EncodeWide, Logical, Neon, Widening
<1>4. i.type \in {"SYSCALL"} =>
        EncodeWide(i, NextIp) = <<R2("SVC", 0, 0)>>
  BY DEF EncodeWide, Logical, Neon, Widening
<1>5. i.type \in {"ADC", "SBB", "ROL", "ROR", "RCL", "RCR", "SAL"} =>
        EncodeWide(i, NextIp) = panic
  BY DEF EncodeWide, Logical, Neon, Widening
<1>6. i.type \in {CMOVcc[k] : k \in 1..16} \ {"CMOVA", "CMOVS"} =>
        EncodeWide(i, NextIp) = panic
  BY DEF EncodeWide, Logical, Neon, Widening, CMOVcc
<1>7. i.type \in {Jcc[k] : k \in 1..16} \ {"JG", "JGE", "JL", "JLE", "JNE", "JBE", "JAE", "JE"} =>
        EncodeWide(i, NextIp) = panic
  BY DEF EncodeWide, Logical, Neon, Widening, Jcc
<1>8. i.type \in {"JG", "JGE", "JL", "JLE", "JNE", "JBE", "JAE", "JE"} =>
        EncodeWide(i, NextIp) = <<W("BRK", 0, 0, 0, NextIp + i.a.imm)>>
  BY DEF EncodeWide, Logical, Neon, Widening
<1>9. i.type \in {SETcc[k] : k \in 1..16} =>
        EncodeWide(i, NextIp) = panic
  BY DEF EncodeWide, Logical, Neon, Widening, SETcc
<1> QED BY <1>1, <1>2, <1>3, <1>4, <1>5, <1>6, <1>7, <1>8, <1>9

LEMMA WideConditions ==
  ASSUME NEW i
  PROVE  /\ i.type = "MOVSX" /\ i.a.type = {"REG"} /\ i.b.type = {"REG"} =>
              EncodeWide(i, NextIp) = <<RRR("SXTW", i.a.reg, i.b.reg, 0)>>
         /\ i.type = "MOVSX" /\ i.b.type # {"REG"} =>
              EncodeWide(i, NextIp) = panic
         /\ i.type = "LEA" /\ IsMem(i.b) =>
              EncodeWide(i, NextIp) = emit_address_decode(i.b, X(i.a.reg), i.prefix, NextIp)
         /\ i.type = "LEA" /\ ~IsMem(i.b) =>
              EncodeWide(i, NextIp) = panic
         /\ i.type = "TEST" /\ i.a.type = {"REG"} /\ i.b.type = {"REG"} =>
              EncodeWide(i, NextIp) = <<Sized(Sf(i), RRR("ANDS", XZR, i.a.reg, i.b.reg))>>
         /\ i.type = "TEST" /\ (i.a.type # {"REG"} \/ i.b.type # {"REG"}) =>
              EncodeWide(i, NextIp) = panic
         /\ i.type = "CMOVA" /\ i.a.type = {"REG"} /\ i.b.type = {"REG"} =>
              EncodeWide(i, NextIp) = <<Sized(Sf(i), RRR("CSEL_HI", i.a.reg, i.b.reg, i.a.reg))>>
         /\ i.type = "CMOVS" /\ i.a.type = {"REG"} /\ i.b.type = {"REG"} =>
              EncodeWide(i, NextIp) = <<Sized(Sf(i), RRR("CSEL_MI", i.a.reg, i.b.reg, i.a.reg))>>
         /\ i.type \in {"CMOVA", "CMOVS"} /\ i.b.type # {"REG"} =>
              EncodeWide(i, NextIp) = panic
<1>1. i.type = "MOVSX" /\ i.a.type = {"REG"} /\ i.b.type = {"REG"} =>
        EncodeWide(i, NextIp) = <<RRR("SXTW", i.a.reg, i.b.reg, 0)>>
  BY DEF EncodeWide, Logical, Neon, Widening
<1>2. i.type = "MOVSX" /\ i.b.type # {"REG"} =>
        EncodeWide(i, NextIp) = panic
  BY DEF EncodeWide, Logical, Neon, Widening
<1>3. i.type = "LEA" /\ IsMem(i.b) =>
        EncodeWide(i, NextIp) = emit_address_decode(i.b, X(i.a.reg), i.prefix, NextIp)
  BY DEF EncodeWide, Logical, Neon, Widening
<1>4. i.type = "LEA" /\ ~IsMem(i.b) =>
        EncodeWide(i, NextIp) = panic
  BY DEF EncodeWide, Logical, Neon, Widening
<1>5. i.type = "TEST" /\ i.a.type = {"REG"} /\ i.b.type = {"REG"} =>
        EncodeWide(i, NextIp) = <<Sized(Sf(i), RRR("ANDS", XZR, i.a.reg, i.b.reg))>>
  BY DEF EncodeWide, Logical, Neon, Widening
<1>6. i.type = "TEST" /\ (i.a.type # {"REG"} \/ i.b.type # {"REG"}) =>
        EncodeWide(i, NextIp) = panic
  BY DEF EncodeWide, Logical, Neon, Widening
<1>7. i.type = "CMOVA" /\ i.a.type = {"REG"} /\ i.b.type = {"REG"} =>
        EncodeWide(i, NextIp) = <<Sized(Sf(i), RRR("CSEL_HI", i.a.reg, i.b.reg, i.a.reg))>>
  BY DEF EncodeWide, Logical, Neon, Widening
<1>8. i.type = "CMOVS" /\ i.a.type = {"REG"} /\ i.b.type = {"REG"} =>
        EncodeWide(i, NextIp) = <<Sized(Sf(i), RRR("CSEL_MI", i.a.reg, i.b.reg, i.a.reg))>>
  BY DEF EncodeWide, Logical, Neon, Widening
<1>9. i.type \in {"CMOVA", "CMOVS"} /\ i.b.type # {"REG"} =>
        EncodeWide(i, NextIp) = panic
  BY DEF EncodeWide, Logical, Neon, Widening
<1> QED BY <1>1, <1>2, <1>3, <1>4, <1>5, <1>6, <1>7, <1>8, <1>9

(* The manual's effect by what the instruction does.                        *)
WidthOf(c, dst) == IF dst \in {"xreg", "xrm"} THEN Scalar(c) ELSE Width(c)
Binaries == {"ADD", "ORR", "AND", "SUB", "EOR", "LSL", "ASR", "FADD", "FMUL", "FSUB", "FDIV"}

LEMMA TablesAre ==
  /\ DOMAIN Compares = {"CMP", "TEST", "COMIS"}
  /\ Compares["CMP"] = "SUB" /\ Compares["TEST"] = "AND" /\ Compares["COMIS"] = "FCMP"
  /\ DOMAIN Zeros = {"ZERO8", "ZERO16", "ZERO32"} /\ DOMAIN Signs = {"SIGN8", "SIGN16", "SIGN32"}
  /\ Zeros["ZERO8"] = 8 /\ Zeros["ZERO16"] = 16 /\ Zeros["ZERO32"] = 32
  /\ Signs["SIGN8"] = 8 /\ Signs["SIGN16"] = 16 /\ Signs["SIGN32"] = 32
BY DEF Compares, Zeros, Signs

LEMMA NopEffect ==
  ASSUME NEW c, NEW g, NEW does, does = "NOP", NEW dst, NEW src, Form(c) = F(does, dst, src)
  PROVE  Effect(c, g) = g
<1>1. Form(c).does = does /\ Form(c).dst = dst /\ Form(c).src = src
  BY DEF F
<1> QED BY <1>1, TablesAre DEF Effect, WidthOf, Converts, Selects, Binaries, SetFlags, Jumps, Wrap

LEMMA MovEffect ==
  ASSUME NEW c, NEW g, NEW does, does = "MOV", NEW dst, NEW src, Form(c) = F(does, dst, src)
  PROVE  Effect(c, g) = Put(dst, c, g, Get(src, c, g))
<1>1. Form(c).does = does /\ Form(c).dst = dst /\ Form(c).src = src
  BY DEF F
<1> QED BY <1>1, TablesAre DEF Effect, WidthOf, Converts, Selects, Binaries, SetFlags, Jumps, Wrap

LEMMA ZerosEffect ==
  ASSUME NEW c, NEW g, NEW does, does \in DOMAIN Zeros, NEW dst, NEW src, Form(c) = F(does, dst, src)
  PROVE  Effect(c, g) = Put(dst, c, g, At(Zeros[does], Get(src, c, g)))
<1>1. Form(c).does = does /\ Form(c).dst = dst /\ Form(c).src = src
  BY DEF F
<1> QED BY <1>1, TablesAre DEF Effect, WidthOf, Converts, Selects, Binaries, SetFlags, Jumps, Wrap

LEMMA SignsEffect ==
  ASSUME NEW c, NEW g, NEW does, does \in DOMAIN Signs, NEW dst, NEW src, Form(c) = F(does, dst, src)
  PROVE  Effect(c, g) = Put(dst, c, g, Signed(Signs[does], Get(src, c, g)))
<1>1. Form(c).does = does /\ Form(c).dst = dst /\ Form(c).src = src
  BY DEF F
<1> QED BY <1>1, TablesAre DEF Effect, WidthOf, Converts, Selects, Binaries, SetFlags, Jumps, Wrap

LEMMA WidenEffect ==
  ASSUME NEW c, NEW g, NEW does, does = "WIDEN", NEW dst, NEW src, Form(c) = F(does, dst, src)
  PROVE  Effect(c, g) = Put("rax", c, g, Signed(WidthOf(c, dst) \div 2, Get(src, c, g)))
<1>1. Form(c).does = does /\ Form(c).dst = dst /\ Form(c).src = src
  BY DEF F
<1> QED BY <1>1, TablesAre DEF Effect, WidthOf, Converts, Selects, Binaries, SetFlags, Jumps, Wrap

LEMMA ScvtfEffect ==
  ASSUME NEW c, NEW g, NEW does, does = "SCVTF", NEW dst, NEW src, Form(c) = F(does, dst, src)
  PROVE  Effect(c, g) = Put(dst, c, g, Op("SCVTF", Signed(Width(c), Get(src, c, g)), 0))
<1>1. Form(c).does = does /\ Form(c).dst = dst /\ Form(c).src = src
  BY DEF F
<1> QED BY <1>1, TablesAre DEF Effect, WidthOf, Converts, Selects, Binaries, SetFlags, Jumps, Wrap

LEMMA ConvertsEffect ==
  ASSUME NEW c, NEW g, NEW does, does \in Converts, NEW dst, NEW src, Form(c) = F(does, dst, src)
  PROVE  Effect(c, g) = Put(dst, c, g, Op(does, At(Scalar(c), Get(src, c, g)), 0))
<1>1. Form(c).does = does /\ Form(c).dst = dst /\ Form(c).src = src
  BY DEF F
<1> QED BY <1>1, TablesAre DEF Effect, WidthOf, Converts, Selects, Binaries, SetFlags, Jumps, Wrap

LEMMA SelectEffect ==
  ASSUME NEW c, NEW g, NEW does, does \in Selects, NEW dst, NEW src, Form(c) = F(does, dst, src)
  PROVE  Effect(c, g) = Put(dst, c, g, OpAt(WidthOf(c, dst), does, Get(src, c, g), Get(dst, c, g)))
<1>1. Form(c).does = does /\ Form(c).dst = dst /\ Form(c).src = src
  BY DEF F
<1> QED BY <1>1, TablesAre DEF Effect, WidthOf, Converts, Selects, Binaries, SetFlags, Jumps, Wrap

LEMMA CompareEffect ==
  ASSUME NEW c, NEW g, NEW does, does \in DOMAIN Compares, NEW dst, NEW src, Form(c) = F(does, dst, src)
  PROVE  Effect(c, g) = SetFlags(g, <<Compares[does], At(WidthOf(c, dst), Get(dst, c, g)),
                                At(WidthOf(c, dst), Get(src, c, g)), WidthOf(c, dst)>>)
<1>1. Form(c).does = does /\ Form(c).dst = dst /\ Form(c).src = src
  BY DEF F
<1> QED BY <1>1, TablesAre DEF Effect, WidthOf, Converts, Selects, Binaries, SetFlags, Jumps, Wrap

LEMMA JumpEffect ==
  ASSUME NEW c, NEW g, NEW does, does = "JUMP", NEW dst, NEW src, Form(c) = F(does, dst, src)
  PROVE  Effect(c, g) = Jumps(g, Wrap(Get(src, c, g)))
<1>1. Form(c).does = does /\ Form(c).dst = dst /\ Form(c).src = src
  BY DEF F
<1> QED BY <1>1, TablesAre DEF Effect, WidthOf, Converts, Selects, Binaries, SetFlags, Jumps, Wrap

LEMMA BinaryEffect ==
  ASSUME NEW c, NEW g, NEW does, does \in Binaries, NEW dst, NEW src, Form(c) = F(does, dst, src)
  PROVE  Effect(c, g) = Put(dst, c, g, OpAt(WidthOf(c, dst), does, Get(dst, c, g), Get(src, c, g)))
<1>1. Form(c).does = does /\ Form(c).dst = dst /\ Form(c).src = src
  BY DEF F
<1> QED BY <1>1, TablesAre DEF Effect, WidthOf, Converts, Selects, Binaries, SetFlags, Jumps, Wrap

(* The words do what the instruction does; the flags count after a          *)
(* comparison only.                                                         *)
Follows(ws, h, c) ==
  ws # panic => /\ Yields(ws, h, Effect(c, GuestOf(h)))
                /\ Form(c).does \in DOMAIN Compares => Reaches(ws, h, Effect(c, GuestOf(h)))

LEMMA FollowsReached ==
  ASSUME NEW ws, NEW h, NEW c, Reaches(ws, h, Effect(c, GuestOf(h)))
  PROVE  Follows(ws, h, c)
BY YieldsReached, SameSelf DEF Follows

LEMMA FollowsYielded ==
  ASSUME NEW ws, NEW h, NEW c, Yields(ws, h, Effect(c, GuestOf(h))), Form(c).does \notin DOMAIN Compares
  PROVE  Follows(ws, h, c)
BY DEF Follows

LEMMA FollowsPanic == ASSUME NEW h, NEW c PROVE Follows(panic, h, c)
BY DEF Follows

LEMMA WordsForIs ==
  ASSUME NEW i
  PROVE  /\ i.type = "panic" => WordsFor(i) = panic
         /\ i.type # "panic" /\ i.size = 8 => WordsFor(i) = encode8bit(i, NextIp)
         /\ i.type # "panic" /\ i.size # 8 => WordsFor(i) = EncodeWide(i, NextIp)
BY DEF WordsFor, encode

LEMMA ByteClasses ==
  ASSUME NEW i
  PROVE  /\ i.type = "MOV" => encode8bit(i, NextIp) = Mov8(i, NextIp)
         /\ i.type \notin {"MOV", "TEST", "CMP", "SETNE", "SETAE", "SETE", "SETB"} =>
              encode8bit(i, NextIp) = panic
BY DEF encode8bit, Cset

(* What a translation that is not a wrong one may be.                       *)
LEMMA Rightly ==
  ASSUME NEW c \in Codes, ~Mistranslated(c)
  PROVE  /\ Memory(c) => Reachable(c)
         /\ HasModRM(c) /\ c.mod # 3 => Reachable(c)
         /\ Memory(c) => Sib(c) \/ c.prefix # "FS"
         /\ ~LongMove(c) /\ ~StackPointer(c) /\ ~WideImmediate(c) /\ ~LeaOverlap(c) /\ ~ShiftRight(c)
         /\ ~Multiply(c) /\ ~Divide(c) /\ ~StrayRex(c) /\ ~OperandSize(c) /\ ~HighByte(c)
         /\ ~Unnarrowed(c) /\ ~Widenings(c) /\ ~SetByte(c) /\ ~Packed(c) /\ ~Conversions(c) /\ ~Vectors(c)
         /\ ~SegmentRelative(c) /\ ~Absolute(c)
<1>1. Memory(c) => Sib(c) \/ c.prefix # "FS"
  BY DEF Mistranslated, SegmentRelative, Sib
<1>2. Memory(c) => Reachable(c)
  BY DEF Mistranslated, Reachable
<1>3. HasModRM(c) /\ c.mod # 3 => Memory(c)
  BY DEF Memory
<1> QED BY <1>1, <1>2, <1>3 DEF Mistranslated

\* the stack pointer is no operand but of the forms StackPointer excepts
LEMMA Unstacked ==
  ASSUME NEW c \in Codes, ~StackPointer(c), NEW does, NEW dst, NEW src, Form(c) = F(does, dst, src),
         src # "address", does = "MOV" => c.mod # 3 \/ src = "imm" \/ c.two,
         does \in {"ADD", "SUB", "AND"} => src \notin {"imm", "one"}
  PROVE  /\ "reg" \in {dst, src} => Reg(c) # RSP
         /\ {dst, src} \cap {"rm", "rm8", "whole"} # {} /\ c.mod = 3 => Rm(c) # RSP
         /\ "rm" \in {dst, src} /\ c.mod = 3 => Rm(c) # RSP
         /\ "opreg" \in {dst, src} => OpReg(c) # RSP
<1>1. Form(c).does = does /\ Form(c).dst = dst /\ Form(c).src = src /\ Kinds(c) = {dst, src}
  BY DEF F, Kinds
<1> QED BY <1>1 DEF StackPointer

(***************************************************************************)
(* The operand size of the Instruction and the manual's.                    *)
(***************************************************************************)
LEMMA EightBits ==
  ASSUME NEW c, ~OperandSize(c), Calculates(c), Bytewise(c), NEW d, d.size = Wide(c, 8)
  PROVE  d.size = 8 /\ Width(c) = 8 /\ Form(c).does \notin DOMAIN Compares
<1>1. Width(c) = 8
  BY DEF Width
<1> QED BY <1>1 DEF OperandSize, Wide

LEMMA WideBits ==
  ASSUME NEW c, ~OperandSize(c), Calculates(c), ~Bytewise(c), c.two \/ c.op # 255 \/ c.reg \notin 2..6,
         NEW s \in {16, 32}, NEW d, d.size = Wide(c, s)
  PROVE  /\ d.size # 8 /\ Sf(d) = Width(c) /\ Width(c) \in Sizes
         /\ Width(c) = IF "W" \in c.rex THEN 64 ELSE 32
<1>1. Width(c) # 16
  BY DEF OperandSize
<1>2. Width(c) = IF "W" \in c.rex THEN 64 ELSE 32
  BY <1>1 DEF Width
<1> QED BY <1>2 DEF Wide, Sf, Sizes

(* ADD to CMP by the Instruction they are decoded to.                       *)
ArithmeticResult(k, i, g, a) ==
  LET x == Held(Sf(i), i.a, g, a)
      y == Held(Sf(i), i.b, g, a)
  IN IF k = 8 THEN SetFlags(g, <<"SUB", At(Sf(i), x), At(Sf(i), y), Sf(i)>>)
     ELSE Stored(Sf(i), i.a, g, a, OpAt(Sf(i), Arith[k], x, y))
Attains(ws, h, e, exact) == ws # panic => Yields(ws, h, e) /\ (exact => Reaches(ws, h, e))

LEMMA AttainsReached ==
  ASSUME NEW ws, NEW h, NEW e, NEW exact, Reaches(ws, h, e) PROVE Attains(ws, h, e, exact)
BY YieldsReached, SameSelf DEF Attains

LEMMA AttainsFollows ==
  ASSUME NEW ws, NEW h, NEW c, NEW exact, Attains(ws, h, Effect(c, GuestOf(h)), exact),
         Form(c).does \in DOMAIN Compares => exact
  PROVE  Follows(ws, h, c)
BY DEF Attains, Follows

LEMMA GroupNames ==
  /\ Grp0[1] = "ADD" /\ Grp0[2] = "OR" /\ Grp0[3] = "ADC" /\ Grp0[4] = "SBB"
  /\ Grp0[5] = "AND" /\ Grp0[6] = "SUB" /\ Grp0[7] = "XOR" /\ Grp0[8] = "CMP"
  /\ Arith[1] = "ADD" /\ Arith[2] = "ORR" /\ Arith[5] = "AND"
  /\ Arith[6] = "SUB" /\ Arith[7] = "EOR" /\ Arith[8] = "CMP" /\ Arith[3] = "ADC" /\ Arith[4] = "SBB"
  /\ Logical["XOR"] = "EOR" /\ Logical["AND"] = "AND" /\ Logical["OR"] = "ORR"
  /\ DOMAIN Logical = {"XOR", "AND", "OR"}
BY DEF Grp0, Arith, Logical

LEMMA LogicalPanics ==
  ASSUME NEW i, IsMem(i.a) \/ IsMem(i.b)
  PROVE  EncodeLogical(i) = panic
<1>1. i.a.type # {"REG"} \/ i.b.type \notin {{"REG"}, {"IMM"}}
  BY OperandSorts
<1> QED BY <1>1 DEF EncodeLogical

LEMMA ArithmeticAttains ==
  ASSUME NEW k \in 1..8, NEW i, i.type = Grp0[k], NEW h \in Hosts, NEW a,
         Fit(i.a, i.prefix, GuestOf(h), a), Fit(i.b, i.prefix, GuestOf(h), a),
         ~IsMem(i.a) \/ ~IsMem(i.b), i.a.type # {"IMM"},
         (NotStack(i.a) /\ NotStack(i.b)) \/ (ImmAt(i.b) /\ k \in {1, 5, 6}),
         k \in {1, 6} /\ ImmAt(i.b) => Short(i.b.imm) /\ (Sf(i) = 64 \/ IsMem(i.a)),
         k = 2 => Sf(i) = 64
  PROVE  Attains(EncodeWide(i, NextIp), h, ArithmeticResult(k, i, GuestOf(h), a), k = 8)
<1> DEFINE g == GuestOf(h)
           e == ArithmeticResult(k, i, g, a)
           s == Sf(i)
           x == Held(s, i.a, g, a)
           y == Held(s, i.b, g, a)
<1>1. /\ RightIsRegister(i) => NotStack(i.a) /\ NotStack(i.b)
      /\ i.b.type = {"IMM"} => ImmAt(i.b)
  <2>1. RightIsRegister(i) => ~ImmAt(i.b)
    BY OperandSorts DEF RightIsRegister
  <2>2. i.b.type = {"IMM"} => ~IsMem(i.b) /\ i.b.type # {"REG"}
    BY DEF IsMem
  <2>3. i.b.type = {"IMM"} => ImmAt(i.b)
    BY <2>2, FitSorts DEF GeneralAt
  <2> QED BY <2>1, <2>3
<1>2. NotStack(i.b)
  BY OperandSorts DEF NotStack
<1>3. CASE k \in {1, 6}
  <2>1. i.type \in {"ADD", "SUB"} /\ Arith[k] = i.type /\ k # 8
    BY <1>3, GroupNames
  <2>2. Yields(EncodeAddSub(i, NextIp), h, Stored(s, i.a, g, a, OpAt(s, i.type, x, y)))
    <3>1. i.b.type = {"IMM"} => Short(i.b.imm) /\ (Sf(i) = 64 \/ IsMem(i.a))
      BY <1>1, <1>3
    <3> QED BY <1>1, <2>1, <3>1, AddSubYields
  <2>3. EncodeWide(i, NextIp) = EncodeAddSub(i, NextIp)
    BY <2>1, WideArithmetic
  <2> QED BY <2>1, <2>2, <2>3 DEF Attains, ArithmeticResult
<1>4. CASE k \in {2, 5, 7}
  <2>1. /\ i.type \in DOMAIN Logical /\ Logical[i.type] = Arith[k] /\ k # 8
        /\ (k = 5 => i.type = "AND")
    BY <1>4, GroupNames
  <2>2. EncodeWide(i, NextIp) = EncodeLogical(i)
    BY <2>1, WideArithmetic, GroupNames
  <2>3. CASE IsMem(i.a) \/ IsMem(i.b)
    BY <2>2, <2>3, LogicalPanics DEF Attains
  <2>4. CASE ~IsMem(i.a) /\ ~IsMem(i.b)
    <3>1. GeneralAt(i.a) /\ (GeneralAt(i.b) \/ ImmAt(i.b))
      BY <2>4, FitSorts DEF ImmAt
    <3>2. NotStack(i.a) \/ (i.type = "AND" /\ ImmAt(i.b))
      BY <1>4, <2>1
    <3>3. Reaches(EncodeLogical(i), h, PutR(g, i.a.reg, OpAt(s, Arith[k], x, y)))
      <4>1. LogicalSize(i) = s
        <5>1. i.type = "OR" => k = 2
          BY <1>4, GroupNames
        <5> QED BY <5>1 DEF LogicalSize
      <4> QED BY <1>2, <2>1, <3>1, <3>2, <4>1, LogicalReaches
    <3>4. e = PutR(g, i.a.reg, OpAt(s, Arith[k], x, y))
      BY <2>1, <2>4 DEF ArithmeticResult, Stored
    <3> HIDE DEF e
    <3> QED BY <2>2, <3>3, <3>4, AttainsReached DEF e
  <2> QED BY <2>3, <2>4
<1>5. CASE k \in {3, 4}
  <2>1. i.type \in {"ADC", "SBB", "ROL", "ROR", "RCL", "RCR", "SAL"}
    BY <1>5, GroupNames
  <2>2. EncodeWide(i, NextIp) = panic
    BY <2>1, WideClasses
  <2> QED BY <2>2 DEF Attains
<1>6. CASE k = 8
  <2>1. NotStack(i.a) /\ i.type = "CMP"
    BY <1>6, GroupNames
  <2>2. EncodeWide(i, NextIp) = EncodeCmp(i, NextIp)
    BY <2>1, WideArithmetic
  <2>3. Reaches(EncodeCmp(i, NextIp), h, SetFlags(g, <<"SUB", At(s, x), At(s, y), s>>))
    BY <1>2, <2>1, CmpReaches
  <2>4. e = SetFlags(g, <<"SUB", At(s, x), At(s, y), s>>)
    BY <1>6 DEF ArithmeticResult
  <2> HIDE DEF e
  <2> QED BY <2>2, <2>3, <2>4, AttainsReached DEF e
<1> QED BY <1>3, <1>4, <1>5, <1>6


LEMMA ArithmeticEffect ==
  ASSUME NEW c \in Codes, NEW k \in (1..8) \ {3, 4}, NEW dst, NEW src, Form(c) = F(Arith[k], dst, src),
         NEW d, Denotes(dst, c, d.a), Denotes(src, c, d.b), dst \in {"rm", "reg", "rax"},
         Sf(d) = Width(c), Width(c) \in Sizes, NEW g \in Guests
  PROVE  Effect(c, g) = ArithmeticResult(k, d, g, Address(c, g))
<1> DEFINE a == Address(c, g)
           w == Width(c)
           x == Held(w, d.a, g, a)
           y == Held(w, d.b, g, a)
<1>1. /\ Get(dst, c, g) = x /\ Get(src, c, g) = y
      /\ \A val \in Int : Put(dst, c, g, val) = Stored(w, d.a, g, a, At(w, val))
      /\ x \in Numbers /\ y \in Numbers
  <2>1. dst \notin Immediates /\ dst # "cl"
    BY DEF Immediates
  <2> QED BY <2>1, Denoted
<1> HIDE DEF x, y
<1>2. x \in Int /\ y \in Nat /\ WidthOf(c, dst) = w /\ w \in Int
  <2>1. x \in Int /\ y \in Nat
    BY <1>1, NumbersAre
  <2>2. WidthOf(c, dst) = w
    BY DEF WidthOf
  <2>3. w \in Int
    BY DEF Sizes
  <2> QED BY <2>1, <2>2, <2>3
<1> HIDE DEF a, w
<1>3. CASE k = 8
  <2>1. Arith[k] = "CMP" /\ Arith[k] \in DOMAIN Compares /\ Compares[Arith[k]] = "SUB"
    BY <1>3, GroupNames, TablesAre
  <2>2. Effect(c, g) = SetFlags(g, <<"SUB", At(w, x), At(w, y), w>>)
    BY <1>1, <1>2, <2>1, CompareEffect
  <2> QED BY <1>3, <2>2 DEF ArithmeticResult, x, y, a, w
<1>4. CASE k # 8
  <2>1. Arith[k] \in Binaries /\ Arith[k] \in (DOMAIN Key) \cup {"ADD", "SUB"}
    <3>1. Arith[k] \in {"ADD", "ORR", "AND", "SUB", "EOR"}
      <4>1. k \in {1, 2, 5, 6, 7}
        BY <1>4
      <4> QED BY <4>1, GroupNames
    <3> QED BY <3>1 DEF Binaries, Key
  <2>2. Effect(c, g) = Put(dst, c, g, OpAt(w, Arith[k], x, y))
    BY <1>1, <1>2, <2>1, BinaryEffect
  <2> DEFINE val == OpAt(w, Arith[k], x, y)
  <2>3. val \in Numbers /\ At(w, val) = val
    BY <1>2, <2>1, OpAtRange
  <2> HIDE DEF val
  <2>4. Effect(c, g) = Stored(w, d.a, g, a, val)
    BY <1>1, <2>2, <2>3, NumbersAre DEF val
  <2> QED BY <1>4, <2>4 DEF ArithmeticResult, x, y, a, w, val
<1> QED BY <1>3, <1>4

LEMMA ArithmeticFollows ==
  ASSUME NEW c \in Codes, ~Mistranslated(c), NEW k \in 1..8, NEW dst, NEW src,
         Form(c) = F(Arith[k], dst, src), NEW d, d.type = Grp0[k], d.prefix = c.prefix,
         Denotes(dst, c, d.a), Denotes(src, c, d.b), dst \in {"rm", "reg", "rax"},
         src \in {"rm", "reg", "imm", "one"}, dst # src, src \in Immediates /\ HasModRM(c) => dst = "rm",
         d.size = 8 \/ (Sf(d) = Width(c) /\ Width(c) \in Sizes), d.size = 8 => k # 8, NEW h \in Hosts
  PROVE  Follows(WordsFor(d), h, c)
<1> DEFINE g == GuestOf(h)
           a == Address(c, g)
<1>1. g \in Guests
  BY GuestFields
<1>2. d.type # "panic"
  BY GroupNames
<1>3. CASE d.size = 8
  <2>1. d.type \notin {"MOV", "TEST", "CMP", "SETNE", "SETAE", "SETE", "SETB"}
    BY <1>3, GroupNames
  <2> QED BY <1>2, <1>3, <2>1, WordsForIs, ByteClasses, FollowsPanic
<1>4. CASE d.size # 8
  <2>1. Sf(d) = Width(c) /\ Width(c) \in Sizes /\ WordsFor(d) = EncodeWide(d, NextIp)
    BY <1>2, <1>4, WordsForIs
  <2>2. /\ Fit(d.a, d.prefix, g, a) /\ Fit(d.b, d.prefix, g, a) /\ d.a.type # {"IMM"} /\ ~ImmAt(d.a)
        /\ ~IsMem(d.a) \/ ~IsMem(d.b)
        /\ IsMem(d.a) <=> dst = "rm" /\ c.mod # 3
        /\ src \in Immediates <=> ImmAt(d.b)
    <3>1. dst \notin Immediates
      BY DEF Immediates
    <3> QED BY <1>1, <2>1, <3>1, Denoted
  <2>3. (NotStack(d.a) /\ NotStack(d.b)) \/ (ImmAt(d.b) /\ k \in {1, 5, 6})
    <3> SUFFICES ASSUME ~(k \in {1, 5, 6} /\ src \in Immediates) PROVE NotStack(d.a) /\ NotStack(d.b)
      BY <2>2
    <3>1. Arith[k] # "MOV" /\ (Arith[k] \in {"ADD", "SUB", "AND"} => k \in {1, 5, 6}) /\ src # "address"
      BY GroupNames
    <3>2. Arith[k] \in {"ADD", "SUB", "AND"} => src \notin {"imm", "one"}
      BY <3>1 DEF Immediates
    <3>3. /\ "reg" \in {dst, src} => Reg(c) # RSP
          /\ "rm" \in {dst, src} /\ c.mod = 3 => Rm(c) # RSP
          /\ "opreg" \in {dst, src} => OpReg(c) # RSP
      BY <3>1, <3>2, Rightly, Unstacked
    <3> QED BY <3>3, DenotedFree
  <2>4. Form(c).does = Arith[k] /\ Form(c).dst = dst /\ Form(c).src = src
    BY DEF F
  <2>5. k \in {1, 6} /\ ImmAt(d.b) => Short(d.b.imm) /\ (Sf(d) = 64 \/ IsMem(d.a))
    <3> SUFFICES ASSUME k \in {1, 6}, ImmAt(d.b) PROVE Short(d.b.imm) /\ (Sf(d) = 64 \/ IsMem(d.a))
      OBVIOUS
    <3>1. Form(c).does \in {"ADD", "SUB"} /\ src \in {"imm", "one"}
      BY <2>2, <2>4, GroupNames DEF Immediates
    <3>2. Short(d.b.imm)
      <4>1. CASE src = "one"
        <5>1. d.b.imm = 1
          BY <4>1 DEF Denotes, IsImm, Registered
        <5> QED BY <5>1 DEF Short
      <4>2. CASE src = "imm"
        <5>1. d.b.imm = c.imm
          BY <4>2 DEF Denotes, IsImm, Registered
        <5>2. c.imm \in Int /\ ~(c.imm > 4095 \/ c.imm < -4095)
          BY <2>4, <3>1, <4>2, Rightly, Registers16 DEF WideImmediate
        <5> QED BY <5>1, <5>2 DEF Short
      <4> QED BY <3>1, <4>1, <4>2
    <3>3. Width(c) = 32 => Memory(c)
      BY <2>4, <3>1, Rightly DEF Unnarrowed
    <3>4. Memory(c) => IsMem(d.a)
      BY <2>2, <3>1 DEF Memory, Immediates
    <3> QED BY <2>1, <3>2, <3>3, <3>4 DEF Sizes
  <2>6. k = 2 => Sf(d) = 64
    BY <2>1, <2>4, Rightly, GroupNames DEF Unnarrowed, Sizes
  <2>7. Attains(EncodeWide(d, NextIp), h, ArithmeticResult(k, d, g, a), k = 8)
    BY <2>2, <2>3, <2>5, <2>6, ArithmeticAttains
  <2>8. CASE k \in {3, 4}
    <3>1. d.type \in {"ADC", "SBB", "ROL", "ROR", "RCL", "RCR", "SAL"}
      BY <2>8, GroupNames
    <3> QED BY <2>1, <3>1, WideClasses, FollowsPanic
  <2>9. CASE k \notin {3, 4}
    <3>1. Effect(c, g) = ArithmeticResult(k, d, g, a)
      BY <1>1, <2>1, <2>9, ArithmeticEffect
    <3>2. Form(c).does \in DOMAIN Compares => k = 8
      BY <2>4, GroupNames, TablesAre
    <3> QED BY <2>1, <2>7, <3>1, <3>2, AttainsFollows
  <2> QED BY <2>8, <2>9
<1> QED BY <1>3, <1>4

(***************************************************************************)
(* The opcodes, one group after the other: what is not one of the wrong     *)
(* translations does what the manual says.                                  *)
(***************************************************************************)
LEMMA RmDenotes ==
  ASSUME NEW c \in Codes, ~Mistranslated(c), HasModRM(c), NEW op, RmIs(c, op)
  PROVE  Denotes("rm", c, op)
<1>1. c.mod # 3 => Reachable(c)
  BY Rightly
<1> QED BY <1>1 DEF Denotes

LEMMA RegDenotes ==
  ASSUME NEW c, NEW op
  PROVE  /\ IsReg(op, Reg(c)) => Denotes("reg", c, op)
         /\ IsReg(op, OpReg(c)) => Denotes("opreg", c, op)
         /\ IsReg(op, RAX) => Denotes("rax", c, op)
         /\ IsReg(op, RCX) => Denotes("cl", c, op)
         /\ IsImm(op, c.imm) => Denotes("imm", c, op)
         /\ IsImm(op, 1) => Denotes("one", c, op)
<1>1. /\ Numbered("reg", c) = Reg(c) /\ Numbered("opreg", c) = OpReg(c)
      /\ Numbered("rax", c) = RAX /\ Numbered("cl", c) = RCX
  BY DEF Numbered
<1> QED BY <1>1 DEF Denotes, Registered

LEMMA ByteSized ==
  ASSUME NEW c, NEW size \in {16, 32, 64}
  PROVE  Wide(c, size) # 8
BY DEF Wide

LEMMA Sizings ==
  ASSUME NEW c, ~OperandSize(c), Calculates(c), c.two \/ c.op # 255 \/ c.reg \notin 2..6,
         NEW d, d.size = Wide(c, IF Bytewise(c) THEN 8 ELSE 32)
  PROVE  /\ d.size = 8 \/ (Sf(d) = Width(c) /\ Width(c) \in Sizes)
         /\ d.size = 8 <=> Bytewise(c)
         /\ Bytewise(c) => Width(c) = 8 /\ Form(c).does \notin DOMAIN Compares
<1>1. CASE Bytewise(c)
  <2>1. d.size = Wide(c, 8)
    BY <1>1
  <2> QED BY <1>1, <2>1, EightBits
<1>2. CASE ~Bytewise(c)
  <2>1. d.size = Wide(c, 32) /\ 32 \in {16, 32}
    BY <1>2
  <2> QED BY <1>2, <2>1, WideBits
<1> QED BY <1>1, <1>2

LEMMA ArithmeticRight ==
  ASSUME NEW c \in RealCodes, ~Mistranslated(c), ~c.two, c.op < 64, NEW i \in Instructions, NEW h \in Hosts
  PROVE  Follows(WordsFor(decode_instr(c, i)), h, c)
<1> DEFINE d == decode_instr(c, i)
           k == c.op \div 8 + 1
           n == c.op % 8
<1>1. c \in Codes /\ k \in 1..8 /\ n \in 0..5 /\ c.op = 8 * (k - 1) + n
  BY DEF RealCodes, Codes
<1>2. /\ n < 2 => Is(d, c, Grp0[k], ByteOr(c, 32), c.prefix, 1 + RmBytes(c)) /\ RmReg(c, d)
      /\ n \in {2, 3} => Is(d, c, Grp0[k], ByteOr(c, 32), c.prefix, 1 + RmBytes(c)) /\ RegRm(c, d)
      /\ n \in {4, 5} => /\ Is(d, c, Grp0[k], ByteOr(c, 32), c.prefix, IF n = 4 THEN 1 ELSE 4)
                         /\ IsReg(d.a, RAX + Ext(c, "R")) /\ IsImm(d.b, c.imm)
  <2> DEFINE j == [Start(c, i) EXCEPT !.type = Grp0[c.op \div 8 + 1]]
  <2>1. Alike(j, Start(c, i)) /\ j.size = 32 /\ j.type = Grp0[k] /\ Body(c, i) = decode_GRP0(c, j)
    BY <1>1, ArithmeticDecoded
  <2> HIDE DEF j
  <2> QED BY <1>1, <2>1, DecodedGrp0
<1>3. d.type = Grp0[k] /\ d.prefix = c.prefix /\ d.size = Wide(c, ByteOr(c, 32))
  BY <1>1, <1>2 DEF Is
<1>4. /\ n < 2 => HasModRM(c) /\ Form(c) = F(Arith[k], "rm", "reg")
      /\ n \in {2, 3} => HasModRM(c) /\ Form(c) = F(Arith[k], "reg", "rm")
      /\ n \in {4, 5} => ~HasModRM(c) /\ Form(c) = F(Arith[k], "rax", "imm")
  <2>1. n < 2 => HasModRM(c) /\ Form(c) = F(Arith[k], "rm", "reg")
    BY <1>1 DEF Form, OneByte, HasModRM
  <2>2. n \in {2, 3} => HasModRM(c) /\ Form(c) = F(Arith[k], "reg", "rm")
    BY <1>1 DEF Form, OneByte, HasModRM
  <2>3. n \in {4, 5} => ~HasModRM(c) /\ Form(c) = F(Arith[k], "rax", "imm")
    BY <1>1 DEF Form, OneByte, HasModRM
  <2> QED BY <2>1, <2>2, <2>3
<1>5. ~StrayRex(c) /\ ~OperandSize(c)
  BY <1>1, Rightly
<1>6. Form(c).does = Arith[k]
  BY <1>1, <1>4 DEF F
<1>7. (d.size = 8 \/ (Sf(d) = Width(c) /\ Width(c) \in Sizes)) /\ (d.size = 8 => k # 8)
  <2>1. Bytewise(c) <=> c.op % 2 = 0
    BY <1>1 DEF Bytewise
  <2>2. d.size = Wide(c, IF Bytewise(c) THEN 8 ELSE 32)
    BY <1>3, <2>1 DEF ByteOr
  <2>3. Calculates(c)
    <3>1. Arith[k] \notin {"NOP", "JUMP"}
      BY <1>1 DEF Arith
    <3> QED BY <1>6, <3>1 DEF Calculates
  <2>4. k = 8 => Form(c).does \in DOMAIN Compares
    BY <1>6, GroupNames, TablesAre
  <2>5. c.op # 255
    BY <1>1
  <2> HIDE DEF d, k
  <2> QED BY <1>5, <2>2, <2>3, <2>4, <2>5, Sizings
<1> HIDE DEF d, k, n
<1>8. CASE n < 2
  <2>1. Denotes("rm", c, d.a) /\ Denotes("reg", c, d.b)
    BY <1>1, <1>2, <1>4, <1>8, RmDenotes, RegDenotes DEF RmReg
  <2>2. Follows(WordsFor(d), h, c)
    BY <1>1, <1>3, <1>4, <1>7, <1>8, <2>1, ArithmeticFollows DEF Immediates
  <2> QED BY <2>2 DEF d
<1>9. CASE n \in {2, 3}
  <2>1. Denotes("reg", c, d.a) /\ Denotes("rm", c, d.b)
    BY <1>1, <1>2, <1>4, <1>9, RmDenotes, RegDenotes DEF RegRm
  <2>2. Follows(WordsFor(d), h, c)
    BY <1>1, <1>3, <1>4, <1>7, <1>9, <2>1, ArithmeticFollows DEF Immediates
  <2> QED BY <2>2 DEF d
<1>10. CASE n \in {4, 5}
  <2>1. RAX + Ext(c, "R") = RAX
    BY <1>4, <1>5, <1>10 DEF StrayRex, Ext, RAX
  <2>2. Denotes("rax", c, d.a) /\ Denotes("imm", c, d.b)
    BY <1>2, <1>10, <2>1, RegDenotes
  <2>3. Follows(WordsFor(d), h, c)
    BY <1>1, <1>3, <1>4, <1>7, <1>10, <2>2, ArithmeticFollows
  <2> QED BY <2>3 DEF d
<1> QED BY <1>1, <1>8, <1>9, <1>10


LEMMA ImmediateRight ==
  ASSUME NEW c \in Codes, ~Mistranslated(c), ~c.two, c.op \in {128, 129, 131}, NEW i \in Instructions,
         NEW h \in Hosts
  PROVE  Follows(WordsFor(decode_instr(c, i)), h, c)
<1> DEFINE d == decode_instr(c, i)
           k == c.reg + 1
<1>1. k \in 1..8
  BY DEF Codes
<1>2. d.type = Grp0[k] /\ d.prefix = c.prefix /\ RmImm(c, d, c.imm)
      /\ d.size = Wide(c, IF c.op = 128 THEN 8 ELSE 32)
  BY ImmediateDecoded DEF Is
<1>3. HasModRM(c) /\ Form(c) = F(Arith[k], "rm", "imm")
  BY DEF HasModRM, Form, OneByte
<1>4. (d.size = 8 \/ (Sf(d) = Width(c) /\ Width(c) \in Sizes)) /\ (d.size = 8 => k # 8)
  <2>1. Bytewise(c) <=> c.op = 128
    BY DEF Bytewise
  <2>2. d.size = Wide(c, IF Bytewise(c) THEN 8 ELSE 32)
    BY <1>2, <2>1
  <2>3. Form(c).does = Arith[k]
    BY <1>3 DEF F
  <2>4. Calculates(c)
    <3>1. Arith[k] \notin {"NOP", "JUMP"}
      BY <1>1 DEF Arith
    <3> QED BY <2>3, <3>1 DEF Calculates
  <2>5. k = 8 => Form(c).does \in DOMAIN Compares
    BY <2>3, GroupNames, TablesAre
  <2> HIDE DEF d, k
  <2> QED BY <2>2, <2>4, <2>5, Rightly, Sizings
<1> HIDE DEF d, k
<1>5. Denotes("rm", c, d.a) /\ Denotes("imm", c, d.b)
  BY <1>2, <1>3, RmDenotes, RegDenotes DEF RmImm
<1>6. Follows(WordsFor(d), h, c)
  BY <1>1, <1>2, <1>3, <1>4, <1>5, ArithmeticFollows
<1> QED BY <1>6 DEF d

LEMMA OtherSegment ==
  ASSUME NEW op, NEW g, NEW a, NEW p, NEW q, p # "FS", q # "FS", MemAt(op, p, g, a)
  PROVE  MemAt(op, q, g, a)
<1>1. \A r : emit_address_decode(op, r, p, NextIp) = emit_address_decode(op, r, q, NextIp)
  BY DEF emit_address_decode
<1> QED BY <1>1 DEF MemAt

\* a branch and a comparison of floats lose FS: none is left that has it
LEMMA Unsegmented ==
  ASSUME NEW c \in Codes, ~Mistranslated(c), c.mod # 3, HasModRM(c), Form(c).does \in {"JUMP", "COMIS"}
  PROVE  c.prefix # "FS"
<1>1. Reachable(c) /\ ~Absolute(c) /\ Memory(c)
  BY Rightly DEF Memory
<1>2. c.prefix = "FS" => NoBase(c) /\ c.rm = 4 /\ c.index = 4
  BY <1>1, ReachableIs
<1> QED BY <1>1, <1>2 DEF Absolute, Sib

LEMMA BranchRight ==
  ASSUME NEW c \in Codes, ~Mistranslated(c), ~c.two, c.op = 255, c.reg \in {2, 4}, NEW i \in Instructions,
         NEW h \in Hosts
  PROVE  Follows(WordsFor(decode_instr(c, i)), h, c)
<1> DEFINE d == decode_instr(c, i)
           g == GuestOf(h)
           a == Address(c, g)
           op == IF c.reg = 2 THEN "BLR" ELSE "BR"
<1>1. d.type = (IF c.reg = 2 THEN "CALL" ELSE "JMP") /\ d.size # 8 /\ RmIs(c, d.a)
  BY GroupDecoded, ByteSized DEF Is
<1>2. HasModRM(c) /\ Form(c) = F("JUMP", "none", "rm") /\ Form(c).does = "JUMP"
  BY DEF HasModRM, Form, OneByte, F
<1>3. WordsFor(d) = emit_branch(d, op, NextIp)
  BY <1>1, WordsForIs, WideOthers
<1>4. g \in Guests
  BY GuestFields
<1> HIDE DEF d
<1>5. Denotes("rm", c, d.a)
  BY <1>1, <1>2, RmDenotes
<1>6. Rm(c) # RSP \/ c.mod # 3
  BY <1>2, Rightly, Unstacked
<1>w. Width(c) = 64 /\ Width(c) \in Sizes
  BY DEF Width, Bytewise, Sizes
<1>7. /\ Held(64, d.a, g, a) = Get("rm", c, g) /\ Get("rm", c, g) \in Numbers
      /\ Fit(d.a, c.prefix, g, a) /\ ~ImmAt(d.a)
      /\ IsMem(d.a) <=> c.mod # 3
  <2>1. "rm" \notin Immediates
    BY DEF Immediates
  <2> QED BY <1>4, <1>5, <1>w, <2>1, Denoted
<1>8. NotStack(d.a)
  BY <1>5, <1>6, DenotedFree
<1>9. GeneralAt(d.a) \/ MemAt(d.a, "none", g, a)
  <2>1. CASE c.mod = 3
    BY <1>7, <2>1, FitSorts
  <2>2. CASE c.mod # 3
    <3>1. MemAt(d.a, c.prefix, g, a)
      BY <1>7, <2>2, FitSorts
    <3>2. c.prefix # "FS"
      BY <1>2, <2>2, Unsegmented
    <3> QED BY <3>1, <3>2, OtherSegment
  <2> QED BY <2>1, <2>2
<1>10. Reaches(emit_branch(d, op, NextIp), h, Jumps(g, Held(64, d.a, g, a)))
  <2>1. op \in {"BR", "BLR"}
    OBVIOUS
  <2> HIDE DEF op
  <2> QED BY <1>7, <1>8, <1>9, <2>1, BranchReaches
<1>11. Effect(c, g) = Jumps(g, Held(64, d.a, g, a))
  <2>1. Wrap(Get("rm", c, g)) = Get("rm", c, g)
    BY <1>7, NumbersAre, Wraps
  <2> QED BY <1>2, <1>7, <2>1, JumpEffect
<1>12. Follows(WordsFor(d), h, c)
  BY <1>3, <1>10, <1>11, FollowsReached
<1> QED BY <1>12 DEF d

(* Nothing is to be done and nothing is, or the process ends.               *)
LEMMA NothingFollows ==
  ASSUME NEW c, NEW h \in Hosts, NEW dst, NEW src, Form(c) = F("NOP", dst, src), NEW ws,
         \/ ws \in {panic, <<>>, <<R2("stack", 0, 0)>>, <<R2("SVC", 0, 0)>>}
         \/ \E n : ws = <<R2("RET", 0, n)>>
  PROVE  Follows(ws, h, c)
<1>1. Effect(c, GuestOf(h)) = GuestOf(h)
  BY NopEffect
<1>2. CASE ws = panic
  BY <1>2, FollowsPanic
<1>3. CASE ws # panic
  BY <1>1, <1>3, NothingReaches, FollowsReached
<1> QED BY <1>2, <1>3

LEMMA GroupRight ==
  ASSUME NEW c \in RealCodes, ~Mistranslated(c), ~c.two, c.op \in {254, 255}, NEW i \in Instructions,
         NEW h \in Hosts
  PROVE  Follows(WordsFor(decode_instr(c, i)), h, c)
<1> DEFINE d == decode_instr(c, i)
<1>1. c \in Codes /\ (c.op = 254 => c.reg \in {0, 1}) /\ HasModRM(c)
  BY DEF RealCodes, HasModRM
<1>2. CASE c.reg \in {0, 1}
  <2> DEFINE k == IF c.reg = 0 THEN 1 ELSE 6
  <2>1. d.type = Grp0[k] /\ d.prefix = c.prefix /\ RmImm(c, d, 1) /\ d.size = Wide(c, ByteOr(c, 32))
    BY <1>1, <1>2, GroupDecoded, GroupNames DEF Is
  <2>2. k \in 1..8 /\ k # 8 /\ Form(c) = F(Arith[k], "rm", "one")
    BY <1>2, GroupNames DEF Form, OneByte
  <2>3. d.size = 8 \/ (Sf(d) = Width(c) /\ Width(c) \in Sizes)
    <3>1. Bytewise(c) <=> c.op % 2 = 0
      BY DEF Bytewise
    <3>2. d.size = Wide(c, IF Bytewise(c) THEN 8 ELSE 32)
      BY <2>1, <3>1 DEF ByteOr
    <3>3. Calculates(c)
      BY <1>2, <2>2, GroupNames DEF Calculates, F
    <3>4. c.reg \notin 2..6
      BY <1>2
    <3> HIDE DEF d, k
    <3> QED BY <1>1, <3>2, <3>3, <3>4, Rightly, Sizings
  <2> HIDE DEF d, k
  <2>4. Denotes("rm", c, d.a) /\ Denotes("one", c, d.b)
    BY <1>1, <2>1, RmDenotes, RegDenotes DEF RmImm
  <2>5. Follows(WordsFor(d), h, c)
    BY <1>1, <2>1, <2>2, <2>3, <2>4, ArithmeticFollows
  <2> QED BY <2>5 DEF d
<1>3. CASE c.reg \in {2, 4}
  <2>1. c.op = 255
    BY <1>1, <1>3
  <2> QED BY <1>1, <1>3, <2>1, BranchRight
<1>4. CASE c.reg \notin {0, 1, 2, 4}
  <2>1. Form(c) = F("NOP", "none", "none")
    BY <1>1, <1>4 DEF Form, OneByte
  <2>2. CASE c.reg = 6
    <3>1. d.type = "PUSH" /\ d.size # 8
      BY <1>1, <2>2, GroupDecoded, ByteSized DEF Is
    <3>2. WordsFor(d) = <<R2("stack", 0, 0)>>
      BY <3>1, WordsForIs, WideClasses
    <3> QED BY <2>1, <3>2, NothingFollows
  <2>3. CASE c.reg # 6
    <3>1. d.type = "panic"
      BY <1>1, <1>4, <2>3, GroupDecoded DEF Is
    <3> QED BY <3>1, WordsForIs, FollowsPanic
  <2> QED BY <2>2, <2>3
<1> QED BY <1>2, <1>3, <1>4

(* MOV of 32 or 64 bits, and of a byte to memory.                           *)
LEMMA MovIs ==
  ASSUME NEW c \in Codes, NEW dst, NEW src, Form(c) = F("MOV", dst, src), NEW d, Width(c) \in Sizes,
         Denotes(dst, c, d.a), Denotes(src, c, d.b), dst \in {"rm", "reg", "opreg"}, NEW g \in Guests
  PROVE  Effect(c, g) = Stored(Width(c), d.a, g, Address(c, g),
                               At(Width(c), Held(Width(c), d.b, g, Address(c, g))))
<1> DEFINE a == Address(c, g)
           w == Width(c)
           y == Get(src, c, g)
<1>1. \A val \in Int : Put(dst, c, g, val) = Stored(w, d.a, g, a, At(w, val))
  <2>1. dst \notin Immediates /\ dst # "cl"
    BY DEF Immediates
  <2> QED BY <2>1, Denoted
<1>2. y = Held(w, d.b, g, a) /\ y \in Numbers
  BY Denoted
<1>3. Effect(c, g) = Put(dst, c, g, y)
  BY MovEffect
<1> HIDE DEF a, w, y
<1>4. Effect(c, g) = Stored(w, d.a, g, a, At(w, y))
  BY <1>1, <1>2, <1>3, NumbersAre
<1> QED BY <1>2, <1>4 DEF a, w

LEMMA MovFollows ==
  ASSUME NEW c \in Codes, ~Mistranslated(c), NEW dst, NEW src, Form(c) = F("MOV", dst, src), ~c.two,
         NEW d, d.type = "MOV", d.prefix = c.prefix, d.size # 8, Sf(d) = Width(c), Width(c) \in Sizes,
         Denotes(dst, c, d.a), Denotes(src, c, d.b), dst \in {"rm", "reg", "opreg"},
         src \in {"rm", "reg", "imm"}, dst # src, HasModRM(c) /\ src = "imm" => dst = "rm", NEW h \in Hosts
  PROVE  Follows(WordsFor(d), h, c)
<1> DEFINE g == GuestOf(h)
           a == Address(c, g)
           w == Width(c)
           e == Stored(w, d.a, g, a, At(w, Held(w, d.b, g, a)))
<1>1. g \in Guests
  BY GuestFields
<1>2. Effect(c, g) = e
  BY <1>1, MovIs
<1>3. dst \notin Immediates /\ (src \in Immediates <=> src = "imm")
  BY DEF Immediates
<1>4. /\ Fit(d.a, d.prefix, g, a) /\ d.a.type # {"IMM"}
      /\ IsMem(d.a) <=> dst = "rm" /\ c.mod # 3
  BY <1>1, <1>3, Denoted
<1>5. /\ Fit(d.b, d.prefix, g, a)
      /\ ImmAt(d.b) <=> src = "imm"
      /\ IsMem(d.b) <=> src = "rm" /\ c.mod # 3
  BY <1>1, <1>3, Denoted
<1>6. c.mod # 3 \/ src = "imm" => NotStack(d.a) /\ NotStack(d.b)
  <2> SUFFICES ASSUME c.mod # 3 \/ src = "imm" PROVE NotStack(d.a) /\ NotStack(d.b)
    OBVIOUS
  <2>1. /\ "reg" \in {dst, src} => Reg(c) # RSP
        /\ "rm" \in {dst, src} /\ c.mod = 3 => Rm(c) # RSP
        /\ "opreg" \in {dst, src} => OpReg(c) # RSP
    <3>1. ~StackPointer(c) /\ src # "address"
      BY Rightly
    <3> QED BY <3>1, Unstacked
  <2> QED BY <2>1, DenotedFree
<1>7. c.mod = 3 /\ src # "imm" => GeneralAt(d.a) /\ GeneralAt(d.b)
  <2> SUFFICES ASSUME c.mod = 3, src # "imm" PROVE GeneralAt(d.a) /\ GeneralAt(d.b)
    OBVIOUS
  <2>1. dst \in Registered \/ (dst = "rm" /\ c.mod = 3)
    BY DEF Registered
  <2>2. src \in Registered \/ (src = "rm" /\ c.mod = 3)
    BY DEF Registered
  <2> QED BY <1>1, <2>1, <2>2, Denoted
<1>8. GeneralAt(d.a) /\ ImmAt(d.b) => At(w, Wrap(d.b.imm)) = Wrap(d.b.imm)
  <2> SUFFICES ASSUME GeneralAt(d.a), ImmAt(d.b) PROVE At(w, Wrap(d.b.imm)) = Wrap(d.b.imm)
    OBVIOUS
  <2>1. src = "imm" /\ c.imm \in Int
    BY <1>5, Registers16
  <2>2. d.b.imm = c.imm
    BY <2>1 DEF Denotes, IsImm, Registered
  <2>3. ~Memory(c)
    BY <1>4, <2>1, OperandSorts DEF Memory
  <2>4. CASE w = 64
    BY <2>1, <2>2, <2>4, AtWraps, Wraps
  <2>5. CASE w = 32
    <3>1. Form(c).does = "MOV" /\ Form(c).src = "imm"
      BY <2>1 DEF F
    <3>2. c.imm \in 0..(Half - 1)
      BY <2>3, <2>5, <3>1, Rightly DEF Unnarrowed
    <3>3. Wrap(c.imm) = c.imm
      <4>1. c.imm \in Numbers
        BY <3>2, ValuesAssumption DEF Numbers
      <4> QED BY <2>1, <4>1, Wraps
    <3>4. c.imm % Half = c.imm
      BY <3>2, ValuesAssumption
    <3>5. Count(32) = Half
      BY DEF Count
    <3> QED BY <2>2, <2>5, <3>3, <3>4, <3>5 DEF At
  <2> QED BY <2>4, <2>5 DEF Sizes
<1>9. WordsFor(d) = EncodeMov(d, NextIp)
  BY WordsForIs, WideArithmetic
<1>10. ~IsMem(d.a) \/ ~IsMem(d.b)
  BY <1>4, <1>5
<1>11. (GeneralAt(d.a) /\ GeneralAt(d.b)) \/ (NotStack(d.a) /\ NotStack(d.b))
  BY <1>6, <1>7
<1>12. Reaches(EncodeMov(d, NextIp), h, e)
  BY <1>4, <1>5, <1>8, <1>10, <1>11, MovReaches
<1> HIDE DEF e
<1> QED BY <1>2, <1>9, <1>12, FollowsReached

LEMMA MovByteFollows ==
  ASSUME NEW c \in Codes, ~Mistranslated(c), NEW dst, NEW src, Form(c) = F("MOV", dst, src), ~c.two,
         Width(c) = 8, NEW d, d.type = "MOV", d.prefix = c.prefix, d.size = 8,
         Denotes(dst, c, d.a), Denotes(src, c, d.b), dst \in {"rm", "reg", "opreg"},
         src \in {"rm", "reg", "imm"}, dst # src, NEW h \in Hosts
  PROVE  Follows(WordsFor(d), h, c)
<1> DEFINE g == GuestOf(h)
           a == Address(c, g)
           e == Stores(g, a, 8, Held(8, d.b, g, a))
<1>1. g \in Guests
  BY GuestFields
<1>2. CASE ~(dst = "rm" /\ c.mod # 3)
  <2>1. d.a.type = {"REG"}
    BY <1>2 DEF Denotes, RmIs, IsReg, Immediates
  <2>2. ~IsMem(d.a)
    BY <2>1 DEF IsMem
  <2>3. WordsFor(d) = panic
    BY <2>2, WordsForIs, ByteClasses DEF Mov8
  <2> QED BY <2>3, FollowsPanic
<1>3. CASE dst = "rm" /\ c.mod # 3
  <2>1. MemAt(d.a, d.prefix, g, a)
    <3>1. Reachable(c) /\ MemoryIs(c, d.a)
      BY <1>3 DEF Denotes, RmIs, Registered
    <3> QED BY <1>1, <3>1, MemAtIs
  <2>2. /\ (GeneralAt(d.b) /\ NotStack(d.b)) \/ ImmAt(d.b)
        /\ Get(src, c, g) = Held(8, d.b, g, a)
    <3>1. CASE src = "reg"
      <4>1. IsReg(d.b, Reg(c)) /\ Reg(c) \in 0..15
        BY <3>1, Registers16 DEF Denotes, Numbered, Registered
      <4>2. GeneralAt(d.b) /\ d.b.reg = Reg(c)
        BY <4>1 DEF GeneralAt, IsReg
      <4>3. NotStack(d.b)
        <5>1. Reg(c) # RSP
          BY <1>3, <3>1, Rightly, Unstacked
        <5> QED BY <4>2, <5>1 DEF NotStack
      <4>4. Held(8, d.b, g, a) = g.r[Reg(c)]
        BY <4>2, OperandSorts DEF Held
      <4>5. ~High(c, Reg(c))
        <5>1. "reg" \in Kinds(c)
          BY <3>1 DEF Kinds, F
        <5> QED BY <5>1, Rightly DEF HighByte
      <4>6. Get("reg", c, g) = g.r[Reg(c)]
        BY <4>5 DEF Get, Value, ByteOf
      <4> QED BY <3>1, <4>2, <4>3, <4>4, <4>6
    <3>2. CASE src = "imm"
      <4>1. d.b.type = {"IMM"} /\ d.b.imm = c.imm /\ c.imm \in Int
        BY <3>2, Registers16 DEF Denotes, IsImm, Registered
      <4>2. ImmAt(d.b)
        BY <4>1 DEF ImmAt
      <4>3. Held(8, d.b, g, a) = Wrap(c.imm)
        BY <4>1, <4>2, OperandSorts DEF Held
      <4>4. Get("imm", c, g) = Wrap(c.imm)
        BY DEF Get, Wrap
      <4> QED BY <3>2, <4>2, <4>3, <4>4
    <3>3. src # "rm"
      BY <1>3
    <3> QED BY <3>1, <3>2, <3>3
  <2>3. Effect(c, g) = e
    <3>1. Effect(c, g) = Put("rm", c, g, Get(src, c, g))
      BY <1>3, MovEffect
    <3>2. \A val : Put("rm", c, g, val) = Stores(g, a, 8, val)
      BY <1>3 DEF Put, Stores
    <3> QED BY <2>2, <3>1, <3>2
  <2>4. WordsFor(d) = Mov8(d, NextIp)
    BY WordsForIs, ByteClasses
  <2>5. Reaches(Mov8(d, NextIp), h, e)
    BY <2>1, <2>2, Mov8Reaches
  <2> HIDE DEF e
  <2> QED BY <2>3, <2>4, <2>5, FollowsReached
<1> QED BY <1>2, <1>3

LEMMA MoveFollows ==
  ASSUME NEW c \in Codes, ~Mistranslated(c), NEW dst, NEW src, Form(c) = F("MOV", dst, src), ~c.two,
         c.op # 255, NEW d, d.type = "MOV", d.prefix = c.prefix,
         \/ d.size = Wide(c, IF Bytewise(c) THEN 8 ELSE 32)
         \/ ~Bytewise(c) /\ d.size = Wide(c, 16),
         Denotes(dst, c, d.a), Denotes(src, c, d.b), dst \in {"rm", "reg", "opreg"},
         src \in {"rm", "reg", "imm"}, dst # src, HasModRM(c) /\ src = "imm" => dst = "rm", NEW h \in Hosts
  PROVE  Follows(WordsFor(d), h, c)
<1>1. ~OperandSize(c)
  BY Rightly
<1>2. Calculates(c)
  BY DEF Calculates, F
<1>3. CASE Bytewise(c)
  <2>1. d.size = 8 /\ Width(c) = 8
    BY <1>1, <1>2, <1>3, EightBits
  <2> QED BY <2>1, MovByteFollows
<1>4. CASE ~Bytewise(c)
  <2>1. d.size # 8 /\ Sf(d) = Width(c) /\ Width(c) \in Sizes
    BY <1>1, <1>2, <1>4, WideBits
  <2> QED BY <2>1, MovFollows
<1> QED BY <1>3, <1>4

LEMMA MoveRight ==
  ASSUME NEW c \in Codes, ~Mistranslated(c), ~c.two, c.op \in 136..139, NEW i \in Instructions,
         NEW h \in Hosts
  PROVE  Follows(WordsFor(decode_instr(c, i)), h, c)
<1> DEFINE d == decode_instr(c, i)
<1>1. HasModRM(c) /\ c.op # 255 /\ c.op % 8 \in 0..3
  BY DEF HasModRM
<1>2. /\ d.size = Wide(c, IF Bytewise(c) THEN 8 ELSE 32)
      /\ c.op \in {136, 137} => /\ d.type = "MOV" /\ d.prefix = c.prefix /\ RmReg(c, d)
                                /\ Form(c) = F("MOV", "rm", "reg")
      /\ c.op \in {138, 139} => /\ d.type = "MOV" /\ d.prefix = c.prefix /\ RegRm(c, d)
                                /\ Form(c) = F("MOV", "reg", "rm")
  <2> DEFINE j == [Start(c, i) EXCEPT !.type = "MOV"]
  <2>1. Alike(j, Start(c, i)) /\ j.size = 32 /\ j.type = "MOV" /\ Body(c, i) = decode_GRP0(c, j)
    BY MovDecoded
  <2> HIDE DEF j
  <2>2. /\ c.op % 8 < 2 => Is(d, c, "MOV", ByteOr(c, 32), c.prefix, 1 + RmBytes(c)) /\ RmReg(c, d)
        /\ c.op % 8 \in {2, 3} => Is(d, c, "MOV", ByteOr(c, 32), c.prefix, 1 + RmBytes(c)) /\ RegRm(c, d)
    BY <1>1, <2>1, DecodedGrp0
  <2>3. c.op \in {136, 137} => c.op % 8 < 2 /\ Form(c) = F("MOV", "rm", "reg")
    BY DEF Form, OneByte
  <2>4. c.op \in {138, 139} => c.op % 8 \in {2, 3} /\ Form(c) = F("MOV", "reg", "rm")
    BY DEF Form, OneByte
  <2>5. Bytewise(c) <=> c.op % 2 = 0
    BY DEF Bytewise
  <2>6. d.size = Wide(c, ByteOr(c, 32))
    BY <2>2, <2>3, <2>4 DEF Is
  <2> QED BY <2>2, <2>3, <2>4, <2>5, <2>6 DEF Is, ByteOr
<1> HIDE DEF d
<1>3. CASE c.op \in {136, 137}
  <2>1. Denotes("rm", c, d.a) /\ Denotes("reg", c, d.b)
    BY <1>1, <1>2, <1>3, RmDenotes, RegDenotes DEF RmReg
  <2>2. Follows(WordsFor(d), h, c)
    BY <1>1, <1>2, <1>3, <2>1, MoveFollows
  <2> QED BY <2>2 DEF d
<1>4. CASE c.op \in {138, 139}
  <2>1. Denotes("reg", c, d.a) /\ Denotes("rm", c, d.b)
    BY <1>1, <1>2, <1>4, RmDenotes, RegDenotes DEF RegRm
  <2>2. Follows(WordsFor(d), h, c)
    BY <1>1, <1>2, <1>4, <2>1, MoveFollows
  <2> QED BY <2>2 DEF d
<1> QED BY <1>3, <1>4

LEMMA MoveImmediateRight ==
  ASSUME NEW c \in Codes, ~Mistranslated(c), ~c.two, c.op \in (176..191) \cup {198, 199},
         NEW i \in Instructions, NEW h \in Hosts
  PROVE  Follows(WordsFor(decode_instr(c, i)), h, c)
<1> DEFINE d == decode_instr(c, i)
<1>1. c.op # 255 /\ (c.op \in {198, 199} => HasModRM(c)) /\ (c.op \in 176..191 => ~HasModRM(c))
  BY DEF HasModRM
<1>2. CASE c.op \in 176..191
  <2>1. d.type = "MOV" /\ d.prefix = c.prefix /\ IsReg(d.a, OpReg(c)) /\ IsImm(d.b, c.imm)
        /\ d.size = Wide(c, IF Bytewise(c) THEN 8 ELSE 32)
    <3>1. CASE c.op \in 176..183
      <4>1. Bytewise(c)
        BY <3>1 DEF Bytewise
      <4> QED BY <3>1, <4>1, MovByteDecoded DEF Is
    <3>2. CASE c.op \in 184..191
      <4>1. ~Bytewise(c)
        BY <3>2 DEF Bytewise
      <4> QED BY <3>2, <4>1, MovWordDecoded DEF Is
    <3> QED BY <1>2, <3>1, <3>2
  <2>2. Form(c) = F("MOV", "opreg", "imm")
    BY <1>2 DEF Form, OneByte
  <2> HIDE DEF d
  <2>3. Denotes("opreg", c, d.a) /\ Denotes("imm", c, d.b)
    BY <2>1, RegDenotes
  <2>4. Follows(WordsFor(d), h, c)
    BY <1>1, <1>2, <2>1, <2>2, <2>3, MoveFollows
  <2> QED BY <2>4 DEF d
<1>3. CASE c.op \in {198, 199}
  <2>1. d.type = "MOV" /\ d.prefix = c.prefix /\ RmImm(c, d, c.imm)
        /\ \/ d.size = Wide(c, IF Bytewise(c) THEN 8 ELSE 32)
           \/ ~Bytewise(c) /\ d.size = Wide(c, 16)
    <3>1. Bytewise(c) <=> c.op = 198
      BY <1>3 DEF Bytewise
    <3> QED BY <1>3, <3>1, MovRmImmediateDecoded DEF Is
  <2>2. Form(c) = F("MOV", "rm", "imm")
    BY <1>3 DEF Form, OneByte
  <2> HIDE DEF d
  <2>3. Denotes("rm", c, d.a) /\ Denotes("imm", c, d.b)
    BY <1>1, <1>3, <2>1, RmDenotes, RegDenotes DEF RmImm
  <2>4. Follows(WordsFor(d), h, c)
    BY <1>1, <2>1, <2>2, <2>3, MoveFollows
  <2> QED BY <2>4 DEF d
<1> QED BY <1>2, <1>3

LEMMA GuestNumber ==
  ASSUME NEW g \in Guests, NEW n \in 0..15
  PROVE  g.r[n] \in Numbers /\ g.r[n] \in Int
<1>1. g.r[n] \in Numbers
  BY DEF Guests
<1> QED BY <1>1, NumbersAre

LEMMA WholeResult ==
  ASSUME NEW c, Width(c) = 64, NEW g, NEW n, NEW val \in Int
  PROVE  SetRegister(c, g, n, val) = PutR(g, n, Wrap(val))
<1>1. SetRegister(c, g, n, val) = [g EXCEPT !.r[n] = At(64, val)]
  BY DEF SetRegister
<1>2. At(64, val) = Wrap(val)
  BY AtWraps
<1> QED BY <1>1, <1>2 DEF PutR

LEMMA SignExtendRight ==
  ASSUME NEW c \in Codes, ~Mistranslated(c), ~c.two, c.op = 99, NEW i \in Instructions, NEW h \in Hosts
  PROVE  Follows(WordsFor(decode_instr(c, i)), h, c)
<1> DEFINE d == decode_instr(c, i)
           g == GuestOf(h)
           a == Address(c, g)
<1>1. d.type = "MOVSX" /\ d.size # 8 /\ RegRm(c, d)
  BY MovsxLeaDecoded, ByteSized DEF Is
<1>2. HasModRM(c) /\ Form(c) = F("SIGN32", "reg", "whole") /\ Form(c).does = "SIGN32"
  BY DEF HasModRM, Form, OneByte, F
<1>3. g \in Guests
  BY GuestFields
<1> HIDE DEF d
<1>4. IsReg(d.a, Reg(c)) /\ Reg(c) \in 0..15 /\ RmIs(c, d.b)
  BY <1>1, Registers16 DEF RegRm
<1>5. WordsFor(d) = EncodeWide(d, NextIp)
  BY <1>1, WordsForIs
<1>6. GeneralAt(d.a) /\ d.a.reg = Reg(c)
  BY <1>4 DEF GeneralAt, IsReg
<1>8. CASE c.mod = 3
  <2>1. Reg(c) # RSP /\ Rm(c) # RSP /\ Width(c) = 64 /\ Rm(c) \in 0..15
    <3>1. ~StackPointer(c) /\ ~Widenings(c)
      BY Rightly
    <3>2. Reg(c) # RSP /\ Rm(c) # RSP
      <4>1. Kinds(c) = {"reg", "whole"} /\ Form(c).src = "whole"
        BY <1>2 DEF Kinds, F
      <4> QED BY <1>2, <1>8, <3>1, <4>1 DEF StackPointer
    <3> QED BY <1>2, <3>1, <3>2, Registers16 DEF Widenings
  <2>2. GeneralAt(d.b) /\ d.b.reg = Rm(c)
    BY <1>4, <1>8, <2>1 DEF GeneralAt, RmIs, IsReg
  <2>3. NotStack(d.a) /\ NotStack(d.b)
    BY <1>6, <2>1, <2>2 DEF NotStack
  <2>4. Reaches(<<RRR("SXTW", d.a.reg, d.b.reg, 0)>>, h, PutR(g, d.a.reg, Wrap(Signed(32, Held(64, d.b, g, a)))))
    BY <1>6, <2>2, <2>3, ExtendReaches
  <2>5. EncodeWide(d, NextIp) = <<RRR("SXTW", d.a.reg, d.b.reg, 0)>>
    <3>1. d.a.type = {"REG"} /\ d.b.type = {"REG"}
      BY <1>6, <2>2, OperandSorts
    <3> QED BY <1>1, <3>1, WideConditions
  <2>6. Effect(c, g) = PutR(g, d.a.reg, Wrap(Signed(32, Held(64, d.b, g, a))))
    <3>1. Held(64, d.b, g, a) = g.r[Rm(c)] /\ g.r[Rm(c)] \in Int
      <4>1. g.r[Rm(c)] \in Numbers
        BY <1>3, <2>1 DEF Guests
      <4> QED BY <2>2, <4>1, OperandSorts, NumbersAre DEF Held
    <3>2. Get("whole", c, g) = g.r[Rm(c)]
      BY <1>8 DEF Get
    <3> DEFINE y == Signed(32, g.r[Rm(c)])
    <3>3. y \in Int
      BY <3>1, SignedNumber
    <3>4. Effect(c, g) = Put("reg", c, g, y)
      BY <1>2, <3>2, TablesAre, SignsEffect
    <3> HIDE DEF y
    <3>5. Put("reg", c, g, y) = SetRegister(c, g, Reg(c), y)
      BY DEF Put
    <3>6. SetRegister(c, g, Reg(c), y) = PutR(g, Reg(c), Wrap(y))
      BY <2>1, <3>3, WholeResult
    <3> QED BY <1>6, <3>1, <3>3, <3>4, <3>5, <3>6 DEF y
  <2>7. Follows(WordsFor(d), h, c)
    BY <1>5, <2>4, <2>5, <2>6, FollowsReached
  <2> QED BY <2>7 DEF d
<1>9. CASE c.mod # 3
  <2>1. d.b.type # {"REG"}
    <3>1. IsMem(d.b)
      BY <1>4, <1>9, OperandIs DEF RmIs, IsMem
    <3> QED BY <3>1, OperandSorts
  <2>2. WordsFor(d) = panic
    BY <1>1, <1>5, <2>1, WideConditions
  <2>3. Follows(WordsFor(d), h, c)
    BY <2>2, FollowsPanic
  <2> QED BY <2>3 DEF d
<1> QED BY <1>8, <1>9

LEMMA LeaRight ==
  ASSUME NEW c \in Codes, ~Mistranslated(c), ~c.two, c.op = 141, NEW i \in Instructions, NEW h \in Hosts
  PROVE  Follows(WordsFor(decode_instr(c, i)), h, c)
<1> DEFINE d == decode_instr(c, i)
           g == GuestOf(h)
           o == Offset(c, g)
<1>1. d.type = "LEA" /\ d.size # 8 /\ d.size = Wide(c, 32) /\ d.prefix = c.prefix /\ RegRm(c, d)
  BY MovsxLeaDecoded, ByteSized DEF Is
<1>2. HasModRM(c) /\ Form(c) = F("MOV", "reg", "address")
  BY DEF HasModRM, Form, OneByte
<1>3. g \in Guests
  BY GuestFields
<1> HIDE DEF d
<1>4. WordsFor(d) = EncodeWide(d, NextIp)
  BY <1>1, WordsForIs
<1>5. IsReg(d.a, Reg(c)) /\ d.a.reg = Reg(c) /\ GeneralAt(d.a)
  BY <1>1, Registers16 DEF RegRm, IsReg, GeneralAt
<1>6. CASE c.mod = 3
  <2>1. ~IsMem(d.b)
    BY <1>1, <1>6 DEF RegRm, RmIs, IsReg, IsMem
  <2>2. WordsFor(d) = panic
    BY <1>1, <1>4, <2>1, WideConditions
  <2>3. Follows(WordsFor(d), h, c)
    BY <2>2, FollowsPanic
  <2> QED BY <2>3 DEF d
<1>7. CASE c.mod # 3
  <2>1. Reachable(c) /\ Memory(c)
    BY <1>2, <1>7, Rightly DEF Memory
  <2>2. MemoryIs(c, d.b) /\ IsMem(d.b)
    <3>1. MemoryIs(c, d.b)
      BY <1>1, <1>7 DEF RegRm, RmIs
    <3> QED BY <3>1, OperandIs DEF IsMem
  <2>3. c.prefix # "FS"
    BY <2>1, Rightly DEF SegmentRelative
  <2>4. Indexed(c) /\ ~NoBase(c) => d.a.reg # BaseRegister(c)
    <3> SUFFICES ASSUME Indexed(c), ~NoBase(c) PROVE d.a.reg # BaseRegister(c)
      OBVIOUS
    <3>1. c.rm = 4 /\ Reg(c) # c.base + Ext(c, "B")
      BY Rightly DEF LeaOverlap, Indexed, Sib
    <3> QED BY <1>5, <3>1 DEF BaseRegister
  <2>5. d.a.reg = RSP => ~NoBase(c) /\ ~Indexed(c)
    <3>1. ~StackPointer(c)
      BY Rightly
    <3>2. Form(c).does = "MOV" /\ Form(c).src = "address" /\ "reg" \in Kinds(c)
      BY <1>2 DEF F, Kinds
    <3> QED BY <1>5, <1>7, <3>1, <3>2 DEF StackPointer
  <2>6. Reaches(emit_address_decode(d.b, X(d.a.reg), c.prefix, NextIp), h, PutR(g, d.a.reg, Wrap(o)))
    BY <1>5, <2>1, <2>2, <2>3, <2>4, <2>5, LeaReaches
  <2>7. WordsFor(d) = emit_address_decode(d.b, X(d.a.reg), c.prefix, NextIp)
    BY <1>1, <1>4, <2>2, WideConditions
  <2>8. Effect(c, g) = PutR(g, d.a.reg, Wrap(o))
    <3>1. o \in Int
      BY <1>3, <2>1, AddressNumber
    <3>2. Get("address", c, g) = Wrap(o)
      BY DEF Get, Wrap
    <3>3. Width(c) = 64
      <4>1. d.size = Wide(c, 32) /\ ~Bytewise(c) /\ Calculates(c)
        BY <1>1, <1>2 DEF Bytewise, Calculates, F
      <4>2. Width(c) \in Sizes
        BY <4>1, Rightly, WideBits
      <4>3. Width(c) # 32
        BY <1>2, Rightly DEF Unnarrowed, F
      <4> QED BY <4>2, <4>3 DEF Sizes
    <3> DEFINE y == Wrap(o)
    <3>4. y \in Int /\ Wrap(y) = y
      BY <3>1, Wraps
    <3> HIDE DEF o
    <3>5. Effect(c, g) = Put("reg", c, g, y)
      BY <1>2, <3>2, MovEffect
    <3> HIDE DEF y
    <3>6. Put("reg", c, g, y) = SetRegister(c, g, Reg(c), y)
      BY DEF Put
    <3>7. SetRegister(c, g, Reg(c), y) = PutR(g, Reg(c), Wrap(y))
      BY <3>3, <3>4, WholeResult
    <3> QED BY <1>5, <3>4, <3>5, <3>6, <3>7 DEF y
  <2>9. Follows(WordsFor(d), h, c)
    BY <2>6, <2>7, <2>8, FollowsReached
  <2> QED BY <2>9 DEF d
<1> QED BY <1>6, <1>7

LEMMA TestRight ==
  ASSUME NEW c \in Codes, ~Mistranslated(c), ~c.two, c.op \in {132, 133}, NEW i \in Instructions,
         NEW h \in Hosts
  PROVE  Follows(WordsFor(decode_instr(c, i)), h, c)
<1> DEFINE d == decode_instr(c, i)
           g == GuestOf(h)
           a == Address(c, g)
           w == Width(c)
           e == SetFlags(g, <<"AND", At(w, Held(w, d.a, g, a)), At(w, Held(w, d.b, g, a)), w>>)
<1>1. d.type = "TEST" /\ RmReg(c, d) /\ d.size = Wide(c, ByteOr(c, 32))
  BY TestDecoded DEF Is
<1>2. HasModRM(c) /\ Form(c) = F("TEST", "rm", "reg")
  BY DEF HasModRM, Form, OneByte
<1>3. g \in Guests
  BY GuestFields
<1> HIDE DEF d
<1>4. Denotes("rm", c, d.a) /\ Denotes("reg", c, d.b)
  BY <1>1, <1>2, RmDenotes, RegDenotes DEF RmReg
<1>5. "reg" \in Registered /\ "rm" \notin Registered
  BY DEF Registered
<1>w. d.size # 8 /\ Sf(d) = w /\ w \in Sizes
  <2>1. Calculates(c) /\ Form(c).does \in DOMAIN Compares /\ c.op # 255
    BY <1>2, TablesAre DEF Calculates, F
  <2>2. Bytewise(c) <=> c.op % 2 = 0
    BY DEF Bytewise
  <2>3. d.size = Wide(c, IF Bytewise(c) THEN 8 ELSE 32)
    BY <1>1, <2>2 DEF ByteOr
  <2> QED BY <2>1, <2>3, Rightly, Sizings
<1>6. CASE c.mod # 3
  <2>1. d.a.type # {"REG"}
    <3>1. IsMem(d.a)
      BY <1>3, <1>4, <1>6, <1>w, Denoted
    <3> QED BY <3>1, OperandSorts
  <2>2. WordsFor(d) = panic
    BY <1>1, <1>w, <2>1, WordsForIs, WideConditions
  <2>3. Follows(WordsFor(d), h, c)
    BY <2>2, FollowsPanic
  <2> QED BY <2>3 DEF d
<1>7. CASE c.mod = 3
  <2>1. GeneralAt(d.a) /\ GeneralAt(d.b)
    BY <1>3, <1>4, <1>5, <1>7, <1>w, Denoted
  <2>2. Reg(c) # RSP /\ Rm(c) # RSP
    BY <1>2, <1>7, Rightly, Unstacked
  <2>3. NotStack(d.a) /\ NotStack(d.b)
    BY <1>4, <2>2, DenotedFree
  <2>4. Effect(c, g) = e
    <3>1. Get("rm", c, g) = Held(w, d.a, g, a) /\ Get("reg", c, g) = Held(w, d.b, g, a)
      BY <1>3, <1>4, <1>w, Denoted
    <3>2. Effect(c, g) = SetFlags(g, <<Compares["TEST"], At(w, Get("rm", c, g)), At(w, Get("reg", c, g)), w>>)
      BY <1>2, TablesAre, CompareEffect DEF WidthOf
    <3> QED BY <3>1, <3>2, TablesAre
  <2>5. Reaches(WordsFor(d), h, e)
    <3>1. WordsFor(d) = <<Sized(w, RRR("ANDS", XZR, d.a.reg, d.b.reg))>>
      BY <1>1, <1>w, <2>1, WordsForIs, WideConditions DEF GeneralAt
    <3> QED BY <2>1, <2>3, <3>1, TestReaches
  <2> HIDE DEF e
  <2>6. Follows(WordsFor(d), h, c)
    BY <2>4, <2>5, FollowsReached
  <2> QED BY <2>6 DEF d
<1> QED BY <1>6, <1>7

LEMMA JumpIs ==
  ASSUME NEW c, Form(c) = F("JUMP", "none", "next"), NEW g
  PROVE  Effect(c, g) = Jumps(g, Wrap(NextIp + c.imm))
<1>1. Effect(c, g) = Jumps(g, Wrap(Get("next", c, g)))
  BY JumpEffect
<1> QED BY <1>1 DEF Get

LEMMA JumpNames ==
  ASSUME NEW k \in 1..16
  PROVE  /\ Jcc[k] # "panic" /\ Jcc[k] \in {Jcc[n] : n \in 1..16}
         /\ CMOVcc[k] # "panic" /\ CMOVcc[k] \in {CMOVcc[n] : n \in 1..16}
         /\ SETcc[k] # "panic" /\ SETcc[k] \in {SETcc[n] : n \in 1..16}
<1>1. Jcc[k] # "panic"
  BY DEF Jcc
<1>2. CMOVcc[k] # "panic"
  BY DEF CMOVcc
<1>3. SETcc[k] # "panic"
  BY DEF SETcc
<1> QED BY <1>1, <1>2, <1>3

LEMMA ConditionFollows ==
  ASSUME NEW c \in Codes, Form(c) = F("JUMP", "none", "next"), NEW k \in 1..16, NEW d, d.type = Jcc[k],
         d.size # 8, IsImm(d.a, c.imm), NEW h \in Hosts
  PROVE  Follows(WordsFor(d), h, c)
<1>1. WordsFor(d) = EncodeWide(d, NextIp)
  BY JumpNames, WordsForIs
<1>2. CASE d.type \in {"JG", "JGE", "JL", "JLE", "JNE", "JBE", "JAE", "JE"}
  <2>1. WordsFor(d) = <<W("BRK", 0, 0, 0, NextIp + c.imm)>>
    BY <1>1, <1>2, WideClasses DEF IsImm
  <2>2. NextIp + c.imm \in Int
    BY ValuesAssumption, Registers16
  <2>3. Reaches(<<W("BRK", 0, 0, 0, NextIp + c.imm)>>, h, Jumps(GuestOf(h), Wrap(NextIp + c.imm)))
    BY <2>2, BrkReaches
  <2> QED BY <2>1, <2>3, JumpIs, FollowsReached
<1>3. CASE d.type \notin {"JG", "JGE", "JL", "JLE", "JNE", "JBE", "JAE", "JE"}
  <2>1. d.type \in {Jcc[n] : n \in 1..16}
    BY JumpNames
  <2>2. EncodeWide(d, NextIp) = panic
    BY <1>3, <2>1, WideClasses
  <2> QED BY <1>1, <2>2, FollowsPanic
<1> QED BY <1>2, <1>3

LEMMA JumpRight ==
  ASSUME NEW c \in Codes, ~c.two, c.op \in (112..127) \cup {232, 233, 235}, NEW i \in Instructions,
         NEW h \in Hosts
  PROVE  Follows(WordsFor(decode_instr(c, i)), h, c)
<1> DEFINE d == decode_instr(c, i)
           t == IF c.op \in 112..127 THEN Jcc[c.op - 111] ELSE IF c.op = 232 THEN "CALL" ELSE "JMP"
<1>1. d.type = t /\ d.size # 8 /\ IsImm(d.a, c.imm)
  BY JumpDecoded, ByteSized DEF Is
<1>2. Form(c) = F("JUMP", "none", "next")
  BY DEF Form, OneByte
<1> HIDE DEF d
<1>3. CASE c.op \in 112..127
  <2>1. c.op - 111 \in 1..16 /\ d.type = Jcc[c.op - 111]
    BY <1>1, <1>3
  <2>2. Follows(WordsFor(d), h, c)
    BY <1>1, <1>2, <2>1, ConditionFollows
  <2> QED BY <2>2 DEF d
<1>4. CASE c.op \in {232, 233, 235}
  <2> DEFINE op == IF c.op = 232 THEN "BLR" ELSE "BR"
  <2>1. d.type = IF c.op = 232 THEN "CALL" ELSE "JMP"
    BY <1>1, <1>4
  <2>2. WordsFor(d) = emit_branch(d, op, NextIp)
    BY <1>1, <2>1, WordsForIs, WideOthers
  <2>3. op \in {"BR", "BLR"} /\ ImmAt(d.a) /\ d.a.imm = c.imm
    BY <1>1, Registers16 DEF IsImm, ImmAt
  <2> HIDE DEF op
  <2>4. Reaches(emit_branch(d, op, NextIp), h, Jumps(GuestOf(h), Wrap(NextIp + c.imm)))
    BY <2>3, BranchReaches
  <2>5. Follows(WordsFor(d), h, c)
    BY <1>2, <2>2, <2>4, JumpIs, FollowsReached
  <2> QED BY <2>5 DEF d
<1> QED BY <1>3, <1>4

LEMMA BareRight ==
  ASSUME NEW c \in Codes, ~Mistranslated(c), ~c.two, c.op \in {144, 152, 153, 195, 201, 244}, NEW i \in Instructions,
         NEW h \in Hosts
  PROVE  Follows(WordsFor(decode_instr(c, i)), h, c)
<1> DEFINE d == decode_instr(c, i)
           g == GuestOf(h)
<1>1. d.type = BareType(c.op) /\ d.size # 8
  BY BareDecoded, ByteSized DEF Is
<1>2. g \in Guests
  BY GuestFields
<1> HIDE DEF d
<1>3. CASE c.op \in {144, 195, 201, 244}
  <2>1. Form(c) = F("NOP", "none", "none")
    BY <1>3 DEF Form, OneByte
  <2>2. \/ d.type = "NOP" \/ d.type = "RET" \/ d.type = "LEAVE"
    BY <1>1, <1>3 DEF BareType
  <2>3. \/ WordsFor(d) = <<>> \/ WordsFor(d) = <<R2("RET", 0, 30)>> \/ WordsFor(d) = <<R2("stack", 0, 0)>>
    BY <1>1, <2>2, WordsForIs, WideOthers, WideClasses
  <2>4. Follows(WordsFor(d), h, c)
    BY <2>1, <2>3, NothingFollows
  <2> QED BY <2>4 DEF d
<1>4. CASE c.op = 152
  <2>1. Form(c) = F("WIDEN", "rax", "rax")
    BY <1>4 DEF Form, OneByte
  <2>2. d.type = "CLTQ"
    BY <1>1, <1>4 DEF BareType
  <2>3. WordsFor(d) = <<RRR("SXTW", RAX, RAX, 0)>>
    BY <1>1, <2>2, WordsForIs, WideOthers
  <2>4. Width(c) = 64
    <3>1. Form(c).does = "WIDEN"
      BY <2>1 DEF F
    <3> QED BY <3>1, Rightly DEF Widenings
  <2> DEFINE y == Signed(32, g.r[0])
  <2>5. Effect(c, g) = PutR(g, 0, Wrap(y))
    <3>1. Effect(c, g) = Put("rax", c, g, Signed(32, Get("rax", c, g)))
      <4>1. WidthOf(c, "rax") \div 2 = 32
        BY <2>4 DEF WidthOf
      <4> QED BY <2>1, <4>1, WidenEffect
    <3>2. Get("rax", c, g) = g.r[0] /\ g.r[0] \in Int
      <4>1. g.r[0] \in Int
        BY <1>2, GuestNumber
      <4>2. Get("rax", c, g) = g.r[0]
        BY DEF Get
      <4> QED BY <4>1, <4>2
    <3>3. y \in Int
      BY <3>2, SignedNumber
    <3>4. Effect(c, g) = Put("rax", c, g, y)
      BY <3>1, <3>2
    <3> HIDE DEF y
    <3>5. Put("rax", c, g, y) = SetRegister(c, g, 0, y)
      BY DEF Put
    <3>6. SetRegister(c, g, 0, y) = PutR(g, 0, Wrap(y))
      BY <2>4, <3>3, WholeResult
    <3> QED BY <3>3, <3>4, <3>5, <3>6
  <2>6. Follows(WordsFor(d), h, c)
    BY <2>3, <2>5, SignReaches, FollowsReached
  <2> QED BY <2>6 DEF d
<1>5. c.op # 153
  <2> SUFFICES ASSUME c.op = 153 PROVE FALSE
    OBVIOUS
  <2>1. Form(c).does = "SIGN"
    BY DEF Form, OneByte, F
  <2> QED BY <2>1, Rightly DEF Widenings
<1> QED BY <1>3, <1>4, <1>5

LEMMA PushPopRight ==
  ASSUME NEW c \in Codes, ~c.two, c.op \in (80..95) \cup {104, 106, 143}, NEW i \in Instructions,
         NEW h \in Hosts
  PROVE  Follows(WordsFor(decode_instr(c, i)), h, c)
<1> DEFINE d == decode_instr(c, i)
<1>1. d.type \in {"PUSH", "POP"} /\ d.size # 8
  BY PushPopDecoded, ByteSized DEF Is
<1>2. WordsFor(d) = <<R2("stack", 0, 0)>>
  BY <1>1, WordsForIs, WideClasses
<1>3. Form(c) = F("NOP", "none", "none")
  BY DEF Form, OneByte
<1> QED BY <1>2, <1>3, NothingFollows

LEMMA ShiftNames ==
  /\ Shifts[5] = "SHL" /\ Shifts[8] = "SAR" /\ Shift[5] = "LSL" /\ Shift[8] = "ASR" /\ Shift[6] = "LSR"
  /\ \A k \in {1, 2, 3, 4, 7} : Shifts[k] \in {"ROL", "ROR", "RCL", "RCR", "SAL"}
  /\ \A k \in 1..8 : Shifts[k] \notin {"panic", "MOV", "TEST", "CMP", "SETNE", "SETAE", "SETE", "SETB"}
  /\ \A k \in 1..8 : Shift[k] \in {"ROL", "ROR", "RCL", "RCR", "LSL", "LSR", "ASR"}
  /\ ShiftOp("SHL") = "LSL" /\ ShiftOp("SAR") = "ASR"
BY DEF Shifts, Shift, ShiftOp

\* the right operand of a shift that is translated
Counted(c, src, op, g) ==
  \/ src = "cl" /\ IsReg(op, RCX)
  \/ src \in {"count", "one"} /\ ImmAt(op) /\ (Width(c) = 64 => Get(src, c, g) = op.imm % 64)

LEMMA ShiftEffect ==
  ASSUME NEW c \in Codes, NEW does \in {"LSL", "ASR"}, NEW src, Form(c) = F(does, "rm", src), c.mod = 3,
         NEW op, Denotes("rm", c, op), Width(c) \in Sizes, NEW g \in Guests, Get(src, c, g) \in Nat
  PROVE  Effect(c, g) = PutR(g, op.reg, OpAt(Width(c), does, Held(Width(c), op, g, Address(c, g)), Get(src, c, g)))
<1> DEFINE a == Address(c, g)
           w == Width(c)
           x == Held(w, op, g, a)
           y == Get(src, c, g)
<1>1. "rm" \notin Immediates /\ "rm" # "cl"
  BY DEF Immediates
<1>2. /\ Get("rm", c, g) = x /\ x \in Numbers
      /\ \A val \in Int : Put("rm", c, g, val) = Stored(w, op, g, a, At(w, val))
      /\ ~IsMem(op)
  BY <1>1, Denoted
<1>3. does \in Binaries /\ does \in (DOMAIN Key) \cup {"ADD", "SUB"}
  BY DEF Binaries, Key
<1>4. WidthOf(c, "rm") = w /\ w \in Int
  BY DEF WidthOf, Sizes
<1> HIDE DEF w, x, y, a
<1>5. Effect(c, g) = Put("rm", c, g, OpAt(w, does, x, y))
  BY <1>2, <1>3, <1>4, BinaryEffect DEF y
<1>6. y \in Nat /\ x \in Int
  BY <1>2, NumbersAre DEF y
<1> DEFINE val == OpAt(w, does, x, y)
<1>7. val \in Numbers /\ At(w, val) = val
  BY <1>3, <1>4, <1>6, OpAtRange
<1> HIDE DEF val
<1>8. Effect(c, g) = Stored(w, op, g, a, val)
  BY <1>2, <1>5, <1>7, NumbersAre DEF val
<1>9. Effect(c, g) = PutR(g, op.reg, val)
  BY <1>2, <1>8 DEF Stored
<1> QED BY <1>9 DEF val, w, x, y, a

LEMMA CountNumber ==
  ASSUME NEW c \in Codes, NEW src \in {"count", "one", "cl"}, NEW g \in Guests
  PROVE  Get(src, c, g) \in Nat
<1>1. CASE src = "count"
  <2>1. Get(src, c, g) = c.imm % (IF Width(c) = 64 THEN 64 ELSE 32) /\ c.imm \in Int
    BY <1>1, Registers16 DEF Get
  <2>2. \A n \in Int : n % 64 \in Nat /\ n % 32 \in Nat
    OBVIOUS
  <2> QED BY <2>1, <2>2
<1>2. CASE src = "one"
  BY <1>2 DEF Get
<1>3. CASE src = "cl"
  <2>1. Get(src, c, g) = g.r[1]
    BY <1>3 DEF Get
  <2>2. 1 \in 0..15
    OBVIOUS
  <2> QED BY <2>1, <2>2, GuestNumber, NumbersAre
<1> QED BY <1>1, <1>2, <1>3

LEMMA ShiftFollows ==
  ASSUME NEW c \in Codes, ~Mistranslated(c), NEW k \in 1..8, NEW src, Form(c) = F(Shift[k], "rm", src),
         src \in {"count", "one", "cl"}, NEW d, d.type = Shifts[k], Denotes("rm", c, d.a), NEW h \in Hosts,
         d.size = 8 \/ (Sf(d) = Width(c) /\ Width(c) \in Sizes), Counted(c, src, d.b, GuestOf(h))
  PROVE  Follows(WordsFor(d), h, c)
<1> DEFINE g == GuestOf(h)
           a == Address(c, g)
           w == Width(c)
           y == Get(src, c, g)
           x == Held(w, d.a, g, a)
<1>1. g \in Guests
  BY GuestFields
<1>2. Form(c).does = Shift[k] /\ Form(c).src = src
  BY DEF F
<1>3. k # 6
  BY <1>2, ShiftNames, Rightly DEF ShiftRight
<1>4. d.type \notin {"panic", "MOV", "TEST", "CMP", "SETNE", "SETAE", "SETE", "SETB"}
  BY ShiftNames
<1>5. CASE d.size = 8
  BY <1>4, <1>5, WordsForIs, ByteClasses, FollowsPanic
<1>6. CASE d.size # 8 /\ k \in {1, 2, 3, 4, 7}
  <2>1. d.type \in {"ADC", "SBB", "ROL", "ROR", "RCL", "RCR", "SAL"}
    <3>1. Shifts[k] \in {"ROL", "ROR", "RCL", "RCR", "SAL"}
      BY <1>6, ShiftNames
    <3> QED BY <3>1
  <2>2. WordsFor(d) = panic
    BY <1>4, <1>6, <2>1, WordsForIs, WideClasses
  <2> QED BY <2>2, FollowsPanic
<1>7. CASE d.size # 8 /\ k \in {5, 8}
  <2>1. d.type \in {"SHL", "SAR"} /\ ShiftOp(d.type) = Shift[k] /\ Shift[k] \in {"LSL", "ASR"}
    BY <1>7, ShiftNames
  <2>2. Sf(d) = w /\ w \in Sizes
    BY <1>7
  <2>3. "rm" \notin Immediates /\ "rm" \notin Registered
    BY DEF Immediates, Registered
  <2>4. (IsMem(d.a) <=> c.mod # 3) /\ (GeneralAt(d.a) <=> c.mod = 3)
    BY <1>1, <2>2, <2>3, Denoted
  <2>5. WordsFor(d) = EncodeShift(d)
    BY <1>4, <1>7, <2>1, WordsForIs, WideArithmetic
  <2>6. CASE c.mod # 3
    <3>1. d.a.type # {"REG"}
      BY <2>4, <2>6, OperandSorts
    <3>2. WordsFor(d) = panic
      BY <2>5, <3>1 DEF EncodeShift
    <3> QED BY <3>2, FollowsPanic
  <2>7. CASE c.mod = 3
    <3>1. Rm(c) # RSP
      <4>1. Shift[k] \notin {"MOV", "ADD", "SUB", "AND"} /\ src # "address" /\ ~StackPointer(c)
        BY <2>1, Rightly
      <4> QED BY <2>7, <4>1, Unstacked
    <3>2. GeneralAt(d.a) /\ NotStack(d.a)
      BY <2>4, <2>7, <3>1, DenotedFree
    <3>3. src # "cl" => w = 64
      <4>1. ~Unnarrowed(c)
        BY Rightly
      <4>2. src # "cl" => w # 32
        BY <1>2, <2>1, <4>1 DEF Unnarrowed
      <4> QED BY <2>2, <4>2 DEF Sizes
    <3>4. \/ GeneralAt(d.b) /\ NotStack(d.b) /\ y = Held(w, d.b, g, a)
          \/ ImmAt(d.b) /\ y = d.b.imm % 64 /\ w = 64
      <4>1. CASE src \in {"count", "one"} /\ ImmAt(d.b) /\ (w = 64 => y = d.b.imm % 64)
        BY <3>3, <4>1
      <4>2. CASE src = "cl" /\ IsReg(d.b, RCX)
        <5>1. Denotes("cl", c, d.b) /\ "cl" \in Registered
          BY <4>2, RegDenotes DEF Registered
        <5>2. y = Held(w, d.b, g, a) /\ GeneralAt(d.b)
          BY <1>1, <2>2, <4>2, <5>1, Denoted
        <5>3. NotStack(d.b)
          BY <5>1, DenotedFree
        <5> QED BY <5>2, <5>3
      <4> QED BY <4>1, <4>2 DEF Counted
    <3>5. Effect(c, g) = PutR(g, d.a.reg, OpAt(w, Shift[k], x, y))
      <4>1. y \in Nat
        BY <1>1, CountNumber
      <4> QED BY <1>1, <2>1, <2>2, <2>7, <4>1, ShiftEffect
    <3> HIDE DEF y
    <3>6. Reaches(EncodeShift(d), h, PutR(g, d.a.reg, OpAt(w, ShiftOp(d.type), x, y)))
      <4>1. \/ GeneralAt(d.b) /\ NotStack(d.b) /\ y = Held(Sf(d), d.b, g, a)
            \/ ImmAt(d.b) /\ y = d.b.imm % 64 /\ Sf(d) = 64
        BY <2>2, <3>4
      <4>2. d.type \in {"SHL", "SAR"}
        BY <2>1
      <4>3. Reaches(EncodeShift(d), h, PutR(g, d.a.reg, OpAt(Sf(d), ShiftOp(d.type), Held(Sf(d), d.a, g, a), y)))
        BY <3>2, <4>1, <4>2, ShiftReaches
      <4> QED BY <2>2, <4>3
    <3> QED BY <2>1, <2>5, <3>5, <3>6, FollowsReached
  <2> QED BY <2>6, <2>7
<1> QED BY <1>3, <1>5, <1>6, <1>7

LEMMA ShiftsRight ==
  ASSUME NEW c \in Codes, ~Mistranslated(c), ~c.two, c.op \in {192, 193} \cup (208..211),
         NEW i \in Instructions, NEW h \in Hosts
  PROVE  Follows(WordsFor(decode_instr(c, i)), h, c)
<1> DEFINE d == decode_instr(c, i)
           k == c.reg + 1
           g == GuestOf(h)
<1>1. /\ d.type = Shifts[k] /\ k \in 1..8 /\ d.size = Wide(c, ByteOr(c, 32))
      /\ c.op \in {192, 193} => RmImm(c, d, c.imm)
      /\ c.op \in {208, 209} => RmImm(c, d, 1)
      /\ c.op \in {210, 211} => RmIs(c, d.a) /\ IsReg(d.b, RCX + Ext(c, "R"))
  BY ShiftDecoded DEF Is, Codes
<1>2. /\ HasModRM(c)
      /\ c.op \in {192, 193} => Form(c) = F(Shift[k], "rm", "count")
      /\ c.op \in {208, 209} => Form(c) = F(Shift[k], "rm", "one")
      /\ c.op \in {210, 211} => Form(c) = F(Shift[k], "rm", "cl")
  BY DEF HasModRM, Form, OneByte
<1>3. d.size = 8 \/ (Sf(d) = Width(c) /\ Width(c) \in Sizes)
  <2>1. Form(c).does = Shift[k]
    BY <1>2 DEF F
  <2>2. Calculates(c)
    <3>1. Shift[k] \notin {"NOP", "JUMP"}
      BY <1>1, ShiftNames
    <3> QED BY <2>1, <3>1 DEF Calculates
  <2>3. Bytewise(c) <=> c.op % 2 = 0
    BY DEF Bytewise
  <2>4. d.size = Wide(c, IF Bytewise(c) THEN 8 ELSE 32)
    BY <1>1, <2>3 DEF ByteOr
  <2>5. c.op # 255
    OBVIOUS
  <2> HIDE DEF d, k
  <2> QED BY <2>2, <2>4, <2>5, Rightly, Sizings
<1> HIDE DEF d, k
<1>4. Denotes("rm", c, d.a)
  BY <1>1, <1>2, RmDenotes DEF RmImm
<1>5. CASE c.op \in {192, 193}
  <2>1. ImmAt(d.b) /\ d.b.imm = c.imm
    BY <1>1, <1>5, Registers16 DEF RmImm, IsImm, ImmAt
  <2>2. Counted(c, "count", d.b, g)
    BY <2>1 DEF Counted, Get
  <2>3. Follows(WordsFor(d), h, c)
    BY <1>1, <1>2, <1>3, <1>4, <1>5, <2>2, ShiftFollows
  <2> QED BY <2>3 DEF d
<1>6. CASE c.op \in {208, 209}
  <2>1. ImmAt(d.b) /\ d.b.imm = 1
    BY <1>1, <1>6 DEF RmImm, IsImm, ImmAt
  <2>2. Counted(c, "one", d.b, g)
    <3>1. 1 % 64 = 1
      OBVIOUS
    <3> QED BY <2>1, <3>1 DEF Counted, Get
  <2>3. Follows(WordsFor(d), h, c)
    BY <1>1, <1>2, <1>3, <1>4, <1>6, <2>2, ShiftFollows
  <2> QED BY <2>3 DEF d
<1>7. CASE c.op \in {210, 211}
  <2>1. RCX + Ext(c, "R") = RCX
    BY <1>7, Rightly DEF StrayRex, Ext, RCX
  <2>2. Counted(c, "cl", d.b, g)
    BY <1>1, <1>7, <2>1 DEF Counted
  <2>3. Follows(WordsFor(d), h, c)
    BY <1>1, <1>2, <1>3, <1>4, <1>7, <2>2, ShiftFollows
  <2> QED BY <2>3 DEF d
<1> QED BY <1>5, <1>6, <1>7

LEMMA UnknownRight ==
  ASSUME NEW c \in Codes, NEW i \in Instructions, Body(c, i) = Unknown(Start(c, i)), NEW h \in Hosts
  PROVE  Follows(WordsFor(decode_instr(c, i)), h, c)
<1>1. decode_instr(c, i).type = "panic"
  BY DecodedUnknown DEF Is
<1> QED BY <1>1, WordsForIs, FollowsPanic

LEMMA OneByteRight ==
  ASSUME NEW c \in RealCodes, ~Mistranslated(c), ~c.two, NEW i \in Instructions, NEW h \in Hosts
  PROVE  Follows(WordsFor(decode_instr(c, i)), h, c)
<1>1. c \in Codes /\ c.op \in 0..255 /\ c.reg \in 0..7
  BY DEF RealCodes, Codes
<1>2. CASE c.op < 64
  BY <1>2, ArithmeticRight
<1>3. CASE c.op \in (80..95) \cup {104, 106, 143}
  BY <1>1, <1>3, PushPopRight
<1>4. CASE c.op \in {99, 141}
  BY <1>1, <1>4, SignExtendRight, LeaRight
<1>5. CASE c.op \in (112..127) \cup {232, 233, 235}
  BY <1>1, <1>5, JumpRight
<1>6. CASE c.op \in {144, 152, 153, 195, 201, 244}
  BY <1>1, <1>6, BareRight
<1>7. CASE c.op \in {128, 129, 131}
  BY <1>1, <1>7, ImmediateRight
<1>8. CASE c.op \in {132, 133}
  BY <1>1, <1>8, TestRight
<1>9. CASE c.op \in 136..139
  BY <1>1, <1>9, MoveRight
<1>10. CASE c.op \in (176..191) \cup {198, 199}
  BY <1>1, <1>10, MoveImmediateRight
<1>11. CASE c.op \in {192, 193} \cup (208..211)
  BY <1>1, <1>11, ShiftsRight
<1>12. CASE c.op \in {254, 255}
  BY <1>12, GroupRight
<1>15. c.op # 105
  <2> SUFFICES ASSUME c.op = 105 PROVE FALSE
    OBVIOUS
  <2>1. Form(c).does = "IMUL3"
    BY DEF Form, OneByte, F
  <2> QED BY <1>1, <2>1, Rightly DEF Multiply
<1>13. c.op = 247 => c.reg \notin {5, 7}
  <2> SUFFICES ASSUME c.op = 247, c.reg \in {5, 7} PROVE FALSE
    OBVIOUS
  <2>1. Form(c).does \in {"IMUL1", "IDIV"}
    BY DEF Form, OneByte, F
  <2> QED BY <1>1, <2>1, Rightly DEF Multiply, Divide
<1>14. CASE /\ c.op >= 64 /\ c.op \notin (80..95) \cup (112..127) \cup (136..139) \cup (176..193)
            /\ c.op \notin {99, 104, 105, 106, 128, 129, 131, 132, 133, 141, 143, 144, 152, 153, 195, 198,
                        199, 201, 232, 233, 235, 244, 254, 255} \cup (208..211)
  <2>1. Body(c, i) = Unknown(Start(c, i))
    <3>1. CASE c.op = 247
      BY <1>1, <1>13, <1>14, <3>1 DEF Body, DecodeOneByte, DecodeMultiply
    <3>2. CASE c.op # 247
      BY <1>1, <1>14, <3>2 DEF Body, DecodeOneByte
    <3> QED BY <3>1, <3>2
  <2> QED BY <1>1, <2>1, UnknownRight
<1> QED BY <1>1, <1>2, <1>3, <1>4, <1>5, <1>6, <1>7, <1>8, <1>9, <1>10, <1>11, <1>12, <1>14, <1>15

\* an instruction of two vector registers, or of one and memory
VectorPair(c, d, g) ==
  LET a == Address(c, g)
      s == Scalar(c)
  IN /\ XmmAt(d.a) /\ d.a.reg = Reg(c)
     /\ c.mod = 3 => XmmAt(d.b)
     /\ c.mod # 3 => MemAt(d.b, c.prefix, g, a) /\ IsMem(d.b)
     /\ Get("xreg", c, g) = ValueV(s, d.a, g, a) /\ Get("xreg", c, g) \in Numbers
     /\ Get("xrm", c, g) = ValueV(s, d.b, g, a) /\ Get("xrm", c, g) \in Numbers
     /\ \A val : Put("xreg", c, g, val) = PutV(g, d.a.reg, At(ScalarResult(c), val))

LEMMA PairIs ==
  ASSUME NEW c \in Codes, ~Mistranslated(c), HasModRM(c), NEW d, XmmIs(d.a, Reg(c)), XrmIs(c, d.b),
         NEW g \in Guests
  PROVE  VectorPair(c, d, g)
<1> DEFINE a == Address(c, g)
           s == Scalar(c)
<1>1. c.mod # 3 => Reachable(c)
  BY Rightly
<1>2. /\ c.mod = 3 => XmmAt(d.b)
      /\ c.mod # 3 => MemAt(d.b, c.prefix, g, a)
      /\ Get("xrm", c, g) = ValueV(s, d.b, g, a) /\ Get("xrm", c, g) \in Numbers
  BY <1>1, XrmFits
<1>3. /\ XmmAt(d.a) /\ d.a.reg = Reg(c)
      /\ Get("xreg", c, g) = ValueV(s, d.a, g, a) /\ Get("xreg", c, g) \in Numbers
      /\ \A val : Put("xreg", c, g, val) = PutV(g, d.a.reg, At(ScalarResult(c), val))
  BY XregFits
<1>4. c.mod # 3 => IsMem(d.b)
  BY <1>2, OperandSorts
<1> HIDE DEF a, s
<1> QED BY <1>2, <1>3, <1>4 DEF VectorPair, a, s

FloatOf == [op \in {88, 89, 92, 94} |->
              CASE op = 88 -> "FADD" [] op = 89 -> "FMUL" [] op = 92 -> "FSUB" [] op = 94 -> "FDIV"]

\* the precision a prefix gives is the one the word gets
LEMMA Precisions ==
  ASSUME NEW c \in Codes, ~Mistranslated(c), c.two, NEW d, d.prefix = c.prefix
  PROVE  /\ c.op \in {16, 17, 88, 89, 92, 94} => Ft(d) = Scalar(c) /\ ScalarResult(c) = Scalar(c)
         /\ c.op = 90 => c.prefix \in {"REPN", "REPE"}
         /\ c.op = 90 /\ c.prefix = "REPE" => Scalar(c) = 32 /\ ScalarResult(c) = 64
         /\ c.op = 90 /\ c.prefix # "REPE" => Scalar(c) = 64 /\ ScalarResult(c) = 32
         /\ c.op \in {40, 87, 110, 239} => Scalar(c) = 64 /\ ScalarResult(c) = 64
         /\ Scalar(c) \in Sizes
<1>1. ~Packed(c)
  BY Rightly
<1>2. c.op \in {16, 17, 88, 89, 90, 92, 94} => c.prefix \in {"REPN", "REPE"}
  BY <1>1 DEF Packed
<1>3. c.op \in {16, 17, 88, 89, 92, 94} => Ft(d) = Scalar(c) /\ ScalarResult(c) = Scalar(c)
  BY <1>2 DEF Ft, Scalar, ScalarResult
<1>4. c.op = 90 => Scalar(c) = (IF c.prefix = "REPE" THEN 32 ELSE 64)
                   /\ ScalarResult(c) = (IF c.prefix = "REPE" THEN 64 ELSE 32)
  BY DEF Scalar, ScalarResult
<1>5. c.op \in {40, 87, 110, 239} => Scalar(c) = 64 /\ ScalarResult(c) = 64
  BY DEF Scalar, ScalarResult
<1>6. Scalar(c) \in Sizes
  BY DEF Scalar, Sizes
<1> QED BY <1>2, <1>3, <1>4, <1>5, <1>6

LEMMA FloatResult ==
  ASSUME NEW s \in Sizes, NEW op \in {"FADD", "FSUB", "FMUL", "FDIV", "EOR", "CSEL_HI", "CSEL_MI"},
         NEW x \in Numbers, NEW y \in Numbers
  PROVE  OpAt(s, op, x, y) \in Numbers /\ At(s, OpAt(s, op, x, y)) = OpAt(s, op, x, y)
<1>1. op \in (DOMAIN Key) \cup {"ADD", "SUB"}
  BY DEF Key
<1>2. s \in Int /\ x \in Int /\ y \in Nat
  BY NumbersAre DEF Sizes
<1> QED BY <1>1, <1>2, OpAtRange

LEMMA FloatFollows ==
  ASSUME NEW c \in Codes, ~Mistranslated(c), c.two, c.op \in {88, 89, 92, 94}, NEW i \in Instructions,
         NEW h \in Hosts
  PROVE  Follows(WordsFor(decode_instr(c, i)), h, c)
<1> DEFINE d == decode_instr(c, i)
           g == GuestOf(h)
           a == Address(c, g)
           s == Scalar(c)
           does == FloatOf[c.op]
           x == ValueV(s, d.a, g, a)
           y == ValueV(s, d.b, g, a)
           e == OpAt(s, does, x, y)
<1>1. /\ d.type = VectorType(c) /\ d.size # 8 /\ d.prefix = c.prefix
      /\ XmmIs(d.a, Reg(c)) /\ XrmIs(c, d.b)
  BY VectorDecoded, ByteSized DEF Is
<1>2. HasModRM(c) /\ Form(c) = F(does, "xreg", "xrm")
  BY DEF HasModRM, Form, TwoByte, FloatOf
<1>3. does \in {"FADD", "FMUL", "FSUB", "FDIV"}
  BY DEF FloatOf
<1>4. EncodeWide(d, NextIp) = emit_neon(d, does, NextIp)
  BY <1>1, WideOthers DEF VectorType, FloatOf
<1>5. WordsFor(d) = emit_neon(d, does, NextIp)
  <2>1. d.type # "panic"
    BY <1>1 DEF VectorType
  <2> QED BY <1>1, <1>4, <2>1, WordsForIs
<1>6. g \in Guests
  BY GuestFields
<1> HIDE DEF d, does
<1>7. VectorPair(c, d, g)
  BY <1>1, <1>2, <1>6, PairIs
<1>8. Ft(d) = s /\ ScalarResult(c) = s /\ s \in Sizes
  BY <1>1, Precisions
<1>9. Reaches(emit_neon(d, does, NextIp), h, PutV(g, d.a.reg, e))
  <2>1. does \in FloatOps
    BY <1>3 DEF FloatOps
  <2>2. XmmAt(d.a) /\ (XmmAt(d.b) \/ MemAt(d.b, d.prefix, g, a))
    BY <1>1, <1>7 DEF VectorPair
  <2> HIDE DEF s
  <2> QED BY <1>8, <2>1, <2>2, NeonReaches
<1>10. Effect(c, g) = PutV(g, d.a.reg, e)
  <2>1. Effect(c, g) = Put("xreg", c, g, OpAt(s, does, Get("xreg", c, g), Get("xrm", c, g)))
    <3>1. does \in Binaries /\ WidthOf(c, "xreg") = s
      BY <1>3 DEF Binaries, WidthOf
    <3> QED BY <1>2, <3>1, BinaryEffect
  <2>2. /\ Get("xreg", c, g) = x /\ x \in Numbers /\ Get("xrm", c, g) = y /\ y \in Numbers
        /\ \A val : Put("xreg", c, g, val) = PutV(g, d.a.reg, At(s, val))
    BY <1>7, <1>8 DEF VectorPair
  <2> HIDE DEF s, x, y
  <2>3. At(s, e) = e
    BY <1>3, <1>8, <2>2, FloatResult
  <2> QED BY <2>1, <2>2, <2>3
<1> HIDE DEF e
<1>11. Follows(WordsFor(d), h, c)
  BY <1>5, <1>9, <1>10, FollowsReached
<1> QED BY <1>11 DEF d

LEMMA WidePanics ==
  ASSUME NEW i
  PROVE  /\ i.type \in {"PXOR", "CVTSD2SS"} /\ ~Xmm(i.b) => EncodeConvert(i, NextIp) = panic
         /\ ~IsMem(i.a) /\ ~IsMem(i.b) => EncodeMovs(i, NextIp) = panic
<1>1. i.type \in {"PXOR", "CVTSD2SS"} /\ ~Xmm(i.b) => EncodeConvert(i, NextIp) = panic
  BY DEF EncodeConvert
<1>2. ~IsMem(i.a) /\ ~IsMem(i.b) => EncodeMovs(i, NextIp) = panic
  BY DEF EncodeMovs
<1> QED BY <1>1, <1>2

LEMMA VectorMoveFollows ==
  ASSUME NEW c \in Codes, ~Mistranslated(c), c.two, c.op \in {16, 40}, NEW i \in Instructions,
         NEW h \in Hosts
  PROVE  Follows(WordsFor(decode_instr(c, i)), h, c)
<1> DEFINE d == decode_instr(c, i)
           g == GuestOf(h)
           a == Address(c, g)
           s == Scalar(c)
           y == ValueV(s, d.b, g, a)
<1>1. /\ d.type = VectorType(c) /\ d.size # 8 /\ d.prefix = c.prefix
      /\ XmmIs(d.a, Reg(c)) /\ XrmIs(c, d.b) /\ d.size = Wide(c, 32)
  BY VectorDecoded, ByteSized DEF Is
<1>2. HasModRM(c) /\ Form(c) = F("MOV", "xreg", "xrm")
  BY DEF HasModRM, Form, TwoByte
<1>3. g \in Guests
  BY GuestFields
<1>4. d.type = IF c.op = 16 THEN "MOVS" ELSE "MOVAPD"
  BY <1>1 DEF VectorType
<1> HIDE DEF d
<1>5. VectorPair(c, d, g)
  BY <1>1, <1>2, <1>3, PairIs
<1>6. ScalarResult(c) = s /\ s \in Sizes /\ (c.op = 16 => Ft(d) = s) /\ (c.op = 40 => s = 64)
  BY <1>1, Precisions
<1>7. Effect(c, g) = PutV(g, d.a.reg, At(s, y)) /\ y \in Numbers
  <2>1. Effect(c, g) = Put("xreg", c, g, Get("xrm", c, g))
    BY <1>2, MovEffect
  <2> QED BY <1>5, <1>6, <2>1 DEF VectorPair
<1>8. CASE c.op = 16 /\ c.mod = 3
  <2>1. ~IsMem(d.a) /\ ~IsMem(d.b)
    BY <1>5, <1>8, XmmSorts DEF VectorPair
  <2>2. EncodeWide(d, NextIp) = panic
    BY <1>4, <1>8, <2>1, WideOthers, WidePanics
  <2>3. WordsFor(d) = panic
    BY <1>1, <1>4, <1>8, <2>2, WordsForIs
  <2>4. Follows(WordsFor(d), h, c)
    BY <2>3, FollowsPanic
  <2> QED BY <2>4 DEF d
<1>9. CASE c.op = 16 /\ c.mod # 3
  <2>1. XmmAt(d.a) /\ MemAt(d.b, d.prefix, g, a) /\ y = At(s, Load(a))
    BY <1>1, <1>5, <1>9 DEF VectorPair, ValueV
  <2>2. WordsFor(d) = EncodeMovs(d, NextIp)
    BY <1>1, <1>4, <1>9, WordsForIs, WideOthers
  <2>3. Reaches(EncodeMovs(d, NextIp), h, PutV(g, d.a.reg, At(Ft(d), Load(a))))
    BY <2>1, MovsLoadReaches
  <2>4. At(s, y) = y
    <3>1. a \in Int
      BY <2>1, OperandSorts, NumbersAre
    <3>2. Load(a) \in Int
      BY <3>1, LoadRange, NumbersAre
    <3> QED BY <2>1, <3>2, AtWraps
  <2> HIDE DEF s, y
  <2>5. Follows(WordsFor(d), h, c)
    BY <1>6, <1>7, <1>9, <2>1, <2>2, <2>3, <2>4, FollowsReached
  <2> QED BY <2>5 DEF d
<1>10. CASE c.op = 40
  <2>1. c.mod = 3 /\ d.size # 64 /\ d.type = "MOVAPD"
    BY <1>1, <1>2, <1>4, <1>10, Rightly DEF Vectors, Memory, Wide
  <2>2. WordsFor(d) = EncodeConvert(d, NextIp)
    BY <1>1, <2>1, WordsForIs, WideClasses
  <2>3. XmmAt(d.a) /\ XmmAt(d.b)
    BY <1>5, <2>1 DEF VectorPair
  <2>4. Reaches(EncodeConvert(d, NextIp), h, PutV(g, d.a.reg, y))
    BY <2>1, <2>3, MovapdReaches
  <2>5. At(s, y) = y
    BY <1>6, <1>7, <1>10, NumbersAre, AtWraps
  <2> HIDE DEF s, y
  <2>6. Follows(WordsFor(d), h, c)
    BY <1>7, <2>2, <2>4, <2>5, FollowsReached
  <2> QED BY <2>6 DEF d
<1> QED BY <1>8, <1>9, <1>10

LEMMA VectorStoreFollows ==
  ASSUME NEW c \in Codes, ~Mistranslated(c), c.two, c.op = 17, NEW i \in Instructions, NEW h \in Hosts
  PROVE  Follows(WordsFor(decode_instr(c, i)), h, c)
<1> DEFINE d == decode_instr(c, i)
           g == GuestOf(h)
           a == Address(c, g)
           s == Scalar(c)
           y == ValueV(s, d.b, g, a)
<1>1. /\ d.type = "MOVS" /\ d.size # 8 /\ d.prefix = c.prefix
      /\ XrmIs(c, d.a) /\ XmmIs(d.b, Reg(c))
  BY StoreVectorDecoded, ByteSized DEF Is
<1>2. HasModRM(c) /\ Form(c) = F("MOV", "xrm", "xreg")
  BY DEF HasModRM, Form, TwoByte
<1>3. g \in Guests
  BY GuestFields
<1>4. WordsFor(d) = EncodeMovs(d, NextIp)
  BY <1>1, WordsForIs, WideOthers
<1> HIDE DEF d
<1>5. c.mod # 3 => Reachable(c)
  BY <1>2, Rightly
<1>6. XmmAt(d.b) /\ Get("xreg", c, g) = y
  BY <1>1, <1>3, XregFits
<1>7. CASE c.mod = 3
  <2>1. XmmAt(d.a)
    BY <1>1, <1>3, <1>5, <1>7, XrmFits
  <2>2. ~IsMem(d.a) /\ ~IsMem(d.b)
    BY <1>6, <2>1, XmmSorts
  <2>3. Follows(WordsFor(d), h, c)
    BY <1>4, <2>2, WidePanics, FollowsPanic
  <2> QED BY <2>3 DEF d
<1>8. CASE c.mod # 3
  <2>1. Ft(d) = s /\ ScalarResult(c) = s
    BY <1>1, Precisions
  <2>2. MemAt(d.a, d.prefix, g, a) /\ \A val : Put("xrm", c, g, val) = Stores(g, a, s, val)
    BY <1>1, <1>3, <1>5, <1>8, <2>1, XrmFits
  <2>3. Effect(c, g) = Stores(g, a, s, y)
    <3>1. Effect(c, g) = Put("xrm", c, g, Get("xreg", c, g))
      BY <1>2, MovEffect
    <3> QED BY <1>6, <2>2, <3>1
  <2> HIDE DEF s
  <2>4. Reaches(EncodeMovs(d, NextIp), h, Stores(g, a, s, y))
    BY <1>6, <2>1, <2>2, MovsStoreReaches
  <2>5. Follows(WordsFor(d), h, c)
    BY <1>4, <2>3, <2>4, FollowsReached
  <2> QED BY <2>5 DEF d
<1> QED BY <1>7, <1>8

LEMMA VectorXorFollows ==
  ASSUME NEW c \in Codes, ~Mistranslated(c), c.two, c.op \in {87, 239}, NEW i \in Instructions,
         NEW h \in Hosts
  PROVE  Follows(WordsFor(decode_instr(c, i)), h, c)
<1> DEFINE d == decode_instr(c, i)
           g == GuestOf(h)
           a == Address(c, g)
           x == ValueV(64, d.a, g, a)
           y == ValueV(64, d.b, g, a)
           e == OpAt(64, "EOR", x, y)
<1>1. /\ d.type = VectorType(c) /\ d.size # 8 /\ XmmIs(d.a, Reg(c)) /\ XrmIs(c, d.b) /\ d.prefix = c.prefix
  BY VectorDecoded, ByteSized DEF Is
<1>2. HasModRM(c) /\ Form(c) = F("EOR", "xreg", "xrm")
  BY DEF HasModRM, Form, TwoByte
<1>3. g \in Guests
  BY GuestFields
<1>4. d.type = "PXOR"
  BY <1>1 DEF VectorType
<1>5. WordsFor(d) = EncodeConvert(d, NextIp)
  BY <1>1, <1>4, WordsForIs, WideClasses
<1> HIDE DEF d
<1>6. VectorPair(c, d, g)
  BY <1>1, <1>2, <1>3, PairIs
<1>7. CASE c.mod # 3
  <2>1. ~Xmm(d.b)
    BY <1>6, <1>7, XmmSorts DEF VectorPair
  <2>2. Follows(WordsFor(d), h, c)
    BY <1>4, <1>5, <2>1, WidePanics, FollowsPanic
  <2> QED BY <2>2 DEF d
<1>8. CASE c.mod = 3
  <2>1. XmmAt(d.a) /\ XmmAt(d.b)
    BY <1>6, <1>8 DEF VectorPair
  <2>2. Reaches(EncodeConvert(d, NextIp), h, PutV(g, d.a.reg, e))
    BY <1>4, <2>1, XorReaches
  <2>3. Scalar(c) = 64 /\ ScalarResult(c) = 64
    BY <1>1, Precisions
  <2>4. Effect(c, g) = Put("xreg", c, g, OpAt(64, "EOR", Get("xreg", c, g), Get("xrm", c, g)))
    <3>1. "EOR" \in Binaries /\ WidthOf(c, "xreg") = 64
      BY <2>3 DEF Binaries, WidthOf
    <3> QED BY <1>2, <3>1, BinaryEffect
  <2>5. /\ Get("xreg", c, g) = x /\ x \in Numbers /\ Get("xrm", c, g) = y /\ y \in Numbers
        /\ \A val : Put("xreg", c, g, val) = PutV(g, d.a.reg, At(64, val))
    BY <1>6, <2>3 DEF VectorPair
  <2> HIDE DEF x, y
  <2>6. At(64, e) = e
    BY <2>5, FloatResult DEF Sizes
  <2>7. Effect(c, g) = PutV(g, d.a.reg, e)
    BY <2>4, <2>5, <2>6
  <2> HIDE DEF e
  <2>8. Follows(WordsFor(d), h, c)
    BY <1>5, <2>2, <2>7, FollowsReached
  <2> QED BY <2>8 DEF d
<1> QED BY <1>7, <1>8

LEMMA FloatSizeFollows ==
  ASSUME NEW c \in Codes, ~Mistranslated(c), c.two, c.op = 90, NEW i \in Instructions, NEW h \in Hosts
  PROVE  Follows(WordsFor(decode_instr(c, i)), h, c)
<1> DEFINE d == decode_instr(c, i)
           g == GuestOf(h)
           a == Address(c, g)
<1>1. /\ d.type = VectorType(c) /\ d.size # 8 /\ d.prefix = c.prefix
      /\ XmmIs(d.a, Reg(c)) /\ XrmIs(c, d.b)
  BY VectorDecoded, ByteSized DEF Is
<1>2. /\ HasModRM(c)
      /\ c.prefix = "REPE" => Form(c) = F("FCVTU", "xreg", "xrm")
      /\ c.prefix # "REPE" => Form(c) = F("FCVT", "xreg", "xrm")
  BY DEF HasModRM, Form, TwoByte
<1>3. g \in Guests
  BY GuestFields
<1>4. d.type = IF c.prefix = "REPE" THEN "CVTSS2SD" ELSE "CVTSD2SS"
  BY <1>1 DEF VectorType
<1>5. WordsFor(d) = EncodeConvert(d, NextIp)
  BY <1>1, <1>4, WordsForIs, WideClasses
<1> HIDE DEF d
<1>6. VectorPair(c, d, g)
  BY <1>1, <1>2, <1>3, PairIs
<1>7. CASE c.prefix = "REPE"
  <2> DEFINE e == At(64, Op("FCVTU", At(32, ValueV(32, d.b, g, a)), 0))
  <2>1. d.type = "CVTSS2SD" /\ Scalar(c) = 32 /\ ScalarResult(c) = 64
    BY <1>1, <1>4, <1>7, Precisions
  <2>2. XmmAt(d.a) /\ (XmmAt(d.b) \/ MemAt(d.b, d.prefix, g, a))
    BY <1>1, <1>6 DEF VectorPair
  <2>3. Reaches(EncodeConvert(d, NextIp), h, PutV(g, d.a.reg, e))
    BY <2>1, <2>2, LengthenReaches
  <2>4. Effect(c, g) = Put("xreg", c, g, Op("FCVTU", At(Scalar(c), Get("xrm", c, g)), 0))
    BY <1>2, <1>7, ConvertsEffect DEF Converts
  <2>5. Effect(c, g) = PutV(g, d.a.reg, e)
    BY <1>6, <2>1, <2>4 DEF VectorPair
  <2> HIDE DEF e
  <2>6. Follows(WordsFor(d), h, c)
    BY <1>5, <2>3, <2>5, FollowsReached
  <2> QED BY <2>6 DEF d
<1>8. CASE c.prefix # "REPE" /\ c.mod # 3
  <2>1. ~Xmm(d.b)
    BY <1>6, <1>8, XmmSorts DEF VectorPair
  <2>2. Follows(WordsFor(d), h, c)
    BY <1>4, <1>5, <1>8, <2>1, WidePanics, FollowsPanic
  <2> QED BY <2>2 DEF d
<1>9. CASE c.prefix # "REPE" /\ c.mod = 3
  <2> DEFINE y == ValueV(64, d.b, g, a)
             e == At(32, Op("FCVT", y, 0))
  <2>1. d.type = "CVTSD2SS" /\ Scalar(c) = 64 /\ ScalarResult(c) = 32
    BY <1>1, <1>4, <1>9, Precisions
  <2>2. XmmAt(d.a) /\ XmmAt(d.b)
    BY <1>6, <1>9 DEF VectorPair
  <2>3. Reaches(EncodeConvert(d, NextIp), h, PutV(g, d.a.reg, e))
    BY <2>1, <2>2, NarrowReaches
  <2>4. Effect(c, g) = Put("xreg", c, g, Op("FCVT", At(Scalar(c), Get("xrm", c, g)), 0))
    BY <1>2, <1>9, ConvertsEffect DEF Converts
  <2>5. /\ Get("xrm", c, g) = y /\ y \in Numbers
        /\ \A val : Put("xreg", c, g, val) = PutV(g, d.a.reg, At(32, val))
    BY <1>6, <2>1 DEF VectorPair
  <2> HIDE DEF y
  <2>6. At(64, y) = y
    BY <2>5, NumbersAre, AtWraps
  <2>7. Effect(c, g) = PutV(g, d.a.reg, e)
    BY <2>1, <2>4, <2>5, <2>6
  <2> HIDE DEF e
  <2>8. Follows(WordsFor(d), h, c)
    BY <1>5, <2>3, <2>7, FollowsReached
  <2> QED BY <2>8 DEF d
<1> QED BY <1>7, <1>8, <1>9

LEMMA FloatCompareFollows ==
  ASSUME NEW c \in Codes, ~Mistranslated(c), c.two, c.op = 47, NEW i \in Instructions, NEW h \in Hosts
  PROVE  Follows(WordsFor(decode_instr(c, i)), h, c)
<1> DEFINE d == decode_instr(c, i)
           g == GuestOf(h)
           a == Address(c, g)
           s == Scalar(c)
           x == ValueV(s, d.a, g, a)
           y == ValueV(s, d.b, g, a)
           f == <<"FCMP", At(s, x), At(s, y), s>>
<1>1. /\ d.type = "COMIS" /\ d.size # 8 /\ d.prefix = (IF c.prefix = "OS" THEN "REPN" ELSE "REPE")
      /\ XmmIs(d.a, Reg(c)) /\ XrmIs(c, d.b)
  BY CompareDecoded, ByteSized DEF Is
<1>2. HasModRM(c) /\ Form(c) = F("COMIS", "xreg", "xrm") /\ Form(c).does = "COMIS"
  BY DEF HasModRM, Form, TwoByte, F
<1>3. g \in Guests
  BY GuestFields
<1>4. WordsFor(d) = emit_neon(d, "FCMP", NextIp)
  BY <1>1, WordsForIs, WideOthers
<1> HIDE DEF d
<1>5. VectorPair(c, d, g)
  BY <1>1, <1>2, <1>3, PairIs
<1>6. d.a.reg = 0 /\ XmmAt(d.a)
  BY <1>5, Rightly DEF Vectors, VectorPair
<1>7. XmmAt(d.b) \/ MemAt(d.b, d.prefix, g, a)
  <2>1. CASE c.mod = 3
    BY <1>5, <2>1 DEF VectorPair
  <2>2. CASE c.mod # 3
    <3>1. c.prefix # "FS" /\ d.prefix # "FS"
      BY <1>1, <1>2, <2>2, Unsegmented
    <3>2. MemAt(d.b, c.prefix, g, a)
      BY <1>5, <2>2 DEF VectorPair
    <3> QED BY <3>1, <3>2, OtherSegment
  <2> QED BY <2>1, <2>2
<1>8. Ft(d) = s
  BY <1>1 DEF Ft, Scalar
<1>9. Reaches(emit_neon(d, "FCMP", NextIp), h, SetFlags(g, f))
  <2> HIDE DEF s
  <2> QED BY <1>6, <1>7, <1>8, ComisReaches
<1>10. Effect(c, g) = SetFlags(g, f)
  <2>1. Effect(c, g) = SetFlags(g, <<"FCMP", At(s, Get("xreg", c, g)), At(s, Get("xrm", c, g)), s>>)
    <3>1. WidthOf(c, "xreg") = s
      BY DEF WidthOf
    <3> HIDE DEF s
    <3> QED BY <1>2, <3>1, TablesAre, CompareEffect
  <2>2. Get("xreg", c, g) = x /\ Get("xrm", c, g) = y
    BY <1>5 DEF VectorPair
  <2> HIDE DEF x, y, s
  <2> QED BY <2>1, <2>2
<1> HIDE DEF f
<1>11. Follows(WordsFor(d), h, c)
  BY <1>4, <1>9, <1>10, FollowsReached
<1> QED BY <1>11 DEF d

LEMMA FromIntegerFollows ==
  ASSUME NEW c \in Codes, ~Mistranslated(c), c.two, c.op = 42, NEW i \in Instructions, NEW h \in Hosts
  PROVE  Follows(WordsFor(decode_instr(c, i)), h, c)
<1> DEFINE d == decode_instr(c, i)
           g == GuestOf(h)
           a == Address(c, g)
           s == Width(c)
           e == At(s, Op("SCVTF", Signed(s, Held(s, d.b, g, a)), 0))
<1>1. /\ d.type = "CVTSI2S" /\ d.size # 8 /\ d.prefix = c.prefix
      /\ XmmIs(d.a, Reg(c)) /\ RmIs(c, d.b)
  BY ConvertDecoded, ByteSized DEF Is
<1>2. HasModRM(c) /\ Form(c) = F("SCVTF", "xreg", "rm") /\ ~Bytewise(c)
  BY DEF HasModRM, Form, TwoByte, Bytewise
<1>3. g \in Guests
  BY GuestFields
<1>4. WordsFor(d) = EncodeConvert(d, NextIp)
  BY <1>1, WordsForIs, WideClasses
<1> HIDE DEF d
<1>5. Ft(d) = s /\ ScalarResult(c) = s /\ s \in Sizes /\ (c.mod # 3 => s = 32)
  <2>1. \/ c.prefix = "REPN" /\ "W" \in c.rex /\ c.mod = 3
        \/ c.prefix = "REPE" /\ "W" \notin c.rex
    BY Rightly DEF Conversions
  <2>2. Width(c) = IF "W" \in c.rex THEN 64 ELSE 32
    BY <1>2, <2>1 DEF Width
  <2>3. Ft(d) = (IF c.prefix = "REPN" THEN 64 ELSE 32) /\ ScalarResult(c) = (IF c.prefix = "REPN" THEN 64 ELSE 32)
    BY <1>1 DEF Ft, ScalarResult
  <2> QED BY <2>1, <2>2, <2>3 DEF Sizes
<1> HIDE DEF s
<1>6. XmmAt(d.a) /\ \A val : Put("xreg", c, g, val) = PutV(g, d.a.reg, At(s, val))
  BY <1>1, <1>3, <1>5, XregFits
<1>7. Denotes("rm", c, d.b) /\ "rm" \notin Immediates
  BY <1>1, <1>2, RmDenotes DEF Immediates
<1>8. /\ Get("rm", c, g) = Held(s, d.b, g, a) /\ Fit(d.b, d.prefix, g, a) /\ (IsMem(d.b) <=> c.mod # 3)
      /\ c.mod = 3 => GeneralAt(d.b)
  BY <1>1, <1>3, <1>5, <1>7, Denoted DEF s
<1>9. NotStack(d.b)
  <2>1. c.mod = 3 => Rm(c) # RSP
    BY <1>2, Rightly, Unstacked
  <2> QED BY <1>7, <2>1, DenotedFree
<1>10. (GeneralAt(d.b) /\ NotStack(d.b)) \/ (MemAt(d.b, d.prefix, g, a) /\ Ft(d) = 32)
  <2>1. CASE c.mod = 3
    BY <1>8, <1>9, <2>1
  <2>2. CASE c.mod # 3
    <3>1. MemAt(d.b, d.prefix, g, a)
      BY <1>8, <2>2, FitSorts
    <3> QED BY <1>5, <2>2, <3>1
  <2> QED BY <2>1, <2>2
<1>11. Reaches(EncodeConvert(d, NextIp), h, PutV(g, d.a.reg, e))
  BY <1>1, <1>5, <1>6, <1>10, FromIntegerReaches
<1>12. Effect(c, g) = PutV(g, d.a.reg, e)
  <2>1. Effect(c, g) = Put("xreg", c, g, Op("SCVTF", Signed(s, Get("rm", c, g)), 0))
    BY <1>2, ScvtfEffect DEF s
  <2> QED BY <1>6, <1>8, <2>1
<1> HIDE DEF e
<1>13. Follows(WordsFor(d), h, c)
  BY <1>4, <1>11, <1>12, FollowsReached
<1> QED BY <1>13 DEF d

\* a register to or from a vector register: only all of its 64 bits
LEMMA WholeVector ==
  ASSUME NEW c \in Codes, ~Mistranslated(c), c.two, c.op \in {110, 126}
  PROVE  /\ c.mod = 3 /\ "W" \in c.rex /\ Width(c) = 64 /\ Rm(c) # RSP /\ HasModRM(c)
         /\ c.op = 110 => Form(c) = F("MOV", "xreg", "whole")
         /\ c.op = 126 => Form(c) = F("MOV", "rm", "xreg")
<1>1. c.prefix = "OS" /\ "W" \in c.rex /\ c.mod = 3
  BY Rightly DEF Conversions
<1>2. HasModRM(c) /\ Width(c) = 64
  BY <1>1 DEF HasModRM, Width, Bytewise
<1>3. /\ c.op = 110 => Form(c) = F("MOV", "xreg", "whole")
      /\ c.op = 126 => Form(c) = F("MOV", "rm", "xreg")
  BY <1>1 DEF Form, TwoByte
<1>4. Rm(c) # RSP
  <2>1. ~StackPointer(c)
    BY Rightly
  <2>2. CASE c.op = 110
    <3>1. "whole" \in {"rm", "rm8", "whole"} /\ {"xreg", "whole"} \cap {"rm", "rm8", "whole"} # {}
      OBVIOUS
    <3>2. "MOV" \notin {"ADD", "SUB", "AND"} /\ "whole" # "address"
      OBVIOUS
    <3> QED BY <1>1, <1>3, <2>1, <2>2, <3>1, <3>2, Unstacked
  <2>3. CASE c.op = 126
    BY <1>1, <1>3, <2>1, <2>3, Unstacked
  <2> QED BY <2>2, <2>3
<1> QED BY <1>1, <1>2, <1>3, <1>4

LEMMA ToVectorFollows ==
  ASSUME NEW c \in Codes, ~Mistranslated(c), c.two, c.op = 110, NEW i \in Instructions, NEW h \in Hosts
  PROVE  Follows(WordsFor(decode_instr(c, i)), h, c)
<1> DEFINE d == decode_instr(c, i)
           g == GuestOf(h)
           a == Address(c, g)
           x == g.r[Rm(c)]
<1>1. /\ d.type = "MOVQ" /\ d.size # 8 /\ d.prefix = c.prefix
      /\ XmmIs(d.a, Reg(c)) /\ RmIs(c, d.b)
  BY ConvertDecoded, ByteSized DEF Is
<1>2. /\ c.mod = 3 /\ Rm(c) # RSP /\ HasModRM(c)
      /\ Form(c) = F("MOV", "xreg", "whole")
  BY WholeVector
<1>3. g \in Guests
  BY GuestFields
<1>4. WordsFor(d) = EncodeConvert(d, NextIp)
  BY <1>1, WordsForIs, WideClasses
<1>5. ScalarResult(c) = 64
  BY <1>1, Precisions
<1> HIDE DEF d
<1>6. XmmAt(d.a) /\ \A val : Put("xreg", c, g, val) = PutV(g, d.a.reg, At(64, val))
  BY <1>1, <1>3, <1>5, XregFits
<1>7. d.b.type = {"REG"} /\ d.b.reg = Rm(c) /\ Rm(c) \in 0..15
  BY <1>1, <1>2, Registers16 DEF RmIs, IsReg
<1>8. GeneralAt(d.b) /\ NotStack(d.b)
  BY <1>2, <1>7 DEF GeneralAt, NotStack
<1>9. Held(64, d.b, g, a) = x
  BY <1>7, <1>8, OperandSorts DEF Held
<1>10. Reaches(EncodeConvert(d, NextIp), h, PutV(g, d.a.reg, x))
  BY <1>1, <1>6, <1>8, <1>9, ToVectorReaches
<1>11. Effect(c, g) = PutV(g, d.a.reg, x)
  <2>1. Effect(c, g) = Put("xreg", c, g, Get("whole", c, g))
    BY <1>2, MovEffect
  <2>2. Get("whole", c, g) = x
    BY <1>2 DEF Get
  <2>3. At(64, x) = x
    BY <1>3, <1>7, GuestNumber, AtWraps
  <2> HIDE DEF x
  <2> QED BY <1>6, <2>1, <2>2, <2>3
<1> HIDE DEF x
<1>12. Follows(WordsFor(d), h, c)
  BY <1>4, <1>10, <1>11, FollowsReached
<1> QED BY <1>12 DEF d

LEMMA FromVectorFollows ==
  ASSUME NEW c \in Codes, ~Mistranslated(c), c.two, c.op = 126, NEW i \in Instructions, NEW h \in Hosts
  PROVE  Follows(WordsFor(decode_instr(c, i)), h, c)
<1> DEFINE d == decode_instr(c, i)
           g == GuestOf(h)
           a == Address(c, g)
           x == ValueV(64, d.b, g, a)
<1>1. d.type = "MOVQ" /\ d.size # 8 /\ RmIs(c, d.a) /\ XmmIs(d.b, Reg(c))
  BY ConvertBackDecoded, ByteSized DEF Is
<1>2. /\ c.mod = 3 /\ Rm(c) # RSP /\ HasModRM(c) /\ Width(c) = 64
      /\ Form(c) = F("MOV", "rm", "xreg")
  BY WholeVector
<1>3. g \in Guests
  BY GuestFields
<1>4. WordsFor(d) = EncodeConvert(d, NextIp)
  BY <1>1, WordsForIs, WideClasses
<1> HIDE DEF d
<1>5. XmmAt(d.b) /\ Get("xreg", c, g) = x /\ x \in Numbers
  BY <1>1, <1>3, XregFits
<1>6. d.a.type = {"REG"} /\ d.a.reg = Rm(c) /\ Rm(c) \in 0..15
  BY <1>1, <1>2, Registers16 DEF RmIs, IsReg
<1>7. GeneralAt(d.a) /\ NotStack(d.a)
  BY <1>2, <1>6 DEF GeneralAt, NotStack
<1>8. Reaches(EncodeConvert(d, NextIp), h, PutR(g, d.a.reg, x))
  BY <1>1, <1>5, <1>7, FromVectorReaches
<1>9. Effect(c, g) = PutR(g, d.a.reg, x)
  <2>1. Effect(c, g) = Put("rm", c, g, x)
    BY <1>2, <1>5, MovEffect
  <2> HIDE DEF x
  <2>2. x \in Int /\ Wrap(x) = x
    BY <1>5, NumbersAre, Wraps
  <2>3. Put("rm", c, g, x) = SetRegister(c, g, Rm(c), x)
    BY <1>2 DEF Put
  <2>4. SetRegister(c, g, Rm(c), x) = PutR(g, Rm(c), Wrap(x))
    BY <1>2, <2>2, WholeResult
  <2> QED BY <1>6, <2>1, <2>2, <2>3, <2>4
<1> HIDE DEF x
<1>10. Follows(WordsFor(d), h, c)
  BY <1>4, <1>8, <1>9, FollowsReached
<1> QED BY <1>10 DEF d

LEMMA SelectNames ==
  /\ CMOVcc[8] = "CMOVA" /\ CMOVcc[9] = "CMOVS"
  /\ \A k \in (1..16) \ {8, 9} : CMOVcc[k] \notin {"CMOVA", "CMOVS"}
<1>1. CMOVcc[8] = "CMOVA" /\ CMOVcc[9] = "CMOVS"
  BY DEF CMOVcc
<1>2. \A k \in (1..16) \ {8, 9} : CMOVcc[k] \notin {"CMOVA", "CMOVS"}
  BY DEF CMOVcc
<1> QED BY <1>1, <1>2

LEMMA SelectFollows ==
  ASSUME NEW c \in Codes, ~Mistranslated(c), c.two, c.op \in 64..79, NEW i \in Instructions,
         NEW h \in Hosts
  PROVE  Follows(WordsFor(decode_instr(c, i)), h, c)
<1> DEFINE d == decode_instr(c, i)
           g == GuestOf(h)
           a == Address(c, g)
           s == Width(c)
           does == IF c.op = 71 THEN "CSEL_HI" ELSE "CSEL_MI"
           k == c.op - 63
<1>1. k \in 1..16 /\ d.type = CMOVcc[k] /\ d.size # 8 /\ RegRm(c, d) /\ d.size = Wide(c, 32)
  BY SelectDecoded, ByteSized DEF Is
<1>2. WordsFor(d) = EncodeWide(d, NextIp)
  BY <1>1, JumpNames, WordsForIs
<1>3. g \in Guests
  BY GuestFields
<1> HIDE DEF d
<1>4. CASE c.op \notin {71, 72}
  <2>1. d.type \in {CMOVcc[n] : n \in 1..16} \ {"CMOVA", "CMOVS"}
    <3>1. k \in (1..16) \ {8, 9}
      BY <1>1, <1>4
    <3> QED BY <1>1, <3>1, JumpNames, SelectNames
  <2>2. Follows(WordsFor(d), h, c)
    BY <1>2, <2>1, WideClasses, FollowsPanic
  <2> QED BY <2>2 DEF d
<1>5. CASE c.op \in {71, 72}
  <2>1. /\ HasModRM(c) /\ Form(c) = F(does, "reg", "rm") /\ does \in Selects
        /\ does \notin {"MOV", "ADD", "SUB", "AND"} /\ ~Bytewise(c) /\ Calculates(c)
    BY <1>5 DEF HasModRM, Form, TwoByte, Selects, Bytewise, Calculates, F
  <2>2. d.type = IF c.op = 71 THEN "CMOVA" ELSE "CMOVS"
    BY <1>1, <1>5, SelectNames
  <2>3. Sf(d) = s /\ s \in Sizes
    BY <1>1, <2>1, Rightly, WideBits
  <2>4. Reg(c) # RSP /\ (c.mod = 3 => Rm(c) # RSP)
    <3>1. ~StackPointer(c)
      BY Rightly
    <3> HIDE DEF does
    <3> QED BY <2>1, <3>1, Unstacked
  <2>5. Denotes("reg", c, d.a) /\ Denotes("rm", c, d.b)
    BY <1>1, <2>1, RmDenotes, RegDenotes DEF RegRm
  <2>6. /\ "reg" \in Registered /\ "rm" \notin Registered /\ "rm" \notin Immediates /\ "reg" \notin Immediates
        /\ "reg" # "cl"
    BY DEF Registered, Immediates
  <2>7. NotStack(d.a) /\ NotStack(d.b)
    BY <2>4, <2>5, DenotedFree
  <2>8. CASE c.mod # 3
    <3>1. d.b.type # {"REG"}
      BY <1>3, <2>3, <2>5, <2>6, <2>8, Denoted, OperandSorts
    <3>2. WordsFor(d) = panic
      BY <1>2, <2>2, <3>1, WideConditions
    <3>3. Follows(WordsFor(d), h, c)
      BY <3>2, FollowsPanic
    <3> QED BY <3>3 DEF d
  <2>9. CASE c.mod = 3
    <3> DEFINE x == Held(s, d.b, g, a)
               y == Held(s, d.a, g, a)
               e == OpAt(s, does, x, y)
    <3>1. GeneralAt(d.a) /\ GeneralAt(d.b)
      BY <1>3, <2>3, <2>5, <2>6, <2>9, Denoted
    <3>2. WordsFor(d) = <<Sized(s, RRR(does, d.a.reg, d.b.reg, d.a.reg))>>
      <4>1. d.a.type = {"REG"} /\ d.b.type = {"REG"}
        BY <3>1, OperandSorts
      <4>2. CASE c.op = 71
        BY <1>2, <2>2, <2>3, <4>1, <4>2, WideConditions
      <4>3. CASE c.op = 72
        BY <1>2, <2>2, <2>3, <4>1, <4>3, WideConditions
      <4> QED BY <1>5, <4>2, <4>3
    <3>3. does \in Binary
      BY DEF Binary
    <3>4. does \in {"CSEL_HI", "CSEL_MI"}
      OBVIOUS
    <3> HIDE DEF does, s
    <3>5. Reaches(<<Sized(s, RRR(does, d.a.reg, d.b.reg, d.a.reg))>>, h, PutR(g, d.a.reg, e))
      BY <2>3, <2>7, <3>1, <3>3, ComputeReaches
    <3>6. Effect(c, g) = Put("reg", c, g, OpAt(s, does, Get("rm", c, g), Get("reg", c, g)))
      <4>1. WidthOf(c, "reg") = s
        BY DEF WidthOf, s
      <4> QED BY <2>1, <4>1, SelectEffect
    <3>7. Get("rm", c, g) = x /\ x \in Numbers /\ Get("reg", c, g) = y /\ y \in Numbers
      BY <1>3, <2>3, <2>5, <2>6, Denoted DEF s
    <3>8. \A val \in Int : Put("reg", c, g, val) = Stored(s, d.a, g, a, At(s, val))
      BY <1>3, <2>3, <2>5, <2>6, Denoted DEF s
    <3> HIDE DEF x, y
    <3>9. e \in Int /\ At(s, e) = e
      <4>1. does \in {"FADD", "FSUB", "FMUL", "FDIV", "EOR", "CSEL_HI", "CSEL_MI"}
        BY <3>4
      <4>2. s \in Sizes /\ x \in Numbers /\ y \in Numbers
        BY <2>3, <3>7
      <4>3. e \in Numbers /\ At(s, e) = e
        BY <4>1, <4>2, FloatResult
      <4> HIDE DEF e
      <4> QED BY <4>3, NumbersAre
    <3>10. Stored(s, d.a, g, a, e) = PutR(g, d.a.reg, e)
      BY <3>1, OperandSorts DEF Stored
    <3>11. Effect(c, g) = PutR(g, d.a.reg, e)
      BY <3>6, <3>7, <3>8, <3>9, <3>10
    <3> HIDE DEF e
    <3>12. Follows(WordsFor(d), h, c)
      BY <3>2, <3>5, <3>11, FollowsReached
    <3> QED BY <3>12 DEF d
  <2> QED BY <2>8, <2>9
<1> QED BY <1>4, <1>5

\* a byte or a 16-bit word is what it is in any register
LEMMA NarrowFits ==
  ASSUME NEW s \in Sizes, NEW n \in {8, 16}, NEW v \in Int
  PROVE  At(s, At(n, v)) = At(n, v) /\ At(n, v) \in Int
<1> DEFINE k == Count(n)
           y == At(n, v)
<1>1. k \in {256, 65536} /\ y = v % k
  BY DEF At, Count
<1>2. y \in 0..(k - 1)
  <2>1. k \in Nat /\ k > 0
    BY <1>1
  <2> HIDE DEF k
  <2>2. v % k \in 0..(k - 1)
    BY <2>1
  <2> QED BY <1>1, <2>2
<1>3. Count(s) \in Nat /\ Count(s) > 65535
  <2>1. Count(s) \in {Half, P}
    BY DEF Sizes, Count
  <2> QED BY <2>1, ValuesAssumption
<1> DEFINE m == Count(s)
<1>4. At(s, y) = y % m
  BY DEF At
<1>5. y \in Nat /\ y < m /\ m \in Nat
  BY <1>1, <1>2, <1>3
<1> HIDE DEF y, m
<1>6. y % m = y
  BY <1>5
<1> QED BY <1>4, <1>5, <1>6 DEF y

LEMMA ExtendNames ==
  ASSUME NEW c \in Codes, c.two, c.op \in {182, 183, 190, 191}
  PROVE  /\ c.op = 182 => Widening[Extend[c.op]] = "LDRB" /\ Form(c) = F("ZERO8", "reg", "rm8")
         /\ c.op = 183 => Widening[Extend[c.op]] = "LDRH" /\ Form(c) = F("ZERO16", "reg", "whole")
         /\ c.op = 190 => Widening[Extend[c.op]] = "LDRSB" /\ Form(c) = F("SIGN8", "reg", "rm8")
         /\ c.op = 191 => Widening[Extend[c.op]] = "LDRSH" /\ Form(c) = F("SIGN16", "reg", "whole")
         /\ Extend[c.op] # "panic" /\ HasModRM(c) /\ ~Bytewise(c)
<1>1. /\ c.op = 182 => Widening[Extend[c.op]] = "LDRB"
      /\ c.op = 183 => Widening[Extend[c.op]] = "LDRH"
      /\ c.op = 190 => Widening[Extend[c.op]] = "LDRSB"
      /\ c.op = 191 => Widening[Extend[c.op]] = "LDRSH"
      /\ Extend[c.op] # "panic"
  BY DEF Widening, Extend
<1>2. /\ c.op = 182 => Form(c) = F("ZERO8", "reg", "rm8")
      /\ c.op = 183 => Form(c) = F("ZERO16", "reg", "whole")
      /\ c.op = 190 => Form(c) = F("SIGN8", "reg", "rm8")
      /\ c.op = 191 => Form(c) = F("SIGN16", "reg", "whole")
  BY DEF Form, TwoByte
<1>3. HasModRM(c) /\ ~Bytewise(c)
  BY DEF HasModRM, Bytewise
<1> QED BY <1>1, <1>2, <1>3

\* what widens loads is what the manual widens
LEMMA WidensRight ==
  ASSUME NEW c \in Codes, ~Mistranslated(c), c.two, c.op \in {182, 183, 190, 191}, NEW g \in Guests
  PROVE  /\ c.mod # 3 /\ Width(c) \in Sizes
         /\ Address(c, g) \in Int =>
              Effect(c, g) = PutR(g, Reg(c), Widened(Widening[Extend[c.op]], Load(Address(c, g))))
<1> DEFINE v == Load(Address(c, g))
           w == Width(c)
<1>1. /\ c.op \in {182, 183} => Form(c).does \in {"ZERO8", "ZERO16"}
      /\ c.op \in {190, 191} => Form(c).does \in {"SIGN8", "SIGN16"}
      /\ Form(c).src \in {"rm8", "whole"}
  BY ExtendNames DEF F
<1>2. c.mod # 3 /\ (c.op \in {190, 191} => w = 64)
  BY <1>1, Rightly DEF Widenings
<1>3. w \in Sizes
  <2>1. Calculates(c) /\ ~Bytewise(c)
    BY <1>1, ExtendNames DEF Calculates
  <2> DEFINE d == [size |-> Wide(c, 32)]
  <2>2. d.size = Wide(c, 32)
    OBVIOUS
  <2>3. ~OperandSize(c)
    BY Rightly
  <2> HIDE DEF d
  <2> QED BY <2>1, <2>2, <2>3, WideBits
<1>4. Get("rm8", c, g) = v /\ Get("whole", c, g) = v
  BY <1>2 DEF Get
<1>5. \A val : Put("reg", c, g, val) = SetRegister(c, g, Reg(c), val)
  BY DEF Put
<1> HIDE DEF w
<1>6. \A val : SetRegister(c, g, Reg(c), val) = PutR(g, Reg(c), At(w, val))
  <2> DEFINE n == Reg(c)
  <2>1. Width(c) \in Sizes
    BY <1>3 DEF w
  <2> HIDE DEF n
  <2>2. \A val : SetRegister(c, g, n, val) = PutR(g, n, At(Width(c), val))
    BY <2>1 DEF SetRegister, PutR, Sizes
  <2> QED BY <2>2 DEF w, n
<1>7. ASSUME Address(c, g) \in Int
      PROVE  Effect(c, g) = PutR(g, Reg(c), Widened(Widening[Extend[c.op]], v))
  <2>1. v \in Int
    BY <1>7, LoadRange, NumbersAre
  <2> HIDE DEF v
  <2>2. ASSUME NEW does \in {"ZERO8", "ZERO16"}, NEW src \in {"rm8", "whole"}, Form(c) = F(does, "reg", src)
        PROVE  Effect(c, g) = PutR(g, Reg(c), At(Zeros[does], v))
    <3>1. Zeros[does] \in {8, 16} /\ does \in DOMAIN Zeros
      BY TablesAre
    <3> DEFINE y == At(Zeros[does], v)
    <3>2. Effect(c, g) = Put("reg", c, g, At(Zeros[does], Get(src, c, g)))
      BY <2>2, <3>1, ZerosEffect
    <3>3. Get(src, c, g) = v
      BY <1>4
    <3>4. At(w, y) = y
      BY <1>3, <2>1, <3>1, NarrowFits
    <3> HIDE DEF y
    <3>5. SetRegister(c, g, Reg(c), y) = PutR(g, Reg(c), At(w, y))
      BY <1>6
    <3>6. SetRegister(c, g, Reg(c), y) = PutR(g, Reg(c), y)
      BY <3>4, <3>5
    <3>7. Effect(c, g) = SetRegister(c, g, Reg(c), y)
      BY <1>5, <3>2, <3>3 DEF y
    <3> QED BY <3>6, <3>7 DEF y
  <2>3. ASSUME NEW does \in {"SIGN8", "SIGN16"}, NEW src \in {"rm8", "whole"}, Form(c) = F(does, "reg", src),
               w = 64
        PROVE  Effect(c, g) = PutR(g, Reg(c), Wrap(Signed(Signs[does], v)))
    <3>1. does \in DOMAIN Signs
      BY TablesAre
    <3> DEFINE y == Signed(Signs[does], v)
    <3>2. Effect(c, g) = Put("reg", c, g, Signed(Signs[does], Get(src, c, g)))
      BY <2>3, <3>1, SignsEffect
    <3>3. Get(src, c, g) = v
      BY <1>4
    <3>4. y \in Int
      BY <2>1, SignedRange
    <3> HIDE DEF y
    <3>5. SetRegister(c, g, Reg(c), y) = PutR(g, Reg(c), Wrap(y))
      BY <2>3, <3>4, WholeResult DEF w
    <3> QED BY <1>5, <3>2, <3>3, <3>5 DEF y
  <2>4. CASE c.op = 182
    <3>1. Effect(c, g) = PutR(g, Reg(c), At(8, v))
      BY <2>2, <2>4, ExtendNames, TablesAre
    <3> QED BY <2>4, <3>1, ExtendNames DEF Widened
  <2>5. CASE c.op = 183
    <3>1. Effect(c, g) = PutR(g, Reg(c), At(16, v))
      BY <2>2, <2>5, ExtendNames, TablesAre
    <3> QED BY <2>5, <3>1, ExtendNames DEF Widened
  <2>6. CASE c.op = 190
    <3>1. Effect(c, g) = PutR(g, Reg(c), Wrap(Signed(8, v)))
      BY <1>2, <2>3, <2>6, ExtendNames, TablesAre
    <3> QED BY <2>6, <3>1, ExtendNames DEF Widened
  <2>7. CASE c.op = 191
    <3>1. Effect(c, g) = PutR(g, Reg(c), Wrap(Signed(16, v)))
      BY <1>2, <2>3, <2>7, ExtendNames, TablesAre
    <3> QED BY <2>7, <3>1, ExtendNames DEF Widened
  <2> QED BY <2>4, <2>5, <2>6, <2>7
<1> QED BY <1>2, <1>3, <1>7 DEF w

LEMMA ExtendFollows ==
  ASSUME NEW c \in Codes, ~Mistranslated(c), c.two, c.op \in {182, 183, 190, 191}, NEW i \in Instructions,
         NEW h \in Hosts
  PROVE  Follows(WordsFor(decode_instr(c, i)), h, c)
<1> DEFINE d == decode_instr(c, i)
           g == GuestOf(h)
           a == Address(c, g)
           e == PutR(g, Reg(c), Widened(Widening[Extend[c.op]], Load(a)))
<1>1. d.type = Extend[c.op] /\ d.type \in DOMAIN Widening /\ d.size # 8 /\ d.prefix = c.prefix /\ RegRm(c, d)
  BY ExtendDecoded, ByteSized DEF Is
<1>2. g \in Guests
  BY GuestFields
<1>3. WordsFor(d) = EncodeWiden(d, NextIp)
  BY <1>1, ExtendNames, WordsForIs, WideClasses
<1> HIDE DEF d
<1>4. c.mod # 3 /\ Width(c) \in Sizes
  BY <1>2, WidensRight
<1>5. Denotes("reg", c, d.a) /\ Denotes("rm", c, d.b)
  BY <1>1, ExtendNames, RmDenotes, RegDenotes DEF RegRm
<1>6. "reg" \in Registered /\ "rm" \notin Immediates
  BY DEF Registered, Immediates
<1>7. GeneralAt(d.a) /\ d.a.reg = Reg(c)
  BY <1>1, <1>2, <1>4, <1>5, <1>6, Denoted DEF RegRm, IsReg
<1>8. MemAt(d.b, d.prefix, g, a) /\ a \in Int
  <2>1. IsMem(d.b) /\ Fit(d.b, d.prefix, g, a)
    BY <1>1, <1>2, <1>4, <1>5, Denoted
  <2>2. MemAt(d.b, d.prefix, g, a) /\ a \in Numbers
    BY <2>1, FitSorts
  <2> HIDE DEF a
  <2> QED BY <2>2, NumbersAre
<1>9. NotStack(d.a)
  <2>1. Form(c).dst = "reg" /\ Form(c).src # "address" /\ Form(c).does \notin {"MOV", "ADD", "SUB", "AND"}
    BY ExtendNames DEF F
  <2>2. Reg(c) # RSP
    BY <2>1, Rightly DEF StackPointer, Kinds
  <2> QED BY <1>7, <2>2 DEF NotStack
<1>10. Effect(c, g) = e
  BY <1>2, <1>8, WidensRight
<1>11. Reaches(EncodeWiden(d, NextIp), h, e)
  BY <1>1, <1>7, <1>8, <1>9, WidenReaches
<1> HIDE DEF e
<1>12. Follows(WordsFor(d), h, c)
  BY <1>3, <1>10, <1>11, FollowsReached
<1> QED BY <1>12 DEF d

LEMMA ConditionRight ==
  ASSUME NEW c \in Codes, c.two, c.op \in 128..143, NEW i \in Instructions, NEW h \in Hosts
  PROVE  Follows(WordsFor(decode_instr(c, i)), h, c)
<1> DEFINE d == decode_instr(c, i)
<1>1. c.op - 127 \in 1..16 /\ d.type = Jcc[c.op - 127] /\ d.size # 8 /\ IsImm(d.a, c.imm)
  BY JccDecoded, ByteSized DEF Is
<1>2. Form(c) = F("JUMP", "none", "next")
  BY DEF Form, TwoByte
<1> HIDE DEF d
<1>3. Follows(WordsFor(d), h, c)
  BY <1>1, <1>2, ConditionFollows
<1> QED BY <1>3 DEF d

LEMMA PlainFollows ==
  ASSUME NEW c \in Codes, c.two, c.op \in {5, 30, 31}, NEW i \in Instructions, NEW h \in Hosts
  PROVE  Follows(WordsFor(decode_instr(c, i)), h, c)
<1> DEFINE d == decode_instr(c, i)
<1>1. d.type \in {"SYSCALL", "EBR", "NOP"} /\ d.size # 8
  BY PlainDecoded, ByteSized DEF Is
<1>2. WordsFor(d) \in {<<>>, <<R2("SVC", 0, 0)>>}
  BY <1>1, WordsForIs, WideOthers, WideClasses
<1>3. Form(c) = F("NOP", "none", "none")
  BY DEF Form, TwoByte
<1> QED BY <1>2, <1>3, NothingFollows

LEMMA TwoByteRight ==
  ASSUME NEW c \in Codes, ~Mistranslated(c), c.two, NEW i \in Instructions, NEW h \in Hosts
  PROVE  Follows(WordsFor(decode_instr(c, i)), h, c)
<1>1. CASE c.op \in {5, 30, 31}
  BY <1>1, PlainFollows
<1>2. CASE c.op \in {16, 17, 40, 42, 44, 47, 87, 88, 89, 90, 92, 94, 110, 126, 239}
  <2>1. c.op # 44
    BY Rightly DEF Conversions
  <2> QED BY <1>2, <2>1, VectorMoveFollows, VectorStoreFollows, FromIntegerFollows, ToVectorFollows,
             FromVectorFollows, FloatCompareFollows, VectorXorFollows, FloatFollows, FloatSizeFollows
<1>3. CASE c.op \in 64..79
  BY <1>3, SelectFollows
<1>4. CASE c.op \in 128..143
  BY <1>4, ConditionRight
<1>5. CASE c.op \in 144..159
  BY <1>5, Rightly DEF SetByte
<1>6. CASE c.op \in {175, 182, 183, 190, 191}
  <2>1. c.op # 175
    <3>1. c.op = 175 => Form(c).does = "MUL"
      BY DEF Form, TwoByte, F
    <3> QED BY <3>1, Rightly DEF Multiply
  <2> QED BY <1>6, <2>1, ExtendFollows
<1>7. CASE c.op \notin {5, 16, 17, 30, 31, 40, 42, 44, 47, 87, 88, 89, 90, 92, 94, 110, 126, 175, 182, 183,
                        190, 191, 239} \cup (64..79) \cup (128..159)
  <2>1. c.op \in 0..255
    BY DEF Codes
  <2>2. Body(c, i) = Unknown(Start(c, i))
    BY <1>7, <2>1 DEF Body, decode_0F, Extend
  <2> QED BY <2>2, UnknownRight
<1> QED BY <1>1, <1>2, <1>3, <1>4, <1>5, <1>6, <1>7

\* what is not one of the wrong translations does what the manual says
LEMMA AllFollow ==
  ASSUME NEW c \in RealCodes, ~Mistranslated(c), NEW i \in Instructions, NEW h \in Hosts
  PROVE  Follows(WordsFor(decode_instr(c, i)), h, c)
<1>1. c \in Codes /\ c.two \in BOOLEAN
  BY DEF RealCodes, Codes
<1> QED BY <1>1, OneByteRight, TwoByteRight


-----------------------------------------------------------------------------
(***************************************************************************)
(* The host runs the words one after the other.                             *)
(***************************************************************************)
LEMMA GuestStarts == GuestOf(HostOf(Guest)) = Guest /\ HostOf(Guest).bad = FALSE
<1> DEFINE h == HostOf(Guest)
<1>1. ASSUME NEW k \in 0..15 PROVE h.x[X(k)] = Registers[k]
  <2> DEFINE c == CHOOSE l \in 0..15 : X(l) = X(k)
  <2>1. c = k /\ X(k) \in 0..31
    BY HostRegisters
  <2>2. h.x[X(k)] = Guest.r[c]
    BY <2>1 DEF HostOf
  <2> QED BY <2>1, <2>2 DEF Guest
<1>2. [k \in 0..15 |-> h.x[X(k)]] = Registers
  <2>1. Registers = [k \in 0..15 |-> Registers[k]]
    BY CodecAssumption
  <2> HIDE DEF h
  <2> QED BY <1>1, <2>1
<1>3. [k \in 0..15 |-> h.v[k]] = XmmRegisters
  <2>1. \A k \in 0..15 : h.v[k] = XmmRegisters[k]
    BY DEF HostOf, Guest
  <2>2. XmmRegisters = [k \in 0..15 |-> XmmRegisters[k]]
    BY CodecAssumption
  <2> HIDE DEF h
  <2> QED BY <2>1, <2>2
<1>4. /\ h.flags = Guest.flags /\ h.store = Guest.store /\ h.target = Guest.target /\ h.bad = FALSE
      /\ Guest = [r |-> Registers, v |-> XmmRegisters, flags |-> Guest.flags, store |-> Guest.store,
                  target |-> Guest.target]
  BY DEF HostOf, Guest
<1> HIDE DEF h
<1>5. GuestOf(h) = Guest
  BY <1>2, <1>3, <1>4 DEF GuestOf
<1> QED BY <1>4, <1>5 DEF h

\* before its next word the host is where the words before have led it
Followed ==
  at > 0 /\ words # panic =>
    \A t : Trace(t, words, HostOf(Guest)) => host = t[at - 1]

LEMMA InitFollowed == Init => Followed
BY DEF Init, Followed

LEMMA NextFollowed == Translated /\ Followed /\ [Next]_vars => Followed'
<1> SUFFICES ASSUME Translated, Followed, [Next]_vars PROVE Followed'
  OBVIOUS
<1>1. CASE Translate
  <2>1. at' = 1 /\ host' = HostOf(Guest)
    BY <1>1 DEF Translate, Translated
  <2>2. ASSUME NEW t, Trace(t, words', HostOf(Guest)) PROVE host' = t[at' - 1]
    BY <2>1, <2>2 DEF Trace
  <2> QED BY <2>2 DEF Followed
<1>2. CASE Run
  <2>1. /\ at \in 1..Len(words) /\ words # panic /\ host' = Exec(words[at], host) /\ at' = at + 1
        /\ words' = words /\ at \in Nat /\ at > 0
    BY <1>2 DEF Run, Translated
  <2>2. ASSUME NEW t, Trace(t, words', HostOf(Guest)) PROVE host' = t[at' - 1]
    <3>1. Trace(t, words, HostOf(Guest))
      BY <2>1, <2>2
    <3>2. host = t[at - 1]
      BY <2>1, <3>1 DEF Followed
    <3>3. t[at] = Exec(words[at], t[at - 1])
      BY <2>1, <3>1 DEF Trace
    <3>4. at' - 1 = at
      BY <2>1
    <3> QED BY <2>1, <3>2, <3>3, <3>4
  <2> QED BY <2>2 DEF Followed
<1>3. CASE UNCHANGED vars
  BY <1>3 DEF vars, Followed
<1> QED BY <1>1, <1>2, <1>3 DEF Next

\* However far the host has run, it has run the words decode() got from encode().
THEOREM AlwaysFollowed == Spec => []Followed
BY AlwaysTranslated, InitFollowed, NextFollowed, PTL DEF Spec

(* Whatever the bytes of the instruction, the leftover, the guest's          *)
(* registers and the immediates: once the host has run the words of          *)
(* decode_instr() and encode(), the general and the vector registers, what   *)
(* is stored and where, and where it jumps are what the processor manual     *)
(* says, and so are the flags after a comparison, unless the instruction is  *)
(* of one of the forms Mistranslated lists.                                  *)
THEOREM ComputesHold == Spec => []Computes
<1>1. Translated /\ Followed => Computes
  <2> SUFFICES ASSUME Translated, Followed, Done, ~Mistranslated(code)
               PROVE  ~host.bad /\ Agrees(GuestOf(host), Effect(code, Guest))
    BY DEF Computes
  <2> DEFINE h == HostOf(Guest)
             e == Effect(code, Guest)
  <2>1. at > 0 /\ words # panic
    <3>1. at = 0 => words = <<>>
      BY DEF Translated
    <3> QED BY <3>1 DEF Done, Translated
  <2>2. words = WordsFor(decode_instr(code, old)) /\ code \in RealCodes /\ old \in Instructions
    BY <2>1 DEF Translated, WordsFor
  <2>3. Len(words) \in Nat /\ at - 1 = Len(words)
    BY <2>1, TranslatedWords DEF Done
  <2>4. h \in Hosts /\ GuestOf(h) = Guest /\ h.bad = FALSE
    BY HostStarts, GuestStarts
  <2>5. ASSUME NEW h2, Runs(words, h, h2) PROVE h2 = host
    <3>1. PICK t : Trace(t, words, h) /\ t[Len(words)] = h2
      BY <2>5 DEF Runs
    <3> QED BY <2>1, <2>3, <3>1 DEF Followed
  <2> HIDE DEF h
  <2>6. Follows(words, h, code)
    BY <2>2, <2>4, AllFollow
  <2>7. Yields(words, h, e) /\ (Form(code).does \in DOMAIN Compares => Reaches(words, h, e))
    BY <2>1, <2>4, <2>6 DEF Follows
  <2> HIDE DEF e
  <2>8. host.bad = FALSE /\ Same(GuestOf(host), e)
    BY <2>4, <2>5, <2>7 DEF Yields
  <2>9. Form(code).does \in DOMAIN Compares => GuestOf(host).flags = e.flags
    BY <2>5, <2>7 DEF Reaches
  <2>10. Agrees(GuestOf(host), e)
    BY <2>8, <2>9 DEF Same, Agrees
  <2> QED BY <2>8, <2>10 DEF e
<1> QED BY <1>1, AlwaysTranslated, AlwaysFollowed, PTL
=============================================================================
