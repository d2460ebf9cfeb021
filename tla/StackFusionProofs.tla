------------------------- MODULE StackFusionProofs -------------------------
(***************************************************************************)
(* The PUSH/POP optimizer keeps the meaning of every tame program, of any  *)
(* length, over any registers and stack.                                   *)
(***************************************************************************)
EXTENDS StackFusion, SequenceTheorems, TLAPS

(* What a machine is made of.                                              *)
LEMMA Fields ==
  /\ \A g \in Guests : /\ g.regs \in [GuestRegs -> Int] /\ g.lr \in Int
                       /\ g.sp \in 0 .. StackCells /\ g.mem \in [Stack -> Int]
  /\ \A h \in Hosts : /\ h.regs \in [HostRegs -> Int] /\ h.lr \in Int /\ h.sc2 \in Int
                      /\ h.sp \in 0 .. StackCells /\ h.mem \in [Stack -> Int]
BY DEF Guests, Hosts

LEMMA Names ==
  /\ StackCells \in Nat
  /\ GuestRegs \subseteq HostRegs /\ "sc1" \in HostRegs /\ "sc1" \notin GuestRegs
  /\ Regs \subseteq GuestRegs /\ "rbp" \in GuestRegs /\ "rbp" \notin Regs
  /\ "rsp" \notin Regs /\ "imm" \notin Regs /\ "top" \notin Regs
BY FusionAssumption DEF GuestRegs, HostRegs, OtherOperands

(* The cells from one, or two, below the stack pointer on.                 *)
LEMMA OneBelow ==
  ASSUME NEW s \in 0 .. StackCells, s >= 1, NEW x \in s - 1 .. StackCells - 1
  PROVE  x \in Stack /\ s - 1 \in Stack /\ (x # s - 1 => x \in s .. StackCells - 1)
BY Names DEF Stack

LEMMA TwoBelow ==
  ASSUME NEW s \in 0 .. StackCells, s >= 2, NEW x \in s - 2 .. StackCells - 1
  PROVE  x \in Stack /\ (x # s - 1 /\ x # s - 2 => x \in s .. StackCells - 1)
BY Names DEF Stack

LEMMA PushedGuest ==
  ASSUME NEW g \in Guests, NEW v \in Int, g.sp >= 1
  PROVE  LET n == [g EXCEPT !.sp = @ - 1, !.mem = [@ EXCEPT ![g.sp - 1] = v]]
         IN  /\ n \in Guests /\ n.sp = g.sp - 1 /\ n.regs = g.regs /\ n.lr = g.lr
             /\ n.mem = [g.mem EXCEPT ![g.sp - 1] = v]
<1> DEFINE a == g.sp - 1
           m == [g.mem EXCEPT ![g.sp - 1] = v]
           n == [g EXCEPT !.sp = a, !.mem = m]
<1>1. a \in 0 .. StackCells
  BY Fields, Names
<1>2. m \in [Stack -> Int]
  BY Fields
<1> SUFFICES n \in Guests /\ n.sp = a /\ n.regs = g.regs /\ n.lr = g.lr /\ n.mem = m
  OBVIOUS
<1> HIDE DEF a, m
<1> QED BY <1>1, <1>2 DEF Guests

LEMMA PoppedGuest ==
  ASSUME NEW g \in Guests, g.sp < StackCells, NEW r \in GuestRegs
  PROVE  /\ Popped(g, r) \in Guests /\ Popped(g, r).sp = g.sp + 1 /\ Popped(g, r).mem = g.mem
         /\ Popped(g, r).lr = g.lr /\ Popped(g, r).regs = [g.regs EXCEPT ![r] = g.mem[g.sp]]
<1> DEFINE a == g.sp + 1
           m == [g.regs EXCEPT ![r] = g.mem[g.sp]]
           n == [g EXCEPT !.sp = a, !.regs = m]
<1>1. a \in 0 .. StackCells /\ g.sp \in Stack
  BY Fields, Names DEF Stack
<1>2. m \in [GuestRegs -> Int]
  BY <1>1, Fields
<1> SUFFICES n \in Guests /\ n.sp = a /\ n.regs = m /\ n.lr = g.lr /\ n.mem = g.mem
  BY DEF Popped
<1> HIDE DEF a, m
<1> QED BY <1>1, <1>2 DEF Guests

-----------------------------------------------------------------------------
(***************************************************************************)
(* The words, for a host that is where the guest is.                       *)
(***************************************************************************)
LEMMA PushOneWords ==
  ASSUME NEW h \in Hosts, NEW g \in Guests, Agree(h, g), g.sp >= 1, NEW r \in HostRegs
  PROVE  /\ PushOne(h, r) \in Seq(Hosts) /\ Len(PushOne(h, r)) = 3
         /\ Agree(PushOne(h, r)[3],
                  [g EXCEPT !.sp = @ - 1, !.mem = [@ EXCEPT ![g.sp - 1] = h.regs[r]]])
<1> DEFINE h1 == Address(h, 1)
           h2 == Store(h1, r)
           h3 == SetSp(h2, 0)
           n == [g EXCEPT !.sp = @ - 1, !.mem = [@ EXCEPT ![g.sp - 1] = h.regs[r]]]
<1>1. /\ h1 \in Hosts /\ h1.sc2 = g.sp - 1 /\ h1.regs = h.regs /\ h1.mem = h.mem
      /\ h1.lr = h.lr /\ h1.sp = h.sp
  BY Fields DEF Address, Hosts, Agree
<1>2. h1.sc2 \in Stack
  BY <1>1, Fields, Names DEF Stack
<1>3. /\ h2 \in Hosts /\ h2.sc2 = g.sp - 1 /\ h2.regs = h.regs /\ h2.lr = h.lr
      /\ h2.mem = [h.mem EXCEPT ![g.sp - 1] = h.regs[r]]
  BY <1>1, <1>2, Fields DEF Store, Hosts
<1>4. /\ h3 \in Hosts /\ h3.sp = g.sp - 1 /\ h3.regs = h.regs /\ h3.lr = h.lr
      /\ h3.mem = [h.mem EXCEPT ![g.sp - 1] = h.regs[r]]
  <2>1. h2.sc2 + 0 = g.sp - 1 /\ g.sp - 1 \in 0 .. StackCells
    BY <1>1, <1>2, <1>3, Names DEF Stack
  <2> HIDE DEF h2
  <2> QED BY <1>3, <2>1, Fields DEF SetSp, Hosts
<1>5. /\ n.sp = g.sp - 1 /\ n.regs = g.regs /\ n.lr = g.lr
      /\ n.mem = [g.mem EXCEPT ![g.sp - 1] = h.regs[r]]
  <2>1. h.regs[r] \in Int
    BY Fields
  <2> QED BY <2>1, PushedGuest
<1>6. Agree(h3, n)
  <2> HIDE DEF h1, h2, h3, n
  <2>1. ASSUME NEW x \in n.sp .. StackCells - 1 PROVE h3.mem[x] = n.mem[x]
    <3>1. x \in Stack /\ (x # g.sp - 1 => x \in g.sp .. StackCells - 1) /\ g.sp - 1 \in Stack
      <4>1. g.sp \in 0 .. StackCells /\ g.sp >= 1 /\ x \in g.sp - 1 .. StackCells - 1
        BY <1>5, Fields
      <4> QED BY <4>1, OneBelow
    <3> QED BY <1>4, <1>5, <3>1, Fields DEF Agree
  <2> QED BY <1>4, <1>5, <2>1 DEF Agree
<1>7. PushOne(h, r) = <<h1, h2, h3>>
  BY DEF PushOne
<1> HIDE DEF h1, h2, h3, n
<1> QED BY <1>1, <1>3, <1>4, <1>6, <1>7 DEF n

LEMMA PushBothWords ==
  ASSUME NEW h \in Hosts, NEW g \in Guests, Agree(h, g), g.sp >= 2,
         NEW q \in HostRegs, NEW r \in HostRegs
  PROVE  /\ PushBoth(h, q, r) \in Seq(Hosts) /\ Len(PushBoth(h, q, r)) = 3
         /\ LET n == [g EXCEPT !.sp = @ - 1, !.mem = [@ EXCEPT ![g.sp - 1] = h.regs[q]]]
            IN  Agree(PushBoth(h, q, r)[3],
                      [n EXCEPT !.sp = @ - 1, !.mem = [@ EXCEPT ![n.sp - 1] = h.regs[r]]])
<1> DEFINE h1 == Address(h, 2)
           h2 == StoreBoth(h1, r, q)
           h3 == SetSp(h2, 0)
           n == [g EXCEPT !.sp = @ - 1, !.mem = [@ EXCEPT ![g.sp - 1] = h.regs[q]]]
           p == [n EXCEPT !.sp = @ - 1, !.mem = [@ EXCEPT ![n.sp - 1] = h.regs[r]]]
<1>1. /\ h1 \in Hosts /\ h1.sc2 = g.sp - 2 /\ h1.regs = h.regs /\ h1.mem = h.mem
      /\ h1.lr = h.lr /\ h1.sp = h.sp
  BY Fields DEF Address, Hosts, Agree
<1>2. g.sp - 2 \in Stack /\ g.sp - 1 \in Stack /\ (g.sp - 2) + 1 = g.sp - 1
      /\ g.sp - 2 # g.sp - 1 /\ (g.sp - 1) - 1 = g.sp - 2
      /\ (g.sp - 2) + 0 = g.sp - 2 /\ g.sp - 2 \in 0 .. StackCells
  BY Fields, Names DEF Stack
<1>3. /\ h2 \in Hosts /\ h2.sc2 = g.sp - 2 /\ h2.regs = h.regs /\ h2.lr = h.lr
      /\ h2.mem = [h.mem EXCEPT ![g.sp - 2] = h.regs[r], ![g.sp - 1] = h.regs[q]]
  <2> HIDE DEF h1
  <2>1. h2 = [h1 EXCEPT !.mem = [h.mem EXCEPT ![g.sp - 2] = h.regs[r], ![g.sp - 1] = h.regs[q]]]
    BY <1>1, <1>2 DEF StoreBoth
  <2>2. h.regs[r] \in Int /\ h.regs[q] \in Int /\ h.mem \in [Stack -> Int]
    BY Fields
  <2>3. [h.mem EXCEPT ![g.sp - 2] = h.regs[r], ![g.sp - 1] = h.regs[q]] \in [Stack -> Int]
    BY <2>2
  <2> HIDE DEF h2
  <2> QED BY <1>1, <2>1, <2>3 DEF Hosts
<1>4. /\ h3 \in Hosts /\ h3.sp = g.sp - 2 /\ h3.regs = h.regs /\ h3.lr = h.lr
      /\ h3.mem = [h.mem EXCEPT ![g.sp - 2] = h.regs[r], ![g.sp - 1] = h.regs[q]]
  <2> HIDE DEF h2
  <2> QED BY <1>2, <1>3, Fields DEF SetSp, Hosts
<1>5. /\ n.sp = g.sp - 1 /\ n.regs = g.regs /\ n.lr = g.lr
      /\ n.mem = [g.mem EXCEPT ![g.sp - 1] = h.regs[q]]
      /\ n \in Guests
  <2>1. h.regs[q] \in Int /\ g.sp >= 1
    BY Fields
  <2> QED BY <2>1, PushedGuest
<1>6. /\ p.sp = g.sp - 2 /\ p.regs = g.regs /\ p.lr = g.lr
      /\ p.mem = [n.mem EXCEPT ![g.sp - 2] = h.regs[r]]
  <2> HIDE DEF n
  <2> QED BY <1>2, <1>5
<1>7. Agree(h3, p)
  <2> HIDE DEF h1, h2, h3, n, p
  <2>1. ASSUME NEW x \in p.sp .. StackCells - 1 PROVE h3.mem[x] = p.mem[x]
    <3>1. x \in Stack /\ (x # g.sp - 1 /\ x # g.sp - 2 => x \in g.sp .. StackCells - 1)
      <4>1. g.sp \in 0 .. StackCells /\ g.sp >= 2 /\ x \in g.sp - 2 .. StackCells - 1
        BY <1>6, Fields
      <4> QED BY <4>1, TwoBelow
    <3>2. n.mem \in [Stack -> Int]
      BY <1>2, <1>5, Fields
    <3> QED BY <1>2, <1>4, <1>5, <1>6, <3>1, <3>2, Fields DEF Agree
  <2> QED BY <1>4, <1>6, <2>1 DEF Agree
<1>8. PushBoth(h, q, r) = <<h1, h2, h3>>
  BY DEF PushBoth
<1> HIDE DEF h1, h2, h3, p
<1> QED BY <1>1, <1>3, <1>4, <1>7, <1>8 DEF p

LEMMA PopOneWords ==
  ASSUME NEW h \in Hosts, NEW g \in Guests, Agree(h, g), g.sp < StackCells, NEW r \in Regs
  PROVE  /\ PopOne(h, r) \in Seq(Hosts) /\ Len(PopOne(h, r)) = 3
         /\ Agree(PopOne(h, r)[3], Popped(g, r))
<1> DEFINE h1 == Address(h, 0)
           h2 == Load(h1, r)
           h3 == SetSp(h2, 1)
           n == Popped(g, r)
<1>0. /\ g.sp \in Stack /\ g.sp \in g.sp .. StackCells - 1 /\ g.sp - 0 = g.sp
      /\ g.sp + 1 \in 0 .. StackCells /\ h.sp = g.sp /\ h.mem[g.sp] = g.mem[g.sp]
      /\ g.mem[g.sp] \in Int /\ r \in HostRegs /\ r \in GuestRegs
  <2>1. g.sp \in 0 .. StackCells /\ g.mem \in [Stack -> Int]
    BY Fields
  <2>2. /\ g.sp \in Stack /\ g.sp \in g.sp .. StackCells - 1 /\ g.sp - 0 = g.sp
        /\ g.sp + 1 \in 0 .. StackCells
    BY <2>1, Names DEF Stack
  <2>3. h.sp = g.sp /\ h.mem[g.sp] = g.mem[g.sp]
    BY <2>2 DEF Agree
  <2>4. g.mem[g.sp] \in Int
    BY <2>1, <2>2
  <2>5. r \in HostRegs /\ r \in GuestRegs
    BY Names
  <2> QED BY <2>2, <2>3, <2>4, <2>5
<1>1. /\ h1 \in Hosts /\ h1.sc2 = g.sp /\ h1.regs = h.regs /\ h1.mem = h.mem
      /\ h1.lr = h.lr /\ h1.sp = h.sp
  BY <1>0, Fields DEF Address, Hosts
<1>2. /\ h2 \in Hosts /\ h2.sc2 = g.sp /\ h2.mem = h.mem /\ h2.lr = h.lr
      /\ h2.regs = [h.regs EXCEPT ![r] = g.mem[g.sp]]
  <2> HIDE DEF h1
  <2> QED BY <1>0, <1>1, Fields DEF Load, Hosts
<1>3. /\ h3 \in Hosts /\ h3.sp = g.sp + 1 /\ h3.mem = h.mem /\ h3.lr = h.lr
      /\ h3.regs = [h.regs EXCEPT ![r] = g.mem[g.sp]]
  <2> HIDE DEF h2
  <2> QED BY <1>0, <1>2, Fields DEF SetSp, Hosts
<1>4. /\ n.sp = g.sp + 1 /\ n.mem = g.mem /\ n.lr = g.lr
      /\ n.regs = [g.regs EXCEPT ![r] = g.mem[g.sp]]
  BY Fields DEF Popped
<1>5. Agree(h3, n)
  <2> HIDE DEF h1, h2, h3, n
  <2>1. \A x \in n.sp .. StackCells - 1 : h3.mem[x] = n.mem[x]
    BY <1>3, <1>4, Fields, Names DEF Agree
  <2>2. \A s \in GuestRegs : h3.regs[s] = n.regs[s]
    BY <1>0, <1>3, <1>4, Fields, Names DEF Agree
  <2> QED BY <1>3, <1>4, <2>1, <2>2 DEF Agree
<1>6. PopOne(h, r) = <<h1, h2, h3>>
  BY DEF PopOne
<1> HIDE DEF h1, h2, h3, n
<1> QED BY <1>1, <1>2, <1>3, <1>5, <1>6 DEF n

LEMMA PopBothWords ==
  ASSUME NEW h \in Hosts, NEW g \in Guests, Agree(h, g), g.sp + 2 <= StackCells,
         NEW q \in Regs, NEW r \in Regs, q # r
  PROVE  /\ PopBoth(h, q, r, 1) \in Seq(Hosts) /\ Len(PopBoth(h, q, r, 1)) = 3
         /\ Agree(PopBoth(h, q, r, 1)[3], Popped(Popped(g, q), r))
<1> DEFINE h1 == Address(h, 0)
           h2 == LoadBoth(h1, q, r, 1)
           h3 == SetSp(h2, 2)
           n == Popped(g, q)
           p == Popped(n, r)
<1>0. /\ g.sp \in Stack /\ g.sp - 0 = g.sp /\ h.sp = g.sp /\ g.sp + 1 \in Stack
      /\ g.sp + 2 \in 0 .. StackCells /\ (g.sp + 1) + 1 = g.sp + 2
      /\ h.mem[g.sp] = g.mem[g.sp] /\ h.mem[g.sp + 1] = g.mem[g.sp + 1]
      /\ g.mem[g.sp] \in Int /\ g.mem[g.sp + 1] \in Int
      /\ r \in HostRegs /\ r \in GuestRegs /\ q \in HostRegs /\ q \in GuestRegs
  <2>1. g.sp \in g.sp .. StackCells - 1 /\ g.sp + 1 \in g.sp .. StackCells - 1
    BY Fields, Names
  <2>2. g.sp \in Stack /\ g.sp + 1 \in Stack
    BY Fields, Names DEF Stack
  <2> QED BY <2>1, <2>2, Fields, Names DEF Agree
<1>1. /\ h1 \in Hosts /\ h1.sc2 = g.sp /\ h1.regs = h.regs /\ h1.mem = h.mem
      /\ h1.lr = h.lr /\ h1.sp = h.sp
  BY <1>0, Fields DEF Address, Hosts
<1> DEFINE both == [h.regs EXCEPT ![q] = g.mem[g.sp], ![r] = g.mem[g.sp + 1]]
<1>2. both \in [HostRegs -> Int]
  BY <1>0, Fields
<1>3. h2 \in Hosts /\ h2.sc2 = g.sp /\ h2.mem = h.mem /\ h2.lr = h.lr /\ h2.regs = both
  <2>1. h2 = [h1 EXCEPT !.regs = both]
    <3> HIDE DEF h1
    <3> QED BY <1>0, <1>1 DEF LoadBoth
  <2> HIDE DEF h1, h2, both
  <2> QED BY <1>1, <1>2, <2>1, Fields DEF Hosts
<1>4. h3 \in Hosts /\ h3.sp = g.sp + 2 /\ h3.mem = h.mem /\ h3.lr = h.lr /\ h3.regs = both
  <2> HIDE DEF h2, both
  <2> QED BY <1>0, <1>3, Fields DEF SetSp, Hosts
<1>5. /\ n.sp = g.sp + 1 /\ n.mem = g.mem /\ n.lr = g.lr
      /\ n.regs = [g.regs EXCEPT ![q] = g.mem[g.sp]]
      /\ n \in Guests
  <2>1. g.sp < StackCells
    BY <1>0, Names DEF Stack
  <2> QED BY <1>0, <2>1, PoppedGuest
<1>6. /\ p.sp = g.sp + 2 /\ p.mem = g.mem /\ p.lr = g.lr
      /\ p.regs = [n.regs EXCEPT ![r] = g.mem[g.sp + 1]]
  <2> HIDE DEF n
  <2> QED BY <1>0, <1>5 DEF Popped
<1>7. Agree(h3, p)
  <2> HIDE DEF h1, h2, h3, n, p
  <2>1. \A x \in p.sp .. StackCells - 1 : h3.mem[x] = p.mem[x]
    BY <1>4, <1>6, Fields, Names DEF Agree
  <2>2. ASSUME NEW s \in GuestRegs PROVE h3.regs[s] = p.regs[s]
    <3>1. h.regs[s] = g.regs[s] /\ s \in HostRegs
      BY Names DEF Agree
    <3>2. n.regs \in [GuestRegs -> Int]
      BY <1>5, Fields
    <3> QED BY <1>0, <1>4, <1>5, <1>6, <3>1, <3>2, Fields
  <2> QED BY <1>4, <1>6, <2>1, <2>2 DEF Agree
<1>8. PopBoth(h, q, r, 1) = <<h1, h2, h3>>
  BY DEF PopBoth
<1> HIDE DEF h1, h2, h3, both, n, p
<1>9. PopBoth(h, q, r, 1)[3] = h3 /\ p = Popped(Popped(g, q), r)
  BY <1>8 DEF n, p
<1>10. PopBoth(h, q, r, 1) \in Seq(Hosts) /\ Len(PopBoth(h, q, r, 1)) = 3
  <2>1. <<h1, h2, h3>> \in Seq(Hosts) /\ Len(<<h1, h2, h3>>) = 3
    BY <1>1, <1>3, <1>4
  <2> QED BY <1>8, <2>1
<1> QED BY <1>7, <1>9, <1>10

LEMMA PushFrameWords ==
  ASSUME NEW h \in Hosts, NEW g \in Guests, Agree(h, g), g.sp >= 2
  PROVE  /\ FramePushed(g) \in Guests
         /\ PushFrameWord(h) \in Hosts
         /\ Agree(PushFrameWord(h), FramePushed(g))
<1> DEFINE a == g.sp - 2
           hm == [h.mem EXCEPT ![g.sp - 2] = g.lr, ![g.sp - 1] = g.regs["rbp"]]
           gm == [g.mem EXCEPT ![g.sp - 2] = g.lr, ![g.sp - 1] = g.regs["rbp"]]
<1>1. /\ h.sp = g.sp /\ h.lr = g.lr /\ h.regs["rbp"] = g.regs["rbp"]
      /\ g.lr \in Int /\ g.regs["rbp"] \in Int
  BY Fields, Names DEF Agree
<1>2. a \in 0 .. StackCells /\ a \in Stack /\ g.sp - 1 \in Stack /\ a # g.sp - 1
  BY Fields, Names DEF Stack
<1>3. hm \in [Stack -> Int]
  BY <1>1, Fields
<1>4. gm \in [Stack -> Int]
  BY <1>1, Fields
<1>5. PushFrameWord(h) = [h EXCEPT !.sp = a, !.mem = hm]
  BY <1>1, Fields DEF PushFrameWord
<1>6. FramePushed(g) = [g EXCEPT !.sp = a, !.mem = gm]
  BY Fields DEF FramePushed
<1>7. ASSUME NEW x \in a .. StackCells - 1 PROVE hm[x] = gm[x]
  <2>1. x \in Stack /\ (x # a /\ x # g.sp - 1 => x \in g.sp .. StackCells - 1)
    BY <1>2, Fields, Names DEF Stack
  <2> QED BY <1>2, <2>1, Fields DEF Agree
<1> DEFINE h1 == [h EXCEPT !.sp = a, !.mem = hm]
           g1 == [g EXCEPT !.sp = a, !.mem = gm]
<1> HIDE DEF a, hm, gm
<1>8. h1 \in Hosts /\ h1.sp = a /\ h1.mem = hm /\ h1.regs = h.regs /\ h1.lr = h.lr
  BY <1>2, <1>3 DEF Hosts
<1>9. g1 \in Guests /\ g1.sp = a /\ g1.mem = gm /\ g1.regs = g.regs /\ g1.lr = g.lr
  BY <1>2, <1>4 DEF Guests
<1> HIDE DEF h1, g1
<1>10. Agree(h1, g1)
  BY <1>1, <1>7, <1>8, <1>9 DEF Agree
<1> QED BY <1>5, <1>6, <1>8, <1>9, <1>10 DEF h1, g1

LEMMA PopFrameWords ==
  ASSUME NEW h \in Hosts, NEW g \in Guests, Agree(h, g), g.sp + 2 <= StackCells
  PROVE  /\ FramePopped(g) \in Guests
         /\ PopFrameWord(h) \in Hosts
         /\ Agree(PopFrameWord(h), FramePopped(g))
<1> DEFINE a == g.sp + 2
           l == g.mem[g.sp]
           hr == [h.regs EXCEPT !["rbp"] = g.mem[g.sp + 1]]
           gr == [g.regs EXCEPT !["rbp"] = g.mem[g.sp + 1]]
<1>1. /\ g.sp \in Stack /\ g.sp + 1 \in Stack /\ a \in 0 .. StackCells
      /\ g.sp \in g.sp .. StackCells - 1 /\ g.sp + 1 \in g.sp .. StackCells - 1
  BY Fields, Names DEF Stack
<1>2. h.sp = g.sp /\ h.mem[g.sp] = g.mem[g.sp] /\ h.mem[g.sp + 1] = g.mem[g.sp + 1]
  BY <1>1 DEF Agree
<1>3. l \in Int /\ g.mem[g.sp + 1] \in Int
  BY <1>1, Fields
<1>4. hr \in [HostRegs -> Int]
  BY <1>3, Fields
<1>5. gr \in [GuestRegs -> Int]
  BY <1>3, Fields
<1>6. PopFrameWord(h) = [h EXCEPT !.sp = a, !.lr = l, !.regs = hr]
  BY <1>2, Fields DEF PopFrameWord
<1>7. FramePopped(g) = [g EXCEPT !.sp = a, !.lr = l, !.regs = gr]
  BY Fields DEF FramePopped
<1>8. ASSUME NEW s \in GuestRegs PROVE hr[s] = gr[s]
  BY Fields, Names DEF Agree
<1>9. \A x \in a .. StackCells - 1 : h.mem[x] = g.mem[x]
  BY Fields, Names DEF Agree
<1> DEFINE h1 == [h EXCEPT !.sp = a, !.lr = l, !.regs = hr]
           g1 == [g EXCEPT !.sp = a, !.lr = l, !.regs = gr]
<1> HIDE DEF a, l, hr, gr
<1>10. h1 \in Hosts /\ h1.sp = a /\ h1.regs = hr /\ h1.mem = h.mem /\ h1.lr = l
  BY <1>1, <1>3, <1>4 DEF Hosts
<1>11. g1 \in Guests /\ g1.sp = a /\ g1.regs = gr /\ g1.mem = g.mem /\ g1.lr = l
  BY <1>1, <1>3, <1>5 DEF Guests
<1> HIDE DEF h1, g1
<1>12. Agree(h1, g1)
  BY <1>8, <1>9, <1>10, <1>11 DEF Agree
<1> QED BY <1>6, <1>7, <1>10, <1>11, <1>12 DEF h1, g1

LEMMA SetWords ==
  ASSUME NEW h \in Hosts, NEW g \in Guests, Agree(h, g), NEW r \in Regs, NEW v \in Int
  PROVE  Set(g, r, v) \in Guests /\ Set(h, r, v) \in Hosts /\ Agree(Set(h, r, v), Set(g, r, v))
<1> DEFINE hr == [h.regs EXCEPT ![r] = v]
           gr == [g.regs EXCEPT ![r] = v]
           h1 == [h EXCEPT !.regs = hr]
           g1 == [g EXCEPT !.regs = gr]
<1>1. hr \in [HostRegs -> Int] /\ gr \in [GuestRegs -> Int]
  BY Fields
<1>2. Set(h, r, v) = h1 /\ Set(g, r, v) = g1
  BY Fields DEF Set
<1>3. ASSUME NEW s \in GuestRegs PROVE hr[s] = gr[s]
  BY Fields, Names DEF Agree
<1> HIDE DEF hr, gr
<1>4. h1 \in Hosts /\ h1.sp = h.sp /\ h1.regs = hr /\ h1.mem = h.mem /\ h1.lr = h.lr
  BY <1>1 DEF Hosts
<1>5. g1 \in Guests /\ g1.sp = g.sp /\ g1.regs = gr /\ g1.mem = g.mem /\ g1.lr = g.lr
  BY <1>1 DEF Guests
<1> HIDE DEF h1, g1
<1>6. Agree(h1, g1)
  BY <1>3, <1>4, <1>5 DEF Agree
<1> QED BY <1>2, <1>4, <1>5, <1>6

LEMMA ScratchWord ==
  ASSUME NEW h \in Hosts, NEW g \in Guests, Agree(h, g), NEW v \in Int
  PROVE  /\ Scratch(h, v) \in Hosts /\ Agree(Scratch(h, v), g)
         /\ Scratch(h, v).regs["sc1"] = v
         /\ \A r \in GuestRegs : Scratch(h, v).regs[r] = h.regs[r]
<1> DEFINE hr == [h.regs EXCEPT !["sc1"] = v]
           h1 == [h EXCEPT !.regs = hr]
<1>1. hr \in [HostRegs -> Int]
  BY Fields
<1>2. hr["sc1"] = v /\ \A r \in GuestRegs : hr[r] = h.regs[r]
  BY Fields, Names
<1>3. Scratch(h, v) = h1
  BY Fields DEF Scratch
<1> HIDE DEF hr
<1>4. h1 \in Hosts /\ h1.sp = h.sp /\ h1.regs = hr /\ h1.mem = h.mem /\ h1.lr = h.lr
  BY <1>1 DEF Hosts
<1> HIDE DEF h1
<1> QED BY <1>2, <1>3, <1>4 DEF Agree

(* The operand of PUSH comes into a register, and nothing else changes.    *)
LEMMA FetchWords ==
  ASSUME NEW s \in Seq(Hosts), s # << >>, NEW g \in Guests, Agree(s[Len(s)], g),
         NEW x \in Operands \ {"rbp"}, x = "top" => g.sp < StackCells, count \in Nat
  PROVE  /\ Value(g, x) \in Int /\ Source(x) \in Regs \cup {"sc1"}
         /\ Fetch(s, x) \in Seq(Hosts) /\ Len(Fetch(s, x)) \in {Len(s), Len(s) + 1}
         /\ \A i \in 1 .. Len(s) : Fetch(s, x)[i] = s[i]
         /\ LET h == Fetch(s, x)[Len(Fetch(s, x))]
            IN  /\ Agree(h, g) /\ h.regs[Source(x)] = Value(g, x)
                /\ \A r \in GuestRegs : h.regs[r] = s[Len(s)].regs[r]
<1>1. x \in Regs \/ x \in {"rsp", "imm", "top"}
  BY FusionAssumption DEF OtherOperands
<1>2. s[Len(s)] \in Hosts
  OBVIOUS
<1>3. CASE x \in Regs
  <2>1. Fetch(s, x) = s /\ Source(x) = x
    BY <1>3, Names DEF Fetch, Source
  <2>2. Value(g, x) = g.regs[x] /\ x \in GuestRegs
    BY <1>3, Names DEF Value
  <2>3. g.regs[x] \in Int /\ s[Len(s)].regs[x] = g.regs[x]
    BY <2>2, Fields DEF Agree
  <2> QED BY <1>3, <2>1, <2>2, <2>3
<1>4. CASE x \in {"rsp", "imm", "top"}
  <2> DEFINE h == s[Len(s)]
             v == Value(g, x)
  <2>1. x \notin Regs /\ Source(x) = "sc1"
    BY <1>4, Names DEF Source
  <2>2. v \in Int /\ Fetch(s, x) = Append(s, Scratch(h, v))
    <3>1. CASE x = "rsp"
      BY <2>1, <3>1, Fields DEF Value, Fetch, Agree
    <3>2. CASE x = "imm"
      BY <2>1, <3>2 DEF Value, Fetch, Immediate
    <3>3. CASE x = "top"
      <4>1. g.sp \in Stack /\ g.sp \in g.sp .. StackCells - 1
        BY <3>3, Fields, Names DEF Stack
      <4>2. h.mem[h.sp] = g.mem[g.sp] /\ g.mem[g.sp] \in Int
        BY <4>1, Fields DEF Agree
      <4> HIDE DEF h
      <4> QED BY <2>1, <3>3, <4>2 DEF Value, Fetch, h
    <3> QED BY <1>4, <3>1, <3>2, <3>3
  <2> HIDE DEF v
  <2>3. /\ Scratch(h, v) \in Hosts /\ Agree(Scratch(h, v), g) /\ Scratch(h, v).regs["sc1"] = v
        /\ \A r \in GuestRegs : Scratch(h, v).regs[r] = h.regs[r]
    BY <1>2, <2>2, ScratchWord
  <2> DEFINE w == Scratch(h, v)
  <2> HIDE DEF w
  <2>4. /\ Append(s, w) \in Seq(Hosts) /\ Len(Append(s, w)) = Len(s) + 1
        /\ \A i \in 1 .. Len(s) : Append(s, w)[i] = s[i]
        /\ Append(s, w)[Len(s) + 1] = w
    BY <2>3 DEF w
  <2> QED BY <2>1, <2>2, <2>3, <2>4 DEF v, w
<1> QED BY <1>1, <1>3, <1>4

-----------------------------------------------------------------------------
(***************************************************************************)
(* The inductive invariant.  As long as the instruction that the encoder   *)
(* remembers is the latest one, the host stood three words ago where the   *)
(* guest stood one instruction ago, prev_register held what that           *)
(* instruction pushed, and no point lies within the three words.           *)
(***************************************************************************)
Remembers == last.op = prev_instruction /\ last.op \in {"PUSH", "POP"} /\ last.arg # "rbp"

Before == Len(states) - 3

BeforePush(h, g) ==
  /\ g.sp >= 1
  /\ Guest = [g EXCEPT !.sp = @ - 1, !.mem = [@ EXCEPT ![g.sp - 1] = h.regs[prev_register]]]
  /\ last.arg \in Regs => prev_register = last.arg

BeforePop(g) ==
  /\ g.sp < StackCells
  /\ last.arg \in Regs /\ prev_register = last.arg
  /\ Guest = Popped(g, prev_register)

Remembered ==
  Remembers =>
    /\ Before >= 1 /\ Len(guests) >= 2
    /\ \A k \in DOMAIN points : points[k] <= Before
    /\ Agree(states[Before], guests[Len(guests) - 1])
    /\ last.op = "PUSH" => BeforePush(states[Before], guests[Len(guests) - 1])
    /\ last.op = "POP" => BeforePop(guests[Len(guests) - 1])

PointsBehind == \A k \in DOMAIN points : points[k] <= Len(states)

FusionInv == TypeOK /\ intact /\ SameMeaning /\ PointsBehind /\ Remembered

(* What the guest and the encoder may be at any time.                      *)
LEMMA Present ==
  ASSUME FusionInv
  PROVE  /\ Len(states) \in Nat \ {0} /\ Host \in Hosts
         /\ Len(guests) \in Nat \ {0} /\ Guest \in Guests
         /\ Len(points) \in Nat /\ DOMAIN points = 1 .. Len(points)
         /\ Len(guests) = Len(points) + 1 /\ DOMAIN guests = 1 .. Len(guests)
         /\ Agree(Host, Guest)
         /\ count \in Nat /\ prev_register \in HostRegs
<1>1. /\ states \in Seq(Hosts) /\ states # << >> /\ guests \in Seq(Guests) /\ guests # << >>
      /\ points \in Seq(Nat \ {0}) /\ Len(guests) = Len(points) + 1 /\ fused \subseteq DOMAIN points
      /\ count \in 0 .. MaxInstrs /\ prev_register \in Regs \cup {"sc1"} /\ SameMeaning
  BY DEF FusionInv, TypeOK
<1>2. /\ Len(states) \in Nat \ {0} /\ Host \in Hosts /\ Len(guests) \in Nat \ {0} /\ Guest \in Guests
      /\ Len(points) \in Nat /\ DOMAIN points = 1 .. Len(points) /\ DOMAIN guests = 1 .. Len(guests)
  BY <1>1 DEF Host, Guest
<1>3. Len(guests) \in DOMAIN guests \ fused /\ Len(guests) \notin DOMAIN points
  BY <1>1, <1>2
<1>4. Serves(Len(guests)) /\ Position(Len(guests)) = Len(states)
  BY <1>1, <1>3 DEF SameMeaning, Position
<1>5. count \in Nat
  BY <1>1, FusionAssumption
<1> QED BY <1>1, <1>2, <1>4, <1>5, Names DEF Serves, Host, Guest

(* A step that keeps the words up to n, behind all points that serve, and  *)
(* ends where the guest ends.                                              *)
LEMMA Extends ==
  ASSUME FusionInv,
         NEW n \in 1 .. Len(states), NEW new \in Guests,
         \A k \in DOMAIN points : points[k] <= n,
         states' \in Seq(Hosts), Len(states') > n, Len(states') >= Len(states),
         \A i \in 1 .. n : states'[i] = states[i],
         guests' = Append(guests, new), points' = Append(points, Len(states)),
         Agree(states'[Len(states')], new),
         (n = Len(states) /\ fused' = fused) \/ fused' = fused \cup {Len(guests)}
  PROVE  /\ states' # << >> /\ guests' \in Seq(Guests) /\ guests' # << >>
         /\ points' \in Seq(Nat \ {0}) /\ Len(guests') = Len(points') + 1
         /\ fused' \subseteq DOMAIN points'
         /\ SameMeaning' /\ PointsBehind'
         /\ Len(guests') = Len(guests) + 1 /\ guests'[Len(guests)] = Guest /\ Guest' = new
         /\ DOMAIN points' = DOMAIN points \cup {Len(guests)}
         /\ \A k \in DOMAIN points : points'[k] = points[k]
         /\ points'[Len(guests)] = Len(states)
<1>1. /\ guests \in Seq(Guests) /\ points \in Seq(Nat \ {0}) /\ fused \subseteq DOMAIN points
      /\ SameMeaning /\ PointsBehind
  BY DEF FusionInv, TypeOK
<1>2. Len(states') \in Nat /\ DOMAIN states' = 1 .. Len(states')
  OBVIOUS
<1> DEFINE g == Len(guests)
<1>3. /\ g \in Nat \ {0} /\ Len(points) + 1 = g /\ DOMAIN points = 1 .. Len(points)
      /\ DOMAIN guests = 1 .. g /\ Len(states) \in Nat \ {0} /\ Len(points) \in Nat
  BY Present
<1>4. /\ guests' \in Seq(Guests) /\ Len(guests') = g + 1 /\ DOMAIN guests' = 1 .. g + 1
      /\ \A k \in 1 .. g : guests'[k] = guests[k]
      /\ guests'[g + 1] = new
  BY <1>1
<1>5. /\ points' \in Seq(Nat \ {0}) /\ Len(points') = g /\ DOMAIN points' = 1 .. g
      /\ \A k \in DOMAIN points : points'[k] = points[k]
      /\ points'[g] = Len(states)
  BY <1>1, <1>3
<1>6. DOMAIN points' = DOMAIN points \cup {g} /\ fused' \subseteq DOMAIN points'
  BY <1>1, <1>3, <1>5
<1>7. guests'[g] = Guest /\ Guest' = new
  BY <1>3, <1>4 DEF Guest
<1> HIDE DEF g
<1>8. PointsBehind'
  <2> SUFFICES ASSUME NEW k \in DOMAIN points' PROVE points'[k] <= Len(states')
    BY DEF PointsBehind
  <2>1. CASE k = g
    BY <2>1, <1>5
  <2>2. CASE k \in DOMAIN points
    <3>1. points[k] <= n /\ points[k] \in Nat
      BY <2>2, <1>1
    <3> QED BY <2>2, <3>1, <1>2, <1>5
  <2> QED BY <2>1, <2>2, <1>6
<1>9. SameMeaning'
  <2> SUFFICES ASSUME NEW k \in DOMAIN guests' \ fused'
               PROVE  /\ Position(k)' \in DOMAIN states'
                      /\ Agree(states'[Position(k)'], guests'[k])
    BY DEF SameMeaning, Serves, Agree
  <2>1. CASE k \in DOMAIN points
    <3>1. k \in DOMAIN guests \ fused /\ k \in 1 .. g
      BY <2>1, <1>3
    <3>2. Position(k) = points[k] /\ Position(k)' = points[k]
      BY <2>1, <1>5, <1>6 DEF Position
    <3>3. points[k] \in 1 .. n
      BY <2>1, <1>1
    <3>4. Agree(states[points[k]], guests[k])
      BY <3>1, <3>2, <1>1 DEF SameMeaning, Serves
    <3> QED BY <3>1, <3>2, <3>3, <3>4, <1>2, <1>4
  <2>2. CASE k = g
    <3>1. n = Len(states) /\ Position(k)' = Len(states)
      BY <2>2, <1>5, <1>6 DEF g, Position
    <3>2. states'[Len(states)] = Host
      BY <3>1 DEF Host
    <3> QED BY <2>2, <3>1, <3>2, <1>2, <1>7, Present
  <2>3. CASE k = g + 1
    <3>1. Position(k)' = Len(states')
      BY <2>3, <1>3, <1>5 DEF Position
    <3> QED BY <2>3, <3>1, <1>2, <1>4
  <2> QED BY <2>1, <2>2, <2>3, <1>3, <1>4
<1>10. states' # << >> /\ guests' # << >>
  BY <1>2, <1>3, <1>4
<1> QED BY <1>3, <1>4, <1>5, <1>6, <1>7, <1>8, <1>9, <1>10 DEF g

-----------------------------------------------------------------------------
(* Every instruction counts.                                               *)
LEMMA Counts ==
  ASSUME FusionInv, NEW op, NEW x, NEW g, Reach(op, x, g)
  PROVE  /\ count' \in 0 .. MaxInstrs /\ last' = [op |-> op, arg |-> x]
         /\ points' = Append(points, Len(states)) /\ guests' = Append(guests, g)
BY FusionAssumption DEF Reach, FusionInv, TypeOK

(* The words ws after the words of s.                                      *)
LEMMA Concat ==
  ASSUME NEW s \in Seq(Hosts), NEW ws \in Seq(Hosts), Len(ws) = 3
  PROVE  /\ s \o ws \in Seq(Hosts) /\ Len(s \o ws) = Len(s) + 3
         /\ \A i \in 1 .. Len(s) : (s \o ws)[i] = s[i]
         /\ (s \o ws)[Len(s) + 3] = ws[3]
<1>0. Len(s) \in Nat
  OBVIOUS
<1>1. s \o ws \in Seq(Hosts) /\ Len(s \o ws) = Len(s) + 3
  <2>1. s \o ws \in Seq(Hosts)
    BY ConcatProperties, Zenon
  <2>2. Len(s \o ws) = Len(s) + Len(ws)
    BY ConcatProperties, Zenon
  <2> QED BY <2>1, <2>2
<1>2. \A i \in 1 .. Len(s) + 3 : (s \o ws)[i] = IF i <= Len(s) THEN s[i] ELSE ws[i - Len(s)]
  <2>1. \A i \in 1 .. Len(s) + Len(ws) : (s \o ws)[i] = IF i <= Len(s) THEN s[i] ELSE ws[i - Len(s)]
    BY ConcatProperties, Zenon
  <2> QED BY <2>1
<1>3. Len(s) + 3 \in 1 .. Len(s) + 3 /\ ~ (Len(s) + 3 <= Len(s)) /\ (Len(s) + 3) - Len(s) = 3
  BY <1>0
<1>4. (s \o ws)[Len(s) + 3] = ws[3]
  BY <1>2, <1>3
<1>5. \A i \in 1 .. Len(s) : (s \o ws)[i] = s[i]
  BY <1>0, <1>2
<1> QED BY <1>1, <1>4, <1>5

LEMMA Appended ==
  ASSUME NEW s \in Seq(Hosts), NEW w \in Hosts
  PROVE  /\ Append(s, w) \in Seq(Hosts) /\ Len(Append(s, w)) = Len(s) + 1
         /\ \A i \in 1 .. Len(s) : Append(s, w)[i] = s[i]
         /\ Append(s, w)[Len(s) + 1] = w
OBVIOUS

(* A step of one word that the encoder does not remember.                  *)
LEMMA OneWord ==
  ASSUME FusionInv, NEW op, NEW x, NEW g \in Guests, Reach(op, x, g),
         NEW w \in Hosts, states' = Append(states, w), Agree(w, g),
         intact' = intact, fused' = fused, prev_register' = prev_register,
         prev_instruction' \in {"PUSH", "POP", "NOP"},
         op \in {"PUSH", "POP"} => x = "rbp"
  PROVE  FusionInv'
<1>1. states \in Seq(Hosts) /\ Len(states) \in Nat \ {0} /\ Len(states) \in 1 .. Len(states)
  BY Present DEF FusionInv, TypeOK
<1>2. /\ states' \in Seq(Hosts) /\ Len(states') = Len(states) + 1
      /\ \A i \in 1 .. Len(states) : states'[i] = states[i]
      /\ states'[Len(states')] = w
  BY <1>1, Appended
<1>3. /\ states' # << >> /\ guests' \in Seq(Guests) /\ guests' # << >>
      /\ points' \in Seq(Nat \ {0}) /\ Len(guests') = Len(points') + 1
      /\ fused' \subseteq DOMAIN points'
      /\ SameMeaning' /\ PointsBehind'
  <2>1. \A k \in DOMAIN points : points[k] <= Len(states)
    BY DEF FusionInv, PointsBehind
  <2>2. Len(states') > Len(states) /\ Len(states') >= Len(states)
    BY <1>1, <1>2
  <2> HIDE DEF FusionInv
  <2> QED BY <1>1, <1>2, <2>1, <2>2, Counts, Extends
<1>4. TypeOK'
  BY <1>2, <1>3, Counts DEF FusionInv, TypeOK
<1>5. Remembered'
  BY Counts DEF Remembered, Remembers
<1> QED BY <1>3, <1>4, <1>5 DEF FusionInv

LEMMA OtherStep == ASSUME FusionInv, NEW r \in Regs, Other(r) PROVE FusionInv'
<1>1. /\ Set(Guest, r, 2) \in Guests /\ Set(Host, r, 2) \in Hosts
      /\ Agree(Set(Host, r, 2), Set(Guest, r, 2))
  BY Present, SetWords
<1> QED BY <1>1, OneWord DEF Other

LEMMA ByteStep == ASSUME FusionInv, NEW r \in Regs, Byte(r) PROVE FusionInv'
<1>1. /\ Set(Guest, r, 3) \in Guests /\ Set(Host, r, 3) \in Hosts
      /\ Agree(Set(Host, r, 3), Set(Guest, r, 3))
  BY Present, SetWords
<1>2. prev_instruction \in {"PUSH", "POP", "NOP"}
  BY DEF FusionInv, TypeOK
<1> QED BY <1>1, <1>2, OneWord DEF Byte, encoder

LEMMA PopFrameStep == ASSUME FusionInv, PopFrame PROVE FusionInv'
<1>1. /\ FramePopped(Guest) \in Guests /\ PopFrameWord(Host) \in Hosts
      /\ Agree(PopFrameWord(Host), FramePopped(Guest))
  BY Present, PopFrameWords DEF PopFrame
<1>2. prev_instruction \in {"PUSH", "POP", "NOP"}
  BY DEF FusionInv, TypeOK
<1> QED BY <1>1, <1>2, OneWord DEF PopFrame, encoder

LEMMA PushFrameStep == ASSUME ~ Wild, FusionInv, PushFrame PROVE FusionInv'
<1>1. /\ FramePushed(Guest) \in Guests /\ PushFrameWord(Host) \in Hosts
      /\ Agree(PushFrameWord(Host), FramePushed(Guest))
  BY Present, PushFrameWords DEF PushFrame
<1>2. prev_instruction \in {"PUSH", "POP", "NOP"} /\ prev_instruction # "PUSH" /\ intact
  BY DEF FusionInv, TypeOK, PushFrame
<1>3. states' = Append(states, PushFrameWord(Host)) /\ intact'
  BY <1>2 DEF PushFrame, Host
<1> QED BY <1>1, <1>2, <1>3, OneWord DEF PushFrame, encoder

(* A decode starts where the guest is.                                     *)
LEMMA StartHost ==
  ASSUME NEW g \in Guests PROVE HostOf(g) \in Hosts /\ Agree(HostOf(g), g)
<1> DEFINE hr == [r \in HostRegs |-> IF r \in GuestRegs THEN g.regs[r] ELSE 0]
<1>1. hr \in [HostRegs -> Int] /\ \A r \in GuestRegs : hr[r] = g.regs[r]
  BY Fields, Names
<1>2. HostOf(g) = [regs |-> hr, lr |-> g.lr, sp |-> g.sp, mem |-> g.mem, sc2 |-> 0]
  BY DEF HostOf
<1> HIDE DEF hr
<1>3. HostOf(g) \in Hosts
  BY <1>1, <1>2, Fields DEF Hosts
<1> QED BY <1>1, <1>2, <1>3 DEF Agree

LEMMA JoinStep == ASSUME FusionInv, Join PROVE FusionInv'
<1>1. PICK g \in Starts : guests' = <<g>> /\ states' = <<HostOf(g)>>
  BY DEF Join
<1>2. g \in Guests /\ HostOf(g) \in Hosts /\ Agree(HostOf(g), g)
  BY FusionAssumption, StartHost
<1>3. points' = << >> /\ fused' = {} /\ last' = Nothing /\ count' \in 0 .. MaxInstrs
  BY FusionAssumption DEF Join, FusionInv, TypeOK
<1>4. TypeOK' /\ intact'
  BY <1>1, <1>2, <1>3 DEF Join, encoder, FusionInv, TypeOK
<1>5. SameMeaning'
  <2>1. DOMAIN guests' = {1} /\ DOMAIN points' = {} /\ DOMAIN states' = {1} /\ Len(states') = 1
    BY <1>1, <1>3
  <2>2. guests'[1] = g /\ states'[1] = HostOf(g)
    BY <1>1
  <2> SUFFICES ASSUME NEW k \in DOMAIN guests' \ fused'
               PROVE  /\ Position(k)' \in DOMAIN states'
                      /\ Agree(states'[Position(k)'], guests'[k])
    BY DEF SameMeaning, Serves, Agree
  <2>3. k = 1 /\ Position(k)' = 1
    BY <2>1 DEF Position
  <2> QED BY <1>2, <2>1, <2>2, <2>3
<1>6. PointsBehind'
  BY <1>3 DEF PointsBehind
<1>7. Remembered'
  BY <1>3 DEF Nothing, Remembered, Remembers
<1> QED BY <1>4, <1>5, <1>6, <1>7 DEF FusionInv

LEMMA PushFirstStep ==
  ASSUME FusionInv, NEW x \in Operands, PushFirst(x) PROVE FusionInv'
<1> DEFINE s == Fetch(states, x)
           h == s[Len(s)]
           ws == PushOne(h, Source(x))
           new == Pushed(Guest, x)
<1>1. /\ x \in Operands \ {"rbp"} /\ Guest.sp >= 1 /\ (x = "top" => Guest.sp < StackCells)
      /\ states' = s \o ws /\ intact' /\ fused' = fused
      /\ prev_instruction' = "PUSH" /\ prev_register' = Source(x)
      /\ Reach("PUSH", x, new)
  BY DEF PushFirst, CanPush, FusionInv
<1>2. /\ states \in Seq(Hosts) /\ states # << >> /\ Len(states) \in Nat \ {0} /\ Guest \in Guests
      /\ Agree(states[Len(states)], Guest) /\ count \in Nat
  BY Present DEF FusionInv, TypeOK, Host
<1>3. /\ Value(Guest, x) \in Int /\ Source(x) \in Regs \cup {"sc1"}
      /\ s \in Seq(Hosts) /\ Len(s) \in {Len(states), Len(states) + 1}
      /\ \A i \in 1 .. Len(states) : s[i] = states[i]
      /\ Agree(h, Guest) /\ h.regs[Source(x)] = Value(Guest, x)
  BY <1>1, <1>2, FetchWords
<1>4. h \in Hosts /\ Source(x) \in HostRegs
  BY <1>2, <1>3, Names
<1>5. /\ ws \in Seq(Hosts) /\ Len(ws) = 3 /\ new \in Guests
      /\ new = [Guest EXCEPT !.sp = @ - 1, !.mem = [@ EXCEPT ![Guest.sp - 1] = h.regs[Source(x)]]]
      /\ Agree(ws[3], new)
  <2>1. new = [Guest EXCEPT !.sp = @ - 1, !.mem = [@ EXCEPT ![Guest.sp - 1] = Value(Guest, x)]]
    BY DEF Pushed
  <2>2. new \in Guests
    <3> DEFINE v == Value(Guest, x)
    <3> HIDE DEF v, new
    <3> QED BY <1>1, <1>2, <1>3, <2>1, PushedGuest DEF v
  <2> HIDE DEF h, new
  <2>3. new = [Guest EXCEPT !.sp = @ - 1, !.mem = [@ EXCEPT ![Guest.sp - 1] = h.regs[Source(x)]]]
    BY <1>3, <2>1
  <2> QED BY <1>1, <1>2, <1>3, <1>4, <2>2, <2>3, PushOneWords
<1> HIDE DEF s, h, ws, new
<1>6. /\ states' \in Seq(Hosts) /\ Len(states') = Len(s) + 3
      /\ \A i \in 1 .. Len(s) : states'[i] = s[i]
      /\ states'[Len(s) + 3] = ws[3]
  BY <1>1, <1>3, <1>5, Concat
<1>7. Len(s) \in Nat /\ Len(s) >= Len(states) /\ Len(s) >= 1
  BY <1>2, <1>3
<1>8. /\ Len(states') > Len(states) /\ Len(states') >= Len(states)
      /\ Agree(states'[Len(states')], new) /\ Len(states) \in 1 .. Len(states)
  BY <1>2, <1>5, <1>6, <1>7
<1>9. \A i \in 1 .. Len(states) : states'[i] = states[i]
  BY <1>2, <1>3, <1>6, <1>7
<1>10. \A k \in DOMAIN points : points[k] <= Len(states)
  BY DEF FusionInv, PointsBehind
<1>11. /\ count' \in 0 .. MaxInstrs /\ last' = [op |-> "PUSH", arg |-> x]
       /\ points' = Append(points, Len(states)) /\ guests' = Append(guests, new)
  BY <1>1, Counts
<1>12. /\ states' # << >> /\ guests' \in Seq(Guests) /\ guests' # << >>
       /\ points' \in Seq(Nat \ {0}) /\ Len(guests') = Len(points') + 1
       /\ fused' \subseteq DOMAIN points'
       /\ SameMeaning' /\ PointsBehind'
       /\ Len(guests') = Len(guests) + 1 /\ guests'[Len(guests)] = Guest /\ Guest' = new
       /\ DOMAIN points' = DOMAIN points \cup {Len(guests)}
       /\ \A k \in DOMAIN points : points'[k] = points[k]
       /\ points'[Len(guests)] = Len(states)
  BY Zenon, <1>1, <1>5, <1>6, <1>8, <1>9, <1>10, <1>11, Extends
<1>13. TypeOK'
  BY <1>1, <1>3, <1>6, <1>11, <1>12 DEF TypeOK
<1>14. Remembered'
  <2>1. Before' = Len(s) /\ Before' >= 1
    BY <1>6, <1>7 DEF Before
  <2>2. Len(guests') >= 2 /\ Len(guests') - 1 = Len(guests)
    BY <1>12, Present
  <2>3. states'[Before'] = h
    BY <1>6, <1>7, <2>1 DEF h
  <2>4. guests'[Len(guests') - 1] = Guest
    BY <1>12, <2>2
  <2>5. \A k \in DOMAIN points' : points'[k] <= Before'
    <3>1. ASSUME NEW k \in DOMAIN points PROVE points[k] <= Len(s)
      <4>1. points[k] \in Nat
        BY DEF FusionInv, TypeOK
      <4> QED BY <1>2, <1>7, <1>10, <4>1
    <3> QED BY <1>7, <1>12, <2>1, <3>1
  <2> QED BY Zenon, <1>1, <1>3, <1>5, <1>11, <1>12, <2>1, <2>2, <2>3, <2>4, <2>5
          DEF Remembered, Remembers, BeforePush, Source
<1> QED BY <1>1, <1>12, <1>13, <1>14 DEF FusionInv

(* What rewinding leaves, when the instruction remembered is the latest.   *)
LEMMA RewindWords ==
  ASSUME FusionInv, Remembers
  PROVE  /\ Own /\ Before \in 1 .. Len(states)
         /\ Rewound \in Seq(Hosts) /\ Rewound # << >> /\ Len(Rewound) = Before
         /\ \A i \in 1 .. Before : Rewound[i] = states[i]
         /\ Rewound[Before] = states[Before] /\ states[Before] \in Hosts
         /\ guests[Len(guests) - 1] \in Guests
         /\ Agree(states[Before], guests[Len(guests) - 1])
         /\ \A k \in DOMAIN points : points[k] <= Before
<1>1. /\ Before >= 1 /\ Len(guests) >= 2
      /\ \A k \in DOMAIN points : points[k] <= Before
      /\ Agree(states[Before], guests[Len(guests) - 1])
  BY DEF FusionInv, Remembered
<1>2. states \in Seq(Hosts) /\ Len(states) \in Nat /\ guests \in Seq(Guests) /\ Len(guests) \in Nat
  BY Present DEF FusionInv, TypeOK
<1>3. Own /\ Before \in 1 .. Len(states) /\ Before = Len(states) - 3
  BY <1>1, <1>2 DEF Own, Back, Before
<1>4. Rewound = SubSeq(states, 1, Before)
  BY <1>3 DEF Rewound, Back
<1>5. states[Before] \in Hosts /\ guests[Len(guests) - 1] \in Guests
  BY <1>1, <1>2, <1>3
<1>6. /\ Rewound \in Seq(Hosts) /\ Len(Rewound) = Before
      /\ \A i \in 1 .. Before : Rewound[i] = states[i]
  <2> DEFINE n == Before
  <2>1. n \in 1 .. Len(states) /\ n \in Nat
    BY <1>2, <1>3
  <2>2. \A i \in 1 .. n : states[i] \in Hosts
    BY <1>2, <2>1
  <2> HIDE DEF n
  <2>3. /\ SubSeq(states, 1, n) \in Seq(Hosts)
        /\ Len(SubSeq(states, 1, n)) = IF 1 <= n THEN n - 1 + 1 ELSE 0
        /\ \A i \in 1 .. n - 1 + 1 : SubSeq(states, 1, n)[i] = states[1 + i - 1]
    BY <2>1, <2>2, SubSeqProperties
  <2>4. Len(SubSeq(states, 1, n)) = n /\ n - 1 + 1 = n
    BY <2>1, <2>3
  <2>5. ASSUME NEW i \in 1 .. n PROVE SubSeq(states, 1, n)[i] = states[i]
    <3>1. 1 + i - 1 = i /\ i \in 1 .. n - 1 + 1
      BY <2>1
    <3> QED BY <2>3, <3>1
  <2> QED BY <1>4, <2>3, <2>4, <2>5 DEF n
<1>7. Rewound # << >> /\ Rewound[Before] = states[Before]
  BY <1>1, <1>3, <1>6
<1> QED BY <1>1, <1>3, <1>5, <1>6, <1>7

(* A fused pair in place of its first half.                                *)
LEMMA Pair ==
  ASSUME FusionInv, Remembers, NEW op, NEW x, NEW new \in Guests, Reach(op, x, new),
         NEW s \in Seq(Hosts), Len(s) >= Before, \A i \in 1 .. Before : s[i] = states[i],
         NEW ws \in Seq(Hosts), Len(ws) = 3, states' = s \o ws, Agree(ws[3], new),
         intact', prev_instruction' = "NOP", op \in {"PUSH", "POP"},
         prev_register' = prev_register, fused' = fused \cup {Len(guests)}
  PROVE  FusionInv'
<1>1. /\ Before \in 1 .. Len(states) /\ Before = Len(states) - 3 /\ Len(states) \in Nat /\ Len(s) \in Nat
      /\ \A k \in DOMAIN points : points[k] <= Before
  BY RewindWords, Present DEF Before
<1>2. /\ states' \in Seq(Hosts) /\ Len(states') = Len(s) + 3
      /\ \A i \in 1 .. Len(s) : states'[i] = s[i]
      /\ states'[Len(s) + 3] = ws[3]
  BY Concat
<1>3. Len(states') > Before /\ Len(states') >= Len(states)
  BY <1>1, <1>2
<1>4. \A i \in 1 .. Before : states'[i] = states[i]
  BY <1>1, <1>2
<1>5. /\ count' \in 0 .. MaxInstrs /\ last' = [op |-> op, arg |-> x]
      /\ points' = Append(points, Len(states)) /\ guests' = Append(guests, new)
  BY Counts
<1>6. /\ states' # << >> /\ guests' \in Seq(Guests) /\ guests' # << >>
      /\ points' \in Seq(Nat \ {0}) /\ Len(guests') = Len(points') + 1
      /\ fused' \subseteq DOMAIN points'
      /\ SameMeaning' /\ PointsBehind'
  BY <1>1, <1>2, <1>3, <1>4, <1>5, Extends
<1>7. TypeOK'
  BY <1>2, <1>5, <1>6 DEF TypeOK, FusionInv
<1>8. Remembered'
  BY <1>5 DEF Remembered, Remembers
<1> QED BY <1>6, <1>7, <1>8 DEF FusionInv

LEMMA PopFirstStep ==
  ASSUME FusionInv, NEW r \in Operands, PopFirst(r) PROVE FusionInv'
<1> DEFINE ws == PopOne(Host, r)
           new == Popped(Guest, r)
<1>1. /\ r \in Regs /\ Guest.sp < StackCells /\ states' = states \o ws /\ intact' /\ fused' = fused
      /\ prev_instruction' = "POP" /\ prev_register' = r /\ Reach("POP", r, new)
  BY DEF PopFirst, FusionInv
<1>2. states \in Seq(Hosts) /\ Len(states) \in Nat \ {0} /\ Guest \in Guests /\ Host \in Hosts
      /\ Agree(Host, Guest)
  BY Present DEF FusionInv, TypeOK
<1>3. ws \in Seq(Hosts) /\ Len(ws) = 3 /\ Agree(ws[3], new) /\ new \in Guests
  BY <1>1, <1>2, Names, PopOneWords, PoppedGuest
<1>4. new = Popped(Guest, r)
  OBVIOUS
<1> HIDE DEF ws, new
<1>5. /\ states' \in Seq(Hosts) /\ Len(states') = Len(states) + 3
      /\ \A i \in 1 .. Len(states) : states'[i] = states[i]
      /\ states'[Len(states) + 3] = ws[3]
  BY <1>1, <1>2, <1>3, Concat
<1>6. /\ Len(states') > Len(states) /\ Len(states') >= Len(states)
      /\ Agree(states'[Len(states')], new) /\ Len(states) \in 1 .. Len(states)
  BY <1>2, <1>3, <1>5
<1>7. \A k \in DOMAIN points : points[k] <= Len(states)
  BY DEF FusionInv, PointsBehind
<1>8. /\ count' \in 0 .. MaxInstrs /\ last' = [op |-> "POP", arg |-> r]
      /\ points' = Append(points, Len(states)) /\ guests' = Append(guests, new)
  BY <1>1, Counts
<1>9. /\ states' # << >> /\ guests' \in Seq(Guests) /\ guests' # << >>
      /\ points' \in Seq(Nat \ {0}) /\ Len(guests') = Len(points') + 1
      /\ fused' \subseteq DOMAIN points'
      /\ SameMeaning' /\ PointsBehind'
      /\ Len(guests') = Len(guests) + 1 /\ guests'[Len(guests)] = Guest /\ Guest' = new
      /\ DOMAIN points' = DOMAIN points \cup {Len(guests)}
      /\ \A k \in DOMAIN points : points'[k] = points[k]
      /\ points'[Len(guests)] = Len(states)
  BY <1>1, <1>3, <1>5, <1>6, <1>7, <1>8, Extends
<1>10. TypeOK'
  BY <1>1, <1>5, <1>8, <1>9 DEF TypeOK
<1>11. Remembered'
  <2>1. Before' = Len(states) /\ Before' >= 1
    BY <1>2, <1>5 DEF Before
  <2>2. Len(guests') >= 2 /\ Len(guests') - 1 = Len(guests)
    BY <1>9, Present
  <2>3. states'[Before'] = Host /\ guests'[Len(guests') - 1] = Guest
    BY <1>2, <1>5, <1>9, <2>1, <2>2 DEF Host
  <2>4. \A k \in DOMAIN points' : points'[k] <= Before'
    BY <1>2, <1>7, <1>9, <2>1
  <2> QED BY <1>1, <1>2, <1>4, <1>8, <1>9, <2>1, <2>2, <2>3, <2>4
          DEF Remembered, Remembers, BeforePop
<1> QED BY <1>1, <1>9, <1>10, <1>11 DEF FusionInv

LEMMA PopSecondStep ==
  ASSUME ~ Wild, FusionInv, NEW r \in Operands, PopSecond(r) PROVE FusionInv'
<1> DEFINE h == states[Before]
           g == guests[Len(guests) - 1]
           q == prev_register
           ws == PopBoth(h, q, r, 1)
<1>1. /\ r \in Regs /\ Guest.sp < StackCells /\ Reach("POP", r, Popped(Guest, r))
      /\ intact' = Own /\ fused' = fused \cup {Len(guests)}
      /\ prev_instruction' = "NOP" /\ prev_register' = prev_register
      /\ prev_instruction = "POP" /\ last.op = "POP" /\ last.arg \notin {"rbp", r}
  BY DEF PopSecond, TamePop
<1>2. Remembers
  BY <1>1 DEF Remembers
<1>3. g.sp < StackCells /\ q \in Regs /\ q # r /\ Guest = Popped(g, q)
  BY <1>1, <1>2 DEF FusionInv, Remembered, BeforePop
<1>4. /\ Own /\ Before \in 1 .. Len(states) /\ Rewound \in Seq(Hosts) /\ Len(Rewound) = Before
      /\ \A i \in 1 .. Before : Rewound[i] = states[i]
      /\ Rewound[Len(Rewound)] = h /\ h \in Hosts /\ g \in Guests /\ Agree(h, g)
  BY <1>2, RewindWords
<1>5. g.sp + 2 <= StackCells
  <2>1. Guest.sp = g.sp + 1
    BY <1>3, <1>4, Names, PoppedGuest
  <2> QED BY <1>1, <1>4, <2>1, Fields, Names
<1>6. /\ ws \in Seq(Hosts) /\ Len(ws) = 3 /\ Agree(ws[3], Popped(Guest, r))
  BY <1>1, <1>3, <1>4, <1>5, PopBothWords
<1>7. Popped(Guest, r) \in Guests
  BY <1>1, Present, Names, PoppedGuest
<1>8. states' = Rewound \o ws
  BY <1>3, <1>4 DEF PopSecond
<1>9. Len(Rewound) >= Before
  BY <1>4, Present
<1> HIDE DEF ws
<1> QED BY <1>1, <1>2, <1>4, <1>6, <1>7, <1>8, <1>9, Pair

LEMMA PushSecondStep ==
  ASSUME ~ Wild, FusionInv, NEW x \in Operands, PushSecond(x) PROVE FusionInv'
<1> DEFINE s == Fetch(Rewound, x)
           h == s[Len(s)]
           g == guests[Len(guests) - 1]
           q == prev_register
           r == Source(x)
           ws == PushBoth(h, q, r)
           new == Pushed(Guest, x)
<1>1. /\ x \in Operands \ {"rbp"} /\ Guest.sp >= 1 /\ (x = "top" => Guest.sp < StackCells)
      /\ states' = s \o ws /\ intact' = Own /\ fused' = fused \cup {Len(guests)}
      /\ prev_instruction' = "NOP" /\ prev_register' = prev_register
      /\ Reach("PUSH", x, new)
      /\ prev_instruction = "PUSH" /\ last.op = "PUSH" /\ last.arg # "rbp"
      /\ x \in Regs \/ (x = "imm" /\ last.arg \in Regs)
  BY DEF PushSecond, CanPush, TamePush
<1>2. Remembers
  BY <1>1 DEF Remembers
<1>3. /\ g.sp >= 1
      /\ Guest = [g EXCEPT !.sp = @ - 1, !.mem = [@ EXCEPT ![g.sp - 1] = states[Before].regs[q]]]
      /\ last.arg \in Regs => q = last.arg
  BY <1>1, <1>2 DEF FusionInv, Remembered, BeforePush
<1>4. /\ Own /\ Before \in 1 .. Len(states) /\ Rewound \in Seq(Hosts) /\ Rewound # << >>
      /\ Len(Rewound) = Before /\ \A i \in 1 .. Before : Rewound[i] = states[i]
      /\ Rewound[Len(Rewound)] = states[Before] /\ states[Before] \in Hosts /\ g \in Guests
      /\ Agree(states[Before], g)
  BY <1>2, RewindWords
<1>5. x # "top"
  BY <1>1, Names
<1>6. /\ Value(g, x) \in Int /\ Source(x) \in Regs \cup {"sc1"}
      /\ s \in Seq(Hosts) /\ Len(s) \in {Len(Rewound), Len(Rewound) + 1}
      /\ \A i \in 1 .. Len(Rewound) : s[i] = Rewound[i]
      /\ Agree(h, g) /\ h.regs[r] = Value(g, x)
      /\ \A y \in GuestRegs : h.regs[y] = states[Before].regs[y]
  <2> DEFINE z == Rewound
  <2>1. z \in Seq(Hosts) /\ z # << >> /\ Agree(z[Len(z)], g) /\ z[Len(z)] = states[Before]
    BY <1>4
  <2>2. x \in Operands \ {"rbp"} /\ (x = "top" => g.sp < StackCells) /\ count \in Nat /\ g \in Guests
    BY <1>1, <1>4, <1>5, Present
  <2> HIDE DEF z, g
  <2>3. /\ Value(g, x) \in Int /\ Source(x) \in Regs \cup {"sc1"}
        /\ Fetch(z, x) \in Seq(Hosts) /\ Len(Fetch(z, x)) \in {Len(z), Len(z) + 1}
        /\ \A i \in 1 .. Len(z) : Fetch(z, x)[i] = z[i]
        /\ LET f == Fetch(z, x)[Len(Fetch(z, x))]
           IN  /\ Agree(f, g) /\ f.regs[Source(x)] = Value(g, x)
               /\ \A y \in GuestRegs : f.regs[y] = z[Len(z)].regs[y]
    BY <2>1, <2>2, FetchWords
  <2>4. s = Fetch(z, x) /\ h = Fetch(z, x)[Len(Fetch(z, x))] /\ r = Source(x)
    BY DEF z
  <2> HIDE DEF s, h, r
  <2> QED BY <2>1, <2>3, <2>4 DEF z
<1>7. Len(s) \in Nat \ {0} /\ Len(s) >= Before /\ \A i \in 1 .. Before : s[i] = states[i]
  BY <1>4, <1>6
<1>8. h \in Hosts /\ r \in HostRegs /\ q \in HostRegs
  BY <1>6, <1>7, Names, Present
(* The operand's word leaves the register of the first PUSH alone.         *)
<1>9. h.regs[q] = states[Before].regs[q]
  <2>1. CASE x \in Regs
    <3>1. Fetch(Rewound, x) = Rewound
      BY <2>1, Names DEF Fetch
    <3> QED BY <3>1, <1>4
  <2>2. CASE last.arg \in Regs
    BY <2>2, <1>3, <1>6, Names
  <2> QED BY <1>1, <2>1, <2>2
<1>10. Value(Guest, x) = h.regs[r] /\ Guest.sp = g.sp - 1
  <2>1. Guest.regs = g.regs /\ Guest.sp = g.sp - 1
    <3> DEFINE v == states[Before].regs[q]
    <3>1. v \in Int
      BY <1>4, <1>8, Fields
    <3> HIDE DEF v
    <3> QED BY <1>3, <1>4, <3>1, PushedGuest DEF v
  <2>2. Value(Guest, x) = Value(g, x)
    BY <1>1, <2>1, Names DEF Value
  <2> QED BY <1>6, <2>1, <2>2
<1>11. g.sp >= 2
  BY <1>1, <1>4, <1>10, Fields
<1>12. new = [Guest EXCEPT !.sp = @ - 1, !.mem = [@ EXCEPT ![Guest.sp - 1] = h.regs[r]]]
  BY <1>10 DEF Pushed
<1>13. Guest = [g EXCEPT !.sp = @ - 1, !.mem = [@ EXCEPT ![g.sp - 1] = h.regs[q]]]
  BY <1>3, <1>9
<1>14. new \in Guests
  <2>1. h.regs[r] \in Int
    BY <1>8, Fields
  <2> HIDE DEF h, new, r
  <2> QED BY <1>1, <1>12, <2>1, Present, PushedGuest
<1>15. ws \in Seq(Hosts) /\ Len(ws) = 3 /\ Agree(ws[3], new)
  <2> HIDE DEF h, g, q, r, new
  <2>1. /\ PushBoth(h, q, r) \in Seq(Hosts) /\ Len(PushBoth(h, q, r)) = 3
        /\ LET n == [g EXCEPT !.sp = @ - 1, !.mem = [@ EXCEPT ![g.sp - 1] = h.regs[q]]]
           IN  Agree(PushBoth(h, q, r)[3],
                     [n EXCEPT !.sp = @ - 1, !.mem = [@ EXCEPT ![n.sp - 1] = h.regs[r]]])
    BY <1>4, <1>6, <1>8, <1>11, PushBothWords
  <2> QED BY <1>12, <1>13, <2>1
<1> HIDE DEF s, ws, new
<1> QED BY <1>1, <1>2, <1>4, <1>6, <1>7, <1>14, <1>15, Pair

-----------------------------------------------------------------------------
LEMMA InitFusion == Init => FusionInv
<1> SUFFICES ASSUME Init PROVE FusionInv
  OBVIOUS
<1>1. PICK g \in Starts : guests = <<g>> /\ states = <<HostOf(g)>>
  BY DEF Init
<1>2. g \in Guests /\ HostOf(g) \in Hosts /\ Agree(HostOf(g), g)
  BY FusionAssumption, StartHost
<1>3. points = << >> /\ fused = {} /\ last = Nothing /\ count \in 0 .. MaxInstrs /\ intact
  BY FusionAssumption DEF Init
<1>4. TypeOK
  BY <1>1, <1>2, <1>3 DEF Init, TypeOK
<1>5. SameMeaning
  <2>1. DOMAIN guests = {1} /\ DOMAIN points = {} /\ DOMAIN states = {1} /\ Len(states) = 1
    BY <1>1, <1>3
  <2> SUFFICES ASSUME NEW k \in DOMAIN guests \ fused PROVE Serves(k)
    BY DEF SameMeaning
  <2>2. k = 1 /\ Position(k) = 1
    BY <2>1 DEF Position
  <2> QED BY <1>1, <1>2, <2>1, <2>2 DEF Serves
<1>6. PointsBehind /\ Remembered
  BY <1>3 DEF PointsBehind, Remembered, Remembers, Nothing
<1> QED BY <1>3, <1>4, <1>5, <1>6 DEF FusionInv

LEMMA NextFusion == ASSUME ~ Wild PROVE FusionInv /\ [Next]_vars => FusionInv'
<1> SUFFICES ASSUME FusionInv, [Next]_vars PROVE FusionInv'
  OBVIOUS
<1>1. CASE UNCHANGED vars
  <2>1. /\ states' = states /\ prev_instruction' = prev_instruction /\ prev_register' = prev_register
        /\ intact' = intact /\ guests' = guests /\ last' = last /\ points' = points
        /\ fused' = fused /\ count' = count
    BY <1>1 DEF vars, encoder
  <2>2. TypeOK' /\ intact' /\ PointsBehind'
    BY <2>1 DEF FusionInv, TypeOK, PointsBehind
  <2>3. SameMeaning'
    <3>1. \A k : Position(k)' = Position(k)
      BY <2>1 DEF Position
    <3>2. \A k : Serves(k)' = Serves(k)
      BY <2>1, <3>1 DEF Serves, Agree
    <3> QED BY <2>1, <3>2 DEF FusionInv, SameMeaning
  <2>4. Remembered'
    <3>1. Before' = Before /\ Guest' = Guest /\ Remembers' = Remembers
      BY <2>1 DEF Before, Guest, Remembers
    <3> QED BY <2>1, <3>1 DEF FusionInv, Remembered, Agree, BeforePush, BeforePop, Popped
  <2> QED BY <2>2, <2>3, <2>4 DEF FusionInv
<1>2. CASE \E x \in Operands : PushFirst(x) \/ PushSecond(x) \/ PopFirst(x) \/ PopSecond(x)
  BY <1>2, PushFirstStep, PushSecondStep, PopFirstStep, PopSecondStep
<1>3. CASE PushFrame \/ PopFrame \/ Join
  BY <1>3, PushFrameStep, PopFrameStep, JoinStep
<1>4. CASE \E r \in Regs : Other(r) \/ Byte(r)
  BY <1>4, OtherStep, ByteStep
<1> QED BY <1>1, <1>2, <1>3, <1>4 DEF Next

(***************************************************************************)
(* The states that the encoder builds are machine states: no word emitted  *)
(* for a tame program takes the stack pointer out of the stack, and the    *)
(* second of a pair is an instruction that has a point.                    *)
(***************************************************************************)
THEOREM FusionTyped == ASSUME ~ Wild PROVE Spec => []TypeOK
<1>1. FusionInv => TypeOK
  BY DEF FusionInv
<1> QED BY <1>1, InitFusion, NextFusion, PTL DEF Spec

(***************************************************************************)
(* Fusion keeps the meaning of every tame program: at the point of every   *)
(* instruction that is not the second of a pair the host is where the      *)
(* guest is.                                                               *)
(***************************************************************************)
THEOREM FusionKeepsMeaning == ASSUME ~ Wild PROVE Spec => []SameMeaning
<1>1. FusionInv => SameMeaning
  BY DEF FusionInv
<1> QED BY <1>1, InitFusion, NextFusion, PTL DEF Spec

(***************************************************************************)
(* Points: an action appends the present end of the words to them, starts  *)
(* anew or leaves them.                                                    *)
(***************************************************************************)
Ordered == \A k \in DOMAIN points : \A j \in 1 .. k : points[j] <= points[k]

LEMMA PointsGrow ==
  ASSUME Next PROVE points' = Append(points, Len(states)) \/ points' = << >>
<1>1. CASE \E x \in Operands : PushFirst(x) \/ PushSecond(x) \/ PopFirst(x) \/ PopSecond(x)
  BY <1>1 DEF PushFirst, PushSecond, PopFirst, PopSecond, Reach
<1>2. CASE PushFrame \/ PopFrame
  BY <1>2 DEF PushFrame, PopFrame, Reach
<1>3. CASE \E r \in Regs : Other(r) \/ Byte(r)
  BY <1>3 DEF Other, Byte, Reach
<1>4. CASE Join
  BY <1>4 DEF Join
<1> QED BY <1>1, <1>2, <1>3, <1>4 DEF Next

LEMMA NextOrdered == FusionInv /\ Ordered /\ [Next]_vars => Ordered'
<1> SUFFICES ASSUME FusionInv, Ordered, [Next]_vars PROVE Ordered'
  OBVIOUS
<1>1. points \in Seq(Nat) /\ Len(states) \in Nat /\ PointsBehind
  BY Present DEF FusionInv, TypeOK
<1>2. CASE points' = Append(points, Len(states))
  <2>1. /\ DOMAIN points' = 1 .. Len(points) + 1 /\ DOMAIN points = 1 .. Len(points)
        /\ \A k \in 1 .. Len(points) : points'[k] = points[k]
        /\ points'[Len(points) + 1] = Len(states)
    BY <1>1, <1>2
  <2> SUFFICES ASSUME NEW k \in DOMAIN points', NEW j \in 1 .. k PROVE points'[j] <= points'[k]
    BY DEF Ordered
  <2>2. CASE k \in 1 .. Len(points)
    <3>1. j \in 1 .. Len(points) /\ points'[j] = points[j] /\ points'[k] = points[k]
      BY <1>1, <2>1, <2>2
    <3>2. points[j] <= points[k]
      BY <2>1, <2>2 DEF Ordered
    <3> QED BY <3>1, <3>2
  <2>3. CASE k = Len(points) + 1
    <3>1. points'[k] = Len(states)
      BY <2>1, <2>3
    <3>4. Len(points) \in Nat
      BY <1>1
    <3>2. CASE j \in 1 .. Len(points)
      <4>1. points'[j] = points[j] /\ points[j] <= Len(states)
        BY <1>1, <2>1, <3>2 DEF PointsBehind
      <4> QED BY <3>1, <4>1
    <3>3. CASE j = k
      BY <1>1, <3>1, <3>3
    <3> QED BY <2>3, <3>2, <3>3, <3>4
  <2> QED BY <1>1, <2>1, <2>2, <2>3
<1>3. CASE points' = << >>
  BY <1>3 DEF Ordered
<1>4. CASE UNCHANGED vars
  BY <1>4 DEF vars, Ordered
<1> QED BY <1>2, <1>3, <1>4, PointsGrow

(***************************************************************************)
(* The rewinding of a tame program leaves the points of its instructions   *)
(* in ascending order and none behind the words that are out.              *)
(***************************************************************************)
THEOREM FusionKeepsPoints == ASSUME ~ Wild PROVE Spec => []PointsAscend
<1>1. Init => Ordered
  BY DEF Init, Ordered
<1>2. FusionInv /\ Ordered => PointsAscend
  BY DEF FusionInv, Ordered, PointsBehind, PointsAscend
<1> QED BY <1>1, <1>2, InitFusion, NextFusion, NextOrdered, PTL DEF Spec
=============================================================================
