--------------------------- MODULE FaithfulProofs ---------------------------
(***************************************************************************)
(* Theorems about the translator, for every program and every size of      *)
(* the tables.  In the first part: what an operation of cache.c leaves     *)
(* behind (the types, the tables within their bounds, the block that is    *)
(* under construction) and SafeInv, the inductive invariant that says what *)
(* a handler relies on between two steps.  In the second: the cache's      *)
(* answers.                                                                *)
(***************************************************************************)
EXTENDS Translator, TLAPS, WellFoundedInduction, SequenceTheorems

LEMMA InsertProperties ==
  ASSUME NEW blocks \in Seq(Blocks), NEW p \in 1 .. Len(blocks) + 1, NEW b \in Blocks
  PROVE  /\ Insert(blocks, p, b) \in Seq(Blocks)
         /\ Len(Insert(blocks, p, b)) = Len(blocks) + 1
         /\ \A i \in 1 .. p - 1 : Insert(blocks, p, b)[i] = blocks[i]
         /\ Insert(blocks, p, b)[p] = b
         /\ \A i \in p + 1 .. Len(blocks) + 1 : Insert(blocks, p, b)[i] = blocks[i - 1]
<1> DEFINE n == Len(blocks) + 1
           f == Insert(blocks, p, b)
<1>1. n \in Nat /\ p \in 1 .. n
  OBVIOUS
<1>2. f \in [1 .. n -> Blocks]
  BY DEF Insert
<1>3. f \in Seq(Blocks)
  BY <1>1, <1>2
<1>4. Len(f) = n
  BY <1>1, <1>2, <1>3, LenProperties
<1> QED
  BY <1>1, <1>2, <1>3, <1>4 DEF Insert

LEMMA InsertPosProperties ==
  ASSUME NEW blocks \in Seq(Blocks), NEW gp \in Nat
  PROVE  /\ InsertPos(blocks, gp) \in 1 .. Len(blocks) + 1
         /\ \A i \in 1 .. InsertPos(blocks, gp) - 1 : blocks[i].gp_lo < gp
         /\ InsertPos(blocks, gp) <= Len(blocks) => blocks[InsertPos(blocks, gp)].gp_lo >= gp
<1> DEFINE R == {ss \in Nat \X Nat : ss[1] < ss[2]}
           T == {p \in 1 .. Len(blocks) + 1 : p <= Len(blocks) => blocks[p].gp_lo >= gp}
<1>1. IsWellFoundedOn(R, Nat)
  BY NatLessThanWellFounded DEF OpToRel
<1>2. T \subseteq Nat /\ Len(blocks) + 1 \in T
  OBVIOUS
<1>3. PICK p \in T : \A q \in T : ~ (<<q, p>> \in R)
  <2> HIDE DEF R, T
  <2> QED BY <1>1, <1>2, WFMin
<1>4. \A i \in 1 .. p - 1 : blocks[i].gp_lo < gp
  <2> SUFFICES ASSUME NEW i \in 1 .. p - 1 PROVE blocks[i].gp_lo < gp
    OBVIOUS
  <2>1. i \in 1 .. Len(blocks) /\ <<i, p>> \in R
    OBVIOUS
  <2>2. i \notin T
    BY <1>3, <2>1
  <2>3. blocks[i] \in Blocks
    BY <2>1
  <2>4. blocks[i].gp_lo \in Nat
    BY <2>3 DEF Blocks
  <2> QED BY <2>1, <2>2, <2>4
<1>5. p \in 1 .. Len(blocks) + 1 /\ (p <= Len(blocks) => blocks[p].gp_lo >= gp)
  BY <1>3
<1> QED
  BY <1>4, <1>5 DEF InsertPos

-----------------------------------------------------------------------------
Machines == [a : Anchors, c : Contexts]

(* A cache that has not panicked has room for one more of everything.      *)
AnchorInv(a) ==
  /\ InBounds(a)
  /\ a.panic = "none" => Len(a.offsets) < MaxOffsets /\ Len(a.reuse) < MaxJumps

(* No block is under construction.                                         *)
Closed(m) == m.c.loffp = 0 /\ Len(m.a.offsets) = m.a.offsets_p

(* Block c.block is under construction, at or before (c.gp, c.hp) ...      *)
Building(m) ==
  /\ m.c.block \in DOMAIN m.a.blocks
  /\ m.a.blocks[m.c.block].gp_lo <= m.c.gp
  /\ m.a.blocks[m.c.block].hp <= m.c.hp
  /\ m.a.blocks[m.c.block].offsetssz = 0
  /\ Len(m.a.offsets) = m.a.offsets_p + m.c.loffp

(* ... and has room for one more point.                                    *)
Open(m) == Building(m) /\ m.c.loffp < U8Max

(* Kept: what no block operation touches.                                  *)
Kept(m, n) ==
  /\ n.a.jumps = m.a.jumps /\ n.a.jumps_c = m.a.jumps_c /\ n.a.reuse = m.a.reuse
  /\ n.c.gp = m.c.gp /\ n.c.hp = m.c.hp

(* The types of the fields, once and for all.                              *)
LEMMA Fields ==
  ASSUME NEW m \in Machines
  PROVE  /\ m.a \in Anchors /\ m.c \in Contexts
         /\ m.a.blocks \in Seq(Blocks) /\ m.a.offsets \in Seq(Points)
         /\ m.a.jumps \in Seq(Jumps) /\ m.a.reuse \in Seq(Nat)
         /\ m.a.offsets_p \in Nat /\ m.a.host_p \in Nat /\ m.a.jumps_c \in Nat
         /\ Len(m.a.blocks) \in Nat /\ Len(m.a.offsets) \in Nat
         /\ Len(m.a.jumps) \in Nat /\ Len(m.a.reuse) \in Nat
         /\ m.c.gp \in Nat /\ m.c.hp \in Nat /\ m.c.block \in Nat
         /\ m.c.loffp \in Nat /\ m.c.loffp <= U8Max
<1>1. m.a \in Anchors /\ m.c \in Contexts
  BY DEF Machines
<1>2. /\ m.a.blocks \in Seq(Blocks) /\ m.a.offsets \in Seq(Points)
      /\ m.a.jumps \in Seq(Jumps) /\ m.a.reuse \in Seq(Nat)
      /\ m.a.offsets_p \in Nat /\ m.a.host_p \in Nat /\ m.a.jumps_c \in Nat
  BY <1>1 DEF Anchors
<1>3. m.c.gp \in Nat /\ m.c.hp \in Nat /\ m.c.block \in Nat /\ m.c.loffp \in 0 .. U8Max
  BY <1>1 DEF Contexts
<1>4. m.c.loffp \in Nat /\ m.c.loffp <= U8Max
  BY <1>3, CacheAssumption
<1>5. Len(m.a.blocks) \in Nat /\ Len(m.a.offsets) \in Nat
  BY <1>2, LenProperties
<1>6. Len(m.a.jumps) \in Nat /\ Len(m.a.reuse) \in Nat
  BY <1>2, LenProperties
<1> QED
  BY <1>1, <1>2, <1>3, <1>4, <1>5, <1>6, Zenon

LEMMA BlockFields ==
  ASSUME NEW b \in Blocks
  PROVE  /\ b.gp_lo \in Nat /\ b.hp \in Nat /\ b.offsets \in Nat
         /\ b.offsetssz \in Nat /\ b.offsetssz <= U8Max
<1>1. b.offsetssz \in 0 .. U8Max
  BY DEF Blocks
<1> QED
  BY <1>1, CacheAssumption DEF Blocks

LEMMA PanicType ==
  ASSUME NEW m \in Machines, NEW why \in Panics
  PROVE  /\ Panic(m, why) \in Machines
         /\ Panic(m, why).c = m.c
         /\ ~ Running(Panic(m, why))
         /\ InBounds(m.a) => AnchorInv(Panic(m, why).a)
         /\ Kept(m, Panic(m, why))
<1> DEFINE n == [m.a EXCEPT !.panic = why]
<1>1. m.a \in Anchors /\ m.c \in Contexts
  BY DEF Machines
<1>2. /\ n \in Anchors /\ n.blocks = m.a.blocks /\ n.offsets = m.a.offsets
      /\ n.offsets_p = m.a.offsets_p /\ n.jumps = m.a.jumps
      /\ n.jumps_c = m.a.jumps_c /\ n.reuse = m.a.reuse /\ n.panic = why
  BY <1>1 DEF Anchors
<1>3. why # "none"
  BY DEF Panics
<1> HIDE DEF n
<1>4. InBounds(m.a) => AnchorInv(n)
  BY <1>2, <1>3 DEF AnchorInv, InBounds
<1>5. Panic(m, why).a = n /\ Panic(m, why).c = m.c
  BY DEF Panic, n
<1>6. Panic(m, why) \in Machines
  BY <1>1, <1>2 DEF Panic, Machines, n
<1>7. Kept(m, Panic(m, why))
  BY <1>2, <1>5 DEF Kept
<1> QED
  BY <1>2, <1>3, <1>4, <1>5, <1>6, <1>7 DEF Running

(***************************************************************************)
(* What cache_block_start leaves behind: the cache as it was, a panic, or  *)
(* a new empty block at its sorted place.                                  *)
(***************************************************************************)
NewBlock(c) == [gp_lo |-> c.gp, hp |-> c.hp, offsets |-> 0, offsetssz |-> 0, end |-> 1]

Started(m, n) ==
  /\ n.c.block \in 1 .. Len(m.a.blocks) + 1
  /\ n.c.block = InsertPos(m.a.blocks, m.c.gp)
  /\ n.a.blocks = Insert(m.a.blocks, n.c.block, NewBlock(m.c))
  /\ n.c.gp = m.c.gp /\ n.c.hp = m.c.hp /\ n.c.loffp = m.c.loffp
  /\ n.a.offsets = m.a.offsets /\ n.a.offsets_p = m.a.offsets_p
  /\ n.a.host_p = m.a.host_p /\ n.a.reuse = m.a.reuse /\ n.a.jumps = m.a.jumps
  /\ n.a.jumps_c = m.a.jumps_c /\ n.a.panic = m.a.panic

LEMMA StartShape ==
  ASSUME NEW m \in Machines, Running(m)
  PROVE  LET n == cache_block_start(m)
         IN  /\ n \in Machines
             /\ \/ n = Panic(m, "blocks")
                \/ Len(m.a.blocks) + 1 < MaxBlocks /\ Started(m, n)
<1> DEFINE n == cache_block_start(m)
           pos == InsertPos(m.a.blocks, m.c.gp)
           ins == Insert(m.a.blocks, pos, NewBlock(m.c))
           a2 == [m.a EXCEPT !.blocks = ins]
           c2 == [m.c EXCEPT !.block = pos]
<1>1. m.a \in Anchors /\ m.c \in Contexts
  BY DEF Machines
<1>2. m.a.blocks \in Seq(Blocks) /\ m.c.gp \in Nat /\ m.c.hp \in Nat
  BY <1>1 DEF Anchors, Contexts
<1>3. CASE Len(m.a.blocks) + 1 >= MaxBlocks
  <2>1. n = Panic(m, "blocks")
    BY <1>3 DEF cache_block_start
  <2> QED
    BY <2>1, PanicType DEF Panics
<1>4. CASE ~ (Len(m.a.blocks) + 1 >= MaxBlocks)
  <2>1. n = [a |-> a2, c |-> c2]
    BY <1>4 DEF cache_block_start, NewBlock
  <2>2. NewBlock(m.c) \in Blocks
    BY <1>2, CacheAssumption DEF Blocks, NewBlock
  <2>3. pos \in 1 .. Len(m.a.blocks) + 1
    BY <1>2, InsertPosProperties
  <2>4. ins \in Seq(Blocks)
    BY <1>2, <2>2, <2>3, InsertProperties
  <2>5. pos \in Nat
    BY <1>2, <2>3
  <2> HIDE DEF n, ins, pos
  <2>6. /\ a2 \in Anchors /\ a2.blocks = ins /\ a2.offsets = m.a.offsets
        /\ a2.offsets_p = m.a.offsets_p /\ a2.reuse = m.a.reuse /\ a2.jumps = m.a.jumps
        /\ a2.host_p = m.a.host_p /\ a2.jumps_c = m.a.jumps_c /\ a2.panic = m.a.panic
    BY <1>1, <2>4 DEF Anchors
  <2>7. /\ c2 \in Contexts /\ c2.block = pos /\ c2.gp = m.c.gp /\ c2.hp = m.c.hp
        /\ c2.loffp = m.c.loffp
    BY <1>1, <2>5 DEF Contexts
  <2> HIDE DEF a2, c2
  <2>8. n \in Machines
    BY <2>1, <2>6, <2>7 DEF Machines
  <2>9. Started(m, n)
    BY <2>1, <2>3, <2>6, <2>7 DEF Started, ins, pos
  <2>10. Len(m.a.blocks) + 1 < MaxBlocks
    BY <1>2, <1>4, CacheAssumption
  <2> QED
    BY <2>8, <2>9, <2>10 DEF n
<1> QED
  BY <1>3, <1>4

LEMMA StartType ==
  ASSUME NEW m \in Machines, Running(m), AnchorInv(m.a), Closed(m)
  PROVE  LET n == cache_block_start(m)
         IN  /\ n \in Machines /\ AnchorInv(n.a)
             /\ Running(n) => Open(n)
             /\ n.c.gp = m.c.gp /\ n.c.hp = m.c.hp
<1> DEFINE n == cache_block_start(m)
           pos == n.c.block
           ins == n.a.blocks
           new == NewBlock(m.c)
<1>1. CASE n = Panic(m, "blocks")
  BY <1>1, StartShape, PanicType DEF Panics, AnchorInv
<1>2. CASE Len(m.a.blocks) + 1 < MaxBlocks /\ Started(m, n)
  <2>1. /\ m.a \in Anchors /\ m.c \in Contexts /\ n \in Machines
        /\ n.a \in Anchors /\ n.c \in Contexts
    BY StartShape DEF Machines
  <2>2. m.a.blocks \in Seq(Blocks) /\ m.c.gp \in Nat /\ m.c.hp \in Nat
    BY <2>1 DEF Anchors, Contexts
  <2>3. new \in Blocks
    BY <2>2, CacheAssumption DEF Blocks, NewBlock
  <2> HIDE DEF n
  <2>4. pos \in 1 .. Len(m.a.blocks) + 1 /\ ins = Insert(m.a.blocks, pos, new)
    BY <1>2 DEF Started
  <2>5. /\ Len(ins) = Len(m.a.blocks) + 1
        /\ \A i \in 1 .. pos - 1 : ins[i] = m.a.blocks[i]
        /\ ins[pos] = new
        /\ \A i \in pos + 1 .. Len(m.a.blocks) + 1 : ins[i] = m.a.blocks[i - 1]
    <3> HIDE DEF new, pos, ins
    <3> DEFINE all == m.a.blocks
               f == Insert(all, pos, new)
    <3>0. all \in Seq(Blocks) /\ pos \in 1 .. Len(all) + 1 /\ new \in Blocks
      BY <2>2, <2>3, <2>4
    <3> HIDE DEF all
    <3>1. Len(f) = Len(all) + 1
      BY <3>0, InsertProperties
    <3>2. \A i \in 1 .. pos - 1 : f[i] = all[i]
      BY <3>0, InsertProperties
    <3>3. f[pos] = new
      BY <3>0, InsertProperties
    <3>4. \A i \in pos + 1 .. Len(all) + 1 : f[i] = all[i - 1]
      BY <3>0, InsertProperties
    <3> USE DEF all
    <3>5. ins = f
      BY <2>4
    <3> HIDE DEF f
    <3> QED BY <3>1, <3>2, <3>3, <3>4, <3>5
  <2>6. ins \in Seq(Blocks)
    BY <2>1 DEF Anchors
  <2> HIDE DEF ins, pos
  <2>7. \A i \in 1 .. Len(ins) : ins[i].offsets + ins[i].offsetssz <= m.a.offsets_p
    <3> SUFFICES ASSUME NEW i \in 1 .. Len(m.a.blocks) + 1
                 PROVE  ins[i].offsets + ins[i].offsetssz <= m.a.offsets_p
      BY <2>5
    <3>1. \A j \in 1 .. Len(m.a.blocks) :
            m.a.blocks[j].offsets + m.a.blocks[j].offsetssz <= m.a.offsets_p
      BY <2>2 DEF AnchorInv, InBounds
    <3>2. m.a.offsets_p \in Nat
      BY <2>1 DEF Anchors
    <3>3. CASE i < pos
      <4>1. i \in 1 .. pos - 1 /\ i \in 1 .. Len(m.a.blocks)
        BY <2>2, <2>4, <3>3
      <4>2. ins[i] = m.a.blocks[i]
        BY <2>5, <4>1
      <4> QED BY <3>1, <4>1, <4>2
    <3>4. CASE i = pos
      BY <2>5, <3>2, <3>4 DEF NewBlock
    <3>5. CASE i > pos
      <4>1. i \in pos + 1 .. Len(m.a.blocks) + 1
        BY <2>2, <2>4, <3>5
      <4>2. i - 1 \in 1 .. Len(m.a.blocks) /\ ins[i] = m.a.blocks[i - 1]
        BY <2>2, <2>4, <2>5, <4>1
      <4> QED BY <3>1, <4>2
    <3> QED
      BY <2>4, <3>3, <3>4, <3>5
  <2>8. AnchorInv(n.a)
    <3>1. Len(ins) <= MaxBlocks
      BY <1>2, <2>2, <2>5, CacheAssumption
    <3>2. DOMAIN ins = 1 .. Len(ins)
      BY <2>6
    <3> QED
      BY <1>2, <2>7, <3>1, <3>2 DEF AnchorInv, InBounds, Started, ins
  <2>9. pos \in DOMAIN ins
    BY <2>2, <2>4, <2>5, <2>6
  <2>10. m.c.loffp = 0 /\ Len(m.a.offsets) = m.a.offsets_p /\ m.a.offsets_p \in Nat
    BY <2>1 DEF Closed, Anchors
  <2>11. Open(n)
    <3>1. ins[pos].gp_lo = n.c.gp /\ ins[pos].hp = n.c.hp /\ ins[pos].offsetssz = 0
      BY <1>2, <2>5 DEF Started, NewBlock
    <3>2. n.c.loffp = 0 /\ n.a.offsets_p \in Nat /\ Len(n.a.offsets) = n.a.offsets_p
      BY <1>2, <2>10 DEF Started
    <3>3. n.c.gp \in Nat /\ n.c.hp \in Nat
      BY <2>1 DEF Contexts
    <3> QED
      BY <2>9, <3>1, <3>2, <3>3, CacheAssumption DEF Open, Building, ins, pos
  <2> QED
    BY <1>2, <2>1, <2>8, <2>11 DEF n, Started
<1> QED
  BY <1>1, <1>2, StartShape

(***************************************************************************)
(* What cache_block_end leaves behind: the open block owns the pending     *)
(* points; the other blocks are as they were.                              *)
(***************************************************************************)
Ended(m, n) ==
  /\ Len(n.a.blocks) = Len(m.a.blocks)
  /\ n.a.blocks[m.c.block].gp_lo = m.a.blocks[m.c.block].gp_lo
  /\ n.a.blocks[m.c.block].hp = m.a.blocks[m.c.block].hp
  /\ n.a.blocks[m.c.block].offsets = m.a.offsets_p
  /\ n.a.blocks[m.c.block].offsetssz = m.c.loffp
  /\ \A i \in 1 .. Len(m.a.blocks) : i # m.c.block => n.a.blocks[i] = m.a.blocks[i]
  /\ n.a.offsets = m.a.offsets
  /\ n.a.offsets_p = m.a.offsets_p + m.c.loffp /\ n.a.host_p = m.c.hp
  /\ n.a.jumps = m.a.jumps /\ n.a.jumps_c = m.a.jumps_c /\ n.a.reuse = m.a.reuse
  /\ n.c.gp = m.c.gp /\ n.c.hp = m.c.hp /\ n.c.block = m.c.block

LEMMA EndType ==
  ASSUME NEW m \in Machines, AnchorInv(m.a), Running(m), Building(m)
  PROVE  LET n == cache_block_end(m)
         IN  n \in Machines /\ AnchorInv(n.a) /\ Closed(n) /\ Ended(m, n)
<1> DEFINE k == m.c.block
           b == m.a.blocks[k]
           end == (m.c.hp - b.hp) % (U8Max + 1)
           done == [b EXCEPT !.end = end, !.offsets = m.a.offsets_p,
                             !.offsetssz = m.c.loffp]
           bs == [m.a.blocks EXCEPT ![k] = done]
           pan == IF m.c.hp >= HostSize THEN "host" ELSE m.a.panic
           a2 == [m.a EXCEPT !.blocks = bs, !.offsets_p = @ + m.c.loffp,
                             !.host_p = m.c.hp, !.panic = pan]
           c2 == [m.c EXCEPT !.loffp = 0]
<1>1. m.a \in Anchors /\ m.c \in Contexts
  BY DEF Machines
<1>2. cache_block_end(m) = [a |-> a2, c |-> c2]
  BY DEF cache_block_end
<1>3. /\ m.a.blocks \in Seq(Blocks) /\ k \in 1 .. Len(m.a.blocks)
      /\ m.c.hp \in Nat /\ m.c.loffp \in 0 .. U8Max /\ m.a.offsets_p \in Nat
  <2>1. m.a.blocks \in Seq(Blocks) /\ m.a.offsets_p \in Nat
    BY <1>1 DEF Anchors
  <2>2. m.c.hp \in Nat /\ m.c.loffp \in 0 .. U8Max
    BY <1>1 DEF Contexts
  <2>3. k \in 1 .. Len(m.a.blocks)
    BY <2>1 DEF Open, Building
  <2> QED BY <2>1, <2>2, <2>3
<1>4. b \in Blocks
  BY <1>3
<1> HIDE DEF b
<1>5. end \in 0 .. U8Max
  <2>1. b.hp \in Nat
    BY <1>4 DEF Blocks
  <2>2. m.c.hp - b.hp \in Int
    BY <1>3, <2>1
  <2> QED BY <2>2, CacheAssumption
<1>6. /\ done \in Blocks /\ done.offsets = m.a.offsets_p /\ done.offsetssz = m.c.loffp
      /\ done.gp_lo = b.gp_lo /\ done.hp = b.hp
  BY <1>3, <1>4, <1>5 DEF Blocks
<1>7. /\ bs \in Seq(Blocks) /\ Len(bs) = Len(m.a.blocks) /\ bs[k] = done
      /\ \A i \in 1 .. Len(m.a.blocks) : i # k => bs[i] = m.a.blocks[i]
  <2> HIDE DEF done
  <2> QED BY <1>3, <1>6, ExceptSeq
<1>8. pan \in {"none"} \cup Panics /\ (pan = "none" => m.a.panic = "none")
  BY <1>1 DEF Anchors, Panics
<1>9. /\ a2 \in Anchors /\ a2.blocks = bs /\ a2.offsets = m.a.offsets
      /\ a2.offsets_p = m.a.offsets_p + m.c.loffp /\ a2.jumps = m.a.jumps
      /\ a2.jumps_c = m.a.jumps_c /\ a2.reuse = m.a.reuse /\ a2.panic = pan
      /\ a2.host_p = m.c.hp
  <2> HIDE DEF bs, pan
  <2>1. m.a.offsets_p + m.c.loffp \in Nat
    BY <1>3, CacheAssumption
  <2> QED BY <1>1, <1>3, <1>7, <1>8, <2>1 DEF Anchors
<1>10. /\ c2 \in Contexts /\ c2.loffp = 0 /\ c2.gp = m.c.gp /\ c2.hp = m.c.hp
       /\ c2.block = k
  BY <1>1, CacheAssumption DEF Contexts
<1>11. \A i \in DOMAIN bs : bs[i].offsets + bs[i].offsetssz <= m.a.offsets_p + m.c.loffp
  <2> HIDE DEF done, bs
  <2> SUFFICES ASSUME NEW i \in 1 .. Len(m.a.blocks)
               PROVE  bs[i].offsets + bs[i].offsetssz <= m.a.offsets_p + m.c.loffp
    BY <1>3, <1>7
  <2>1. m.a.blocks[i].offsets + m.a.blocks[i].offsetssz <= m.a.offsets_p
    BY <1>3 DEF AnchorInv, InBounds
  <2>2. m.a.blocks[i] \in Blocks
    BY <1>3
  <2>3. m.a.blocks[i].offsets \in Nat /\ m.a.blocks[i].offsetssz \in Nat
    BY <2>2, CacheAssumption DEF Blocks
  <2>4. CASE i = k
    BY <1>3, <1>6, <1>7, <2>4, CacheAssumption
  <2>5. CASE i # k
    <3>1. bs[i] = m.a.blocks[i]
      BY <1>7, <2>5
    <3>2. m.a.offsets_p \in Nat /\ m.c.loffp \in Nat
      BY <1>3, CacheAssumption
    <3>3. m.a.blocks[i].offsets + m.a.blocks[i].offsetssz <= m.a.offsets_p + m.c.loffp
      <4> DEFINE x == m.a.blocks[i].offsets
                 y == m.a.blocks[i].offsetssz
                 o == m.a.offsets_p
                 z == m.c.loffp
      <4>1. x \in Nat /\ y \in Nat /\ o \in Nat /\ z \in Nat /\ x + y <= o
        BY <2>1, <2>3, <3>2
      <4> HIDE DEF x, y, o, z
      <4>2. x + y <= o + z
        BY <4>1
      <4> QED BY <4>2 DEF x, y, o, z
    <3> QED BY <3>1, <3>3
  <2> QED BY <2>4, <2>5
<1> HIDE DEF a2, c2, bs, pan, done
<1>12. AnchorInv(a2)
  <2>1. Len(m.a.offsets) = m.a.offsets_p + m.c.loffp
    BY DEF Open, Building
  <2> QED BY <1>7, <1>8, <1>9, <1>11, <2>1 DEF AnchorInv, InBounds
<1>13. Closed([a |-> a2, c |-> c2])
  BY <1>9, <1>10 DEF Closed, Open, Building
<1>14. [a |-> a2, c |-> c2] \in Machines
  BY <1>9, <1>10 DEF Machines
<1>15. Ended(m, [a |-> a2, c |-> c2])
  BY <1>6, <1>7, <1>9, <1>10 DEF Ended, b
<1> QED
  BY <1>2, <1>12, <1>13, <1>14, <1>15

(***************************************************************************)
(* A point is added to the open block, and the block stays open unless it  *)
(* is full.                                                                *)
(***************************************************************************)
Added(m, n) ==
  /\ n.a.blocks = m.a.blocks /\ n.a.offsets_p = m.a.offsets_p
  /\ n.a.jumps = m.a.jumps /\ n.a.jumps_c = m.a.jumps_c /\ n.a.reuse = m.a.reuse
  /\ n.a.panic = m.a.panic
  /\ n.c.gp = m.c.gp /\ n.c.hp = m.c.hp /\ n.c.block = m.c.block
  /\ n.c.loffp = m.c.loffp + 1
  /\ LET b == m.a.blocks[m.c.block]
     IN  n.a.offsets = Append(m.a.offsets, [goff |-> (m.c.gp - b.gp_lo) % (U8Max + 1),
                                            hoff |-> (m.c.hp - b.hp) % (U8Max + 1)])

LEMMA AddShape ==
  ASSUME NEW m \in Machines, Open(m)
  PROVE  LET n == AddPoint(m)
         IN  n \in Machines /\ Added(m, n) /\ Len(n.a.offsets) = Len(m.a.offsets) + 1
<1> DEFINE b == m.a.blocks[m.c.block]
           p == [goff |-> (m.c.gp - b.gp_lo) % (U8Max + 1),
                 hoff |-> (m.c.hp - b.hp) % (U8Max + 1)]
           a2 == [m.a EXCEPT !.offsets = Append(@, p)]
           c2 == [m.c EXCEPT !.loffp = @ + 1]
<1>1. m.a \in Anchors /\ m.c \in Contexts
  BY DEF Machines
<1>2. AddPoint(m) = [a |-> a2, c |-> c2]
  BY DEF AddPoint
<1>3. b \in Blocks
  <2>1. m.a.blocks \in Seq(Blocks)
    BY <1>1 DEF Anchors
  <2> QED BY <2>1 DEF Open, Building
<1>4. p \in Points
  <2> HIDE DEF b
  <2>1. b.gp_lo \in Nat /\ b.hp \in Nat
    BY <1>3 DEF Blocks
  <2>2. m.c.gp \in Nat /\ m.c.hp \in Nat
    BY <1>1 DEF Contexts
  <2>3. m.c.gp - b.gp_lo \in Int /\ m.c.hp - b.hp \in Int
    BY <2>1, <2>2
  <2>4. /\ (m.c.gp - b.gp_lo) % (U8Max + 1) \in 0 .. U8Max
        /\ (m.c.hp - b.hp) % (U8Max + 1) \in 0 .. U8Max
    BY <2>3, CacheAssumption
  <2> QED BY <2>4 DEF Points
<1>5. /\ a2.offsets = Append(m.a.offsets, p)
      /\ a2.offsets \in Seq(Points) /\ Len(a2.offsets) = Len(m.a.offsets) + 1
  <2> HIDE DEF p
  <2>1. m.a.offsets \in Seq(Points)
    BY <1>1 DEF Anchors
  <2>2. a2.offsets = Append(m.a.offsets, p)
    BY <1>1 DEF Anchors
  <2> QED BY <1>4, <2>1, <2>2, AppendProperties
<1>6. /\ a2 \in Anchors /\ a2.blocks = m.a.blocks /\ a2.offsets_p = m.a.offsets_p
      /\ a2.jumps = m.a.jumps /\ a2.jumps_c = m.a.jumps_c /\ a2.reuse = m.a.reuse
      /\ a2.panic = m.a.panic
  <2> HIDE DEF p
  <2>1. Append(m.a.offsets, p) \in Seq(Points)
    BY <1>1, <1>4, AppendProperties DEF Anchors
  <2> QED BY <1>1, <2>1 DEF Anchors
<1>7. /\ c2 \in Contexts /\ c2.gp = m.c.gp /\ c2.hp = m.c.hp /\ c2.block = m.c.block
      /\ c2.loffp = m.c.loffp + 1
  <2>1. m.c.loffp + 1 \in 0 .. U8Max
    BY <1>1, CacheAssumption DEF Contexts, Open, Building
  <2> QED BY <1>1, <2>1 DEF Contexts
<1>8. [a |-> a2, c |-> c2] \in Machines
  BY <1>6, <1>7 DEF Machines
<1> HIDE DEF a2, c2
<1>9. Added(m, [a |-> a2, c |-> c2])
  BY <1>5, <1>6, <1>7 DEF Added
<1> QED
  BY <1>2, <1>5, <1>8, <1>9

LEMMA AddType ==
  ASSUME NEW m \in Machines, Running(m), Open(m), AnchorInv(m.a)
  PROVE  LET n == AddPoint(m)
         IN  /\ InBounds(n.a) /\ Running(n)
             /\ n.c.loffp <= U8Max
             /\ Len(n.a.offsets) = n.a.offsets_p + n.c.loffp
             /\ Len(n.a.offsets) < MaxOffsets => AnchorInv(n.a)
             /\ Building(n)
             /\ n.c.loffp < U8Max => Open(n)
<1> DEFINE n == AddPoint(m)
<1>1. n \in Machines /\ Added(m, n) /\ Len(n.a.offsets) = Len(m.a.offsets) + 1
  BY AddShape
<1> HIDE DEF n
<1>3. m.a.offsets_p \in Nat /\ Len(m.a.offsets) \in Nat /\ m.c.loffp \in Nat
  BY Fields
<1>4. Len(m.a.offsets) = m.a.offsets_p + m.c.loffp
  BY DEF Open, Building
<1>5. Len(n.a.offsets) = n.a.offsets_p + n.c.loffp
  <2>1. n.a.offsets_p = m.a.offsets_p /\ n.c.loffp = m.c.loffp + 1
    BY <1>1 DEF Added
  <2> QED BY <1>1, <1>3, <1>4, <2>1
<1>6. m.a.panic = "none" /\ Len(m.a.offsets) < MaxOffsets /\ Len(m.a.reuse) < MaxJumps
  BY DEF AnchorInv, Running
<1>7. InBounds(n.a)
  <2>1. Len(n.a.offsets) <= MaxOffsets /\ m.a.offsets_p <= Len(n.a.offsets)
    BY <1>1, <1>3, <1>4, <1>6, CacheAssumption
  <2> QED
    BY Zenon, <1>1, <2>1 DEF AnchorInv, InBounds, Added
<1>8. Running(n) /\ n.c.loffp <= U8Max
  BY <1>1, <1>3, <1>6, CacheAssumption DEF Added, Running, Open, Building
<1>9. Len(n.a.offsets) < MaxOffsets => AnchorInv(n.a)
  BY <1>1, <1>6, <1>7 DEF Added, AnchorInv
<1>10. Building(n) /\ (n.c.loffp < U8Max => Open(n))
  BY Zenon, <1>1, <1>5 DEF Added, Open, Building
<1> QED
  BY <1>5, <1>7, <1>8, <1>9, <1>10 DEF n

-----------------------------------------------------------------------------
LEMMA KeptTransitive ==
  ASSUME NEW m, NEW n, NEW o, Kept(m, n), Kept(n, o)
  PROVE  Kept(m, o)
BY DEF Kept

LEMMA StartKeeps ==
  ASSUME NEW m \in Machines, Running(m)
  PROVE  Kept(m, cache_block_start(m))
<1> DEFINE n == cache_block_start(m)
<1>1. CASE n = Panic(m, "blocks")
  <2>1. m.a \in Anchors
    BY DEF Machines
  <2> QED BY <1>1, <2>1 DEF Kept, Panic, Anchors
<1>2. CASE Started(m, n)
  <2> HIDE DEF n
  <2>1. Kept(m, n)
    BY <1>2 DEF Kept, Started
  <2> QED BY <2>1 DEF n
<1> QED
  BY <1>1, <1>2, StartShape

LEMMA StartFresh ==
  ASSUME NEW m \in Machines, Running(m), Running(cache_block_start(m))
  PROVE  LET n == cache_block_start(m)
         IN  /\ Started(m, n)
             /\ n.a.blocks[n.c.block] = NewBlock(m.c)
<1> DEFINE n == cache_block_start(m)
           pos == n.c.block
<1>1. n # Panic(m, "blocks")
  BY PanicType DEF Panics
<1>2. Started(m, n)
  BY <1>1, StartShape
<1>3. m.a.blocks \in Seq(Blocks) /\ m.c.gp \in Nat /\ m.c.hp \in Nat
  BY Fields
<1>4. NewBlock(m.c) \in Blocks
  BY <1>3, CacheAssumption DEF Blocks, NewBlock
<1> HIDE DEF n
<1>5. pos \in 1 .. Len(m.a.blocks) + 1 /\ n.a.blocks = Insert(m.a.blocks, pos, NewBlock(m.c))
  BY <1>2 DEF Started
<1> HIDE DEF pos
<1>6. Insert(m.a.blocks, pos, NewBlock(m.c))[pos] = NewBlock(m.c)
  BY <1>3, <1>4, <1>5, InsertProperties
<1> QED
  BY <1>2, <1>5, <1>6 DEF n, pos

LEMMA SplitFresh ==
  ASSUME NEW m \in Machines, Running(m), AnchorInv(m.a), Building(m), Running(Split(m))
  PROVE  LET n == Split(m)
         IN  n.a.blocks[n.c.block].gp_lo = n.c.gp /\ n.a.blocks[n.c.block].hp = n.c.hp
<1> DEFINE e == cache_block_end(m)
           n == cache_block_start(e)
<1>1. e \in Machines
  BY EndType
<1> HIDE DEF e
<1>2. Running(n)
  BY DEF Split, n, e
<1>3. Running(e)
  BY <1>2 DEF cache_block_start
<1>4. Started(e, n) /\ n.a.blocks[n.c.block] = NewBlock(e.c)
  BY <1>1, <1>2, <1>3, StartFresh
<1> HIDE DEF n
<1>5. n.a.blocks[n.c.block].gp_lo = n.c.gp /\ n.a.blocks[n.c.block].hp = n.c.hp
  BY <1>4 DEF Started, NewBlock
<1> QED
  BY <1>5 DEF n, e, Split

LEMMA SplitType ==
  ASSUME NEW m \in Machines, Running(m), AnchorInv(m.a), Building(m)
  PROVE  LET n == Split(m)
         IN  /\ n \in Machines /\ AnchorInv(n.a)
             /\ Running(n) => Open(n)
             /\ Kept(m, n)
<1> DEFINE e == cache_block_end(m)
           n == cache_block_start(e)
<1>1. e \in Machines /\ AnchorInv(e.a) /\ Closed(e) /\ Ended(m, e)
  BY EndType
<1> HIDE DEF e
<1>2. Kept(m, e)
  BY <1>1 DEF Kept, Ended
<1>3. CASE ~ Running(e)
  <2>1. n = e
    BY <1>3 DEF cache_block_start
  <2> HIDE DEF n
  <2>2. n \in Machines /\ AnchorInv(n.a) /\ (Running(n) => Open(n)) /\ Kept(m, n)
    BY <1>1, <1>2, <1>3, <2>1
  <2> QED BY <2>2 DEF n, e, Split
<1>4. CASE Running(e)
  <2>1. n \in Machines /\ AnchorInv(n.a) /\ (Running(n) => Open(n))
    BY <1>1, <1>4, StartType
  <2>2. Kept(e, n)
    BY <1>1, <1>4, StartKeeps
  <2> HIDE DEF n
  <2>3. Kept(m, n)
    BY <1>2, <2>2, KeptTransitive
  <2> QED BY <2>1, <2>3 DEF n, e, Split
<1> QED
  BY <1>3, <1>4

(***************************************************************************)
(* The four ways cache_block_point can go: the point is the start of the   *)
(* block; a split that it needed panicked; the table is full; the point is *)
(* added to an open block o, which is closed if that made it full.         *)
(***************************************************************************)
LEMMA PointCases ==
  ASSUME NEW m \in Machines, Running(m), AnchorInv(m.a), Open(m)
  PROVE  \E o \in {m, Split(m)} :
           /\ o \in Machines /\ AnchorInv(o.a) /\ Kept(m, o)
           /\ \/ cache_block_point(m) = m
              \/ ~ Running(o) /\ cache_block_point(m) = o
              \/ /\ Running(o) /\ Open(o)
                 /\ o.c.gp - o.a.blocks[o.c.block].gp_lo <= U8Max
                 /\ o.c.hp - o.a.blocks[o.c.block].hp <= U8Max
                 /\ LET d == AddPoint(o)
                    IN  \/ /\ Len(d.a.offsets) >= MaxOffsets
                           /\ cache_block_point(m) = Panic(d, "offsets")
                        \/ /\ Len(d.a.offsets) < MaxOffsets
                           /\ d.c.loffp = U8Max /\ cache_block_point(m) = Split(d)
                        \/ /\ Len(d.a.offsets) < MaxOffsets
                           /\ d.c.loffp # U8Max /\ cache_block_point(m) = d
<1> DEFINE b == m.a.blocks[m.c.block]
           TooFar == m.c.gp - b.gp_lo > U8Max \/ m.c.hp - b.hp > U8Max
           o == IF TooFar THEN Split(m) ELSE m
           d == AddPoint(o)
<1>1. /\ Split(m) \in Machines /\ AnchorInv(Split(m).a)
      /\ Running(Split(m)) => Open(Split(m))
      /\ Kept(m, Split(m))
  BY SplitType DEF Open
<1>2. o \in Machines /\ AnchorInv(o.a) /\ Kept(m, o) /\ (Running(o) => Open(o))
  BY Zenon, <1>1 DEF Kept
<1>3. ASSUME Running(o)
      PROVE  /\ o.c.gp - o.a.blocks[o.c.block].gp_lo <= U8Max
             /\ o.c.hp - o.a.blocks[o.c.block].hp <= U8Max
  <2>1. CASE TooFar
    <3>1. o = Split(m)
      BY <2>1
    <3> HIDE DEF o, TooFar
    <3>2. o.a.blocks[o.c.block].gp_lo = o.c.gp /\ o.a.blocks[o.c.block].hp = o.c.hp
      BY <1>3, <3>1, SplitFresh DEF Open
    <3>3. o.c.gp \in Nat /\ o.c.hp \in Nat
      BY <1>2, Fields
    <3> QED BY <3>2, <3>3, CacheAssumption
  <2>2. CASE ~ TooFar
    <3>1. o = m
      BY <2>2
    <3>2. m.c.gp \in Nat /\ m.c.hp \in Nat /\ m.a.blocks \in Seq(Blocks)
      BY Fields
    <3>3. b \in Blocks
      BY <3>2 DEF Open, Building
    <3>4. b.gp_lo \in Nat /\ b.hp \in Nat
      BY <3>3, BlockFields
    <3> HIDE DEF o
    <3>5. m.c.gp - b.gp_lo <= U8Max /\ m.c.hp - b.hp <= U8Max
      <4> HIDE DEF b
      <4> QED BY <2>2, <3>2, <3>4, CacheAssumption
    <3> QED BY <3>1, <3>5
  <2> QED BY Zenon, <2>1, <2>2
<1>4. o \in {m, Split(m)}
  OBVIOUS
<1>5. \/ cache_block_point(m) = m
      \/ ~ Running(o) /\ cache_block_point(m) = o
      \/ /\ Running(o)
         /\ \/ Len(d.a.offsets) >= MaxOffsets /\ cache_block_point(m) = Panic(d, "offsets")
            \/ /\ ~ (Len(d.a.offsets) >= MaxOffsets)
               /\ d.c.loffp = U8Max /\ cache_block_point(m) = Split(d)
            \/ /\ ~ (Len(d.a.offsets) >= MaxOffsets)
               /\ d.c.loffp # U8Max /\ cache_block_point(m) = d
  BY Zenon DEF cache_block_point
<1> HIDE DEF o
<1>6. Running(o) => Len(d.a.offsets) \in Nat
  BY <1>2, AddShape, Fields
<1> HIDE DEF d
<1>7. Running(o) => (~ (Len(d.a.offsets) >= MaxOffsets) <=> Len(d.a.offsets) < MaxOffsets)
  BY <1>6, CacheAssumption
<1> QED
  BY <1>2, <1>3, <1>4, <1>5, <1>7, Zenon DEF d

(***************************************************************************)
(* cache_block_point keeps the tables in bounds, and the block open unless *)
(* the process ends.                                                       *)
(***************************************************************************)
LEMMA PointType ==
  ASSUME NEW m \in Machines, Running(m), AnchorInv(m.a), Open(m)
  PROVE  LET n == cache_block_point(m)
         IN  /\ n \in Machines /\ AnchorInv(n.a)
             /\ Running(n) => Open(n)
             /\ Kept(m, n)
<1> DEFINE n == cache_block_point(m)
<1> SUFFICES n \in Machines /\ AnchorInv(n.a) /\ (Running(n) => Open(n)) /\ Kept(m, n)
  OBVIOUS
<1>1. PICK o \in {m, Split(m)} :
           /\ o \in Machines /\ AnchorInv(o.a) /\ Kept(m, o)
           /\ \/ n = m
              \/ ~ Running(o) /\ n = o
              \/ /\ Running(o) /\ Open(o)
                 /\ LET d == AddPoint(o)
                    IN  \/ /\ Len(d.a.offsets) >= MaxOffsets
                           /\ n = Panic(d, "offsets")
                        \/ /\ Len(d.a.offsets) < MaxOffsets
                           /\ d.c.loffp = U8Max /\ n = Split(d)
                        \/ /\ Len(d.a.offsets) < MaxOffsets
                           /\ d.c.loffp # U8Max /\ n = d
  BY PointCases, Zenon
<1> HIDE DEF n
<1>2. CASE n = m
  BY <1>2 DEF Kept
<1>3. CASE ~ Running(o) /\ n = o
  BY <1>1, <1>3
<1>4. CASE n # m /\ Running(o) /\ Open(o)
  <2> DEFINE d == AddPoint(o)
  <2>1. d \in Machines /\ Added(o, d)
    BY <1>1, <1>4, AddShape
  <2>2. /\ InBounds(d.a) /\ Running(d) /\ d.c.loffp <= U8Max
        /\ Len(d.a.offsets) < MaxOffsets => AnchorInv(d.a)
        /\ Building(d) /\ (d.c.loffp < U8Max => Open(d))
        /\ Len(d.a.offsets) = d.a.offsets_p + d.c.loffp
    BY <1>1, <1>4, AddType
  <2> HIDE DEF d
  <2>3. Kept(o, d)
    BY <2>1 DEF Added, Kept
  <2>4. Kept(m, d)
    BY <1>1, <2>3, KeptTransitive
  <2>5. CASE n = Panic(d, "offsets")
    <3>1. /\ n \in Machines /\ ~ Running(n) /\ AnchorInv(n.a) /\ Kept(d, n)
      BY <2>1, <2>2, <2>5, PanicType DEF Panics
    <3> QED BY <2>4, <3>1, KeptTransitive
  <2>6. CASE Len(d.a.offsets) < MaxOffsets /\ n = Split(d) /\ d.c.loffp = U8Max
    <3>1. n \in Machines /\ AnchorInv(n.a) /\ (Running(n) => Open(n)) /\ Kept(d, n)
      BY <2>1, <2>2, <2>6, SplitType
    <3> QED BY <2>4, <3>1, KeptTransitive
  <2>7. CASE Len(d.a.offsets) < MaxOffsets /\ n = d /\ d.c.loffp # U8Max
    <3>1. d.c.loffp < U8Max
      BY <2>1, <2>2, <2>7, Fields, CacheAssumption
    <3> QED BY <2>1, <2>2, <2>4, <2>7, <3>1
  <2> QED BY <1>1, <1>4, <2>5, <2>6, <2>7 DEF d
<1> QED
  BY <1>1, <1>2, <1>3, <1>4

-----------------------------------------------------------------------------
(***************************************************************************)
(* Patch records.  SameBlocks: what no patch operation touches.            *)
(***************************************************************************)
SameBlocks(a, n) ==
  /\ n.blocks = a.blocks /\ n.offsets = a.offsets
  /\ n.offsets_p = a.offsets_p /\ n.host_p = a.host_p

(* The ids that are on the reuse stack are ids.                            *)
ReuseValid(a) == \A k \in DOMAIN a.reuse : a.reuse[k] \in DOMAIN a.jumps

LEMMA AnchorFields ==
  ASSUME NEW a \in Anchors
  PROVE  /\ a.jumps \in Seq(Jumps) /\ a.reuse \in Seq(Nat) /\ a.jumps_c \in Nat
         /\ Len(a.jumps) \in Nat /\ Len(a.reuse) \in Nat
<1>1. a.jumps \in Seq(Jumps) /\ a.reuse \in Seq(Nat) /\ a.jumps_c \in Nat
  BY DEF Anchors
<1>2. Len(a.jumps) \in Nat /\ Len(a.reuse) \in Nat
  BY <1>1, LenProperties
<1> QED
  BY <1>1, <1>2

LEMMA GetPatchType ==
  ASSUME NEW a \in Anchors, AnchorInv(a), a.panic = "none", NEW id \in Nat
  PROVE  LET n == cache_get_patch(a, id)
         IN  /\ n \in Anchors /\ AnchorInv(n) /\ SameBlocks(a, n)
             /\ n.jumps = a.jumps /\ n.jumps_c = a.jumps_c
             /\ n.reuse = Append(a.reuse, id)
<1> DEFINE r == Append(a.reuse, id)
           pan == IF Len(r) = MaxJumps THEN "reuse" ELSE a.panic
           n == [a EXCEPT !.reuse = r, !.panic = pan]
<1>1. cache_get_patch(a, id) = n
  BY DEF cache_get_patch
<1>2. r \in Seq(Nat) /\ Len(r) = Len(a.reuse) + 1
  BY AnchorFields, AppendProperties
<1>3. Len(r) <= MaxJumps /\ (pan = "none" => Len(r) < MaxJumps)
  <2>1. Len(a.reuse) \in Nat /\ Len(a.reuse) < MaxJumps
    BY AnchorFields DEF AnchorInv
  <2> QED BY <1>2, <2>1, CacheAssumption
<1>4. pan \in {"none"} \cup Panics
  BY DEF Anchors, Panics
<1> HIDE DEF r, pan
<1>5. /\ n \in Anchors /\ n.jumps = a.jumps /\ n.jumps_c = a.jumps_c /\ n.reuse = r
      /\ n.panic = pan /\ n.blocks = a.blocks /\ n.offsets = a.offsets
      /\ n.offsets_p = a.offsets_p /\ n.host_p = a.host_p
  BY <1>2, <1>4 DEF Anchors
<1> HIDE DEF n
<1>6. AnchorInv(n)
  BY <1>3, <1>5 DEF AnchorInv, InBounds
<1> QED
  BY <1>1, <1>5, <1>6 DEF SameBlocks, r

(* n is a without the free id x, or with the new id x.                     *)
TakenFrom(a, n, x) ==
  \/ /\ Len(a.reuse) > 0
     /\ x = a.reuse[Len(a.reuse)]
     /\ Len(n.reuse) = Len(a.reuse) - 1
     /\ \A k \in 1 .. Len(a.reuse) - 1 : n.reuse[k] = a.reuse[k]
  \/ /\ Len(a.reuse) = 0 /\ n.reuse = a.reuse
     /\ x \notin DOMAIN a.jumps

(* The id that cache_patch_point takes: free before, no longer free after. *)
PatchPoint(a, n, x, jump) ==
  /\ n \in Anchors /\ AnchorInv(n) /\ SameBlocks(a, n) /\ n.panic = a.panic
  /\ x \in DOMAIN n.jumps /\ x \in Nat
  /\ DOMAIN n.jumps = DOMAIN a.jumps \cup {x}
  /\ n.jumps[x] = jump
  /\ \A i \in DOMAIN a.jumps : i # x => n.jumps[i] = a.jumps[i]
  /\ TakenFrom(a, n, x)

LEMMA PatchPointShape ==
  ASSUME NEW a \in Anchors, AnchorInv(a), ReuseValid(a),
         NEW kind \in Patched, NEW target \in Nat
  PROVE  PatchPoint(a, cache_patch_point(a, kind, target), cache_patch_id(a),
                    [kind |-> kind, target |-> target])
<1> DEFINE jump == [kind |-> kind, target |-> target]
           x == cache_patch_id(a)
           n == cache_patch_point(a, kind, target)
<1> SUFFICES /\ n \in Anchors /\ AnchorInv(n) /\ SameBlocks(a, n) /\ n.panic = a.panic
             /\ x \in DOMAIN n.jumps /\ x \in Nat
             /\ DOMAIN n.jumps = DOMAIN a.jumps \cup {x}
             /\ n.jumps[x] = jump
             /\ \A i \in DOMAIN a.jumps : i # x => n.jumps[i] = a.jumps[i]
             /\ TakenFrom(a, n, x)
  BY DEF PatchPoint
<1>1. /\ a.jumps \in Seq(Jumps) /\ a.reuse \in Seq(Nat) /\ a.jumps_c \in Nat
      /\ Len(a.jumps) \in Nat /\ Len(a.reuse) \in Nat
  BY AnchorFields
<1>2. jump \in Jumps
  BY DEF Jumps
<1>3. DOMAIN a.jumps = 1 .. Len(a.jumps) /\ DOMAIN a.reuse = 1 .. Len(a.reuse)
  BY <1>1
<1>4. CASE a.reuse # << >>
  <2> DEFINE r == SubSeq(a.reuse, 1, Len(a.reuse) - 1)
             js == [a.jumps EXCEPT ![x] = jump]
  <2>1. Len(a.reuse) > 0 /\ x = a.reuse[Len(a.reuse)]
    BY <1>1, <1>4, EmptySeq DEF cache_patch_id
  <2>2. n = [a EXCEPT !.reuse = r, !.jumps = js]
    <3>1. n = [a EXCEPT !.reuse = r, !.jumps[x] = jump]
      BY <1>4 DEF cache_patch_point
    <3> QED BY <3>1 DEF Anchors
  <2> HIDE DEF x, n
  <2>3. x \in DOMAIN a.jumps /\ x \in Nat
    <3>1. Len(a.reuse) \in DOMAIN a.reuse
      BY <1>1, <1>3, <2>1
    <3> QED BY <1>3, <2>1, <3>1 DEF ReuseValid
  <2>4. /\ r \in Seq(Nat) /\ Len(r) = Len(a.reuse) - 1
        /\ \A k \in 1 .. Len(a.reuse) - 1 : r[k] = a.reuse[k]
    BY <1>1, <2>1, SubSeqProperties
  <2> HIDE DEF jump, r
  <2>5. /\ js \in Seq(Jumps) /\ Len(js) = Len(a.jumps) /\ js[x] = jump
        /\ \A i \in DOMAIN a.jumps : i # x => js[i] = a.jumps[i]
    BY <1>1, <1>2, <1>3, <2>3, ExceptSeq
  <2> HIDE DEF js
  <2>6. /\ n \in Anchors /\ n.jumps = js /\ n.jumps_c = a.jumps_c /\ n.reuse = r
        /\ n.panic = a.panic /\ n.blocks = a.blocks /\ n.offsets = a.offsets
        /\ n.offsets_p = a.offsets_p /\ n.host_p = a.host_p
    BY <2>2, <2>4, <2>5 DEF Anchors
  <2>7. Len(r) <= MaxJumps /\ (Len(a.reuse) < MaxJumps => Len(r) < MaxJumps)
    BY <1>1, <2>1, <2>4, CacheAssumption DEF AnchorInv, InBounds
  <2>8. AnchorInv(n)
    BY <2>5, <2>6, <2>7 DEF AnchorInv, InBounds
  <2>9. DOMAIN js = DOMAIN a.jumps
    BY <1>3, <2>5
  <2>10. DOMAIN n.jumps = DOMAIN a.jumps \cup {x} /\ x \in DOMAIN n.jumps
    BY <2>3, <2>6, <2>9
  <2> QED
    BY <2>1, <2>3, <2>4, <2>5, <2>6, <2>8, <2>10 DEF SameBlocks, TakenFrom
<1>5. CASE a.reuse = << >>
  <2> DEFINE c == IF Len(a.jumps) + 1 >= a.jumps_c THEN 2 * a.jumps_c ELSE a.jumps_c
             js == Append(a.jumps, jump)
  <2>1. Len(a.reuse) = 0 /\ x = Len(a.jumps) + 1
    BY <1>5 DEF cache_patch_id
  <2>2. n = [a EXCEPT !.jumps = js, !.jumps_c = c]
    BY <1>5 DEF cache_patch_point, Anchors
  <2> HIDE DEF x, n, jump
  <2>3. js \in Seq(Jumps) /\ Len(js) = Len(a.jumps) + 1 /\ js[x] = jump
    BY <1>1, <1>2, <2>1, AppendProperties
  <2>4. \A i \in 1 .. Len(a.jumps) : js[i] = a.jumps[i]
    BY <1>1, <1>2, AppendProperties
  <2>5. c \in Nat /\ Len(a.jumps) + 1 < c
    BY <1>1 DEF AnchorInv, InBounds
  <2>6. DOMAIN js = DOMAIN a.jumps \cup {x} /\ x \notin DOMAIN a.jumps /\ x \in Nat
    BY <1>1, <1>3, <2>1, <2>3
  <2> HIDE DEF js, c
  <2>7. /\ n \in Anchors /\ n.jumps = js /\ n.jumps_c = c /\ n.reuse = a.reuse
        /\ n.panic = a.panic /\ n.blocks = a.blocks /\ n.offsets = a.offsets
        /\ n.offsets_p = a.offsets_p /\ n.host_p = a.host_p
    BY <2>2, <2>3, <2>5 DEF Anchors
  <2>8. AnchorInv(n)
    BY <2>3, <2>5, <2>7 DEF AnchorInv, InBounds
  <2> QED
    BY <1>3, <2>1, <2>3, <2>4, <2>6, <2>7, <2>8 DEF SameBlocks, TakenFrom
<1> QED
  BY <1>4, <1>5

LEMMA PatchPointType ==
  ASSUME NEW a \in Anchors, AnchorInv(a), ReuseValid(a),
         NEW kind \in Patched, NEW target \in Nat
  PROVE  LET n == cache_patch_point(a, kind, target)
         IN  n \in Anchors /\ AnchorInv(n) /\ SameBlocks(a, n) /\ n.panic = a.panic
<1> DEFINE n == cache_patch_point(a, kind, target)
           x == cache_patch_id(a)
           jump == [kind |-> kind, target |-> target]
<1>1. PatchPoint(a, n, x, jump)
  BY PatchPointShape
<1> HIDE DEF n, x, jump
<1> QED BY <1>1 DEF PatchPoint, n

LEMMA PatchPointJumps ==
  ASSUME NEW a \in Anchors, AnchorInv(a), ReuseValid(a),
         NEW kind \in Patched, NEW target \in Nat
  PROVE  LET n == cache_patch_point(a, kind, target)
             x == cache_patch_id(a)
         IN  /\ x \in DOMAIN n.jumps /\ x \in Nat
             /\ DOMAIN n.jumps = DOMAIN a.jumps \cup {x}
             /\ n.jumps[x] = [kind |-> kind, target |-> target]
             /\ \A i \in DOMAIN a.jumps : i # x => n.jumps[i] = a.jumps[i]
             /\ TakenFrom(a, n, x)
<1> DEFINE n == cache_patch_point(a, kind, target)
           x == cache_patch_id(a)
           jump == [kind |-> kind, target |-> target]
<1>1. PatchPoint(a, n, x, jump)
  BY PatchPointShape
<1> HIDE DEF n, x, jump
<1> QED BY <1>1 DEF PatchPoint, n, x, jump

-----------------------------------------------------------------------------
(***************************************************************************)
(* Look-up answers from the tables, and only about the address asked for.  *)
(***************************************************************************)
LEMMA FoundEntry ==
  ASSUME NEW a \in Anchors, NEW gp \in Nat, NEW t \in Found(a, gp)
  PROVE  <<gp, t>> \in Entries(a)
<1>1. CASE StartsAt(a.blocks, gp) # {}
  <2>1. PICK i \in StartsAt(a.blocks, gp) : t = a.blocks[i].hp
    BY <1>1 DEF Found
  <2> QED BY <2>1 DEF StartsAt, Entries, Starts
<1>2. CASE StartsAt(a.blocks, gp) = {}
  <2>1. PICK i \in DOMAIN a.blocks : t \in block_cache_search(a, a.blocks[i], gp)
    BY <1>2 DEF Found
  <2> DEFINE b == a.blocks[i]
  <2>2. PICK k \in b.offsets + 1 .. b.offsets + b.offsetssz :
          b.gp_lo + a.offsets[k].goff = gp /\ t = b.hp + a.offsets[k].hoff
    BY <2>1 DEF block_cache_search
  <2>3. <<gp, t>> \in PointsOf(a, b)
    BY <2>2 DEF PointsOf
  <2> QED BY <2>3 DEF Entries
<1> QED
  BY <1>1, <1>2

LEMMA FoundType ==
  ASSUME NEW a \in Anchors, InBounds(a), NEW gp \in Nat, NEW t \in Found(a, gp)
  PROVE  t \in Nat
<1>0. a.blocks \in Seq(Blocks) /\ a.offsets \in Seq(Points) /\ a.offsets_p \in Nat
  BY DEF Anchors
<1>1. CASE StartsAt(a.blocks, gp) # {}
  <2>1. PICK i \in StartsAt(a.blocks, gp) : t = a.blocks[i].hp
    BY <1>1 DEF Found
  <2>2. a.blocks[i] \in Blocks
    BY <1>0, <2>1 DEF StartsAt
  <2> QED BY <2>1, <2>2, BlockFields
<1>2. CASE StartsAt(a.blocks, gp) = {}
  <2>1. PICK i \in DOMAIN a.blocks : t \in block_cache_search(a, a.blocks[i], gp)
    BY <1>2 DEF Found
  <2> DEFINE b == a.blocks[i]
  <2>2. PICK k \in b.offsets + 1 .. b.offsets + b.offsetssz : t = b.hp + a.offsets[k].hoff
    BY <2>1 DEF block_cache_search
  <2>3. b \in Blocks
    BY <1>0
  <2>4. b.hp \in Nat /\ b.offsets \in Nat /\ b.offsetssz \in Nat
    BY <2>3, BlockFields
  <2>5. b.offsets + b.offsetssz <= a.offsets_p /\ a.offsets_p <= Len(a.offsets)
    BY DEF InBounds
  <2>6. k \in 1 .. Len(a.offsets)
    <3> HIDE DEF b
    <3>1. Len(a.offsets) \in Nat
      BY <1>0, LenProperties
    <3> QED BY <1>0, <2>4, <2>5, <3>1
  <2>7. a.offsets[k] \in Points
    BY <1>0, <2>6
  <2>8. a.offsets[k].hoff \in Nat
    BY <2>7, CacheAssumption DEF Points
  <2> HIDE DEF b
  <2> QED BY <2>2, <2>4, <2>8
<1> QED
  BY <1>1, <1>2

-----------------------------------------------------------------------------
(* The cache, at every label of a handler.                                 *)
CacheShape ==
  /\ AnchorInv(anchor)
  /\ pc # "exit" => Running(Machine)
  /\ Decoding => Open(Machine)
  /\ ~ Decoding /\ pc # "exit" => Closed(Machine)

(* What is decoded, or will be, is an instruction of the program.          *)
OnProgram ==
  /\ pc \in {"point", "instr", "lookup"} => context.gp \in DOMAIN guest
  /\ pc = "resolve" => goal \in DOMAIN guest
  /\ \A id \in DOMAIN anchor.jumps : anchor.jumps[id].target \in DOMAIN guest

(* Every id in use or free has a record.                                   *)
IdsValid ==
  /\ ReuseValid(anchor)
  /\ \A s \in sites : s.id \in DOMAIN anchor.jumps

SafeInv == TypeOK /\ CacheShape /\ OnProgram /\ IdsValid

Labels == {"idle", "resolve", "point", "instr", "lookup", "end", "finish", "exit"}

-----------------------------------------------------------------------------
LEMMA MachineType ==
  ASSUME TypeOK
  PROVE  Machine \in Machines /\ Machine.a = anchor /\ Machine.c = context
BY DEF TypeOK, Machine, Machines

LEMMA ProgramFacts ==
  ASSUME TypeOK
  PROVE  /\ DOMAIN guest \subseteq Nat
         /\ \A g \in DOMAIN guest :
              /\ guest[g] \in Instructions
              /\ guest[g].kind # "plain" => guest[g].words > 0
              /\ guest[g].kind \in Patched =>
                   guest[g].words > 0 /\ guest[g].target \in DOMAIN guest
              /\ guest[g].kind \notin Ending => g + guest[g].len \in DOMAIN guest
BY ProgramsAssumption DEF TypeOK, IsProgram, Patched

(* After Continue(m, next) the cache is m.                                 *)
LEMMA ContinueType ==
  ASSUME NEW m \in Machines, NEW next \in Labels, next # "exit", Continue(m, next)
  PROVE  /\ anchor' \in Anchors /\ context' \in Contexts /\ pc' \in Labels
         /\ anchor' = m.a /\ context' = m.c /\ Machine' = m
         /\ pc' # "exit" => pc' = next /\ Running(m)
<1>1. m.a \in Anchors /\ m.c \in Contexts /\ m = [a |-> m.a, c |-> m.c]
  BY DEF Machines
<1>2. anchor' = m.a /\ context' = m.c /\ pc' = IF Running(m) THEN next ELSE "exit"
  BY DEF Continue
<1>3. Machine' = m
  BY <1>1, <1>2 DEF Machine
<1> QED
  BY <1>1, <1>2, <1>3 DEF Labels

(* A step that keeps the patch records keeps what is said of them.         *)
LEMMA KeptIds ==
  ASSUME SafeInv, anchor'.jumps = anchor.jumps, anchor'.reuse = anchor.reuse,
         sites' = sites, guest' = guest
  PROVE  /\ IdsValid'
         /\ \A id \in DOMAIN anchor'.jumps : anchor'.jumps[id].target \in DOMAIN guest'
BY DEF SafeInv, IdsValid, ReuseValid, OnProgram

LEMMA InitSafe == Init => SafeInv
<1> SUFFICES ASSUME Init PROVE SafeInv
  OBVIOUS
<1>1. cahce_init \in Anchors
  <2>1. << >> \in Seq(Blocks) /\ << >> \in Seq(Points) /\ << >> \in Seq(Jumps)
        /\ << >> \in Seq(Nat)
    BY EmptySeq
  <2> QED BY <2>1, CacheAssumption DEF cahce_init, Anchors
<1>2. context \in Contexts
  BY CacheAssumption DEF Init, Contexts
<1>3. TypeOK
  BY <1>1, <1>2 DEF Init, TypeOK
<1>4. AnchorInv(cahce_init)
  BY CacheAssumption DEF AnchorInv, InBounds, cahce_init
<1>5. CacheShape
  BY <1>4 DEF Init, CacheShape, Decoding, Running, Closed, Machine, cahce_init
<1>6. OnProgram /\ IdsValid
  BY DEF Init, OnProgram, IdsValid, ReuseValid, cahce_init
<1> QED
  BY <1>3, <1>5, <1>6 DEF SafeInv

-----------------------------------------------------------------------------
(* The steps of Next, one by one.                                          *)
LEMMA BrkSafe ==
  ASSUME SafeInv, NEW s \in sites, Brk(s)
  PROVE  SafeInv'
<1> DEFINE m == [Machine EXCEPT !.a = cache_get_patch(@, s.id)]
<1>1. /\ TypeOK /\ Machine \in Machines /\ AnchorInv(anchor) /\ Running(Machine)
      /\ Closed(Machine) /\ anchor \in Anchors /\ context \in Contexts
  BY MachineType DEF SafeInv, CacheShape, Brk, Decoding, TypeOK
<1>2. s \in Sites /\ s.id \in DOMAIN anchor.jumps /\ s.id \in Nat
  BY <1>1 DEF TypeOK, Sites, SafeInv, IdsValid
<1>3. anchor.jumps[s.id].target \in DOMAIN guest
  BY <1>2 DEF SafeInv, OnProgram
<1>4. m = [a |-> cache_get_patch(anchor, s.id), c |-> context]
  BY DEF Machine
<1> DEFINE a2 == cache_get_patch(anchor, s.id)
<1>5. /\ a2 \in Anchors /\ AnchorInv(a2) /\ SameBlocks(anchor, a2)
      /\ a2.jumps = anchor.jumps /\ a2.reuse = Append(anchor.reuse, s.id)
  BY <1>1, <1>2, GetPatchType DEF Running, Machine
<1> HIDE DEF a2
<1>6. m \in Machines /\ m.a = a2 /\ m.c = context
  BY <1>1, <1>4, <1>5 DEF Machines, a2
<1>7. Continue(m, "resolve")
  BY DEF Brk
<1> HIDE DEF m
<1>8. /\ anchor' = a2 /\ context' = context /\ Machine' = m /\ pc' \in {"resolve", "exit"}
      /\ pc' # "exit" => Running(m)
  BY <1>6, <1>7, ContinueType DEF Labels
<1>9. /\ goal' = anchor.jumps[s.id].target /\ site' = s /\ UNCHANGED <<guest, dest, sites, links, code, cleared>>
  BY DEF Brk
<1>10. TypeOK'
  <2>1. goal' \in Nat
    BY <1>1, <1>3, <1>9, ProgramFacts
  <2> QED BY <1>1, <1>2, <1>5, <1>8, <1>9, <2>1 DEF TypeOK
<1>11. CacheShape'
  BY <1>1, <1>5, <1>6, <1>8 DEF CacheShape, Decoding, Closed, SameBlocks, Machine
<1>12. OnProgram'
  BY <1>3, <1>5, <1>8, <1>9 DEF OnProgram, SafeInv
<1>13. IdsValid'
  <2>1. ReuseValid(a2)
    <3>1. anchor.reuse \in Seq(Nat) /\ Len(anchor.reuse) \in Nat
      BY <1>1, AnchorFields
    <3>2. /\ a2.reuse \in Seq(Nat) /\ Len(a2.reuse) = Len(anchor.reuse) + 1
          /\ a2.reuse[Len(anchor.reuse) + 1] = s.id
          /\ \A k \in 1 .. Len(anchor.reuse) : a2.reuse[k] = anchor.reuse[k]
      BY <1>2, <1>5, <3>1, AppendProperties
    <3>3. \A k \in 1 .. Len(anchor.reuse) : anchor.reuse[k] \in DOMAIN anchor.jumps
      BY <3>1 DEF SafeInv, IdsValid, ReuseValid
    <3>4. DOMAIN a2.reuse = 1 .. Len(anchor.reuse) + 1
      BY <3>1, <3>2
    <3> QED BY <1>2, <1>5, <3>1, <3>2, <3>3, <3>4 DEF ReuseValid
  <2> QED BY <1>5, <1>8, <1>9, <2>1 DEF IdsValid, SafeInv
<1> QED
  BY <1>10, <1>11, <1>12, <1>13 DEF SafeInv

LEMMA QuietSafe ==
  ASSUME SafeInv,
         \/ \E g \in DOMAIN guest : Segv(g)
         \/ Hit \/ GoOn \/ Patch \/ Resume
  PROVE  SafeInv'
<1>1. TypeOK /\ CacheShape /\ OnProgram /\ IdsValid
  BY DEF SafeInv
<1>2. CASE \E g \in DOMAIN guest : Segv(g)
  <2>1. PICK g \in DOMAIN guest : Segv(g)
    BY <1>2
  <2>2. g \in Nat
    BY <1>1, ProgramFacts
  <2>3. TypeOK'
    BY <1>1, <2>1, <2>2 DEF Segv, TypeOK
  <2>4. CacheShape'
    BY <1>1, <2>1 DEF Segv, CacheShape, Decoding, Machine
  <2>5. OnProgram' /\ IdsValid'
    BY <1>1, <2>1 DEF Segv, OnProgram, IdsValid
  <2> QED BY <2>3, <2>4, <2>5 DEF SafeInv
<1>3. CASE Hit
  <2>1. dest' \in Nat
    <3>1. PICK t \in cache_search(anchor, goal) \ {NULL} : dest' = t
      BY <1>3 DEF Hit
    <3>2. anchor \in Anchors /\ goal \in Nat
      BY <1>1 DEF TypeOK
    <3>3. t \in Found(anchor, goal)
      BY <3>1 DEF cache_search
    <3>4. InBounds(anchor)
      BY <1>1 DEF CacheShape, AnchorInv
    <3> QED BY <3>1, <3>2, <3>3, <3>4, FoundType
  <2>2. TypeOK'
    BY <1>1, <1>3, <2>1 DEF Hit, TypeOK
  <2>3. CacheShape'
    BY <1>1, <1>3 DEF Hit, CacheShape, Decoding, Machine
  <2>4. OnProgram' /\ IdsValid'
    BY <1>1, <1>3 DEF Hit, OnProgram, IdsValid
  <2> QED BY <2>2, <2>3, <2>4 DEF SafeInv
<1>4. CASE GoOn
  <2>1. TypeOK'
    BY <1>1, <1>4 DEF GoOn, TypeOK
  <2>2. CacheShape'
    BY <1>1, <1>4 DEF GoOn, CacheShape, Decoding, Machine
  <2>3. OnProgram' /\ IdsValid'
    BY <1>1, <1>4 DEF GoOn, OnProgram, IdsValid
  <2> QED BY <2>1, <2>2, <2>3 DEF SafeInv
<1>5. CASE Patch
  <2>1. links' \subseteq Links /\ sites' \subseteq Sites
    BY <1>1, <1>5 DEF Patch, TypeOK, Sites, Links
  <2>2. TypeOK'
    BY <1>1, <1>5, <2>1 DEF Patch, TypeOK
  <2>3. CacheShape'
    BY <1>1, <1>5 DEF Patch, CacheShape, Decoding, Machine
  <2>4. OnProgram' /\ IdsValid'
    BY <1>1, <1>5 DEF Patch, OnProgram, IdsValid
  <2> QED BY <2>2, <2>3, <2>4 DEF SafeInv
<1>6. CASE Resume
  <2>1. TypeOK'
    BY <1>1, <1>6 DEF Resume, TypeOK
  <2>2. CacheShape'
    BY <1>1, <1>6 DEF Resume, CacheShape, Decoding, Machine
  <2>3. OnProgram' /\ IdsValid'
    BY <1>1, <1>6 DEF Resume, OnProgram, IdsValid
  <2> QED BY <2>1, <2>2, <2>3 DEF SafeInv
<1> QED
  BY <1>2, <1>3, <1>4, <1>5, <1>6

LEMMA MissSafe ==
  ASSUME SafeInv, Miss
  PROVE  SafeInv'
<1> DEFINE p == [a |-> anchor, c |-> context_pull(anchor, goal)]
           m == cache_block_start(p)
<1>1. TypeOK /\ CacheShape /\ OnProgram /\ IdsValid /\ pc = "resolve"
  BY DEF SafeInv, Miss
<1>2. /\ anchor \in Anchors /\ anchor.host_p \in Nat /\ goal \in DOMAIN guest /\ goal \in Nat
  BY <1>1, ProgramFacts DEF TypeOK, Anchors, OnProgram
<1>3. p \in Machines /\ p.a = anchor /\ p.c.gp = goal /\ p.c.loffp = 0
  BY <1>2, CacheAssumption DEF Machines, Contexts, context_pull
<1>4. Running(p) /\ AnchorInv(p.a) /\ Closed(p)
  BY <1>1, <1>3 DEF CacheShape, Decoding, Closed, Machine, Running
<1> HIDE DEF p
<1>5. /\ m \in Machines /\ AnchorInv(m.a) /\ (Running(m) => Open(m)) /\ Kept(p, m)
  BY <1>3, <1>4, StartType, StartKeeps
<1>6. Continue(m, "point")
  BY DEF Miss, m, p
<1> HIDE DEF m
<1>7. /\ anchor' \in Anchors /\ context' \in Contexts /\ Machine' = m
      /\ anchor' = m.a /\ context' = m.c /\ pc' \in {"point", "exit"}
      /\ pc' # "exit" => Running(m)
  BY <1>5, <1>6, ContinueType DEF Labels
<1>8. dest' = anchor.host_p /\ UNCHANGED <<guest, site, goal, sites, links, code, cleared>>
  BY DEF Miss
<1>9. TypeOK'
  BY <1>1, <1>2, <1>7, <1>8 DEF TypeOK
<1>10. CacheShape'
  BY <1>5, <1>7 DEF CacheShape, Decoding
<1>11. OnProgram' /\ IdsValid'
  <2>1. anchor'.jumps = anchor.jumps /\ anchor'.reuse = anchor.reuse /\ context'.gp = goal
    BY <1>3, <1>5, <1>7 DEF Kept
  <2> QED BY <1>2, <1>7, <1>8, <2>1, KeptIds DEF OnProgram
<1> QED
  BY <1>9, <1>10, <1>11 DEF SafeInv

LEMMA PointSafe ==
  ASSUME SafeInv, Point
  PROVE  SafeInv'
<1> DEFINE m == cache_block_point(Machine)
<1>1. TypeOK /\ CacheShape /\ OnProgram /\ IdsValid /\ pc = "point"
  BY DEF SafeInv, Point
<1>2. Machine \in Machines /\ Machine.a = anchor /\ Machine.c = context
  BY <1>1, MachineType
<1>3. Running(Machine) /\ AnchorInv(Machine.a) /\ Open(Machine)
  BY <1>1, <1>2 DEF CacheShape, Decoding
<1>4. /\ m \in Machines /\ AnchorInv(m.a) /\ (Running(m) => Open(m)) /\ Kept(Machine, m)
  BY <1>2, <1>3, PointType
<1>5. Continue(m, "instr") /\ UNCHANGED <<guest, site, goal, dest, sites, links, code, cleared>>
  BY DEF Point
<1> HIDE DEF m
<1>6. /\ anchor' \in Anchors /\ context' \in Contexts /\ Machine' = m
      /\ anchor' = m.a /\ context' = m.c /\ pc' \in {"instr", "exit"}
      /\ pc' # "exit" => Running(m)
  BY <1>4, <1>5, ContinueType DEF Labels
<1>7. TypeOK'
  BY <1>1, <1>5, <1>6 DEF TypeOK
<1>8. CacheShape'
  BY <1>4, <1>6 DEF CacheShape, Decoding
<1>9. OnProgram' /\ IdsValid'
  <2>1. /\ anchor'.jumps = anchor.jumps /\ anchor'.reuse = anchor.reuse
        /\ context'.gp = context.gp
    BY <1>2, <1>4, <1>6 DEF Kept
  <2> QED BY <1>1, <1>5, <1>6, <2>1, KeptIds DEF OnProgram
<1> QED
  BY <1>7, <1>8, <1>9 DEF SafeInv

(* What Instr does to the patch records, for a branch and for the rest.    *)
NewSite(i) == [hp |-> context.hp, id |-> cache_patch_id(anchor),
               kind |-> i.kind, target |-> i.target]

LEMMA InstrSites ==
  ASSUME Instr
  PROVE  LET i == guest[context.gp]
         IN  \/ /\ i.kind \in Patched
                /\ anchor' = cache_patch_point(anchor, i.kind, i.target)
                /\ sites' = sites \cup {NewSite(i)}
             \/ anchor' = anchor /\ sites' = sites
BY DEF Instr, NewSite

LEMMA InstrSafe ==
  ASSUME SafeInv, Instr
  PROVE  SafeInv'
<1> DEFINE i == guest[context.gp]
<1>1. TypeOK /\ CacheShape /\ OnProgram /\ IdsValid /\ pc = "instr"
  BY DEF SafeInv, Instr
<1>2. /\ Machine \in Machines /\ Machine.a = anchor /\ Machine.c = context
      /\ anchor \in Anchors /\ context \in Contexts
  BY <1>1, MachineType DEF TypeOK
<1>3. Running(Machine) /\ AnchorInv(anchor) /\ Open(Machine)
  BY <1>1 DEF CacheShape, Decoding
<1>4. /\ i \in Instructions /\ context.gp \in DOMAIN guest
      /\ i.kind \in Patched => i.words > 0 /\ i.target \in DOMAIN guest
      /\ i.kind \notin Ending => context.gp + i.len \in DOMAIN guest
  BY <1>1, ProgramFacts DEF OnProgram
<1>5. i.len \in Nat /\ i.words \in Nat /\ i.target \in Nat
  BY <1>4 DEF Instructions
<1>6. /\ context' = [context EXCEPT !.gp = @ + i.len, !.hp = @ + i.words]
      /\ code' = code \cup {<<context.gp, context.hp>>}
      /\ pc' = IF i.kind \in Ending THEN "end" ELSE "lookup"
      /\ UNCHANGED <<guest, site, goal, dest, links, cleared>>
  BY DEF Instr
<1>7. \/ /\ i.kind \in Patched
         /\ anchor' = cache_patch_point(anchor, i.kind, i.target)
         /\ sites' = sites \cup {NewSite(i)}
      \/ anchor' = anchor /\ sites' = sites
  BY InstrSites
<1> HIDE DEF i
<1>8. /\ context' \in Contexts /\ context'.gp = context.gp + i.len
      /\ context'.hp = context.hp + i.words /\ context'.loffp = context.loffp
      /\ context'.block = context.block
  <2>0. context.gp \in Nat /\ context.hp \in Nat
    BY <1>2, Fields
  <2>1. context.gp + i.len \in Nat /\ context.hp + i.words \in Nat
    BY <1>5, <2>0
  <2> QED BY <1>2, <1>6, <2>1 DEF Contexts
<1>9. /\ anchor' \in Anchors /\ AnchorInv(anchor') /\ SameBlocks(anchor, anchor')
      /\ anchor'.panic = anchor.panic /\ sites' \subseteq Sites /\ IdsValid'
      /\ \A id \in DOMAIN anchor'.jumps : anchor'.jumps[id].target \in DOMAIN guest
  <2>1. CASE anchor' = anchor /\ sites' = sites
    BY <1>1, <1>2, <1>3, <2>1 DEF SameBlocks, TypeOK, IdsValid, OnProgram
  <2>2. CASE /\ i.kind \in Patched
             /\ anchor' = cache_patch_point(anchor, i.kind, i.target)
             /\ sites' = sites \cup {NewSite(i)}
    <3> DEFINE x == cache_patch_id(anchor)
               n == cache_patch_point(anchor, i.kind, i.target)
    <3>1. /\ anchor \in Anchors /\ AnchorInv(anchor) /\ ReuseValid(anchor)
          /\ i.kind \in Patched /\ i.target \in Nat
      BY <1>1, <1>2, <1>3, <1>5, <2>2 DEF IdsValid
    <3>2. /\ n \in Anchors /\ AnchorInv(n) /\ SameBlocks(anchor, n)
          /\ n.panic = anchor.panic
      BY <3>1, PatchPointType
    <3>3. /\ x \in DOMAIN n.jumps /\ x \in Nat
          /\ DOMAIN n.jumps = DOMAIN anchor.jumps \cup {x}
          /\ n.jumps[x] = [kind |-> i.kind, target |-> i.target]
          /\ \A id \in DOMAIN anchor.jumps : id # x => n.jumps[id] = anchor.jumps[id]
      BY <3>1, PatchPointJumps
    <3>4. \/ /\ Len(anchor.reuse) > 0
             /\ Len(n.reuse) = Len(anchor.reuse) - 1
             /\ \A k \in 1 .. Len(anchor.reuse) - 1 : n.reuse[k] = anchor.reuse[k]
          \/ n.reuse = anchor.reuse
      <4>1. TakenFrom(anchor, n, x)
        BY <3>1, PatchPointJumps
      <4> HIDE DEF n, x
      <4> QED BY <4>1 DEF TakenFrom
    <3> HIDE DEF n, x
    <3>5. ReuseValid(n)
      <4>1. anchor.reuse \in Seq(Nat) /\ n.reuse \in Seq(Nat) /\ Len(anchor.reuse) \in Nat
        BY <1>2, <3>2, AnchorFields
      <4>2. \A k \in 1 .. Len(anchor.reuse) : anchor.reuse[k] \in DOMAIN anchor.jumps
        BY <3>1, <4>1 DEF ReuseValid
      <4>3. \A k \in DOMAIN n.reuse : n.reuse[k] \in DOMAIN anchor.jumps
        <5>1. CASE n.reuse = anchor.reuse
          BY <3>1, <5>1 DEF ReuseValid
        <5>2. CASE /\ Len(n.reuse) = Len(anchor.reuse) - 1
                   /\ \A k \in 1 .. Len(anchor.reuse) - 1 : n.reuse[k] = anchor.reuse[k]
          <6>1. DOMAIN n.reuse = 1 .. Len(anchor.reuse) - 1
            BY <4>1, <5>2
          <6> SUFFICES ASSUME NEW k \in 1 .. Len(anchor.reuse) - 1
                       PROVE  n.reuse[k] \in DOMAIN anchor.jumps
            BY <6>1
          <6>2. k \in 1 .. Len(anchor.reuse) /\ n.reuse[k] = anchor.reuse[k]
            BY <4>1, <5>2
          <6> QED BY <4>2, <6>2
        <5> QED BY <3>4, <5>1, <5>2
      <4> QED BY <3>3, <4>3 DEF ReuseValid
    <3>6. \A id \in DOMAIN n.jumps : n.jumps[id].target \in DOMAIN guest
      <4> SUFFICES ASSUME NEW id \in DOMAIN n.jumps
                   PROVE  n.jumps[id].target \in DOMAIN guest
        OBVIOUS
      <4>1. CASE id = x
        BY <1>4, <2>2, <3>3, <4>1
      <4>2. CASE id # x
        BY <1>1, <3>3, <4>2 DEF OnProgram
      <4> QED BY <4>1, <4>2
    <3>7. NewSite(i) \in Sites /\ NewSite(i).id = x
      <4>1. context.hp \in Nat
        BY <1>2, Fields
      <4> QED BY <1>5, <2>2, <3>3, <4>1 DEF NewSite, Sites, x
    <3>8. sites' \subseteq Sites /\ \A s \in sites' : s.id \in DOMAIN n.jumps
      BY <1>1, <2>2, <3>3, <3>7 DEF TypeOK, IdsValid
    <3> QED BY <2>2, <3>2, <3>5, <3>6, <3>8 DEF IdsValid, n
  <2> QED BY <1>7, <2>1, <2>2
<1>10. code' \subseteq Nat \X Nat /\ pc' \in {"end", "lookup"}
  BY <1>1, <1>2, <1>6, Fields DEF TypeOK
<1>11. TypeOK'
  BY <1>1, <1>6, <1>8, <1>9, <1>10 DEF TypeOK
<1>12. CacheShape'
  <2>1. Machine' = [a |-> anchor', c |-> context']
    BY DEF Machine
  <2>2. Running(Machine')
    BY <1>2, <1>3, <1>9, <2>1 DEF Running
  <2>3. Open(Machine')
    <3> DEFINE b == anchor.blocks[context.block]
    <3>1. anchor.blocks \in Seq(Blocks) /\ context.block \in DOMAIN anchor.blocks
      BY <1>2, <1>3, Fields DEF Open, Building
    <3>2. b \in Blocks
      BY <3>1
    <3>3. b.gp_lo \in Nat /\ b.hp \in Nat /\ context.gp \in Nat /\ context.hp \in Nat
      BY <1>2, <3>2, BlockFields, Fields
    <3>4. b.gp_lo <= context.gp /\ b.hp <= context.hp
      BY <1>2, <1>3 DEF Open, Building
    <3> HIDE DEF b
    <3>5. b.gp_lo <= context'.gp /\ b.hp <= context'.hp
      BY <1>5, <1>8, <3>3, <3>4
    <3>6. anchor'.blocks[context'.block] = b
      BY <1>8, <1>9 DEF SameBlocks, b
    <3> QED
      BY <1>2, <1>3, <1>8, <1>9, <2>1, <3>1, <3>5, <3>6 DEF Open, Building, SameBlocks, b
  <2> QED BY <1>9, <1>10, <2>2, <2>3 DEF CacheShape, Decoding
<1>13. OnProgram'
  BY <1>4, <1>6, <1>8, <1>9 DEF OnProgram
<1> QED
  BY <1>9, <1>11, <1>12, <1>13 DEF SafeInv

(* Join ends with the branch word: a machine at the next host word.        *)
LEMMA NextWord ==
  ASSUME NEW m \in Machines
  PROVE  LET n == [m EXCEPT !.c.hp = @ + 1]
         IN  /\ n \in Machines /\ n.a = m.a /\ n.c.gp = m.c.gp /\ n.c.hp = m.c.hp + 1
             /\ n.c.loffp = m.c.loffp /\ n.c.block = m.c.block
             /\ Open(m) => Open(n)
<1> DEFINE c2 == [m.c EXCEPT !.hp = @ + 1]
           n == [m EXCEPT !.c.hp = @ + 1]
<1>1. /\ m.a \in Anchors /\ m.c \in Contexts /\ m.c.hp \in Nat
      /\ m.a.blocks \in Seq(Blocks)
  BY Fields
<1>2. n = [a |-> m.a, c |-> c2]
  BY DEF Machines
<1>3. /\ c2 \in Contexts /\ c2.gp = m.c.gp /\ c2.hp = m.c.hp + 1
      /\ c2.loffp = m.c.loffp /\ c2.block = m.c.block
  BY <1>1 DEF Contexts
<1> HIDE DEF c2
<1>4. ASSUME Open(m) PROVE Open([a |-> m.a, c |-> c2])
  <2>1. m.a.blocks[m.c.block] \in Blocks
    BY <1>1, <1>4 DEF Open, Building
  <2>2. m.a.blocks[m.c.block].hp \in Nat
    BY <2>1, BlockFields
  <2>3. m.a.blocks[m.c.block].hp <= m.c.hp + 1
    BY <1>1, <1>4, <2>2 DEF Open, Building
  <2> QED BY <1>3, <1>4, <2>3 DEF Open, Building
<1> QED
  BY <1>1, <1>2, <1>3, <1>4 DEF Machines

LEMMA JoinSafe ==
  ASSUME SafeInv, Join
  PROVE  SafeInv'
<1> DEFINE m == cache_block_point(Machine)
           n == [m EXCEPT !.c.hp = @ + 1]
<1>1. TypeOK /\ CacheShape /\ OnProgram /\ IdsValid /\ pc = "lookup"
  BY DEF SafeInv, Join
<1>2. /\ Machine \in Machines /\ Machine.a = anchor /\ Machine.c = context
      /\ anchor \in Anchors
  BY <1>1, MachineType DEF TypeOK
<1>3. Running(Machine) /\ AnchorInv(Machine.a) /\ Open(Machine)
  BY <1>1, <1>2 DEF CacheShape, Decoding
<1>4. /\ m \in Machines /\ AnchorInv(m.a) /\ (Running(m) => Open(m)) /\ Kept(Machine, m)
  BY <1>2, <1>3, PointType
<1>5. Continue(n, "end") /\ code' = code \cup {<<context.gp, context.hp>>}
      /\ UNCHANGED <<guest, site, goal, dest, sites, cleared>>
  BY DEF Join
<1> HIDE DEF m
<1>6. /\ n \in Machines /\ AnchorInv(n.a) /\ (Running(n) => Open(n)) /\ n.a = m.a
  BY <1>4, NextWord DEF Running
<1> HIDE DEF n
<1>7. /\ anchor' \in Anchors /\ context' \in Contexts /\ Machine' = n
      /\ anchor' = n.a /\ context' = n.c /\ pc' \in {"end", "exit"}
      /\ pc' # "exit" => Running(n)
  BY <1>5, <1>6, ContinueType DEF Labels
<1>8. context.gp \in Nat /\ context.hp \in Nat
  BY <1>2, Fields
<1>9. links' \subseteq Links
  <2>1. PICK t \in cache_search(anchor, context.gp) \ {NULL} :
          links' = links \cup {[hp |-> context.hp, target |-> context.gp, dest |-> t]}
    BY DEF Join
  <2>2. t \in Found(anchor, context.gp)
    BY <2>1 DEF cache_search
  <2>3. InBounds(anchor)
    BY <1>2, <1>3 DEF AnchorInv
  <2>4. t \in Nat
    BY <1>2, <1>8, <2>2, <2>3, FoundType
  <2> QED BY <1>1, <1>8, <2>1, <2>4 DEF TypeOK, Links
<1>10. TypeOK'
  BY <1>1, <1>5, <1>7, <1>8, <1>9 DEF TypeOK
<1>11. CacheShape'
  BY <1>6, <1>7 DEF CacheShape, Decoding
<1>12. OnProgram' /\ IdsValid'
  <2>1. anchor'.jumps = anchor.jumps /\ anchor'.reuse = anchor.reuse
    BY <1>2, <1>4, <1>6, <1>7 DEF Kept
  <2> QED BY <1>5, <1>7, <2>1, KeptIds DEF OnProgram
<1> QED
  BY <1>10, <1>11, <1>12 DEF SafeInv

(* The end of decode() does not depend on all BRK words being in place:    *)
(* the debugger may take one away in the same step.                        *)
LEMMA EndStep ==
  ASSUME SafeInv, pc = "end", Continue(cache_block_end(Machine), "finish"),
         sites' \subseteq sites, UNCHANGED <<guest, site, goal, dest, links, code, cleared>>
  PROVE  SafeInv' /\ DOMAIN anchor'.jumps = DOMAIN anchor.jumps
<1> DEFINE m == cache_block_end(Machine)
<1>1. TypeOK /\ CacheShape /\ OnProgram /\ IdsValid /\ pc = "end"
  BY DEF SafeInv
<1>2. Machine \in Machines /\ Machine.a = anchor /\ Machine.c = context
  BY <1>1, MachineType
<1>3. Running(Machine) /\ AnchorInv(Machine.a) /\ Building(Machine)
  BY <1>1, <1>2 DEF CacheShape, Decoding, Open
<1>4. m \in Machines /\ AnchorInv(m.a) /\ Closed(m) /\ Ended(Machine, m)
  BY <1>2, <1>3, EndType
<1>5. /\ Continue(m, "finish") /\ sites' \subseteq sites
      /\ UNCHANGED <<guest, site, goal, dest, links, code, cleared>>
  OBVIOUS
<1> HIDE DEF m
<1>6. /\ anchor' \in Anchors /\ context' \in Contexts /\ Machine' = m
      /\ anchor' = m.a /\ context' = m.c /\ pc' \in {"finish", "exit"}
      /\ pc' # "exit" => Running(m)
  BY <1>4, <1>5, ContinueType DEF Labels
<1>7. TypeOK'
  BY <1>1, <1>5, <1>6 DEF TypeOK
<1>8. CacheShape'
  BY <1>4, <1>6 DEF CacheShape, Decoding
<1>9. anchor'.jumps = anchor.jumps /\ anchor'.reuse = anchor.reuse
  BY <1>2, <1>4, <1>6 DEF Ended
<1>10. OnProgram' /\ IdsValid'
  BY <1>1, <1>5, <1>6, <1>9 DEF OnProgram, IdsValid, ReuseValid
<1> QED
  BY <1>7, <1>8, <1>9, <1>10 DEF SafeInv

LEMMA EndSafe ==
  ASSUME SafeInv, End
  PROVE  SafeInv'
BY EndStep DEF End

LEMMA ClearSafe ==
  ASSUME SafeInv, Clear
  PROVE  SafeInv'
<1> DEFINE a2 == cache_clear(anchor)
<1>1. /\ TypeOK /\ CacheShape /\ pc = "idle" /\ anchor \in Anchors
  BY DEF SafeInv, Clear, TypeOK
<1>2. /\ anchor' = a2 /\ sites' = {} /\ links' = {} /\ code' = {} /\ cleared' = TRUE
      /\ UNCHANGED <<guest, context, pc, site, goal, dest>>
  BY DEF Clear
<1>3. /\ a2.blocks = << >> /\ a2.offsets = << >> /\ a2.offsets_p = 0
      /\ a2.jumps = << >> /\ a2.reuse = << >> /\ a2.panic = "none"
      /\ a2.jumps_c = anchor.jumps_c
  BY DEF cache_clear, cahce_init
<1>4. a2 \in Anchors
  <2>1. << >> \in Seq(Blocks) /\ << >> \in Seq(Points) /\ << >> \in Seq(Jumps)
        /\ << >> \in Seq(Nat)
    BY EmptySeq
  <2>2. anchor.jumps_c \in Nat
    BY <1>1, AnchorFields
  <2> QED BY <2>1, <2>2 DEF cache_clear, cahce_init, Anchors
<1> HIDE DEF a2
<1>5. AnchorInv(a2)
  <2>1. 0 < anchor.jumps_c
    <3>1. Len(anchor.jumps) < anchor.jumps_c
      BY <1>1 DEF CacheShape, AnchorInv, InBounds
    <3> QED BY <1>1, <3>1, AnchorFields
  <2> QED BY <1>3, <2>1, CacheAssumption DEF AnchorInv, InBounds
<1>6. TypeOK'
  BY <1>1, <1>2, <1>4 DEF TypeOK
<1>7. CacheShape'
  BY <1>1, <1>2, <1>3, <1>5 DEF CacheShape, Decoding, Running, Closed, Machine
<1>8. OnProgram' /\ IdsValid'
  BY <1>1, <1>2, <1>3 DEF OnProgram, IdsValid, ReuseValid
<1> QED
  BY <1>6, <1>7, <1>8 DEF SafeInv

-----------------------------------------------------------------------------
LEMMA SafeStep == SafeInv /\ [Next]_vars => SafeInv'
<1> SUFFICES ASSUME SafeInv, [Next]_vars PROVE SafeInv'
  OBVIOUS
<1>1. CASE \E s \in sites : Brk(s)
  BY <1>1, BrkSafe
<1>2. CASE \E g \in DOMAIN guest : Segv(g)
  BY <1>2, QuietSafe
<1>3. CASE Handler
  BY <1>3, QuietSafe, MissSafe, PointSafe, InstrSafe, JoinSafe, EndSafe DEF Handler
<1>4. CASE Clear
  BY <1>4, ClearSafe
<1>5. CASE UNCHANGED vars
  BY <1>5 DEF vars, SafeInv, TypeOK, CacheShape, Decoding, OnProgram, IdsValid, Machine
<1> QED
  BY <1>1, <1>2, <1>3, <1>4, <1>5 DEF Next

THEOREM SafeInvariant == Spec => []SafeInv
BY InitSafe, SafeStep, PTL DEF Spec

(***************************************************************************)
(* The model is typed, for every guest program and every size of tables.   *)
(***************************************************************************)
THEOREM TypeCorrect == Spec => []TypeOK
<1>1. SafeInv => TypeOK
  BY DEF SafeInv
<1> QED
  BY <1>1, SafeInvariant, PTL

(***************************************************************************)
(* The overflow checks of cache.c are sufficient: no slot outside an array *)
(* is ever used, in whatever order handlers and the clearing run.          *)
(***************************************************************************)
THEOREM TablesStayInBounds == Spec => []TablesInBounds
<1>1. SafeInv => TablesInBounds
  BY DEF SafeInv, CacheShape, AnchorInv, TablesInBounds, Open, Building, Machine
<1> QED
  BY <1>1, SafeInvariant, PTL

-----------------------------------------------------------------------------
(***************************************************************************)
(* Patch ids.  Own(L, a): the records of a serve exactly the words of L.   *)
(* The word a handler is serving has given its id back, and the id may be  *)
(* taken by a branch that the same handler translates; that the two words  *)
(* are never confused needs SiteOrder: new words lie above all others.     *)
(***************************************************************************)
Own(L, a) ==
  /\ \A s \in L : s.id \in DOMAIN a.jumps /\ a.jumps[s.id] = [kind |-> s.kind, target |-> s.target]
  /\ \A s, t \in L : s.id = t.id => s = t
  /\ \A s \in L : \A k \in DOMAIN a.reuse : a.reuse[k] # s.id
  /\ \A j, k \in DOMAIN a.reuse : a.reuse[j] = a.reuse[k] => j = k
  /\ \A id \in DOMAIN a.jumps :
       (\E s \in L : s.id = id) \/ (\E k \in DOMAIN a.reuse : a.reuse[k] = id)

LEMMA OwnIsPatchIds == PatchIds <=> Own(LiveSites, anchor)
BY DEF PatchIds, Own

SiteOrder ==
  /\ pc = "idle" => site \notin sites
  /\ pc \notin {"idle", "exit"} /\ site # NULL => site \in sites
  /\ Decoding => \A s \in sites : s.hp < context.hp
  /\ pc \in {"idle", "resolve", "finish"} => \A s \in sites : s.hp < anchor.host_p

LEMMA OwnGet ==
  ASSUME NEW a \in Anchors, AnchorInv(a), a.panic = "none",
         NEW L, NEW s \in L, s.id \in Nat, Own(L, a)
  PROVE  Own(L \ {s}, cache_get_patch(a, s.id))
<1> DEFINE n == cache_get_patch(a, s.id)
           l == Len(a.reuse)
<1>1. n.jumps = a.jumps /\ n.reuse = Append(a.reuse, s.id)
  BY GetPatchType
<1>2. a.reuse \in Seq(Nat) /\ l \in Nat /\ DOMAIN a.reuse = 1 .. l
  BY AnchorFields
<1>3. /\ n.reuse \in Seq(Nat) /\ Len(n.reuse) = l + 1 /\ n.reuse[l + 1] = s.id
      /\ \A k \in 1 .. l : n.reuse[k] = a.reuse[k]
  BY <1>1, <1>2, AppendProperties
<1>4. DOMAIN n.reuse = 1 .. l + 1
  BY <1>2, <1>3
<1> HIDE DEF n, l
<1>5. \A t \in L \ {s} : t.id \in DOMAIN n.jumps /\ n.jumps[t.id] = [kind |-> t.kind, target |-> t.target]
  BY <1>1 DEF Own
<1>6. \A t, u \in L \ {s} : t.id = u.id => t = u
  BY DEF Own
<1>7. \A t \in L \ {s} : \A k \in DOMAIN n.reuse : n.reuse[k] # t.id
  <2> SUFFICES ASSUME NEW t \in L \ {s}, NEW k \in 1 .. l + 1 PROVE n.reuse[k] # t.id
    BY <1>4
  <2>1. CASE k = l + 1
    <3>1. t.id # s.id
      BY DEF Own
    <3> QED BY <1>3, <2>1, <3>1
  <2>2. CASE k # l + 1
    <3>1. k \in 1 .. l
      BY <1>2, <2>2
    <3>2. a.reuse[k] # t.id
      BY <1>2, <3>1 DEF Own
    <3> QED BY <1>3, <3>1, <3>2
  <2> QED BY <2>1, <2>2
<1>8. \A j, k \in DOMAIN n.reuse : n.reuse[j] = n.reuse[k] => j = k
  <2> SUFFICES ASSUME NEW j \in 1 .. l + 1, NEW k \in 1 .. l + 1, n.reuse[j] = n.reuse[k]
               PROVE  j = k
    BY <1>4
  <2>1. \A i \in 1 .. l : n.reuse[i] = a.reuse[i] /\ a.reuse[i] # s.id
    BY <1>2, <1>3 DEF Own
  <2>2. CASE j \in 1 .. l /\ k \in 1 .. l
    <3>1. a.reuse[j] = a.reuse[k]
      BY <2>1, <2>2
    <3> QED BY <1>2, <2>2, <3>1 DEF Own
  <2>3. CASE j \in 1 .. l /\ k = l + 1
    BY <1>3, <2>1, <2>3
  <2>4. CASE j = l + 1 /\ k \in 1 .. l
    BY <1>3, <2>1, <2>4
  <2>5. (j \in 1 .. l \/ j = l + 1) /\ (k \in 1 .. l \/ k = l + 1)
    BY <1>2
  <2> QED BY <2>2, <2>3, <2>4, <2>5
<1>9. \A id \in DOMAIN n.jumps :
        (\E t \in L \ {s} : t.id = id) \/ (\E k \in DOMAIN n.reuse : n.reuse[k] = id)
  <2> SUFFICES ASSUME NEW id \in DOMAIN a.jumps
               PROVE  (\E t \in L \ {s} : t.id = id) \/ (\E k \in DOMAIN n.reuse : n.reuse[k] = id)
    BY <1>1
  <2>1. CASE \E k \in DOMAIN a.reuse : a.reuse[k] = id
    <3>1. PICK k \in DOMAIN a.reuse : a.reuse[k] = id
      BY <2>1
    <3>2. k \in 1 .. l /\ k \in 1 .. l + 1
      BY <1>2, <3>1
    <3> QED BY <1>3, <1>4, <3>1, <3>2
  <2>2. CASE \E t \in L : t.id = id
    <3>1. PICK t \in L : t.id = id
      BY <2>2
    <3>2. CASE t = s
      <4>1. l + 1 \in DOMAIN n.reuse
        BY <1>2, <1>4
      <4> QED BY <1>3, <3>1, <3>2, <4>1
    <3>3. CASE t # s
      BY <3>1, <3>3
    <3> QED BY <3>2, <3>3
  <2> QED BY <2>1, <2>2 DEF Own
<1>10. Own(L \ {s}, n)
  BY <1>5, <1>6, <1>7, <1>8, <1>9 DEF Own
<1> QED
  BY <1>10 DEF n

LEMMA OwnTake ==
  ASSUME NEW a \in Anchors, AnchorInv(a), ReuseValid(a),
         NEW kind \in Patched, NEW target \in Nat, NEW hp, NEW L, Own(L, a)
  PROVE  LET s == [hp |-> hp, id |-> cache_patch_id(a), kind |-> kind, target |-> target]
         IN  Own(L \cup {s}, cache_patch_point(a, kind, target))
<1> DEFINE x == cache_patch_id(a)
           s == [hp |-> hp, id |-> x, kind |-> kind, target |-> target]
           n == cache_patch_point(a, kind, target)
           l == Len(a.reuse)
<1>1. /\ n \in Anchors /\ x \in DOMAIN n.jumps
      /\ DOMAIN n.jumps = DOMAIN a.jumps \cup {x}
      /\ n.jumps[x] = [kind |-> kind, target |-> target]
      /\ \A i \in DOMAIN a.jumps : i # x => n.jumps[i] = a.jumps[i]
  BY PatchPointType, PatchPointJumps
<1>2. \/ /\ l > 0 /\ x = a.reuse[l] /\ Len(n.reuse) = l - 1
         /\ \A k \in 1 .. l - 1 : n.reuse[k] = a.reuse[k]
      \/ l = 0 /\ n.reuse = a.reuse /\ x \notin DOMAIN a.jumps
  <2>1. TakenFrom(a, n, x)
    BY PatchPointJumps
  <2> HIDE DEF n, x
  <2> QED BY <2>1 DEF TakenFrom
<1>3. s.id = x /\ s.kind = kind /\ s.target = target
  OBVIOUS
<1> SUFFICES Own(L \cup {s}, n)
  OBVIOUS
<1> HIDE DEF x, s, n, l
<1>4. /\ a.reuse \in Seq(Nat) /\ l \in Nat /\ DOMAIN a.reuse = 1 .. l
      /\ n.reuse \in Seq(Nat) /\ Len(n.reuse) \in Nat
  BY <1>1, AnchorFields DEF l
<1>5. \A t \in L : t.id # x
  <2> SUFFICES ASSUME NEW t \in L PROVE t.id # x
    OBVIOUS
  <2>1. t.id \in DOMAIN a.jumps /\ \A k \in 1 .. l : a.reuse[k] # t.id
    BY <1>4 DEF Own
  <2>2. l > 0 => l \in 1 .. l
    BY <1>4
  <2> QED BY <1>2, <2>1, <2>2
<1>6. \A k \in DOMAIN n.reuse : k \in 1 .. l /\ n.reuse[k] = a.reuse[k] /\ n.reuse[k] # x
  <2>1. CASE l > 0 /\ x = a.reuse[l] /\ Len(n.reuse) = l - 1 /\ \A k \in 1 .. l - 1 : n.reuse[k] = a.reuse[k]
    <3> SUFFICES ASSUME NEW k \in 1 .. l - 1
                 PROVE  k \in 1 .. l /\ n.reuse[k] = a.reuse[k] /\ n.reuse[k] # x
      BY <1>4, <2>1
    <3>1. k \in 1 .. l /\ l \in 1 .. l /\ k # l
      BY <1>4
    <3>2. a.reuse[k] # a.reuse[l]
      BY <1>4, <3>1 DEF Own
    <3> QED BY <2>1, <3>1, <3>2
  <2>2. CASE l = 0 /\ n.reuse = a.reuse
    <3>1. DOMAIN n.reuse = {}
      BY <1>4, <2>2
    <3> QED BY <3>1
  <2> QED BY <1>2, <2>1, <2>2
<1>7. \A t \in L \cup {s} :
        t.id \in DOMAIN n.jumps /\ n.jumps[t.id] = [kind |-> t.kind, target |-> t.target]
  <2> SUFFICES ASSUME NEW t \in L \cup {s}
               PROVE  t.id \in DOMAIN n.jumps /\ n.jumps[t.id] = [kind |-> t.kind, target |-> t.target]
    OBVIOUS
  <2>1. CASE t = s
    BY <1>1, <1>3, <2>1
  <2>2. CASE t \in L
    <3>1. t.id \in DOMAIN a.jumps /\ a.jumps[t.id] = [kind |-> t.kind, target |-> t.target]
      BY <2>2 DEF Own
    <3> QED BY <1>1, <1>5, <2>2, <3>1
  <2> QED BY <2>1, <2>2
<1>8. \A t, u \in L \cup {s} : t.id = u.id => t = u
  <2>1. \A t, u \in L : t.id = u.id => t = u
    BY DEF Own
  <2> QED BY <1>3, <1>5, <2>1
<1>9. \A t \in L \cup {s} : \A k \in DOMAIN n.reuse : n.reuse[k] # t.id
  <2>1. \A t \in L : \A k \in DOMAIN n.reuse : n.reuse[k] # t.id
    BY <1>4, <1>6 DEF Own
  <2> QED BY <1>3, <1>6, <2>1
<1>10. \A j, k \in DOMAIN n.reuse : n.reuse[j] = n.reuse[k] => j = k
  BY <1>4, <1>6 DEF Own
<1>11. \A id \in DOMAIN n.jumps :
         (\E t \in L \cup {s} : t.id = id) \/ (\E k \in DOMAIN n.reuse : n.reuse[k] = id)
  <2> SUFFICES ASSUME NEW id \in DOMAIN n.jumps, id # x
               PROVE  (\E t \in L : t.id = id) \/ (\E k \in DOMAIN n.reuse : n.reuse[k] = id)
    BY <1>3
  <2>1. id \in DOMAIN a.jumps
    BY <1>1
  <2>2. ASSUME NEW k \in DOMAIN a.reuse, a.reuse[k] = id PROVE k \in DOMAIN n.reuse /\ n.reuse[k] = id
    <3>1. k \in 1 .. l /\ k # l /\ l > 0
      <4>1. k \in 1 .. l
        BY <1>4, <2>2
      <4>2. l > 0
        BY <1>4, <4>1
      <4> QED BY <1>2, <2>2, <4>1, <4>2
    <3>2. k \in 1 .. l - 1
      BY <1>4, <3>1
    <3>3. Len(n.reuse) = l - 1 /\ \A j \in 1 .. l - 1 : n.reuse[j] = a.reuse[j]
      BY <1>2, <3>1
    <3>4. DOMAIN n.reuse = 1 .. l - 1
      BY <1>4, <3>3
    <3>5. n.reuse[k] = a.reuse[k]
      BY <3>2, <3>3
    <3> QED BY <2>2, <3>2, <3>4, <3>5
  <2> QED BY <2>1, <2>2 DEF Own
<1> QED
  BY <1>7, <1>8, <1>9, <1>10, <1>11 DEF Own

(***************************************************************************)
(* The inductive invariant for the patch ids.                              *)
(***************************************************************************)
IdsInv == SafeInv /\ SiteOrder /\ PatchIds

LEMMA InitIds == Init => IdsInv
<1>1. Init => SiteOrder /\ PatchIds
  BY DEF Init, SiteOrder, PatchIds, LiveSites, cahce_init, Decoding
<1> QED
  BY <1>1, InitSafe DEF IdsInv

(* A step that touches neither the records nor the live words.             *)
LEMMA PatchIdsKept ==
  ASSUME PatchIds, anchor'.jumps = anchor.jumps, anchor'.reuse = anchor.reuse,
         LiveSites' = LiveSites
  PROVE  PatchIds'
BY DEF PatchIds

(* The addresses of words: new ones come last.                             *)
LEMMA OrderStep ==
  ASSUME IdsInv, SafeInv', Next
  PROVE  SiteOrder'
<1>1. /\ TypeOK /\ SiteOrder /\ Machine \in Machines /\ Machine.a = anchor
      /\ Machine.c = context /\ sites \subseteq Sites /\ NULL \notin sites
      /\ CacheShape
  BY MachineType, NullAssumption DEF IdsInv, SafeInv, TypeOK
<1>2. context.hp \in Nat /\ anchor.host_p \in Nat /\ \A s \in sites : s.hp \in Nat
  BY <1>1, Fields DEF Sites
<1>3. ASSUME NEW s \in sites, Brk(s) PROVE SiteOrder'
  <2>1. anchor'.host_p = anchor.host_p
    <3>1. anchor' = cache_get_patch(anchor, s.id)
      BY <1>3 DEF Brk, Continue, Machine
    <3>2. anchor \in Anchors
      BY <1>1 DEF TypeOK
    <3> QED BY <3>1, <3>2 DEF cache_get_patch, Anchors
  <2>2. pc = "idle" /\ site' = s /\ sites' = sites /\ pc' \in {"resolve", "exit"}
    BY <1>3 DEF Brk, Continue
  <2> QED BY <1>1, <1>3, <2>1, <2>2 DEF SiteOrder, Decoding
<1>4. ASSUME NEW g \in DOMAIN guest, Segv(g) PROVE SiteOrder'
  BY <1>1, <1>4 DEF Segv, SiteOrder, Decoding
<1>5. CASE Hit
  BY <1>1, <1>5 DEF Hit, SiteOrder, Decoding
<1>6. CASE Miss
  <2> DEFINE p == [a |-> anchor, c |-> context_pull(anchor, goal)]
             m == cache_block_start(p)
  <2>1. anchor \in Anchors /\ goal \in Nat /\ Running(Machine)
    BY <1>1, <1>6 DEF TypeOK, CacheShape, Miss
  <2>2. p \in Machines /\ p.c.hp = anchor.host_p
    BY <1>2, <2>1, CacheAssumption DEF Machines, Contexts, context_pull
  <2>3. Running(p)
    BY <1>1, <2>1 DEF Running
  <2> HIDE DEF p
  <2>4. m \in Machines /\ Kept(p, m)
    BY <2>2, <2>3, StartShape, StartKeeps
  <2>5. Continue(m, "point")
    BY <1>6 DEF Miss, m, p
  <2> HIDE DEF m
  <2>6. context'.hp = anchor.host_p /\ pc' \in {"point", "exit"}
    BY <2>2, <2>4, <2>5, ContinueType DEF Kept, Labels
  <2> QED BY <1>1, <1>6, <2>6 DEF Miss, SiteOrder, Decoding
<1>7. CASE Point
  <2> DEFINE m == cache_block_point(Machine)
  <2>1. m \in Machines /\ Kept(Machine, m)
    BY <1>1, <1>7, PointType DEF CacheShape, Decoding, Point
  <2>2. Continue(m, "instr")
    BY <1>7 DEF Point
  <2> HIDE DEF m
  <2>3. context'.hp = context.hp /\ pc' \in {"instr", "exit"}
    BY <1>1, <2>1, <2>2, ContinueType DEF Kept, Labels
  <2> QED BY <1>1, <1>7, <2>3 DEF Point, SiteOrder, Decoding
<1>8. CASE Instr
  <2> DEFINE i == guest[context.gp]
  <2>1. i \in Instructions /\ (i.kind \in Patched => i.words > 0)
    BY <1>1, <1>8, ProgramFacts DEF IdsInv, SafeInv, OnProgram, Instr
  <2>2. i.words \in Nat
    BY <2>1 DEF Instructions
  <2>3. /\ context'.hp = context.hp + i.words /\ pc' \in {"end", "lookup"} /\ site' = site
        /\ (sites' = sites \/ (i.kind \in Patched /\ sites' = sites \cup {NewSite(i)}))
    <3>1. context' = [context EXCEPT !.gp = @ + i.len, !.hp = @ + i.words]
      BY <1>8 DEF Instr
    <3>2. context \in Contexts
      BY <1>1 DEF TypeOK
    <3>3. context'.hp = context.hp + i.words
      <4> HIDE DEF i
      <4> QED BY <3>1, <3>2 DEF Contexts
    <3>4. pc' \in {"end", "lookup"} /\ site' = site
      BY <1>8 DEF Instr
    <3>5. (sites' = sites \/ (i.kind \in Patched /\ sites' = sites \cup {NewSite(i)}))
      BY <1>8, InstrSites
    <3> HIDE DEF i
    <3> QED BY <3>3, <3>4, <3>5
  <2>4. NewSite(i).hp = context.hp
    BY DEF NewSite
  <2> HIDE DEF i
  <2>5. \A s \in sites' : s.hp < context'.hp
    <3> SUFFICES ASSUME NEW s \in sites' PROVE s.hp < context'.hp
      OBVIOUS
    <3>1. CASE s \in sites
      <4>1. s.hp < context.hp
        BY <1>1, <1>8, <3>1 DEF SiteOrder, Decoding, Instr
      <4> QED BY <1>2, <2>2, <2>3, <3>1, <4>1
    <3>2. CASE s = NewSite(i) /\ i.kind \in Patched
      BY <1>2, <2>1, <2>2, <2>3, <2>4, <3>2
    <3> QED BY <2>3, <3>1, <3>2
  <2> QED BY <1>1, <1>8, <2>3, <2>5 DEF SiteOrder, Decoding, Instr
<1>9. CASE GoOn
  BY <1>1, <1>9 DEF GoOn, SiteOrder, Decoding
<1>10. CASE Join
  <2> DEFINE m == cache_block_point(Machine)
             n == [m EXCEPT !.c.hp = @ + 1]
  <2>1. m \in Machines /\ Kept(Machine, m)
    BY <1>1, <1>10, PointType DEF CacheShape, Decoding, Join
  <2>2. Continue(n, "end")
    BY <1>10 DEF Join
  <2> HIDE DEF m
  <2>3. n \in Machines /\ n.c.hp = m.c.hp + 1
    BY <2>1, NextWord
  <2> HIDE DEF n
  <2>4. context' = n.c /\ pc' \in {"end", "exit"}
    BY <2>2, <2>3, ContinueType DEF Labels
  <2>5. context'.hp = context.hp + 1
    BY <1>1, <2>1, <2>3, <2>4 DEF Kept
  <2>6. \A s \in sites : s.hp < context.hp
    BY <1>1, <1>10 DEF SiteOrder, Decoding, Join
  <2>7. \A s \in sites : s.hp < context'.hp
    BY <1>2, <2>5, <2>6
  <2> QED BY <1>1, <1>10, <2>4, <2>7 DEF Join, SiteOrder, Decoding
<1>11. CASE End
  <2> DEFINE m == cache_block_end(Machine)
  <2>1. m \in Machines /\ Ended(Machine, m)
    BY <1>1, <1>11, EndType DEF CacheShape, Decoding, End, Open
  <2>2. Continue(m, "finish")
    BY <1>11 DEF End
  <2> HIDE DEF m
  <2>3. anchor'.host_p = context.hp /\ pc' \in {"finish", "exit"}
    BY <1>1, <2>1, <2>2, ContinueType DEF Ended, Labels
  <2> QED BY <1>1, <1>11, <2>3 DEF End, SiteOrder, Decoding
<1>12. CASE Patch
  BY <1>1, <1>12 DEF Patch, SiteOrder, Decoding
<1>13. CASE Resume
  BY <1>1, <1>13 DEF Resume, SiteOrder, Decoding
<1>14. CASE Clear
  BY <1>1, <1>14 DEF Clear, SiteOrder, Decoding
<1> QED
  BY <1>3, <1>4, <1>5, <1>6, <1>7, <1>8, <1>9, <1>10, <1>11, <1>12, <1>13, <1>14
     DEF Next, Handler

(* The records: ids move between the live words and the reuse stack.       *)
LEMMA IdsStep ==
  ASSUME IdsInv, SafeInv', Next
  PROVE  PatchIds'
<1>1. /\ TypeOK /\ SiteOrder /\ PatchIds /\ Machine \in Machines /\ Machine.a = anchor
      /\ Machine.c = context /\ sites \subseteq Sites /\ NULL \notin sites
      /\ CacheShape /\ IdsValid /\ anchor \in Anchors
  BY MachineType, NullAssumption DEF IdsInv, SafeInv, TypeOK
<1>2. Own(LiveSites, anchor)
  BY <1>1, OwnIsPatchIds
<1>3. ASSUME NEW s \in sites, Brk(s) PROVE PatchIds'
  <2>1. anchor' = cache_get_patch(anchor, s.id) /\ LiveSites = sites /\ LiveSites' = sites \ {s}
    BY <1>1, <1>3 DEF Brk, Continue, Machine, LiveSites, SiteOrder
  <2>2. s.id \in Nat /\ AnchorInv(anchor) /\ anchor.panic = "none"
    BY <1>1, <1>3 DEF Sites, CacheShape, Brk, Running
  <2>3. Own(sites \ {s}, anchor')
    BY <1>1, <1>2, <2>1, <2>2, OwnGet
  <2>4. Own(LiveSites', anchor')
    BY <2>1, <2>3
  <2> QED BY <2>4 DEF PatchIds, Own
<1>4. ASSUME NEW g \in DOMAIN guest, Segv(g) PROVE PatchIds'
  <2>1. LiveSites' = LiveSites
    BY <1>1, <1>4 DEF Segv, LiveSites, SiteOrder
  <2> QED BY <1>1, <1>4, <2>1, PatchIdsKept DEF Segv
<1>5. CASE Hit \/ GoOn
  BY <1>1, <1>5, PatchIdsKept DEF Hit, GoOn, LiveSites
<1>6. CASE Miss
  <2> DEFINE p == [a |-> anchor, c |-> context_pull(anchor, goal)]
             m == cache_block_start(p)
  <2>1. goal \in Nat /\ Running(Machine)
    BY <1>1, <1>6 DEF TypeOK, CacheShape, Miss
  <2>2. p \in Machines /\ p.a = anchor
    <3>1. anchor.host_p \in Nat
      BY <1>1, Fields
    <3> QED BY <1>1, <2>1, <3>1, CacheAssumption DEF Machines, Contexts, context_pull
  <2>3. Running(p)
    BY <1>1, <2>1 DEF Running
  <2> HIDE DEF p
  <2>4. m \in Machines /\ Kept(p, m)
    BY <2>2, <2>3, StartShape, StartKeeps
  <2>5. Continue(m, "point")
    BY <1>6 DEF Miss, m, p
  <2> HIDE DEF m
  <2>6. anchor'.jumps = anchor.jumps /\ anchor'.reuse = anchor.reuse
    BY <2>2, <2>4, <2>5, ContinueType DEF Kept, Labels
  <2>7. LiveSites' = LiveSites
    BY <1>6 DEF Miss, LiveSites
  <2> QED BY <1>1, <2>6, <2>7, PatchIdsKept
<1>7. CASE Point \/ Join
  <2> DEFINE m == cache_block_point(Machine)
             n == [m EXCEPT !.c.hp = @ + 1]
  <2>1. m \in Machines /\ Kept(Machine, m)
    BY <1>1, <1>7, PointType DEF CacheShape, Decoding, Point, Join
  <2>2. Continue(m, "instr") \/ Continue(n, "end")
    BY <1>7 DEF Point, Join
  <2> HIDE DEF m
  <2>3. n \in Machines /\ n.a = m.a
    BY <2>1, NextWord
  <2> HIDE DEF n
  <2>4. anchor' = m.a
    BY <2>1, <2>2, <2>3, ContinueType DEF Labels
  <2>5. anchor'.jumps = anchor.jumps /\ anchor'.reuse = anchor.reuse
    BY <1>1, <2>1, <2>4 DEF Kept
  <2>6. LiveSites' = LiveSites
    BY <1>7 DEF Point, Join, LiveSites
  <2> QED BY <1>1, <2>5, <2>6, PatchIdsKept
<1>8. CASE Instr
  <2> DEFINE i == guest[context.gp]
  <2>1. i \in Instructions /\ site' = site
    BY <1>1, <1>8, ProgramFacts DEF IdsInv, SafeInv, OnProgram, Instr
  <2>2. \/ /\ i.kind \in Patched
           /\ anchor' = cache_patch_point(anchor, i.kind, i.target)
           /\ sites' = sites \cup {NewSite(i)}
        \/ anchor' = anchor /\ sites' = sites
    BY <1>8, InstrSites
  <2> HIDE DEF i
  <2>3. CASE anchor' = anchor /\ sites' = sites
    BY <1>1, <2>1, <2>3, PatchIdsKept DEF LiveSites
  <2>4. CASE /\ i.kind \in Patched
             /\ anchor' = cache_patch_point(anchor, i.kind, i.target)
             /\ sites' = sites \cup {NewSite(i)}
    <3>1. /\ i.target \in Nat /\ AnchorInv(anchor) /\ ReuseValid(anchor)
          /\ pc = "instr"
      BY <1>1, <1>8, <2>1 DEF Instructions, CacheShape, IdsValid, Instr
    <3>2. Own(LiveSites \cup {NewSite(i)}, anchor')
      BY <1>1, <1>2, <2>4, <3>1, OwnTake DEF NewSite
    <3>3. NewSite(i) # site
      <4>1. CASE site \in sites
        <5>1. site.hp < context.hp /\ site.hp \in Nat /\ context.hp \in Nat
          BY <1>1, <3>1, <4>1, Fields DEF SiteOrder, Decoding, Sites
        <5>2. NewSite(i).hp = context.hp
          BY DEF NewSite
        <5> QED BY <5>1, <5>2
      <4>2. CASE site \notin sites
        <5>1. site = NULL
          BY <1>1, <3>1, <4>2 DEF SiteOrder
        <5>2. NewSite(i) \in Sites
          BY <2>4 DEF SafeInv, TypeOK
        <5> QED BY <5>1, <5>2, NullAssumption
      <4> QED BY <4>1, <4>2
    <3>4. LiveSites' = LiveSites \cup {NewSite(i)}
      BY <2>1, <2>4, <3>3 DEF LiveSites
    <3>5. Own(LiveSites', anchor')
      BY <3>2, <3>4
    <3> QED BY <3>5 DEF PatchIds, Own
  <2> QED BY <2>2, <2>3, <2>4
<1>9. CASE End
  <2> DEFINE m == cache_block_end(Machine)
  <2>1. m \in Machines /\ Ended(Machine, m)
    BY <1>1, <1>9, EndType DEF CacheShape, Decoding, End, Open
  <2>2. Continue(m, "finish")
    BY <1>9 DEF End
  <2> HIDE DEF m
  <2>3. anchor'.jumps = anchor.jumps /\ anchor'.reuse = anchor.reuse
    BY <1>1, <2>1, <2>2, ContinueType DEF Ended, Labels
  <2>4. LiveSites' = LiveSites
    BY <1>9 DEF End, LiveSites
  <2> QED BY <1>1, <2>3, <2>4, PatchIdsKept
<1>10. CASE Patch \/ Resume
  <2>1. LiveSites' = LiveSites
    BY <1>10 DEF Patch, Resume, LiveSites
  <2> QED BY <1>1, <1>10, <2>1, PatchIdsKept DEF Patch, Resume
<1>11. CASE Clear
  <2>1. LiveSites' = {} /\ anchor'.jumps = << >> /\ anchor'.reuse = << >>
    BY <1>11 DEF Clear, LiveSites, cache_clear, cahce_init
  <2> QED BY <2>1 DEF PatchIds
<1> QED
  BY <1>3, <1>4, <1>5, <1>6, <1>7, <1>8, <1>9, <1>10, <1>11 DEF Next, Handler

LEMMA IdsNext == IdsInv /\ [Next]_vars => IdsInv'
<1> SUFFICES ASSUME IdsInv, [Next]_vars PROVE IdsInv'
  OBVIOUS
<1>1. SafeInv'
  BY SafeStep DEF IdsInv
<1>2. CASE Next
  BY <1>1, <1>2, OrderStep, IdsStep DEF IdsInv
<1>3. CASE UNCHANGED vars
  BY <1>1, <1>3 DEF vars, IdsInv, SiteOrder, PatchIds, LiveSites, Decoding
<1> QED BY <1>2, <1>3

(***************************************************************************)
(* Every live BRK word has a patch record of its own, no id is on the      *)
(* reuse stack while a word uses it, and none is lost.                     *)
(***************************************************************************)
THEOREM PatchIdsUnique == Spec => []PatchIds
<1>1. IdsInv => PatchIds
  BY DEF IdsInv
<1> QED
  BY <1>1, IdsNext, InitIds, PTL DEF Spec

(***************************************************************************)
(* The cache answers the right address, for every program and every size   *)
(* of the tables: what it can be asked for is where the translation of     *)
(* that instruction stands, it never takes an answer back, and its tables  *)
(* are sorted as the two binary searches of cache.c need them.             *)
(*                                                                         *)
(* The tables alone are not enough for an induction: the points of the     *)
(* block under construction are written, but no block owns them yet.       *)
(* Claims(m) are the entries together with these pending points; an        *)
(* operation of cache.c adds at most the pair (c.gp, c.hp) to them.        *)
(***************************************************************************)

PointAt(a, b, k) == <<b.gp_lo + a.offsets[k].goff, b.hp + a.offsets[k].hoff>>

Pending(m) ==
  {PointAt(m.a, m.a.blocks[m.c.block], k) : k \in m.a.offsets_p + 1 .. Len(m.a.offsets)}

Claims(m) == Entries(m.a) \cup Pending(m)

(* n says no more than m and the place c; nothing published is lost.       *)
Grows(m, n) ==
  /\ Entries(m.a) \subseteq Entries(n.a)
  /\ Claims(n) \subseteq Claims(m) \cup {<<m.c.gp, m.c.hp>>}

LEMMA EntryMember ==
  ASSUME NEW a, NEW e
  PROVE  e \in Entries(a) <=>
           \E i \in DOMAIN a.blocks :
             \/ e = <<a.blocks[i].gp_lo, a.blocks[i].hp>>
             \/ e \in PointsOf(a, a.blocks[i])
BY DEF Entries, Starts

LEMMA PointMember ==
  ASSUME NEW a, NEW b, NEW e
  PROVE  e \in PointsOf(a, b) <=>
           \E k \in b.offsets + 1 .. b.offsets + b.offsetssz : e = PointAt(a, b, k)
BY DEF PointsOf, PointAt

(* Nothing is pending where no block is under construction.                *)
LEMMA ClosedClaims ==
  ASSUME NEW m \in Machines, Closed(m)
  PROVE  Claims(m) = Entries(m.a)
<1>1. m.a.offsets_p + 1 .. Len(m.a.offsets) = {}
  BY Fields DEF Closed
<1> QED BY <1>1 DEF Claims, Pending

(* Entries and claims depend on the blocks, the points and the open block. *)
LEMMA SameClaims ==
  ASSUME NEW m, NEW n, n.a.blocks = m.a.blocks, n.a.offsets = m.a.offsets
  PROVE  /\ Entries(n.a) = Entries(m.a)
         /\ n.a.offsets_p = m.a.offsets_p /\ n.c.block = m.c.block => Claims(n) = Claims(m)
<1>1. Entries(n.a) = Entries(m.a)
  BY DEF Entries, Starts, PointsOf
<1> QED BY <1>1 DEF Claims, Pending, PointAt

LEMMA PanicGrows ==
  ASSUME NEW m \in Machines, NEW why \in Panics
  PROVE  Grows(m, Panic(m, why))
<1> DEFINE n == Panic(m, why)
<1>1. n.a.blocks = m.a.blocks /\ n.a.offsets = m.a.offsets /\ n.a.offsets_p = m.a.offsets_p /\ n.c = m.c
  BY Fields DEF Panic, Machines, Anchors
<1> HIDE DEF n
<1>2. Entries(n.a) = Entries(m.a) /\ Claims(n) = Claims(m)
  BY <1>1, SameClaims
<1> QED BY <1>2 DEF Grows, n

LEMMA GrowsTransitive ==
  ASSUME NEW m, NEW n, NEW o, Grows(m, n), Grows(n, o), n.c.gp = m.c.gp, n.c.hp = m.c.hp
  PROVE  Grows(m, o)
BY DEF Grows

LEMMA GrowsReflexive == ASSUME NEW m PROVE Grows(m, m)
BY DEF Grows

-----------------------------------------------------------------------------
(* An insertion moves blocks and changes none.                             *)
LEMMA Inserted ==
  ASSUME NEW blocks \in Seq(Blocks), NEW p \in 1 .. Len(blocks) + 1, NEW b \in Blocks
  PROVE  LET new == Insert(blocks, p, b)
         IN  /\ \A i \in DOMAIN blocks : \E j \in DOMAIN new : new[j] = blocks[i]
             /\ \A j \in DOMAIN new : new[j] = b \/ \E i \in DOMAIN blocks : new[j] = blocks[i]
<1> DEFINE new == Insert(blocks, p, b)
<1> SUFFICES /\ \A i \in DOMAIN blocks : \E j \in DOMAIN new : new[j] = blocks[i]
             /\ \A j \in DOMAIN new : new[j] = b \/ \E i \in DOMAIN blocks : new[j] = blocks[i]
  OBVIOUS
<1>a. /\ new \in Seq(Blocks) /\ Len(new) = Len(blocks) + 1
      /\ \A i \in 1 .. p - 1 : new[i] = blocks[i]
      /\ new[p] = b
      /\ \A i \in p + 1 .. Len(blocks) + 1 : new[i] = blocks[i - 1]
  BY InsertProperties
<1> HIDE DEF new
<1>b. DOMAIN new = 1 .. Len(blocks) + 1 /\ DOMAIN blocks = 1 .. Len(blocks) /\ Len(blocks) \in Nat
  BY <1>a
<1>1. /\ DOMAIN new = 1 .. Len(blocks) + 1
      /\ DOMAIN blocks = 1 .. Len(blocks) /\ Len(blocks) \in Nat
      /\ \A i \in 1 .. p - 1 : new[i] = blocks[i]
      /\ new[p] = b
      /\ \A i \in p + 1 .. Len(blocks) + 1 : new[i] = blocks[i - 1]
  BY <1>a, <1>b
<1>2. ASSUME NEW i \in DOMAIN blocks PROVE \E j \in DOMAIN new : new[j] = blocks[i]
  <2>1. CASE i < p
    <3>1. i \in 1 .. p - 1 /\ i \in DOMAIN new
      BY <1>1, <2>1
    <3> QED BY <1>1, <3>1
  <2>2. CASE i >= p
    <3>1. i + 1 \in p + 1 .. Len(blocks) + 1 /\ i + 1 \in DOMAIN new /\ (i + 1) - 1 = i
      BY <1>1, <2>2
    <3>2. new[i + 1] = blocks[i]
      BY <1>1, <3>1
    <3> QED BY <3>1, <3>2
  <2> QED BY <1>1, <2>1, <2>2
<1>3. ASSUME NEW j \in DOMAIN new, j # p PROVE \E i \in DOMAIN blocks : new[j] = blocks[i]
  <2>1. CASE j < p
    <3>1. j \in 1 .. p - 1 /\ j \in DOMAIN blocks
      BY <1>1, <2>1
    <3> QED BY <1>1, <3>1
  <2>2. CASE j > p
    <3>1. j \in p + 1 .. Len(blocks) + 1 /\ j - 1 \in DOMAIN blocks
      BY <1>1, <2>2
    <3> QED BY <1>1, <3>1
  <2> QED BY <1>1, <1>3, <2>1, <2>2
<1> QED BY <1>1, <1>2, <1>3

(* A new block claims the place where it starts, and has no points yet.    *)
LEMMA StartGrows ==
  ASSUME NEW m \in Machines, Running(m), Closed(m), AnchorInv(m.a)
  PROVE  Grows(m, cache_block_start(m))
<1> DEFINE n == cache_block_start(m)
<1>1. CASE n = Panic(m, "blocks")
  BY <1>1, PanicGrows DEF Panics
<1>2. CASE Started(m, n)
  <2> DEFINE b == NewBlock(m.c)
             p == n.c.block
  <2>a. m.c.gp \in Nat /\ m.c.hp \in Nat /\ m.a.blocks \in Seq(Blocks)
    BY Fields
  <2>b. b \in Blocks
    BY <2>a, CacheAssumption DEF NewBlock, Blocks
  <2>c. p \in 1 .. Len(m.a.blocks) + 1
    BY <1>2 DEF Started
  <2>1. b \in Blocks /\ m.a.blocks \in Seq(Blocks) /\ p \in 1 .. Len(m.a.blocks) + 1
    BY <2>a, <2>b, <2>c
  <2>2. n.a.blocks = Insert(m.a.blocks, p, b) /\ n.a.offsets = m.a.offsets
        /\ n.a.offsets_p = m.a.offsets_p /\ n.c.loffp = m.c.loffp
    BY <1>2 DEF Started
  <2>3. b.gp_lo = m.c.gp /\ b.hp = m.c.hp /\ b.offsets = 0 /\ b.offsetssz = 0
    BY DEF NewBlock
  <2>4. n \in Machines
    BY StartShape
  <2>5. Closed(n)
    BY <2>2 DEF Closed
  <2> SUFFICES Grows(m, n)
    OBVIOUS
  <2> HIDE DEF b, p, n
  <2>6. /\ \A i \in DOMAIN m.a.blocks : \E j \in DOMAIN n.a.blocks : n.a.blocks[j] = m.a.blocks[i]
        /\ \A j \in DOMAIN n.a.blocks :
             n.a.blocks[j] = b \/ \E i \in DOMAIN m.a.blocks : n.a.blocks[j] = m.a.blocks[i]
    <3>1. LET new == Insert(m.a.blocks, p, b)
          IN  /\ \A i \in DOMAIN m.a.blocks : \E j \in DOMAIN new : new[j] = m.a.blocks[i]
              /\ \A j \in DOMAIN new :
                   new[j] = b \/ \E i \in DOMAIN m.a.blocks : new[j] = m.a.blocks[i]
      BY <2>1, Inserted
    <3> QED BY <2>2, <3>1
  <2>7. \A x : PointsOf(n.a, x) = PointsOf(m.a, x)
    BY <2>2 DEF PointsOf
  <2>8. PointsOf(m.a, b) = {}
    BY <2>3 DEF PointsOf
  <2>9. Entries(m.a) \subseteq Entries(n.a)
    <3> SUFFICES ASSUME NEW e \in Entries(m.a) PROVE e \in Entries(n.a)
      OBVIOUS
    <3>1. PICK i \in DOMAIN m.a.blocks :
            e = <<m.a.blocks[i].gp_lo, m.a.blocks[i].hp>> \/ e \in PointsOf(m.a, m.a.blocks[i])
      BY EntryMember
    <3>2. PICK j \in DOMAIN n.a.blocks : n.a.blocks[j] = m.a.blocks[i]
      BY <2>6
    <3> QED BY <2>7, <3>1, <3>2, EntryMember
  <2>10. Entries(n.a) \subseteq Entries(m.a) \cup {<<m.c.gp, m.c.hp>>}
    <3> SUFFICES ASSUME NEW e \in Entries(n.a), e # <<m.c.gp, m.c.hp>> PROVE e \in Entries(m.a)
      OBVIOUS
    <3>1. PICK j \in DOMAIN n.a.blocks :
            e = <<n.a.blocks[j].gp_lo, n.a.blocks[j].hp>> \/ e \in PointsOf(n.a, n.a.blocks[j])
      BY EntryMember
    <3>2. n.a.blocks[j] # b
      BY <2>3, <2>7, <2>8, <3>1
    <3>3. PICK i \in DOMAIN m.a.blocks : n.a.blocks[j] = m.a.blocks[i]
      BY <2>6, <3>2
    <3> QED BY <2>7, <3>1, <3>3, EntryMember
  <2>11. Claims(n) = Entries(n.a) /\ Claims(m) = Entries(m.a)
    BY <2>4, <2>5, ClosedClaims
  <2> QED BY <2>9, <2>10, <2>11 DEF Grows
<1> QED BY <1>1, <1>2, StartShape

(* The open block takes over the pending points: no claim comes or goes.   *)
LEMMA EndGrows ==
  ASSUME NEW m \in Machines, AnchorInv(m.a), Running(m), Building(m)
  PROVE  LET n == cache_block_end(m)
         IN  Grows(m, n) /\ Claims(n) = Entries(n.a) /\ Claims(n) \subseteq Claims(m)
<1> DEFINE n == cache_block_end(m)
           B == m.c.block
<1>1. n \in Machines /\ Closed(n) /\ Ended(m, n)
  BY EndType
<1> SUFFICES Grows(m, n) /\ Claims(n) = Entries(n.a) /\ Claims(n) \subseteq Claims(m)
  OBVIOUS
<1> HIDE DEF n
<1>2. /\ B \in DOMAIN m.a.blocks /\ m.a.blocks[B].offsetssz = 0
      /\ Len(m.a.offsets) = m.a.offsets_p + m.c.loffp
  BY DEF Building
<1>3. /\ n.a.offsets = m.a.offsets
      /\ n.a.blocks[B].gp_lo = m.a.blocks[B].gp_lo /\ n.a.blocks[B].hp = m.a.blocks[B].hp
      /\ n.a.blocks[B].offsets = m.a.offsets_p /\ n.a.blocks[B].offsetssz = m.c.loffp
  BY <1>1 DEF Ended
<1>4. /\ DOMAIN n.a.blocks = DOMAIN m.a.blocks
      /\ \A i \in DOMAIN m.a.blocks : i # B => n.a.blocks[i] = m.a.blocks[i]
  <2>1. /\ n.a.blocks \in Seq(Blocks) /\ m.a.blocks \in Seq(Blocks)
        /\ Len(n.a.blocks) = Len(m.a.blocks)
        /\ \A i \in 1 .. Len(m.a.blocks) : i # B => n.a.blocks[i] = m.a.blocks[i]
    BY Zenon, <1>1, Fields DEF Ended
  <2>2. DOMAIN n.a.blocks = 1 .. Len(n.a.blocks) /\ DOMAIN m.a.blocks = 1 .. Len(m.a.blocks)
    BY <2>1
  <2> QED BY <2>1, <2>2
<1>5. PointsOf(n.a, n.a.blocks[B]) = Pending(m)
  <2>1. n.a.blocks[B].offsets + n.a.blocks[B].offsetssz = Len(m.a.offsets)
    BY <1>2, <1>3
  <2>2. \A k : PointAt(n.a, n.a.blocks[B], k) = PointAt(m.a, m.a.blocks[B], k)
    BY Zenon, <1>3 DEF PointAt
  <2>3. PointsOf(n.a, n.a.blocks[B]) =
          {PointAt(n.a, n.a.blocks[B], k) : k \in m.a.offsets_p + 1 .. Len(m.a.offsets)}
    BY Zenon, <1>3, <2>1 DEF PointsOf, PointAt
  <2>4. PointsOf(n.a, n.a.blocks[B]) =
          {PointAt(m.a, m.a.blocks[B], k) : k \in m.a.offsets_p + 1 .. Len(m.a.offsets)}
    BY <2>2, <2>3
  <2> QED BY <2>4 DEF Pending
<1>6. PointsOf(m.a, m.a.blocks[B]) = {}
  <2>1. m.a.blocks[B].offsets \in Nat
    <3>1. m.a.blocks[B] \in Blocks
      BY <1>2, Fields
    <3> QED BY <3>1, BlockFields
  <2>2. m.a.blocks[B].offsets + 1 .. m.a.blocks[B].offsets + m.a.blocks[B].offsetssz = {}
    BY <1>2, <2>1
  <2> QED BY <2>2 DEF PointsOf
<1>7. \A x : PointsOf(n.a, x) = PointsOf(m.a, x)
  BY <1>3 DEF PointsOf
<1>8. Entries(m.a) \subseteq Entries(n.a)
  <2> SUFFICES ASSUME NEW e \in Entries(m.a) PROVE e \in Entries(n.a)
    OBVIOUS
  <2>1. PICK i \in DOMAIN m.a.blocks :
          e = <<m.a.blocks[i].gp_lo, m.a.blocks[i].hp>> \/ e \in PointsOf(m.a, m.a.blocks[i])
    BY EntryMember
  <2>2. e = <<n.a.blocks[i].gp_lo, n.a.blocks[i].hp>> \/ e \in PointsOf(n.a, n.a.blocks[i])
    BY Zenon, <1>3, <1>4, <1>6, <1>7, <2>1
  <2> QED BY <1>4, <2>2, EntryMember
<1>9. Entries(n.a) \subseteq Claims(m)
  <2> SUFFICES ASSUME NEW e \in Entries(n.a) PROVE e \in Entries(m.a) \/ e \in Pending(m)
    BY DEF Claims
  <2>1. PICK i \in DOMAIN m.a.blocks :
          e = <<n.a.blocks[i].gp_lo, n.a.blocks[i].hp>> \/ e \in PointsOf(n.a, n.a.blocks[i])
    BY <1>4, EntryMember
  <2>2. \/ e = <<m.a.blocks[i].gp_lo, m.a.blocks[i].hp>>
        \/ e \in PointsOf(m.a, m.a.blocks[i])
        \/ e \in Pending(m)
    BY Zenon, <1>3, <1>4, <1>5, <1>7, <2>1
  <2> QED BY <2>2, EntryMember
<1>10. Claims(n) = Entries(n.a)
  BY <1>1, ClosedClaims
<1> QED BY <1>8, <1>9, <1>10 DEF Grows

(* A new point claims (c.gp, c.hp): its 8-bit offsets are not cut off.     *)
LEMMA AddGrows ==
  ASSUME NEW m \in Machines, Running(m), Open(m), AnchorInv(m.a),
         m.c.gp - m.a.blocks[m.c.block].gp_lo <= U8Max,
         m.c.hp - m.a.blocks[m.c.block].hp <= U8Max
  PROVE  Grows(m, AddPoint(m))
<1> DEFINE n == AddPoint(m)
           B == m.c.block
           b == m.a.blocks[B]
           L == Len(m.a.offsets)
<1>1. n \in Machines /\ Added(m, n)
  BY AddShape
<1> SUFFICES Grows(m, n)
  OBVIOUS
<1> HIDE DEF n
<1>2. /\ n.a.blocks = m.a.blocks /\ n.a.offsets_p = m.a.offsets_p /\ n.c.block = B
      /\ n.a.offsets = Append(m.a.offsets, [goff |-> (m.c.gp - b.gp_lo) % (U8Max + 1),
                                            hoff |-> (m.c.hp - b.hp) % (U8Max + 1)])
  BY <1>1 DEF Added
<1>3. /\ b \in Blocks /\ b.gp_lo <= m.c.gp /\ b.hp <= m.c.hp
      /\ m.a.offsets \in Seq(Points) /\ L \in Nat /\ m.a.offsets_p \in Nat
      /\ m.c.gp \in Nat /\ m.c.hp \in Nat
  BY Fields DEF Open, Building
<1>4. (m.c.gp - b.gp_lo) % (U8Max + 1) = m.c.gp - b.gp_lo
      /\ (m.c.hp - b.hp) % (U8Max + 1) = m.c.hp - b.hp
  <2>1. U8Max \in Nat /\ b.gp_lo \in Nat /\ b.hp \in Nat
    BY <1>3, BlockFields, CacheAssumption
  <2>2. m.c.gp - b.gp_lo <= U8Max /\ m.c.hp - b.hp <= U8Max
    OBVIOUS
  <2> HIDE DEF b
  <2>4. m.c.gp - b.gp_lo \in 0 .. U8Max
    BY <1>3, <2>1, <2>2
  <2>5. m.c.hp - b.hp \in 0 .. U8Max
    BY <1>3, <2>1, <2>2
  <2>3. \A x \in 0 .. U8Max : x % (U8Max + 1) = x
    BY <2>1
  <2> QED BY <2>3, <2>4, <2>5
<1>5. n.a.offsets = Append(m.a.offsets, [goff |-> m.c.gp - b.gp_lo, hoff |-> m.c.hp - b.hp])
  BY Zenon, <1>2, <1>4
<1>6. Len(n.a.offsets) = L + 1 /\ n.a.offsets[L + 1] = [goff |-> m.c.gp - b.gp_lo, hoff |-> m.c.hp - b.hp]
      /\ \A k \in 1 .. L : n.a.offsets[k] = m.a.offsets[k]
  <2> DEFINE all == m.a.offsets
             w == [goff |-> m.c.gp - b.gp_lo, hoff |-> m.c.hp - b.hp]
  <2>1. all \in Seq(Points) /\ L = Len(all) /\ n.a.offsets = Append(all, w)
    BY <1>3, <1>5
  <2> HIDE DEF w, all, L
  <2>2. Len(n.a.offsets) = L + 1
    BY <2>1
  <2>3. n.a.offsets[L + 1] = w
    BY <2>1
  <2>4. \A k \in 1 .. L : n.a.offsets[k] = all[k]
    BY <2>1
  <2> QED BY Zenon, <2>2, <2>3, <2>4 DEF w, all
<1>7. PointAt(n.a, b, L + 1) = <<m.c.gp, m.c.hp>>
  <2>1. n.a.offsets[L + 1].goff = m.c.gp - b.gp_lo /\ n.a.offsets[L + 1].hoff = m.c.hp - b.hp
    BY <1>6
  <2>2. b.gp_lo \in Nat /\ b.hp \in Nat
    BY <1>3, BlockFields
  <2>3. b.gp_lo + n.a.offsets[L + 1].goff = m.c.gp /\ b.hp + n.a.offsets[L + 1].hoff = m.c.hp
    <3>1. m.c.gp \in Nat /\ m.c.hp \in Nat
      BY Zenon, <1>3
    <3> HIDE DEF b, L
    <3> QED BY <2>1, <2>2, <3>1
  <2> QED BY <2>3 DEF PointAt
<1>8. Pending(n) \subseteq Pending(m) \cup {<<m.c.gp, m.c.hp>>}
  <2> SUFFICES ASSUME NEW k \in m.a.offsets_p + 1 .. L + 1, k # L + 1
               PROVE  PointAt(n.a, b, k) \in Pending(m)
    BY Zenon, <1>2, <1>6, <1>7 DEF Pending
  <2>1. k \in m.a.offsets_p + 1 .. L /\ k \in 1 .. L
    <3>1. L \in Nat /\ m.a.offsets_p \in Nat
      BY <1>3
    <3> HIDE DEF L, b
    <3> QED BY <3>1
  <2>2. PointAt(n.a, b, k) = PointAt(m.a, b, k)
    BY Zenon, <1>6, <2>1 DEF PointAt
  <2> QED BY <2>1, <2>2 DEF Pending
<1>9. Entries(n.a) = Entries(m.a)
  <2>1. ASSUME NEW i \in DOMAIN m.a.blocks PROVE PointsOf(n.a, m.a.blocks[i]) = PointsOf(m.a, m.a.blocks[i])
    <3> DEFINE x == m.a.blocks[i]
    <3>1. x \in Blocks /\ x.offsets + x.offsetssz <= m.a.offsets_p /\ m.a.offsets_p <= L
      BY Fields DEF AnchorInv, InBounds
    <3>2. x.offsets \in Nat /\ x.offsetssz \in Nat
      BY <3>1, BlockFields
    <3> HIDE DEF x, L
    <3>3. \A k \in x.offsets + 1 .. x.offsets + x.offsetssz : k \in 1 .. L
      BY <1>3, <3>1, <3>2
    <3>4. \A k \in x.offsets + 1 .. x.offsets + x.offsetssz : n.a.offsets[k] = m.a.offsets[k]
      BY <1>6, <3>3
    <3>5. PointsOf(n.a, x) = PointsOf(m.a, x)
      BY <3>4 DEF PointsOf
    <3> QED BY <3>5 DEF x
  <2> QED BY Zenon, <1>2, <2>1 DEF Entries, Starts
<1> QED BY <1>8, <1>9 DEF Grows, Claims

LEMMA SplitGrows ==
  ASSUME NEW m \in Machines, Running(m), AnchorInv(m.a), Building(m)
  PROVE  Grows(m, Split(m))
<1> DEFINE n == cache_block_end(m)
<1>1. Grows(m, n) /\ n \in Machines /\ AnchorInv(n.a) /\ Closed(n) /\ n.c.gp = m.c.gp /\ n.c.hp = m.c.hp
  BY EndGrows, EndType DEF Ended
<1>2. Split(m) = cache_block_start(n)
  BY DEF Split
<1> HIDE DEF n
<1>3. CASE Running(n)
  BY <1>1, <1>2, <1>3, StartGrows, GrowsTransitive
<1>4. CASE ~ Running(n)
  <2>1. Split(m) = n
    BY <1>2, <1>4 DEF cache_block_start
  <2> QED BY <1>1, <2>1
<1> QED BY <1>3, <1>4

(***************************************************************************)
(* cache_block_point, with or without splits before and after the point.   *)
(***************************************************************************)
LEMMA PointGrows ==
  ASSUME NEW m \in Machines, Running(m), AnchorInv(m.a), Open(m)
  PROVE  Grows(m, cache_block_point(m))
<1> DEFINE n == cache_block_point(m)
<1>1. PICK o \in {m, Split(m)} :
        /\ o \in Machines /\ AnchorInv(o.a) /\ Kept(m, o)
        /\ \/ n = m
           \/ ~ Running(o) /\ n = o
           \/ /\ Running(o) /\ Open(o)
              /\ o.c.gp - o.a.blocks[o.c.block].gp_lo <= U8Max
              /\ o.c.hp - o.a.blocks[o.c.block].hp <= U8Max
              /\ LET d == AddPoint(o)
                 IN  \/ /\ Len(d.a.offsets) >= MaxOffsets
                        /\ n = Panic(d, "offsets")
                     \/ /\ Len(d.a.offsets) < MaxOffsets
                        /\ d.c.loffp = U8Max /\ n = Split(d)
                     \/ /\ Len(d.a.offsets) < MaxOffsets
                        /\ d.c.loffp # U8Max /\ n = d
  BY PointCases
<1> SUFFICES Grows(m, n)
  OBVIOUS
<1> HIDE DEF n
<1>2. Grows(m, o)
  BY SplitGrows, GrowsReflexive DEF Open
<1>3. o.c.gp = m.c.gp /\ o.c.hp = m.c.hp
  BY <1>1 DEF Kept
<1>4. CASE n = m \/ n = o
  BY <1>2, <1>4, GrowsReflexive
<1>5. CASE /\ Running(o) /\ Open(o)
           /\ o.c.gp - o.a.blocks[o.c.block].gp_lo <= U8Max
           /\ o.c.hp - o.a.blocks[o.c.block].hp <= U8Max
           /\ LET d == AddPoint(o)
              IN  \/ /\ Len(d.a.offsets) >= MaxOffsets
                     /\ n = Panic(d, "offsets")
                  \/ /\ Len(d.a.offsets) < MaxOffsets
                     /\ d.c.loffp = U8Max /\ n = Split(d)
                  \/ /\ Len(d.a.offsets) < MaxOffsets
                     /\ d.c.loffp # U8Max /\ n = d
  <2> DEFINE d == AddPoint(o)
  <2>1. d \in Machines /\ Grows(o, d) /\ Running(d) /\ Building(d)
        /\ (Len(d.a.offsets) < MaxOffsets => AnchorInv(d.a))
    BY Zenon, <1>1, <1>5, AddGrows, AddShape, AddType
  <2>2. d.c.gp = o.c.gp /\ d.c.hp = o.c.hp
    BY Zenon, <1>1, <1>5, AddShape DEF Added
  <2>3. n = Panic(d, "offsets") \/ (Len(d.a.offsets) < MaxOffsets /\ n = Split(d)) \/ n = d
    BY <1>5
  <2> HIDE DEF d
  <2>4. Grows(m, d) /\ d.c.gp = m.c.gp /\ d.c.hp = m.c.hp
    BY <1>2, <1>3, <2>1, <2>2, GrowsTransitive
  <2>5. Grows(d, n)
    BY <2>1, <2>3, PanicGrows, SplitGrows, GrowsReflexive DEF Panics
  <2> QED BY Zenon, <2>4, <2>5, GrowsTransitive
<1> QED BY <1>1, <1>4, <1>5

-----------------------------------------------------------------------------
(***************************************************************************)
(* The inductive invariant.  Beside the claims it follows the one pair a   *)
(* handler is about: (goal, dest), which the branch it writes will join,   *)
(* and which is translated from the first Instr of decode() on.            *)
(***************************************************************************)
FaithInv ==
  /\ pc = "exit" => ~ Running(Machine)
  /\ pc # "exit" => Claims(Machine) \subseteq Translated
  /\ pc = "finish" \/ Decoding => <<goal, dest>> \in Translated
  /\ LinksFaithful
  /\ pc \notin {"idle", "exit"} /\ site # NULL => site.target = goal

Stable == cleared' = cleared => Entries(anchor) \subseteq Entries(anchor')

LEMMA InitFaith == Init => FaithInv
<1> SUFFICES ASSUME Init PROVE FaithInv
  OBVIOUS
<1>1. Machine = [a |-> cahce_init, c |-> [gp |-> 0, hp |-> 0, loffp |-> 0, block |-> 0]]
  BY DEF Init, Machine
<1>2. Claims(Machine) = {}
  <2>1. /\ Machine.a.blocks = << >> /\ Machine.a.offsets = << >> /\ Machine.a.offsets_p = 0
    BY <1>1 DEF cahce_init
  <2>2. DOMAIN Machine.a.blocks = {} /\ Machine.a.offsets_p + 1 .. Len(Machine.a.offsets) = {}
    BY <2>1
  <2> QED BY <2>2 DEF Claims, Entries, Starts, Pending
<1> QED BY <1>2 DEF Init, FaithInv, Decoding, LinksFaithful

(* What a handler's Continue(m, next) leaves, for a cache m that grew.     *)
LEMMA ContinueFaith ==
  ASSUME FaithInv, pc \notin {"idle", "exit"}, NEW m \in Machines, NEW next \in Labels,
         next \notin {"idle", "exit"}, Continue(m, next)
  PROVE  /\ anchor' = m.a /\ context' = m.c /\ Machine' = m
         /\ pc' = "exit" => ~ Running(Machine')
         /\ pc' # "exit" => pc' = next
         /\ site' = site /\ goal' = goal =>
              (pc' \notin {"idle", "exit"} /\ site' # NULL => site'.target = goal')
<1>1. /\ anchor' = m.a /\ context' = m.c /\ Machine' = m /\ (pc' # "exit" => pc' = next)
  BY ContinueType
<1>2. pc' = "exit" => ~ Running(m)
  BY DEF Continue
<1> QED BY <1>1, <1>2 DEF FaithInv

(* The word being patched names the address that the handler resolves.     *)
LEMMA BrkFaith ==
  ASSUME IdsInv, FaithInv, NEW s \in sites, Brk(s)
  PROVE  FaithInv' /\ Stable
<1> DEFINE a2 == cache_get_patch(anchor, s.id)
<1>1. /\ TypeOK /\ Machine \in Machines /\ AnchorInv(anchor) /\ anchor.panic = "none"
      /\ anchor \in Anchors /\ pc = "idle" /\ site \notin sites
  BY MachineType DEF IdsInv, SafeInv, CacheShape, Brk, TypeOK, SiteOrder, Running, Machine
<1>2. s \in Sites /\ s.id \in Nat /\ s \in LiveSites
  BY <1>1 DEF TypeOK, Sites, LiveSites
<1>3. anchor.jumps[s.id].target = s.target
  <2>1. anchor.jumps[s.id] = [kind |-> s.kind, target |-> s.target]
    BY <1>2 DEF IdsInv, PatchIds
  <2> QED BY <2>1
<1>4. a2 \in Anchors /\ SameBlocks(anchor, a2)
  BY <1>1, <1>2, GetPatchType
<1> DEFINE m == [Machine EXCEPT !.a = cache_get_patch(@, s.id)]
<1>5. m = [a |-> a2, c |-> context]
  BY DEF Machine
<1>6. Continue(m, "resolve") /\ goal' = anchor.jumps[s.id].target /\ site' = s
      /\ UNCHANGED <<guest, dest, sites, links, code, cleared>>
  BY DEF Brk
<1>7. anchor' = a2 /\ context' = context /\ pc' = (IF Running(m) THEN "resolve" ELSE "exit")
  BY <1>5, <1>6 DEF Continue
<1>8. Machine' = m
  BY <1>5, <1>7 DEF Machine
<1> HIDE DEF a2, m
<1>9. Entries(anchor') = Entries(anchor) /\ Claims(Machine') = Claims(Machine)
  BY <1>4, <1>7, <1>8, SameClaims DEF SameBlocks, Machine
<1>10. Translated' = Translated
  BY <1>1, <1>6, <1>7 DEF Translated
<1>11. FaithInv'
  BY <1>1, <1>3, <1>6, <1>7, <1>8, <1>9, <1>10 DEF FaithInv, Decoding, LinksFaithful
<1> QED BY <1>9, <1>11 DEF Stable

LEMMA QuietFaith ==
  ASSUME IdsInv, FaithInv,
         \/ \E g \in DOMAIN guest : Segv(g)
         \/ GoOn \/ Resume
  PROVE  FaithInv' /\ Stable
<1>1. /\ anchor' = anchor /\ context' = context /\ Machine' = Machine /\ links' = links
      /\ code' = code /\ dest' = dest /\ cleared' = cleared
  BY DEF Segv, GoOn, Resume, Machine
<1>2. CASE \E g \in DOMAIN guest : Segv(g)
  BY <1>1, <1>2 DEF Segv, FaithInv, Decoding, Translated, LinksFaithful, Stable
<1>3. CASE GoOn
  BY <1>1, <1>3 DEF GoOn, FaithInv, Decoding, Translated, LinksFaithful, Stable
<1>4. CASE Resume
  BY <1>1, <1>4 DEF Resume, FaithInv, Decoding, Translated, LinksFaithful, Stable
<1> QED BY <1>2, <1>3, <1>4

(* A hit is an entry, and entries are translated.                          *)
LEMMA FoundTranslated ==
  ASSUME IdsInv, FaithInv, pc \notin {"point", "instr", "exit"}, NEW gp \in Nat,
         NEW t \in cache_search(anchor, gp) \ {NULL}
  PROVE  <<gp, t>> \in code
<1>1. anchor \in Anchors
  BY DEF IdsInv, SafeInv, TypeOK
<1>2. t \in Found(anchor, gp)
  BY DEF cache_search
<1>3. <<gp, t>> \in Claims(Machine)
  BY <1>1, <1>2, FoundEntry DEF Claims, Machine
<1> QED BY <1>3 DEF FaithInv, Translated

LEMMA HitFaith ==
  ASSUME IdsInv, FaithInv, Hit
  PROVE  FaithInv' /\ Stable
<1>1. goal \in Nat /\ pc = "resolve"
  BY DEF IdsInv, SafeInv, TypeOK, Hit
<1>2. <<goal, dest'>> \in code
  BY <1>1, FoundTranslated DEF Hit
<1>3. /\ anchor' = anchor /\ context' = context /\ Machine' = Machine /\ links' = links
      /\ code' = code /\ goal' = goal /\ site' = site /\ pc' = "finish"
  BY DEF Hit, Machine
<1> QED BY <1>1, <1>2, <1>3 DEF FaithInv, Decoding, Translated, LinksFaithful, Stable

LEMMA MissFaith ==
  ASSUME IdsInv, FaithInv, Miss
  PROVE  FaithInv' /\ Stable
<1> DEFINE p == [a |-> anchor, c |-> context_pull(anchor, goal)]
           m == cache_block_start(p)
<1>1. /\ SafeInv /\ anchor \in Anchors /\ goal \in Nat /\ pc = "resolve"
      /\ CacheShape
  BY DEF IdsInv, SafeInv, TypeOK, Miss
<1>2. anchor.host_p \in Nat
  BY <1>1 DEF Anchors
<1>3. p \in Machines /\ p.a = anchor /\ p.c.gp = goal /\ p.c.hp = anchor.host_p /\ p.c.loffp = 0
  BY <1>1, <1>2, CacheAssumption DEF Machines, Contexts, context_pull
<1>4. Running(p) /\ AnchorInv(p.a) /\ Closed(p) /\ Closed(Machine)
  BY <1>1, <1>3 DEF CacheShape, Decoding, Closed, Machine, Running
<1> HIDE DEF p
<1>5. m \in Machines /\ Grows(p, m) /\ m.c.gp = goal /\ m.c.hp = anchor.host_p
  BY <1>3, <1>4, StartType, StartGrows
<1>6. Continue(m, "point") /\ dest' = anchor.host_p
      /\ UNCHANGED <<guest, site, goal, sites, links, code, cleared>>
  BY DEF Miss, m, p
<1> HIDE DEF m
<1>7. /\ anchor' = m.a /\ context' = m.c /\ Machine' = m
      /\ (pc' = "exit" => ~ Running(Machine'))
      /\ pc' \in {"point", "exit"}
      /\ (pc' \notin {"idle", "exit"} /\ site' # NULL => site'.target = goal')
  BY <1>1, <1>5, <1>6, ContinueFaith DEF Labels
<1>8. Entries(anchor) \subseteq Entries(anchor')
  BY <1>3, <1>5, <1>7 DEF Grows
<1>9. Claims(m) \subseteq code \cup {<<goal, anchor.host_p>>}
  <2>1. Claims(p) = Entries(anchor)
    BY <1>3, <1>4, ClosedClaims
  <2>2. Claims(p) \subseteq code
    BY <1>1, <2>1 DEF FaithInv, Claims, Machine, Translated
  <2> QED BY <1>3, <1>5, <2>2 DEF Grows
<1>10. pc' # "exit" => Translated' = code \cup {<<goal, anchor.host_p>>}
  BY <1>5, <1>6, <1>7 DEF Translated
<1>11. LinksFaithful'
  BY <1>6 DEF FaithInv, LinksFaithful
<1>12. FaithInv'
  BY <1>6, <1>7, <1>9, <1>10, <1>11 DEF FaithInv, Decoding
<1> QED BY <1>8, <1>12 DEF Stable

LEMMA PointFaith ==
  ASSUME IdsInv, FaithInv, Point
  PROVE  FaithInv' /\ Stable
<1> DEFINE m == cache_block_point(Machine)
<1>1. TypeOK /\ CacheShape /\ pc = "point"
  BY DEF IdsInv, SafeInv, Point
<1>2. Machine \in Machines /\ Machine.a = anchor /\ Machine.c = context
  BY <1>1, MachineType
<1>3. Running(Machine) /\ AnchorInv(Machine.a) /\ Open(Machine)
  BY <1>1, <1>2 DEF CacheShape, Decoding
<1>4. m \in Machines /\ Kept(Machine, m) /\ Grows(Machine, m)
  BY <1>2, <1>3, PointType, PointGrows
<1>5. Continue(m, "instr") /\ UNCHANGED <<guest, site, goal, dest, sites, links, code, cleared>>
  BY DEF Point
<1> HIDE DEF m
<1>6. /\ anchor' = m.a /\ context' = m.c /\ Machine' = m
      /\ (pc' = "exit" => ~ Running(Machine'))
      /\ pc' \in {"instr", "exit"}
      /\ (pc' \notin {"idle", "exit"} /\ site' # NULL => site'.target = goal')
  BY <1>1, <1>4, <1>5, ContinueFaith DEF Labels
<1>7. context'.gp = context.gp /\ context'.hp = context.hp
  BY <1>2, <1>4, <1>6 DEF Kept
<1>8. Translated = code \cup {<<context.gp, context.hp>>} /\ (pc' # "exit" => Translated' = Translated)
  BY <1>1, <1>5, <1>6, <1>7 DEF Translated
<1>9. pc' # "exit" => Claims(Machine') \subseteq Translated'
  BY <1>1, <1>2, <1>4, <1>6, <1>8 DEF FaithInv, Grows
<1>10. LinksFaithful'
  BY <1>5 DEF FaithInv, LinksFaithful
<1>11. pc' # "exit" => <<goal', dest'>> \in Translated'
  BY <1>1, <1>5, <1>8 DEF FaithInv, Decoding
<1>12. FaithInv'
  BY <1>6, <1>9, <1>10, <1>11 DEF FaithInv, Decoding
<1> QED BY <1>2, <1>4, <1>6, <1>12 DEF Stable, Grows

LEMMA InstrFaith ==
  ASSUME IdsInv, FaithInv, Instr
  PROVE  FaithInv' /\ Stable
<1> DEFINE i == guest[context.gp]
<1>1. /\ SafeInv /\ TypeOK /\ CacheShape /\ OnProgram /\ IdsValid /\ pc = "instr"
      /\ anchor \in Anchors
  BY DEF IdsInv, SafeInv, TypeOK, Instr
<1>2. AnchorInv(anchor) /\ ReuseValid(anchor) /\ Running(Machine) /\ i \in Instructions
  BY <1>1, ProgramFacts DEF CacheShape, IdsValid, OnProgram
<1>3. SameBlocks(anchor, anchor') /\ anchor'.panic = anchor.panic
  <2>1. CASE anchor' = anchor
    BY <2>1 DEF SameBlocks
  <2>2. CASE i.kind \in Patched /\ anchor' = cache_patch_point(anchor, i.kind, i.target)
    <3>1. i.target \in Nat
      BY <1>2 DEF Instructions
    <3> QED BY <1>1, <1>2, <2>2, <3>1, PatchPointType
  <2> QED BY <2>1, <2>2, InstrSites
<1>4. /\ context' = [context EXCEPT !.gp = @ + i.len, !.hp = @ + i.words]
      /\ code' = code \cup {<<context.gp, context.hp>>}
      /\ pc' \in {"end", "lookup"}
      /\ UNCHANGED <<guest, site, goal, dest, links, cleared>>
  BY DEF Instr
<1>5. context'.block = context.block
  BY <1>1, <1>4 DEF TypeOK, Contexts
<1>6. Entries(anchor') = Entries(anchor) /\ Claims(Machine') = Claims(Machine)
  BY <1>3, <1>5, SameClaims DEF SameBlocks, Machine
<1>7. Translated' = Translated
  BY <1>1, <1>4 DEF Translated
<1>8. LinksFaithful'
  BY <1>4 DEF FaithInv, LinksFaithful
<1>9. FaithInv'
  BY <1>1, <1>4, <1>6, <1>7, <1>8 DEF FaithInv, Decoding
<1> QED BY <1>6, <1>9 DEF Stable

LEMMA JoinFaith ==
  ASSUME IdsInv, FaithInv, Join
  PROVE  FaithInv' /\ Stable
<1> DEFINE m == cache_block_point(Machine)
           n == [m EXCEPT !.c.hp = @ + 1]
<1>1. TypeOK /\ CacheShape /\ pc = "lookup"
  BY DEF IdsInv, SafeInv, Join
<1>2. Machine \in Machines /\ Machine.a = anchor /\ Machine.c = context
  BY <1>1, MachineType
<1>3. Running(Machine) /\ AnchorInv(Machine.a) /\ Open(Machine)
  BY <1>1, <1>2 DEF CacheShape, Decoding
<1>4. m \in Machines /\ Kept(Machine, m) /\ Grows(Machine, m)
  BY <1>2, <1>3, PointType, PointGrows
<1>5. Continue(n, "end") /\ code' = code \cup {<<context.gp, context.hp>>}
      /\ UNCHANGED <<guest, site, goal, dest, sites, cleared>>
  BY DEF Join
<1>6. PICK t \in cache_search(anchor, context.gp) \ {NULL} :
        links' = links \cup {[hp |-> context.hp, target |-> context.gp, dest |-> t]}
  BY DEF Join
<1> HIDE DEF m
<1>7. n \in Machines /\ n.a = m.a /\ n.c.block = m.c.block
  BY <1>4, NextWord
<1> HIDE DEF n
<1>8. /\ anchor' = n.a /\ context' = n.c /\ Machine' = n
      /\ (pc' = "exit" => ~ Running(Machine'))
      /\ pc' \in {"end", "exit"}
      /\ (pc' \notin {"idle", "exit"} /\ site' # NULL => site'.target = goal')
  BY <1>1, <1>5, <1>7, ContinueFaith DEF Labels
<1>9. Claims(n) = Claims(m) /\ Entries(anchor) \subseteq Entries(anchor')
  BY <1>2, <1>4, <1>7, <1>8, SameClaims DEF Grows
<1>10. Translated = code /\ Translated' = code'
  BY <1>1, <1>8 DEF Translated
<1>11. pc' # "exit" => Claims(Machine') \subseteq Translated'
  BY <1>1, <1>2, <1>4, <1>5, <1>8, <1>9, <1>10 DEF FaithInv, Grows
<1>12. LinksFaithful'
  <2>1. context.gp \in Nat
    BY <1>2, Fields
  <2>2. <<context.gp, t>> \in code
    BY <1>1, <2>1, FoundTranslated
  <2> DEFINE new == [hp |-> context.hp, target |-> context.gp, dest |-> t]
  <2>3. <<new.target, new.dest>> \in code
    BY <2>2
  <2> HIDE DEF new
  <2>4. links' = links \cup {new} /\ code \subseteq code'
    BY <1>5, <1>6 DEF new
  <2> QED BY <2>3, <2>4 DEF FaithInv, LinksFaithful
<1>13. <<goal', dest'>> \in Translated'
  BY <1>1, <1>5, <1>10 DEF FaithInv, Decoding
<1>14. FaithInv'
  BY <1>8, <1>11, <1>12, <1>13 DEF FaithInv, Decoding
<1> QED BY <1>9, <1>14 DEF Stable

LEMMA EndFaith ==
  ASSUME IdsInv, FaithInv, End
  PROVE  FaithInv' /\ Stable
<1> DEFINE m == cache_block_end(Machine)
<1>1. TypeOK /\ CacheShape /\ pc = "end"
  BY DEF IdsInv, SafeInv, End
<1>2. Machine \in Machines /\ Machine.a = anchor /\ Machine.c = context
  BY <1>1, MachineType
<1>3. Running(Machine) /\ AnchorInv(Machine.a) /\ Building(Machine)
  BY <1>1, <1>2 DEF CacheShape, Decoding, Open
<1>4. m \in Machines /\ Claims(m) \subseteq Claims(Machine) /\ Grows(Machine, m)
  BY <1>2, <1>3, EndType, EndGrows
<1>5. Continue(m, "finish") /\ UNCHANGED <<guest, site, goal, dest, sites, links, code, cleared>>
  BY DEF End
<1> HIDE DEF m
<1>6. /\ anchor' = m.a /\ context' = m.c /\ Machine' = m
      /\ (pc' = "exit" => ~ Running(Machine'))
      /\ pc' \in {"finish", "exit"}
      /\ (pc' \notin {"idle", "exit"} /\ site' # NULL => site'.target = goal')
  BY <1>1, <1>4, <1>5, ContinueFaith DEF Labels
<1>7. Translated = code /\ Translated' = code
  BY <1>1, <1>5, <1>6 DEF Translated
<1>8. LinksFaithful'
  BY <1>5 DEF FaithInv, LinksFaithful
<1>9. FaithInv'
  BY <1>1, <1>4, <1>5, <1>6, <1>7, <1>8 DEF FaithInv, Decoding
<1> QED BY <1>2, <1>4, <1>6, <1>9 DEF Stable, Grows

(* The branch that replaces a BRK goes where its record said.              *)
LEMMA PatchFaith ==
  ASSUME IdsInv, FaithInv, Patch
  PROVE  FaithInv' /\ Stable
<1>1. /\ pc = "finish" /\ site # NULL /\ pc' = "idle"
      /\ links' = links \cup {[hp |-> site.hp, target |-> site.target, dest |-> dest]}
      /\ UNCHANGED <<guest, anchor, context, site, goal, dest, code, cleared>>
      /\ Machine' = Machine
  BY DEF Patch, Machine
<1>2. <<site.target, dest>> \in code
  BY <1>1 DEF FaithInv, Translated
<1>3. LinksFaithful'
  <2> DEFINE new == [hp |-> site.hp, target |-> site.target, dest |-> dest]
  <2>1. <<new.target, new.dest>> \in code
    BY <1>2
  <2>2. links' = links \cup {new} /\ code' = code
    BY <1>1
  <2> HIDE DEF new
  <2> QED BY <2>1, <2>2 DEF FaithInv, LinksFaithful
<1> QED BY <1>1, <1>3 DEF FaithInv, Decoding, Translated, Stable

LEMMA ClearFaith ==
  ASSUME IdsInv, FaithInv, Clear
  PROVE  FaithInv' /\ Stable
<1>1. /\ pc = "idle" /\ pc' = "idle" /\ anchor' = cache_clear(anchor) /\ context' = context
      /\ links' = {} /\ cleared' # cleared
  BY DEF Clear
<1>2. Claims(Machine') = {}
  <2>1. /\ Machine'.a.blocks = << >> /\ Machine'.a.offsets = << >> /\ Machine'.a.offsets_p = 0
    BY <1>1 DEF Machine, cache_clear, cahce_init
  <2>2. DOMAIN Machine'.a.blocks = {}
        /\ Machine'.a.offsets_p + 1 .. Len(Machine'.a.offsets) = {}
    BY <2>1
  <2> QED BY <2>2 DEF Claims, Entries, Starts, Pending
<1> QED BY <1>1, <1>2 DEF FaithInv, Decoding, LinksFaithful, Stable

LEMMA FaithNext == IdsInv /\ FaithInv /\ [Next]_vars => FaithInv' /\ [Stable]_vars
<1> SUFFICES ASSUME IdsInv, FaithInv, [Next]_vars PROVE FaithInv' /\ [Stable]_vars
  OBVIOUS
<1>1. CASE UNCHANGED vars
  BY <1>1 DEF vars, FaithInv, Machine, Decoding, Translated, LinksFaithful
<1>2. CASE Next
  BY <1>2, BrkFaith, QuietFaith, HitFaith, MissFaith, PointFaith, InstrFaith, JoinFaith,
     EndFaith, PatchFaith, ClearFaith DEF Next, Handler
<1> QED BY <1>1, <1>2

LEMMA FaithAlways == Spec => [](IdsInv /\ FaithInv)
<1>1. Init => IdsInv /\ FaithInv
  BY InitIds, InitFaith
<1>2. (IdsInv /\ FaithInv) /\ [Next]_vars => (IdsInv /\ FaithInv)'
  BY IdsNext, FaithNext
<1> QED BY <1>1, <1>2, PTL DEF Spec

(***************************************************************************)
(* Whatever cache_search can answer for a guest address is the place where *)
(* its translation stands, for every program and every table size.         *)
(***************************************************************************)
THEOREM EntriesAreFaithful == Spec => []EntriesFaithful
<1>1. IdsInv /\ FaithInv => EntriesFaithful
  BY DEF FaithInv, EntriesFaithful, Claims, Machine
<1> QED BY <1>1, FaithAlways, PTL

(***************************************************************************)
(* Every branch written into translated code - by brk_handler over a BRK   *)
(* word or by decode() where it meets translated code - leads to the       *)
(* translation of the address the guest branch names.                      *)
(***************************************************************************)
THEOREM LinksAreFaithful == Spec => []LinksFaithful
<1>1. IdsInv /\ FaithInv => LinksFaithful
  BY DEF FaithInv
<1> QED BY <1>1, FaithAlways, PTL

(***************************************************************************)
(* No operation but cache_clear moves or drops a published entry.          *)
(***************************************************************************)
THEOREM EntriesAreStable == Spec => EntriesStable
<1>1. IdsInv /\ FaithInv /\ [Next]_vars => [Stable]_vars
  BY FaithNext
<1>2. EntriesStable <=> [][Stable]_vars
  BY PTL DEF EntriesStable, Stable
<1> QED BY <1>1, <1>2, FaithAlways, PTL DEF Spec

-----------------------------------------------------------------------------
(***************************************************************************)
(* The tables stay sorted: the premise of both binary searches of cache.c. *)
(* Blocks are sorted because they are inserted; the points of a block      *)
(* because decode() goes up through guest memory, also across splits, and  *)
(* because no later block writes into the points of an earlier one.        *)
(***************************************************************************)
(* The points lo .. hi lie one behind the other.                           *)
Rising(points, lo, hi) == \A j, k \in lo .. hi : j < k => points[j].goff < points[k].goff

Neat(a) ==
  /\ Sorted(a.blocks)
  /\ \A i \in DOMAIN a.blocks :
       Rising(a.offsets, a.blocks[i].offsets + 1, a.blocks[i].offsets + a.blocks[i].offsetssz)
  /\ Rising(a.offsets, a.offsets_p + 1, Len(a.offsets))

(* Pending points lie below the instruction that comes next, ...           *)
Behind(m) ==
  \A k \in m.a.offsets_p + 1 .. Len(m.a.offsets) :
    m.a.blocks[m.c.block].gp_lo + m.a.offsets[k].goff < m.c.gp

(* ... which has a point already, once cache_block_point has run.          *)
Reached(m) ==
  \A k \in m.a.offsets_p + 1 .. Len(m.a.offsets) :
    m.a.blocks[m.c.block].gp_lo + m.a.offsets[k].goff <= m.c.gp

LEMMA PointField == ASSUME NEW p \in Points PROVE p.goff \in Nat
<1>1. p.goff \in 0 .. U8Max
  BY DEF Points
<1> QED BY <1>1, CacheAssumption

LEMMA NeatOrdered == TablesOrdered <=> Sorted(anchor.blocks) /\ \A i \in DOMAIN anchor.blocks :
       Rising(anchor.offsets, anchor.blocks[i].offsets + 1,
              anchor.blocks[i].offsets + anchor.blocks[i].offsetssz)
BY DEF TablesOrdered, Rising

LEMMA SameNeat ==
  ASSUME NEW a, NEW n, n.blocks = a.blocks, n.offsets = a.offsets, n.offsets_p = a.offsets_p
  PROVE  Neat(a) => Neat(n)
BY DEF Neat

(* Nothing is pending where no block is under construction.                *)
LEMMA ClosedReached ==
  ASSUME NEW m \in Machines, Closed(m)
  PROVE  Behind(m) /\ Reached(m)
<1>1. m.a.offsets_p + 1 .. Len(m.a.offsets) = {}
  BY Fields DEF Closed
<1> QED BY <1>1 DEF Behind, Reached

LEMMA BehindReached ==
  ASSUME NEW m \in Machines, Building(m), Behind(m)
  PROVE  Reached(m)
<1> SUFFICES ASSUME NEW k \in m.a.offsets_p + 1 .. Len(m.a.offsets)
             PROVE  m.a.blocks[m.c.block].gp_lo + m.a.offsets[k].goff <= m.c.gp
  BY DEF Reached
<1> DEFINE x == m.a.blocks[m.c.block].gp_lo
           y == m.a.offsets[k].goff
<1>1. x \in Nat /\ y \in Nat /\ m.c.gp \in Nat
  <2>1. m.a.blocks \in Seq(Blocks) /\ m.a.offsets \in Seq(Points)
        /\ m.a.offsets_p \in Nat /\ Len(m.a.offsets) \in Nat /\ m.c.gp \in Nat
    BY Fields
  <2>2. m.a.blocks[m.c.block] \in Blocks /\ m.a.offsets[k] \in Points
    BY <2>1 DEF Building
  <2> QED BY <2>1, <2>2, BlockFields, PointField
<1>2. x + y < m.c.gp
  BY DEF Behind
<1> HIDE DEF x, y
<1>3. x + y <= m.c.gp
  BY <1>1, <1>2
<1> QED BY <1>3 DEF x, y

-----------------------------------------------------------------------------
(* An insertion at the first place that is not below keeps the order.      *)
LEMMA InsertSorted ==
  ASSUME NEW blocks \in Seq(Blocks), Sorted(blocks), NEW b \in Blocks
  PROVE  Sorted(Insert(blocks, InsertPos(blocks, b.gp_lo), b))
<1> DEFINE p == InsertPos(blocks, b.gp_lo)
           new == Insert(blocks, p, b)
           L == Len(blocks)
<1>1. /\ p \in 1 .. L + 1 /\ L \in Nat /\ b.gp_lo \in Nat
      /\ \A i \in 1 .. p - 1 : blocks[i].gp_lo < b.gp_lo
      /\ p <= L => blocks[p].gp_lo >= b.gp_lo
  <2>1. b.gp_lo \in Nat
    BY BlockFields
  <2>2. L \in Nat
    OBVIOUS
  <2> QED BY <2>1, <2>2, InsertPosProperties
<1>2. /\ new \in Seq(Blocks) /\ Len(new) = L + 1
      /\ \A i \in 1 .. p - 1 : new[i] = blocks[i]
      /\ new[p] = b
      /\ \A i \in p + 1 .. L + 1 : new[i] = blocks[i - 1]
  <2>1. p \in 1 .. Len(blocks) + 1
    BY <1>1
  <2> HIDE DEF p
  <2>2. new \in Seq(Blocks)
    BY <2>1, InsertProperties
  <2>3. Len(new) = L + 1
    BY <2>1, InsertProperties
  <2>4. \A i \in 1 .. p - 1 : new[i] = blocks[i]
    BY <2>1, InsertProperties
  <2>5. new[p] = b
    BY <2>1, InsertProperties
  <2>6. \A i \in p + 1 .. L + 1 : new[i] = blocks[i - 1]
    BY <2>1, InsertProperties
  <2> HIDE DEF new, L
  <2> QED BY <2>2, <2>3, <2>4, <2>5, <2>6
<1> HIDE DEF p, new
<1>3. \A i \in 1 .. L : blocks[i].gp_lo \in Nat
  <2>1. \A i \in 1 .. L : blocks[i] \in Blocks
    OBVIOUS
  <2> QED BY <2>1, BlockFields
<1>4. \A i, j \in 1 .. L : i <= j => blocks[i].gp_lo <= blocks[j].gp_lo
  <2>1. \A i, j \in 1 .. L : i < j => blocks[i].gp_lo <= blocks[j].gp_lo
    BY DEF Sorted
  <2> HIDE DEF L
  <2> QED BY <1>1, <1>3, <2>1
<1> HIDE DEF L
<1>5. \A i \in p .. L : blocks[i].gp_lo >= b.gp_lo
  <2> SUFFICES ASSUME NEW i \in p .. L PROVE blocks[i].gp_lo >= b.gp_lo
    OBVIOUS
  <2>1. p \in 1 .. L /\ i \in 1 .. L /\ p <= i
    BY <1>1
  <2>2. blocks[p].gp_lo <= blocks[i].gp_lo /\ blocks[p].gp_lo >= b.gp_lo
    BY <1>1, <1>4, <2>1
  <2> QED BY <1>1, <1>3, <2>1, <2>2
<1>6. ASSUME NEW i \in 1 .. L + 1, NEW j \in 1 .. L + 1, i < j
      PROVE  new[i].gp_lo <= new[j].gp_lo
  <2>1. CASE j < p
    <3>1. i \in 1 .. p - 1 /\ j \in 1 .. p - 1 /\ i \in 1 .. L /\ j \in 1 .. L
      BY <1>1, <1>6, <2>1
    <3> QED BY <1>2, <1>4, <1>6, <3>1
  <2>2. CASE j = p
    <3>1. i \in 1 .. p - 1 /\ i \in 1 .. L
      BY <1>1, <1>6, <2>2
    <3> QED BY <1>1, <1>2, <1>3, <2>2, <3>1
  <2>3. CASE p < j
    <3>1. j \in p + 1 .. L + 1 /\ j - 1 \in p .. L /\ j - 1 \in 1 .. L /\ new[j] = blocks[j - 1]
      BY <1>1, <1>2, <2>3
    <3>2. CASE i < p
      <4>1. i \in 1 .. p - 1 /\ i \in 1 .. L /\ i <= j - 1 /\ new[i] = blocks[i]
        BY <1>1, <1>2, <2>3, <3>1, <3>2
      <4> QED BY <1>4, <3>1, <4>1
    <3>3. CASE i = p
      BY <1>1, <1>2, <1>3, <1>5, <3>1, <3>3
    <3>4. CASE p < i
      <4>1. i \in p + 1 .. L + 1 /\ i - 1 \in 1 .. L /\ i - 1 <= j - 1 /\ new[i] = blocks[i - 1]
        BY <1>1, <1>2, <1>6, <3>1, <3>4
      <4> QED BY <1>4, <3>1, <4>1
    <3> QED BY <1>1, <3>2, <3>3, <3>4
  <2> QED BY <1>1, <2>1, <2>2, <2>3
<1>7. DOMAIN new = 1 .. L + 1
  BY <1>2
<1>8. Sorted(new)
  BY <1>6, <1>7 DEF Sorted
<1> QED BY <1>8 DEF new, p

LEMMA StartNeat ==
  ASSUME NEW m \in Machines, Running(m), Closed(m), AnchorInv(m.a), Neat(m.a)
  PROVE  LET n == cache_block_start(m)
         IN  Neat(n.a) /\ Behind(n) /\ Reached(n)
<1> DEFINE n == cache_block_start(m)
           b == NewBlock(m.c)
<1> SUFFICES Neat(n.a) /\ Behind(n) /\ Reached(n)
  OBVIOUS
<1>1. n \in Machines /\ (n = Panic(m, "blocks") \/ Started(m, n))
  BY StartShape
<1> HIDE DEF n
<1>2. CASE n = Panic(m, "blocks")
  <2>1. /\ n.a.blocks = m.a.blocks /\ n.a.offsets = m.a.offsets
        /\ n.a.offsets_p = m.a.offsets_p /\ n.c = m.c
    BY <1>2, Fields DEF Panic, Machines, Anchors
  <2>2. Closed(n)
    BY <2>1 DEF Closed
  <2> QED BY <1>1, <2>1, <2>2, SameNeat, ClosedReached
<1>3. CASE Started(m, n)
  <2> DEFINE p == n.c.block
  <2>1. m.a.blocks \in Seq(Blocks) /\ m.c.gp \in Nat /\ m.c.hp \in Nat
    BY Fields
  <2>2. /\ b \in Blocks /\ b.gp_lo = m.c.gp /\ b.offsets = 0 /\ b.offsetssz = 0
    BY <2>1, CacheAssumption DEF NewBlock, Blocks
  <2>3. /\ p \in 1 .. Len(m.a.blocks) + 1 /\ p = InsertPos(m.a.blocks, m.c.gp)
        /\ n.a.blocks = Insert(m.a.blocks, p, b)
        /\ n.a.offsets = m.a.offsets /\ n.a.offsets_p = m.a.offsets_p /\ n.c.loffp = m.c.loffp
    BY <1>3 DEF Started
  <2> HIDE DEF b, p
  <2>4. Sorted(n.a.blocks)
    BY <2>1, <2>2, <2>3, InsertSorted DEF Neat
  <2>5. ASSUME NEW j \in DOMAIN n.a.blocks
        PROVE  LET x == n.a.blocks[j] IN Rising(n.a.offsets, x.offsets + 1, x.offsets + x.offsetssz)
    <3>1. n.a.blocks[j] = b \/ \E i \in DOMAIN m.a.blocks : n.a.blocks[j] = m.a.blocks[i]
      BY <2>1, <2>2, <2>3, Inserted
    <3>2. Rising(n.a.offsets, b.offsets + 1, b.offsets + b.offsetssz)
      BY <2>2 DEF Rising
    <3> QED BY <2>3, <3>1, <3>2 DEF Neat
  <2>6. Rising(n.a.offsets, n.a.offsets_p + 1, Len(n.a.offsets))
    BY <2>3 DEF Neat
  <2>7. Closed(n)
    BY <2>3 DEF Closed
  <2> QED BY <1>1, <2>4, <2>5, <2>6, <2>7, ClosedReached DEF Neat
<1> QED BY <1>1, <1>2, <1>3

(* The open block takes over the pending points as they are.               *)
LEMMA EndNeat ==
  ASSUME NEW m \in Machines, AnchorInv(m.a), Running(m), Building(m), Neat(m.a)
  PROVE  Neat(cache_block_end(m).a)
<1> DEFINE n == cache_block_end(m)
           B == m.c.block
<1>1. n \in Machines /\ Closed(n) /\ Ended(m, n)
  BY EndType
<1> SUFFICES Neat(n.a)
  OBVIOUS
<1> HIDE DEF n
<1>2. B \in DOMAIN m.a.blocks /\ Len(m.a.offsets) = m.a.offsets_p + m.c.loffp
  BY DEF Building
<1>3. /\ n.a.offsets = m.a.offsets /\ n.a.blocks[B].gp_lo = m.a.blocks[B].gp_lo
      /\ n.a.blocks[B].offsets = m.a.offsets_p /\ n.a.blocks[B].offsetssz = m.c.loffp
  BY <1>1 DEF Ended
<1>4. /\ DOMAIN n.a.blocks = DOMAIN m.a.blocks
      /\ \A i \in DOMAIN m.a.blocks : i # B => n.a.blocks[i] = m.a.blocks[i]
  <2>1. /\ n.a.blocks \in Seq(Blocks) /\ m.a.blocks \in Seq(Blocks)
        /\ Len(n.a.blocks) = Len(m.a.blocks)
        /\ \A i \in 1 .. Len(m.a.blocks) : i # B => n.a.blocks[i] = m.a.blocks[i]
    BY <1>1, Fields DEF Ended
  <2>2. DOMAIN n.a.blocks = 1 .. Len(n.a.blocks) /\ DOMAIN m.a.blocks = 1 .. Len(m.a.blocks)
    BY <2>1
  <2> QED BY <2>1, <2>2
<1>5. Sorted(n.a.blocks)
  <2>1. \A i \in DOMAIN m.a.blocks : n.a.blocks[i].gp_lo = m.a.blocks[i].gp_lo
    BY <1>3, <1>4
  <2> QED BY <1>4, <2>1 DEF Neat, Sorted
<1>6. ASSUME NEW i \in DOMAIN n.a.blocks
      PROVE  LET x == n.a.blocks[i] IN Rising(n.a.offsets, x.offsets + 1, x.offsets + x.offsetssz)
  <2>1. CASE i = B
    BY <1>2, <1>3, <2>1 DEF Neat
  <2>2. CASE i # B
    BY <1>3, <1>4, <2>2 DEF Neat
  <2> QED BY <2>1, <2>2
<1>7. n.a.offsets_p + 1 .. Len(n.a.offsets) = {}
  BY <1>1, Fields DEF Closed
<1> QED BY <1>5, <1>6, <1>7 DEF Neat, Rising

LEMMA SplitNeat ==
  ASSUME NEW m \in Machines, Running(m), AnchorInv(m.a), Building(m), Neat(m.a)
  PROVE  Neat(Split(m).a) /\ Behind(Split(m)) /\ Reached(Split(m))
<1> DEFINE n == cache_block_end(m)
<1>1. n \in Machines /\ AnchorInv(n.a) /\ Closed(n) /\ Neat(n.a)
  BY EndType, EndNeat
<1>2. Split(m) = cache_block_start(n)
  BY DEF Split
<1> HIDE DEF n
<1>3. CASE Running(n)
  BY <1>1, <1>2, <1>3, StartNeat
<1>4. CASE ~ Running(n)
  <2>1. Split(m) = n
    BY <1>2, <1>4 DEF cache_block_start
  <2> QED BY <1>1, <2>1, ClosedReached
<1> QED BY <1>3, <1>4

(* A new point lies above the pending ones; no block's points move.        *)
LEMMA AddNeat ==
  ASSUME NEW m \in Machines, Running(m), Open(m), AnchorInv(m.a), Neat(m.a), Behind(m),
         m.c.gp - m.a.blocks[m.c.block].gp_lo <= U8Max
  PROVE  Neat(AddPoint(m).a) /\ Reached(AddPoint(m))
<1> DEFINE n == AddPoint(m)
           B == m.c.block
           b == m.a.blocks[B]
           L == Len(m.a.offsets)
           P == m.a.offsets_p
           new == [goff |-> (m.c.gp - b.gp_lo) % (U8Max + 1),
                   hoff |-> (m.c.hp - b.hp) % (U8Max + 1)]
<1>1. n \in Machines /\ Added(m, n)
  BY AddShape
<1> SUFFICES Neat(n.a) /\ Reached(n)
  OBVIOUS
<1> HIDE DEF n
<1>2. /\ n.a.blocks = m.a.blocks /\ n.a.offsets_p = P /\ n.c.block = B
      /\ n.c.gp = m.c.gp /\ n.a.offsets = Append(m.a.offsets, new)
  BY <1>1 DEF Added
<1>3. /\ b \in Blocks /\ b.gp_lo <= m.c.gp
      /\ m.a.offsets \in Seq(Points) /\ L \in Nat /\ P \in Nat /\ m.c.gp \in Nat
  BY Fields DEF Open, Building
<1>4. b.gp_lo \in Nat
  BY <1>3, BlockFields
<1>5. b.gp_lo + new.goff = m.c.gp
  <2>1. (m.c.gp - b.gp_lo) % (U8Max + 1) = m.c.gp - b.gp_lo
    <3>1. U8Max \in Nat /\ m.c.gp - b.gp_lo <= U8Max
      BY CacheAssumption
    <3> HIDE DEF b
    <3>2. m.c.gp - b.gp_lo \in 0 .. U8Max
      BY <1>3, <1>4, <3>1
    <3>3. \A x \in 0 .. U8Max : x % (U8Max + 1) = x
      BY <3>1
    <3> QED BY <3>2, <3>3
  <2>2. new.goff = m.c.gp - b.gp_lo
    BY <2>1
  <2> HIDE DEF b, new
  <2> QED BY <1>3, <1>4, <2>2
<1>6. Len(n.a.offsets) = L + 1 /\ n.a.offsets[L + 1] = new
      /\ \A k \in 1 .. L : n.a.offsets[k] = m.a.offsets[k]
  <2> HIDE DEF new
  <2> QED BY <1>2, <1>3
<1>7. \A k \in P + 1 .. L : b.gp_lo + m.a.offsets[k].goff < m.c.gp
  BY DEF Behind
<1>8. \A k \in 1 .. L : m.a.offsets[k].goff \in Nat
  <2>1. \A k \in 1 .. L : m.a.offsets[k] \in Points
    BY <1>3
  <2> QED BY <2>1, PointField
<1>9. new.goff \in Nat
  <2>1. n.a.offsets \in Seq(Points)
    BY <1>1, Fields
  <2>2. n.a.offsets[L + 1] \in Points
    BY <1>3, <1>6, <2>1
  <2> QED BY <1>6, <2>2, PointField
<1> HIDE DEF b, new, L
<1>10. Reached(n)
  <2> SUFFICES ASSUME NEW k \in P + 1 .. L + 1
               PROVE  b.gp_lo + n.a.offsets[k].goff <= m.c.gp
    BY <1>2, <1>6 DEF Reached, b
  <2>1. CASE k = L + 1
    BY <1>3, <1>5, <1>6, <2>1
  <2>2. CASE k # L + 1
    <3>1. k \in P + 1 .. L /\ k \in 1 .. L
      BY <1>3, <2>2
    <3> DEFINE x == b.gp_lo
               y == m.a.offsets[k].goff
    <3>2. x + y < m.c.gp /\ x \in Nat /\ y \in Nat /\ m.c.gp \in Nat
      BY <1>3, <1>4, <1>7, <1>8, <3>1
    <3>3. n.a.offsets[k].goff = y
      BY <1>6, <3>1
    <3> HIDE DEF x, y
    <3>4. x + y <= m.c.gp
      BY <3>2
    <3> QED BY <3>3, <3>4 DEF x
  <2> QED BY <2>1, <2>2
<1>11. Rising(n.a.offsets, P + 1, L + 1)
  <2> SUFFICES ASSUME NEW j \in P + 1 .. L + 1, NEW k \in P + 1 .. L + 1, j < k
               PROVE  n.a.offsets[j].goff < n.a.offsets[k].goff
    BY DEF Rising
  <2>1. j \in P + 1 .. L /\ j \in 1 .. L
    BY <1>3
  <2>2. CASE k = L + 1
    <3> DEFINE x == b.gp_lo
               y == m.a.offsets[j].goff
               z == new.goff
    <3>1. x + y < x + z
      BY <1>5, <1>7, <2>1
    <3>2. x \in Nat /\ y \in Nat /\ z \in Nat
      BY <1>4, <1>8, <1>9, <2>1
    <3>3. n.a.offsets[j].goff = y /\ n.a.offsets[k].goff = z
      BY <1>6, <2>1, <2>2
    <3> HIDE DEF x, y, z
    <3>4. y < z
      BY <3>1, <3>2
    <3> QED BY <3>3, <3>4
  <2>3. CASE k # L + 1
    <3>1. k \in P + 1 .. L /\ k \in 1 .. L
      BY <1>3, <2>3
    <3>2. m.a.offsets[j].goff < m.a.offsets[k].goff
      BY <2>1, <3>1 DEF Neat, Rising, L
    <3> QED BY <1>6, <2>1, <3>1, <3>2
  <2> QED BY <2>2, <2>3
<1>12. ASSUME NEW i \in DOMAIN m.a.blocks
       PROVE  LET x == m.a.blocks[i] IN Rising(n.a.offsets, x.offsets + 1, x.offsets + x.offsetssz)
  <2> DEFINE x == m.a.blocks[i]
  <2>1. x \in Blocks /\ x.offsets + x.offsetssz <= P /\ P <= L
    BY Fields DEF AnchorInv, InBounds, L
  <2>2. x.offsets \in Nat /\ x.offsetssz \in Nat
    BY <2>1, BlockFields
  <2>3. Rising(m.a.offsets, x.offsets + 1, x.offsets + x.offsetssz)
    BY DEF Neat
  <2> HIDE DEF x
  <2>4. \A k \in x.offsets + 1 .. x.offsets + x.offsetssz : k \in 1 .. L
    BY <1>3, <2>1, <2>2
  <2>5. Rising(n.a.offsets, x.offsets + 1, x.offsets + x.offsetssz)
    BY <1>6, <2>3, <2>4 DEF Rising
  <2> QED BY <2>5 DEF x
<1> QED BY <1>2, <1>6, <1>10, <1>11, <1>12 DEF Neat

(* cache_block_point, with or without splits before and after the point.   *)
LEMMA PointNeat ==
  ASSUME NEW m \in Machines, Running(m), AnchorInv(m.a), Open(m), Neat(m.a), Behind(m)
  PROVE  LET n == cache_block_point(m)
         IN  Neat(n.a) /\ (Running(n) => Reached(n))
<1> DEFINE n == cache_block_point(m)
<1>1. PICK o \in {m, Split(m)} :
        /\ o \in Machines /\ AnchorInv(o.a) /\ Kept(m, o)
        /\ \/ n = m
           \/ ~ Running(o) /\ n = o
           \/ /\ Running(o) /\ Open(o)
              /\ o.c.gp - o.a.blocks[o.c.block].gp_lo <= U8Max
              /\ o.c.hp - o.a.blocks[o.c.block].hp <= U8Max
              /\ LET d == AddPoint(o)
                 IN  \/ /\ Len(d.a.offsets) >= MaxOffsets
                        /\ n = Panic(d, "offsets")
                     \/ /\ Len(d.a.offsets) < MaxOffsets
                        /\ d.c.loffp = U8Max /\ n = Split(d)
                     \/ /\ Len(d.a.offsets) < MaxOffsets
                        /\ d.c.loffp # U8Max /\ n = d
  BY PointCases
<1> SUFFICES Neat(n.a) /\ (Running(n) => Reached(n))
  OBVIOUS
<1> HIDE DEF n
<1>2. Neat(o.a) /\ Behind(o)
  BY SplitNeat DEF Open
<1>3. CASE n = m
  BY <1>3, BehindReached DEF Open
<1>4. CASE ~ Running(o) /\ n = o
  BY <1>2, <1>4
<1>5. CASE /\ Running(o) /\ Open(o)
           /\ o.c.gp - o.a.blocks[o.c.block].gp_lo <= U8Max
           /\ o.c.hp - o.a.blocks[o.c.block].hp <= U8Max
           /\ LET d == AddPoint(o)
              IN  \/ /\ Len(d.a.offsets) >= MaxOffsets
                     /\ n = Panic(d, "offsets")
                  \/ /\ Len(d.a.offsets) < MaxOffsets
                     /\ d.c.loffp = U8Max /\ n = Split(d)
                  \/ /\ Len(d.a.offsets) < MaxOffsets
                     /\ d.c.loffp # U8Max /\ n = d
  <2> DEFINE d == AddPoint(o)
  <2>1. d \in Machines /\ Neat(d.a) /\ Reached(d) /\ Running(d) /\ Building(d)
        /\ (Len(d.a.offsets) < MaxOffsets => AnchorInv(d.a))
    BY <1>1, <1>2, <1>5, AddNeat, AddShape, AddType
  <2>2. n = Panic(d, "offsets") \/ (Len(d.a.offsets) < MaxOffsets /\ n = Split(d)) \/ n = d
    BY <1>5
  <2> HIDE DEF d
  <2>3. CASE n = Panic(d, "offsets")
    <3>1. ~ Running(n)
      BY <2>1, <2>3, PanicType DEF Panics
    <3>2. n.a.blocks = d.a.blocks /\ n.a.offsets = d.a.offsets /\ n.a.offsets_p = d.a.offsets_p
      BY <2>1, <2>3, Fields DEF Panic, Anchors
    <3> QED BY <2>1, <3>1, <3>2, SameNeat
  <2> QED BY Zenon, <2>1, <2>2, <2>3, SplitNeat
<1> QED BY <1>1, <1>3, <1>4, <1>5

-----------------------------------------------------------------------------
(***************************************************************************)
(* The inductive invariant: where decode() stands above its points.        *)
(***************************************************************************)
OrderInv ==
  /\ Neat(anchor)
  /\ pc \in {"point", "lookup"} => Behind(Machine)
  /\ pc = "instr" => Reached(Machine)

LEMMA InitOrder == Init => OrderInv
<1> SUFFICES ASSUME Init PROVE OrderInv
  OBVIOUS
<1>1. anchor.blocks = << >> /\ anchor.offsets = << >> /\ anchor.offsets_p = 0 /\ pc = "idle"
  BY DEF Init, cahce_init
<1>2. DOMAIN anchor.blocks = {} /\ anchor.offsets_p + 1 .. Len(anchor.offsets) = {}
  BY <1>1
<1> QED BY <1>1, <1>2 DEF OrderInv, Neat, Sorted, Rising

(* A step that leaves blocks and points alone, outside decode().           *)
LEMMA SameOrder ==
  ASSUME OrderInv, anchor'.blocks = anchor.blocks, anchor'.offsets = anchor.offsets,
         anchor'.offsets_p = anchor.offsets_p, pc' \notin {"point", "instr", "lookup"}
  PROVE  OrderInv'
<1>1. Neat(anchor')
  BY SameNeat DEF OrderInv
<1> QED BY <1>1 DEF OrderInv

LEMMA MissOrder ==
  ASSUME SafeInv, OrderInv, Miss
  PROVE  OrderInv'
<1> DEFINE p == [a |-> anchor, c |-> context_pull(anchor, goal)]
           m == cache_block_start(p)
<1>1. anchor \in Anchors /\ goal \in Nat /\ pc = "resolve" /\ CacheShape
  BY DEF SafeInv, TypeOK, Miss
<1>2. anchor.host_p \in Nat
  BY <1>1 DEF Anchors
<1>3. p \in Machines /\ p.a = anchor /\ p.c.loffp = 0
  BY <1>1, <1>2, CacheAssumption DEF Machines, Contexts, context_pull
<1>4. Running(p) /\ AnchorInv(p.a) /\ Closed(p) /\ Neat(p.a)
  BY <1>1, <1>3 DEF CacheShape, Decoding, Closed, Machine, Running, OrderInv
<1> HIDE DEF p
<1>5. m \in Machines /\ Neat(m.a) /\ Behind(m)
  BY <1>3, <1>4, StartType, StartNeat
<1>6. Continue(m, "point")
  BY DEF Miss, m, p
<1> HIDE DEF m
<1>7. anchor' = m.a /\ Machine' = m /\ pc' \in {"point", "exit"}
  BY <1>5, <1>6, ContinueType DEF Labels
<1> QED BY <1>5, <1>7 DEF OrderInv

LEMMA PointOrder ==
  ASSUME SafeInv, OrderInv, Point \/ Join
  PROVE  OrderInv'
<1> DEFINE m == cache_block_point(Machine)
           n == [m EXCEPT !.c.hp = @ + 1]
<1>1. TypeOK /\ CacheShape /\ pc \in {"point", "lookup"}
  BY DEF SafeInv, Point, Join
<1>2. Machine \in Machines /\ Machine.a = anchor /\ Machine.c = context
  BY <1>1, MachineType
<1>3. Running(Machine) /\ AnchorInv(Machine.a) /\ Open(Machine) /\ Neat(Machine.a) /\ Behind(Machine)
  BY <1>1, <1>2 DEF CacheShape, Decoding, OrderInv
<1>4. m \in Machines /\ Neat(m.a) /\ (Running(m) => Reached(m))
  BY <1>2, <1>3, PointType, PointNeat
<1>5. Continue(m, "instr") \/ Continue(n, "end")
  BY DEF Point, Join
<1> HIDE DEF m
<1>6. n \in Machines /\ n.a = m.a
  BY <1>4, NextWord
<1> HIDE DEF n
<1>7. CASE Continue(m, "instr")
  <2>1. anchor' = m.a /\ Machine' = m /\ (pc' # "exit" => pc' = "instr" /\ Running(m))
    BY <1>4, <1>7, ContinueType DEF Labels
  <2> QED BY <1>4, <2>1 DEF OrderInv
<1>8. CASE Continue(n, "end")
  <2>1. anchor' = n.a /\ (pc' # "exit" => pc' = "end")
    BY <1>6, <1>8, ContinueType DEF Labels
  <2> QED BY <1>4, <1>6, <2>1 DEF OrderInv
<1> QED BY <1>5, <1>7, <1>8

(* The next instruction lies above this one: its length is not 0.          *)
LEMMA InstrOrder ==
  ASSUME SafeInv, OrderInv, Instr
  PROVE  OrderInv'
<1> DEFINE i == guest[context.gp]
<1>1. /\ TypeOK /\ CacheShape /\ OnProgram /\ IdsValid /\ pc = "instr"
      /\ anchor \in Anchors /\ context \in Contexts
  BY DEF SafeInv, TypeOK, Instr
<1>2. /\ AnchorInv(anchor) /\ ReuseValid(anchor) /\ Running(Machine) /\ i \in Instructions
      /\ Machine \in Machines /\ Machine.a = anchor /\ Machine.c = context /\ Open(Machine)
  BY <1>1, ProgramFacts, MachineType DEF CacheShape, IdsValid, OnProgram, Decoding
<1>3. SameBlocks(anchor, anchor')
  <2>1. CASE anchor' = anchor
    BY <2>1 DEF SameBlocks
  <2>2. CASE i.kind \in Patched /\ anchor' = cache_patch_point(anchor, i.kind, i.target)
    <3>1. i.target \in Nat
      BY <1>2 DEF Instructions
    <3> QED BY <1>1, <1>2, <2>2, <3>1, PatchPointType
  <2> QED BY <2>1, <2>2, InstrSites
<1>4. context' = [context EXCEPT !.gp = @ + i.len, !.hp = @ + i.words] /\ pc' \in {"end", "lookup"}
  BY DEF Instr
<1>5. i.len \in Nat \ {0}
  BY <1>2 DEF Instructions
<1> HIDE DEF i
<1>6. context'.gp = context.gp + i.len /\ context'.block = context.block /\ context.gp \in Nat
  BY <1>1, <1>4 DEF Contexts
<1>7. Behind(Machine')
  <2> SUFFICES ASSUME NEW k \in anchor.offsets_p + 1 .. Len(anchor.offsets)
               PROVE  anchor.blocks[context.block].gp_lo + anchor.offsets[k].goff < context'.gp
    BY <1>3, <1>6 DEF Behind, Machine, SameBlocks
  <2> DEFINE x == anchor.blocks[context.block].gp_lo
             y == anchor.offsets[k].goff
  <2>1. x + y <= context.gp
    BY <1>1, <1>2 DEF OrderInv, Reached
  <2>2. x \in Nat /\ y \in Nat
    <3>1. anchor.blocks \in Seq(Blocks) /\ anchor.offsets \in Seq(Points)
          /\ anchor.offsets_p \in Nat /\ Len(anchor.offsets) \in Nat
      BY <1>2, Fields
    <3>2. anchor.blocks[context.block] \in Blocks /\ anchor.offsets[k] \in Points
      BY <1>2, <3>1 DEF Open, Building
    <3> QED BY <3>2, BlockFields, PointField
  <2> HIDE DEF x, y
  <2>3. x + y < context'.gp
    BY <1>5, <1>6, <2>1, <2>2
  <2> QED BY <2>3 DEF x, y
<1>8. Neat(anchor')
  BY <1>3, SameNeat DEF OrderInv, SameBlocks
<1> QED BY <1>4, <1>7, <1>8 DEF OrderInv

LEMMA EndOrder ==
  ASSUME SafeInv, OrderInv, End
  PROVE  OrderInv'
<1> DEFINE m == cache_block_end(Machine)
<1>1. TypeOK /\ CacheShape /\ pc = "end"
  BY DEF SafeInv, End
<1>2. Machine \in Machines /\ Machine.a = anchor
  BY <1>1, MachineType
<1>3. Running(Machine) /\ AnchorInv(Machine.a) /\ Building(Machine) /\ Neat(Machine.a)
  BY <1>1, <1>2 DEF CacheShape, Decoding, Open, OrderInv
<1>4. m \in Machines /\ Neat(m.a)
  BY <1>2, <1>3, EndType, EndNeat
<1>5. Continue(m, "finish")
  BY DEF End
<1> HIDE DEF m
<1>6. anchor' = m.a /\ pc' \in {"finish", "exit"}
  BY <1>4, <1>5, ContinueType DEF Labels
<1> QED BY <1>4, <1>6 DEF OrderInv

(* The steps of the handlers outside decode(), and the clearing.           *)
LEMMA OutsideOrder ==
  ASSUME SafeInv, OrderInv,
         \/ \E s \in sites : Brk(s)
         \/ \E g \in DOMAIN guest : Segv(g)
         \/ Hit \/ Patch \/ Resume \/ Clear
  PROVE  OrderInv'
<1>1. CASE \E s \in sites : Brk(s)
  <2>1. PICK s \in sites : Brk(s)
    BY <1>1
  <2>2. anchor' = cache_get_patch(anchor, s.id) /\ pc' \in {"resolve", "exit"}
    BY <2>1 DEF Brk, Continue, Machine
  <2>3. anchor \in Anchors
    BY DEF SafeInv, TypeOK
  <2>4. /\ anchor'.blocks = anchor.blocks /\ anchor'.offsets = anchor.offsets
        /\ anchor'.offsets_p = anchor.offsets_p
    BY <2>2, <2>3 DEF cache_get_patch, Anchors
  <2> QED BY <2>2, <2>4, SameOrder
<1>2. CASE \/ \E g \in DOMAIN guest : Segv(g)
           \/ Hit \/ Patch \/ Resume
  <2>1. anchor' = anchor /\ pc' \in {"resolve", "finish", "idle"}
    BY <1>2 DEF Segv, Hit, Patch, Resume
  <2> QED BY <2>1, SameOrder
<1>3. CASE Clear
  <2>1. /\ anchor'.blocks = << >> /\ anchor'.offsets = << >> /\ anchor'.offsets_p = 0
        /\ pc' = "idle"
    BY <1>3 DEF Clear, cache_clear, cahce_init
  <2>2. DOMAIN anchor'.blocks = {} /\ anchor'.offsets_p + 1 .. Len(anchor'.offsets) = {}
    BY <2>1
  <2> QED BY <2>1, <2>2 DEF OrderInv, Neat, Sorted, Rising
<1> QED BY <1>1, <1>2, <1>3

LEMMA OrderNext == SafeInv /\ OrderInv /\ [Next]_vars => OrderInv'
<1> SUFFICES ASSUME SafeInv, OrderInv, [Next]_vars PROVE OrderInv'
  OBVIOUS
<1>1. CASE UNCHANGED vars
  BY <1>1 DEF vars, OrderInv, Machine
<1>2. CASE GoOn
  <2>1. /\ pc = "lookup" /\ pc' = "point" /\ anchor' = anchor /\ Machine' = Machine
    BY <1>2 DEF GoOn, Machine
  <2> QED BY <2>1 DEF OrderInv
<1> QED
  BY <1>1, <1>2, OutsideOrder, MissOrder, PointOrder, InstrOrder, EndOrder DEF Next, Handler

(***************************************************************************)
(* The block table is sorted by guest address and the points of every      *)
(* block by their offset, without duplicates, through every insertion and  *)
(* split, for every program and every size of the tables.                  *)
(***************************************************************************)
THEOREM TablesStayOrdered == Spec => []TablesOrdered
<1>1. Init => SafeInv /\ OrderInv
  BY InitSafe, InitOrder
<1>2. (SafeInv /\ OrderInv) /\ [Next]_vars => (SafeInv /\ OrderInv)'
  BY SafeStep, OrderNext
<1>3. SafeInv /\ OrderInv => TablesOrdered
  BY NeatOrdered DEF OrderInv, Neat
<1> QED BY <1>1, <1>2, <1>3, PTL DEF Spec

-----------------------------------------------------------------------------
(***************************************************************************)
(* Places.  Host code only grows upwards, so whatever is found in the      *)
(* cache for the first time after a decode() began stands at or above dest.*)
(***************************************************************************)
Late(m, n, d) == \A gp \in Nat : \A h \in Found(n.a, gp) : h \in Found(m.a, gp) \/ h >= d

From(m, d) == d <= m.c.hp /\ d <= m.a.blocks[m.c.block].hp

LEMMA FoundMember ==
  ASSUME NEW a, NEW gp, NEW h
  PROVE  h \in Found(a, gp) <=>
           \/ \E i \in DOMAIN a.blocks : a.blocks[i].gp_lo = gp /\ h = a.blocks[i].hp
           \/ /\ \A i \in DOMAIN a.blocks : a.blocks[i].gp_lo # gp
              /\ \E i \in DOMAIN a.blocks :
                   /\ IsPredecessor(a.blocks, i, gp) /\ a.blocks[i].offsets # 0
                   /\ h \in block_cache_search(a, a.blocks[i], gp)
<1>1. CASE StartsAt(a.blocks, gp) # {}
  BY <1>1 DEF Found, StartsAt
<1>2. CASE StartsAt(a.blocks, gp) = {}
  BY <1>2 DEF Found, StartsAt
<1> QED BY <1>1, <1>2

LEMMA SameFound ==
  ASSUME NEW a, NEW n, n.blocks = a.blocks, n.offsets = a.offsets
  PROVE  \A gp : Found(n, gp) = Found(a, gp)
BY DEF Found, StartsAt, block_cache_search

(* The points of a block do not lie below it.                              *)
LEMMA SearchHost ==
  ASSUME NEW a \in Anchors, InBounds(a), NEW i \in DOMAIN a.blocks, NEW gp,
         NEW h \in block_cache_search(a, a.blocks[i], gp)
  PROVE  h \in Nat /\ h >= a.blocks[i].hp
<1> DEFINE b == a.blocks[i]
<1>1. a.blocks \in Seq(Blocks) /\ a.offsets \in Seq(Points) /\ a.offsets_p \in Nat
  BY DEF Anchors
<1>2. PICK k \in b.offsets + 1 .. b.offsets + b.offsetssz : h = b.hp + a.offsets[k].hoff
  BY DEF block_cache_search
<1>3. b \in Blocks
  BY <1>1
<1>4. b.hp \in Nat /\ b.offsets \in Nat /\ b.offsetssz \in Nat
  BY <1>3, BlockFields
<1>5. b.offsets + b.offsetssz <= a.offsets_p /\ a.offsets_p <= Len(a.offsets)
  BY DEF InBounds
<1>6. k \in 1 .. Len(a.offsets)
  <2> HIDE DEF b
  <2>1. Len(a.offsets) \in Nat
    BY <1>1, LenProperties
  <2> QED BY <1>1, <1>4, <1>5, <2>1
<1>7. a.offsets[k] \in Points
  BY <1>1, <1>6
<1>8. a.offsets[k].hoff \in Nat
  BY <1>7, CacheAssumption DEF Points
<1> HIDE DEF b
<1>9. h \in Nat /\ h >= b.hp
  BY <1>2, <1>4, <1>8
<1> QED BY <1>9 DEF b

LEMMA LateReflexive == ASSUME NEW m, NEW d PROVE Late(m, m, d)
BY DEF Late

LEMMA LateTransitive ==
  ASSUME NEW m, NEW n, NEW o, NEW d, Late(m, n, d), Late(n, o, d)
  PROVE  Late(m, o, d)
BY DEF Late

LEMMA LatePanic ==
  ASSUME NEW m \in Machines, NEW why \in Panics, NEW d
  PROVE  Late(m, Panic(m, why), d)
<1> DEFINE n == Panic(m, why)
<1>1. n.a.blocks = m.a.blocks /\ n.a.offsets = m.a.offsets
  BY Fields DEF Panic, Machines, Anchors
<1> HIDE DEF n
<1>2. \A gp : Found(n.a, gp) = Found(m.a, gp)
  BY <1>1, SameFound
<1> QED BY <1>2 DEF Late, n

(* A new block is found where it starts; below it the predecessors stay.   *)
LEMMA StartLate ==
  ASSUME NEW m \in Machines, Running(m), Closed(m), AnchorInv(m.a), NEW d \in Nat, d <= m.c.hp
  PROVE  LET n == cache_block_start(m)
         IN  Late(m, n, d) /\ (Running(n) => From(n, d))
<1> DEFINE n == cache_block_start(m)
<1>1. CASE n = Panic(m, "blocks")
  BY <1>1, LatePanic, PanicType DEF Panics
<1>2. CASE Started(m, n)
  <2> DEFINE b == NewBlock(m.c)
             p == n.c.block
             L == Len(m.a.blocks)
  <2>1. m.c.gp \in Nat /\ m.c.hp \in Nat /\ m.a.blocks \in Seq(Blocks) /\ L \in Nat
    BY Fields
  <2>2. /\ b \in Blocks /\ b.gp_lo = m.c.gp /\ b.hp = m.c.hp /\ b.offsets = 0
    BY <2>1, CacheAssumption DEF NewBlock, Blocks
  <2>3. /\ p \in 1 .. L + 1 /\ p = InsertPos(m.a.blocks, m.c.gp)
        /\ n.a.blocks = Insert(m.a.blocks, p, b) /\ n.a.offsets = m.a.offsets
        /\ n.c.hp = m.c.hp
    BY <1>2 DEF Started
  <2> SUFFICES Late(m, n, d) /\ From(n, d)
    OBVIOUS
  <2> HIDE DEF n, b, p
  <2>4. /\ Len(n.a.blocks) = L + 1 /\ n.a.blocks \in Seq(Blocks)
        /\ \A i \in 1 .. p - 1 : n.a.blocks[i] = m.a.blocks[i]
        /\ n.a.blocks[p] = b
        /\ \A i \in p + 1 .. L + 1 : n.a.blocks[i] = m.a.blocks[i - 1]
    <3> DEFINE new == Insert(m.a.blocks, p, b)
    <3>1. /\ new \in Seq(Blocks) /\ Len(new) = L + 1
          /\ \A i \in 1 .. p - 1 : new[i] = m.a.blocks[i]
          /\ new[p] = b
          /\ \A i \in p + 1 .. L + 1 : new[i] = m.a.blocks[i - 1]
      <4> DEFINE all == m.a.blocks
      <4>1. all \in Seq(Blocks) /\ p \in 1 .. Len(all) + 1 /\ b \in Blocks /\ L = Len(all)
        BY <2>1, <2>2, <2>3
      <4> HIDE DEF all
      <4> SUFFICES LET f == Insert(all, p, b)
                   IN  /\ f \in Seq(Blocks) /\ Len(f) = L + 1
                       /\ \A i \in 1 .. p - 1 : f[i] = all[i]
                       /\ f[p] = b
                       /\ \A i \in p + 1 .. L + 1 : f[i] = all[i - 1]
        BY Zenon DEF all
      <4> DEFINE f == Insert(all, p, b)
      <4>2. f \in Seq(Blocks)
        BY <4>1, InsertProperties
      <4>3. Len(f) = L + 1
        BY <4>1, InsertProperties
      <4>4. \A i \in 1 .. p - 1 : f[i] = all[i]
        BY <4>1, InsertProperties
      <4>5. f[p] = b
        BY <4>1, InsertProperties
      <4>6. \A i \in p + 1 .. L + 1 : f[i] = all[i - 1]
        BY <4>1, InsertProperties
      <4> HIDE DEF f, L
      <4> QED BY <4>2, <4>3, <4>4, <4>5, <4>6 DEF f
    <3> HIDE DEF new
    <3>2. n.a.blocks = new
      BY <2>3 DEF new
    <3> QED BY <3>1, <3>2
  <2>5. p <= L => m.a.blocks[p].gp_lo >= b.gp_lo
    BY <2>1, <2>2, <2>3, InsertPosProperties
  <2>6. /\ \A i \in DOMAIN m.a.blocks : \E j \in DOMAIN n.a.blocks : n.a.blocks[j] = m.a.blocks[i]
        /\ \A j \in DOMAIN n.a.blocks :
             n.a.blocks[j] = b \/ \E i \in DOMAIN m.a.blocks : n.a.blocks[j] = m.a.blocks[i]
    <3>1. LET new == Insert(m.a.blocks, p, b)
          IN  /\ \A i \in DOMAIN m.a.blocks : \E j \in DOMAIN new : new[j] = m.a.blocks[i]
              /\ \A j \in DOMAIN new :
                   new[j] = b \/ \E i \in DOMAIN m.a.blocks : new[j] = m.a.blocks[i]
      BY <2>1, <2>2, <2>3, Inserted
    <3> QED BY <2>3, <3>1
  <2>7. DOMAIN n.a.blocks = 1 .. L + 1 /\ DOMAIN m.a.blocks = 1 .. L
    BY <2>1, <2>4
  <2> HIDE DEF L
  <2>8. \A i \in 1 .. L : m.a.blocks[i].gp_lo \in Nat
    <3>1. \A i \in 1 .. L : m.a.blocks[i] \in Blocks
      BY <2>1, <2>7
    <3> QED BY <3>1, BlockFields
  <2>9. ASSUME NEW gp \in Nat, NEW j \in 1 .. L + 1, IsPredecessor(n.a.blocks, j, gp),
               n.a.blocks[j].offsets # 0
        PROVE  \E i \in 1 .. L : n.a.blocks[j] = m.a.blocks[i] /\ IsPredecessor(m.a.blocks, i, gp)
    <3>1. j # p
      BY <2>2, <2>4, <2>9
    <3>2. n.a.blocks[j].gp_lo < gp /\ (j < L + 1 => n.a.blocks[j + 1].gp_lo > gp)
      BY <2>4, <2>9 DEF IsPredecessor
    <3>3. CASE j < p
      <4>a. j \in 1 .. p - 1 /\ j \in 1 .. L
        BY <2>1, <2>3, <3>3
      <4>1. j \in 1 .. p - 1 /\ j \in 1 .. L /\ n.a.blocks[j] = m.a.blocks[j]
        BY <2>4, <4>a
      <4>2. j < L + 1
        BY <2>1, <4>1
      <4>3. CASE j + 1 = p
        <5>1. b.gp_lo > gp
          BY <2>4, <3>2, <4>2, <4>3
        <5>2. j < L => m.a.blocks[j + 1].gp_lo > gp
          <6> SUFFICES ASSUME j < L PROVE m.a.blocks[j + 1].gp_lo > gp
            OBVIOUS
          <6>1. p \in 1 .. L /\ m.a.blocks[p].gp_lo >= b.gp_lo
            BY <2>1, <2>3, <2>5, <4>1, <4>3
          <6>2. m.a.blocks[p].gp_lo \in Nat /\ b.gp_lo \in Nat
            BY <2>1, <2>2, <2>8, <6>1
          <6>3. m.a.blocks[p].gp_lo > gp
            BY <5>1, <6>1, <6>2
          <6> QED BY <4>3, <6>3
        <5> QED BY <2>7, <3>2, <4>1, <5>2 DEF IsPredecessor, L
      <4>4. CASE j + 1 # p
        <5>1. j + 1 \in 1 .. p - 1
          BY <2>3, <3>3, <4>1, <4>4
        <5>2. n.a.blocks[j + 1] = m.a.blocks[j + 1]
          BY <2>4, <5>1
        <5> QED BY <2>7, <3>2, <4>1, <4>2, <5>2 DEF IsPredecessor, L
      <4> QED BY <4>3, <4>4
    <3>4. CASE p < j
      <4>1. j \in p + 1 .. L + 1 /\ j - 1 \in 1 .. L /\ n.a.blocks[j] = m.a.blocks[j - 1]
        BY <2>1, <2>3, <2>4, <3>4
      <4>2. j - 1 < L => m.a.blocks[(j - 1) + 1].gp_lo > gp
        <5> SUFFICES ASSUME j - 1 < L PROVE m.a.blocks[j].gp_lo > gp
          BY <2>1
        <5>1. j + 1 \in p + 1 .. L + 1 /\ j < L + 1 /\ (j + 1) - 1 = j
          BY <2>1, <2>3, <4>1
        <5>2. n.a.blocks[j + 1] = m.a.blocks[j]
          BY <2>4, <5>1
        <5> QED BY <3>2, <5>1, <5>2
      <4> QED BY <2>7, <3>2, <4>1, <4>2 DEF IsPredecessor, L
    <3> QED BY <2>3, <3>1, <3>3, <3>4
  <2>10. ASSUME NEW gp \in Nat, NEW h \in Found(n.a, gp)
         PROVE  h \in Found(m.a, gp) \/ h >= d
    <3>1. CASE \E j \in 1 .. L + 1 : n.a.blocks[j].gp_lo = gp /\ h = n.a.blocks[j].hp
      <4>1. PICK j \in 1 .. L + 1 : n.a.blocks[j].gp_lo = gp /\ h = n.a.blocks[j].hp
        BY <3>1
      <4>2. CASE n.a.blocks[j] = b
        BY <2>1, <2>2, <4>1, <4>2
      <4>3. CASE \E i \in DOMAIN m.a.blocks : n.a.blocks[j] = m.a.blocks[i]
        BY <4>1, <4>3, FoundMember
      <4> QED BY <2>6, <2>7, <4>2, <4>3
    <3>2. CASE /\ \A i \in 1 .. L + 1 : n.a.blocks[i].gp_lo # gp
               /\ \E i \in 1 .. L + 1 :
                    /\ IsPredecessor(n.a.blocks, i, gp) /\ n.a.blocks[i].offsets # 0
                    /\ h \in block_cache_search(n.a, n.a.blocks[i], gp)
      <4>1. PICK j \in 1 .. L + 1 :
              /\ IsPredecessor(n.a.blocks, j, gp) /\ n.a.blocks[j].offsets # 0
              /\ h \in block_cache_search(n.a, n.a.blocks[j], gp)
        BY <3>2
      <4>2. PICK i \in 1 .. L : n.a.blocks[j] = m.a.blocks[i] /\ IsPredecessor(m.a.blocks, i, gp)
        BY <2>9, <4>1
      <4>3. \A k \in DOMAIN m.a.blocks : m.a.blocks[k].gp_lo # gp
        BY <2>6, <2>7, <3>2
      <4>4. h \in block_cache_search(m.a, m.a.blocks[i], gp)
        BY <2>3, <4>1, <4>2 DEF block_cache_search
      <4> QED BY <2>7, <4>1, <4>2, <4>3, <4>4, FoundMember
    <3>3. \/ \E j \in DOMAIN n.a.blocks : n.a.blocks[j].gp_lo = gp /\ h = n.a.blocks[j].hp
          \/ /\ \A i \in DOMAIN n.a.blocks : n.a.blocks[i].gp_lo # gp
             /\ \E i \in DOMAIN n.a.blocks :
                  /\ IsPredecessor(n.a.blocks, i, gp) /\ n.a.blocks[i].offsets # 0
                  /\ h \in block_cache_search(n.a, n.a.blocks[i], gp)
      BY FoundMember
    <3> QED BY <2>7, <3>1, <3>2, <3>3
  <2>11. From(n, d)
    BY <2>2, <2>3, <2>4 DEF From, p
  <2> QED BY <2>10, <2>11 DEF Late
<1> QED BY <1>1, <1>2, StartShape

(* At its end the open block makes its points known, and none lies below.  *)
LEMMA EndLate ==
  ASSUME NEW m \in Machines, AnchorInv(m.a), Running(m), Building(m), NEW d \in Nat, From(m, d)
  PROVE  Late(m, cache_block_end(m), d) /\ From(cache_block_end(m), d)
<1> DEFINE n == cache_block_end(m)
           B == m.c.block
<1>1. n \in Machines /\ AnchorInv(n.a) /\ Ended(m, n)
  BY EndType
<1> SUFFICES Late(m, n, d) /\ From(n, d)
  OBVIOUS
<1> HIDE DEF n
<1>2. /\ n.a.offsets = m.a.offsets /\ n.a.blocks[B].gp_lo = m.a.blocks[B].gp_lo
      /\ n.a.blocks[B].hp = m.a.blocks[B].hp /\ n.c.block = B /\ n.c.hp = m.c.hp
  BY <1>1 DEF Ended
<1>3. /\ DOMAIN n.a.blocks = DOMAIN m.a.blocks /\ B \in DOMAIN m.a.blocks
      /\ Len(n.a.blocks) = Len(m.a.blocks) /\ DOMAIN m.a.blocks = 1 .. Len(m.a.blocks)
      /\ Len(m.a.blocks) \in Nat
      /\ \A i \in DOMAIN m.a.blocks : i # B => n.a.blocks[i] = m.a.blocks[i]
  <2>1. /\ n.a.blocks \in Seq(Blocks) /\ m.a.blocks \in Seq(Blocks)
        /\ Len(n.a.blocks) = Len(m.a.blocks) /\ Len(m.a.blocks) \in Nat
        /\ \A i \in 1 .. Len(m.a.blocks) : i # B => n.a.blocks[i] = m.a.blocks[i]
    BY Zenon, <1>1, Fields DEF Ended
  <2>2. DOMAIN n.a.blocks = 1 .. Len(n.a.blocks) /\ DOMAIN m.a.blocks = 1 .. Len(m.a.blocks)
    BY <2>1
  <2> QED BY Zenon, <2>1, <2>2 DEF Building
<1>4. \A i \in DOMAIN m.a.blocks : n.a.blocks[i].gp_lo = m.a.blocks[i].gp_lo
                                   /\ n.a.blocks[i].hp = m.a.blocks[i].hp
  BY <1>2, <1>3
<1>5. ASSUME NEW gp \in Nat, NEW i \in DOMAIN m.a.blocks
      PROVE  IsPredecessor(n.a.blocks, i, gp) => IsPredecessor(m.a.blocks, i, gp)
  <2>1. i < Len(m.a.blocks) => i + 1 \in DOMAIN m.a.blocks
    BY <1>3
  <2> QED BY <1>3, <1>4, <2>1 DEF IsPredecessor
<1>6. ASSUME NEW gp \in Nat, NEW h \in Found(n.a, gp)
      PROVE  h \in Found(m.a, gp) \/ h >= d
  <2>1. CASE \E i \in DOMAIN m.a.blocks : n.a.blocks[i].gp_lo = gp /\ h = n.a.blocks[i].hp
    <3>1. PICK i \in DOMAIN m.a.blocks : n.a.blocks[i].gp_lo = gp /\ h = n.a.blocks[i].hp
      BY <2>1
    <3>2. m.a.blocks[i].gp_lo = gp /\ h = m.a.blocks[i].hp
      BY <1>4, <3>1
    <3> QED BY <3>2, FoundMember
  <2>2. CASE /\ \A i \in DOMAIN m.a.blocks : n.a.blocks[i].gp_lo # gp
             /\ \E i \in DOMAIN m.a.blocks :
                  /\ IsPredecessor(n.a.blocks, i, gp) /\ n.a.blocks[i].offsets # 0
                  /\ h \in block_cache_search(n.a, n.a.blocks[i], gp)
    <3>1. PICK i \in DOMAIN m.a.blocks :
            /\ IsPredecessor(n.a.blocks, i, gp) /\ n.a.blocks[i].offsets # 0
            /\ h \in block_cache_search(n.a, n.a.blocks[i], gp)
      BY <2>2
    <3>2. \A k \in DOMAIN m.a.blocks : m.a.blocks[k].gp_lo # gp
      BY <1>4, <2>2
    <3>3. CASE i = B
      <4>1. n.a \in Anchors /\ InBounds(n.a)
        BY <1>1, Fields DEF AnchorInv
      <4>2. h \in Nat /\ h >= n.a.blocks[B].hp
        BY <1>3, <3>1, <3>3, <4>1, SearchHost
      <4>3. d <= n.a.blocks[B].hp
        BY <1>2 DEF From
      <4>4. n.a.blocks[B].hp \in Nat
        <5>1. n.a.blocks \in Seq(Blocks)
          BY <1>1, Fields
        <5>2. B \in DOMAIN n.a.blocks
          BY Zenon, <1>3
        <5>3. n.a.blocks[B] \in Blocks
          BY <5>1, <5>2
        <5> QED BY <5>3, BlockFields
      <4> DEFINE z == n.a.blocks[B].hp
      <4> HIDE DEF z
      <4>5. h \in Nat /\ z \in Nat /\ h >= z /\ d <= z
        BY Zenon, <4>2, <4>3, <4>4 DEF z
      <4> QED BY <4>5
    <3>4. CASE i # B
      <4>1. n.a.blocks[i] = m.a.blocks[i]
        BY Zenon, <1>3, <3>4
      <4>2. h \in block_cache_search(m.a, m.a.blocks[i], gp)
        BY Zenon, <1>2, <3>1, <4>1 DEF block_cache_search
      <4> QED BY <1>5, <3>1, <3>2, <4>1, <4>2, FoundMember
    <3> QED BY <3>3, <3>4
  <2>3. \/ \E i \in DOMAIN n.a.blocks : n.a.blocks[i].gp_lo = gp /\ h = n.a.blocks[i].hp
        \/ /\ \A i \in DOMAIN n.a.blocks : n.a.blocks[i].gp_lo # gp
           /\ \E i \in DOMAIN n.a.blocks :
                /\ IsPredecessor(n.a.blocks, i, gp) /\ n.a.blocks[i].offsets # 0
                /\ h \in block_cache_search(n.a, n.a.blocks[i], gp)
    BY FoundMember
  <2> QED BY <1>3, <2>1, <2>2, <2>3
<1> QED BY <1>2, <1>6 DEF Late, From

(* A pending point is not found yet, and the points of the blocks stay.    *)
LEMMA AddLate ==
  ASSUME NEW m \in Machines, Running(m), Open(m), AnchorInv(m.a), NEW d \in Nat, From(m, d)
  PROVE  Late(m, AddPoint(m), d) /\ From(AddPoint(m), d)
<1> DEFINE n == AddPoint(m)
           L == Len(m.a.offsets)
<1>1. n \in Machines /\ Added(m, n)
  BY AddShape
<1> SUFFICES Late(m, n, d) /\ From(n, d)
  OBVIOUS
<1> HIDE DEF n
<1>2. n.a.blocks = m.a.blocks /\ n.c.block = m.c.block /\ n.c.hp = m.c.hp
  BY <1>1 DEF Added
<1>3. m.a.offsets \in Seq(Points) /\ L \in Nat /\ m.a.blocks \in Seq(Blocks) /\ m.a.offsets_p \in Nat
  BY Fields
<1>4. \A k \in 1 .. L : n.a.offsets[k] = m.a.offsets[k]
  <2> DEFINE new == [goff |-> (m.c.gp - m.a.blocks[m.c.block].gp_lo) % (U8Max + 1),
                     hoff |-> (m.c.hp - m.a.blocks[m.c.block].hp) % (U8Max + 1)]
  <2>1. n.a.offsets = Append(m.a.offsets, new)
    BY <1>1 DEF Added
  <2> HIDE DEF new
  <2> QED BY <1>3, <2>1
<1>5. ASSUME NEW i \in DOMAIN m.a.blocks, NEW gp
      PROVE  block_cache_search(n.a, m.a.blocks[i], gp) = block_cache_search(m.a, m.a.blocks[i], gp)
  <2> DEFINE x == m.a.blocks[i]
  <2>1. x \in Blocks /\ x.offsets + x.offsetssz <= m.a.offsets_p /\ m.a.offsets_p <= L
    BY <1>3 DEF AnchorInv, InBounds
  <2>2. x.offsets \in Nat /\ x.offsetssz \in Nat
    BY <2>1, BlockFields
  <2> HIDE DEF x, L
  <2>3. \A k \in x.offsets + 1 .. x.offsets + x.offsetssz : k \in 1 .. L
    BY <1>3, <2>1, <2>2
  <2>4. \A k \in x.offsets + 1 .. x.offsets + x.offsetssz : n.a.offsets[k] = m.a.offsets[k]
    BY <1>4, <2>3
  <2>5. block_cache_search(n.a, x, gp) = block_cache_search(m.a, x, gp)
    BY <2>4 DEF block_cache_search
  <2> QED BY <2>5 DEF x
<1>6. \A gp : Found(n.a, gp) = Found(m.a, gp)
  <2> SUFFICES ASSUME NEW gp PROVE Found(n.a, gp) = Found(m.a, gp)
    OBVIOUS
  <2> DEFINE S == StartsAt(m.a.blocks, gp)
             H == {m.a.blocks[i].hp : i \in S}
             J == {j \in DOMAIN m.a.blocks :
                     IsPredecessor(m.a.blocks, j, gp) /\ m.a.blocks[j].offsets # 0}
             Through(a) == {block_cache_search(a, m.a.blocks[i], gp) : i \in J}
  <2>1. Found(n.a, gp) = IF S # {} THEN H ELSE UNION Through(n.a)
    BY <1>2, Zenon DEF Found
  <2>2. Found(m.a, gp) = IF S # {} THEN H ELSE UNION Through(m.a)
    BY Zenon DEF Found
  <2>3. \A i \in J : block_cache_search(n.a, m.a.blocks[i], gp) = block_cache_search(m.a, m.a.blocks[i], gp)
    BY <1>5
  <2> HIDE DEF S, H, J
  <2>4. Through(n.a) = Through(m.a)
    BY <2>3, Zenon
  <2> HIDE DEF Through
  <2> QED BY <2>1, <2>2, <2>4
<1> QED BY <1>2, <1>6 DEF Late, From

LEMMA SplitLate ==
  ASSUME NEW m \in Machines, Running(m), AnchorInv(m.a), Building(m), NEW d \in Nat, From(m, d)
  PROVE  Late(m, Split(m), d) /\ (Running(Split(m)) => From(Split(m), d))
<1> DEFINE n == cache_block_end(m)
<1>1. n \in Machines /\ AnchorInv(n.a) /\ Closed(n) /\ Late(m, n, d) /\ From(n, d)
  BY EndType, EndLate
<1>2. Split(m) = cache_block_start(n)
  BY DEF Split
<1> HIDE DEF n
<1>3. CASE Running(n)
  <2>1. d <= n.c.hp
    BY <1>1 DEF From
  <2> QED BY <1>1, <1>2, <1>3, <2>1, StartLate, LateTransitive
<1>4. CASE ~ Running(n)
  <2>1. Split(m) = n
    BY <1>2, <1>4 DEF cache_block_start
  <2> QED BY <1>1, <1>4, <2>1
<1> QED BY <1>3, <1>4

LEMMA PointLate ==
  ASSUME NEW m \in Machines, Running(m), AnchorInv(m.a), Open(m), NEW d \in Nat, From(m, d)
  PROVE  LET n == cache_block_point(m)
         IN  Late(m, n, d) /\ (Running(n) => From(n, d))
<1> DEFINE n == cache_block_point(m)
<1>1. PICK o \in {m, Split(m)} :
        /\ o \in Machines /\ AnchorInv(o.a) /\ Kept(m, o)
        /\ \/ n = m
           \/ ~ Running(o) /\ n = o
           \/ /\ Running(o) /\ Open(o)
              /\ o.c.gp - o.a.blocks[o.c.block].gp_lo <= U8Max
              /\ o.c.hp - o.a.blocks[o.c.block].hp <= U8Max
              /\ LET d2 == AddPoint(o)
                 IN  \/ /\ Len(d2.a.offsets) >= MaxOffsets
                        /\ n = Panic(d2, "offsets")
                     \/ /\ Len(d2.a.offsets) < MaxOffsets
                        /\ d2.c.loffp = U8Max /\ n = Split(d2)
                     \/ /\ Len(d2.a.offsets) < MaxOffsets
                        /\ d2.c.loffp # U8Max /\ n = d2
  BY PointCases
<1> SUFFICES Late(m, n, d) /\ (Running(n) => From(n, d))
  OBVIOUS
<1> HIDE DEF n
<1>2. Late(m, o, d) /\ (Running(o) => From(o, d))
  BY SplitLate, LateReflexive DEF Open
<1>3. CASE n = m \/ n = o
  BY <1>2, <1>3, LateReflexive
<1>4. CASE /\ Running(o) /\ Open(o)
           /\ o.c.gp - o.a.blocks[o.c.block].gp_lo <= U8Max
           /\ o.c.hp - o.a.blocks[o.c.block].hp <= U8Max
           /\ LET d2 == AddPoint(o)
              IN  \/ /\ Len(d2.a.offsets) >= MaxOffsets
                     /\ n = Panic(d2, "offsets")
                  \/ /\ Len(d2.a.offsets) < MaxOffsets
                     /\ d2.c.loffp = U8Max /\ n = Split(d2)
                  \/ /\ Len(d2.a.offsets) < MaxOffsets
                     /\ d2.c.loffp # U8Max /\ n = d2
  <2> DEFINE d2 == AddPoint(o)
  <2>1. d2 \in Machines /\ Late(o, d2, d) /\ From(d2, d) /\ Running(d2) /\ Building(d2)
        /\ (Len(d2.a.offsets) < MaxOffsets => AnchorInv(d2.a))
    BY <1>1, <1>2, <1>4, AddLate, AddShape, AddType
  <2>2. n = Panic(d2, "offsets") \/ (Len(d2.a.offsets) < MaxOffsets /\ n = Split(d2)) \/ n = d2
    BY <1>4
  <2> HIDE DEF d2
  <2>3. Late(m, d2, d)
    BY <1>2, <2>1, LateTransitive
  <2>4. Late(d2, n, d) /\ (Running(n) => From(n, d))
    <3>1. CASE n = Panic(d2, "offsets")
      BY <2>1, <3>1, LatePanic, PanicType DEF Panics
    <3>2. CASE (Len(d2.a.offsets) < MaxOffsets /\ n = Split(d2)) \/ n = d2
      BY <2>1, <3>2, SplitLate, LateReflexive
    <3> QED BY <2>2, <3>1, <3>2
  <2> QED BY <2>3, <2>4, LateTransitive
<1> QED BY <1>1, <1>3, <1>4

(***************************************************************************)
(* The invariant: where translated code, and the code that is just being   *)
(* translated, stands.                                                     *)
(***************************************************************************)
PlaceInv ==
  /\ pc \in {"idle", "resolve", "finish"} => \A e \in code : e[2] < anchor.host_p
  /\ pc \in {"point", "instr", "lookup"} => \A e \in code : e[2] <= context.hp
  /\ pc = "end" => \A e \in code : e[2] < context.hp
  /\ \A s \in sites : \E e \in code : e[2] = s.hp
  /\ Decoding => From(Machine, dest)
  /\ Decoding /\ site # NULL => site.hp < dest

LEMMA InitPlace == Init => PlaceInv
BY DEF Init, PlaceInv, Decoding

(* What the cache is found to hold in one step of the translator.          *)
NewFound ==
  \A gp \in Nat : \A h \in Found(anchor', gp) :
    h \in Found(anchor, gp) \/ (h >= dest' /\ (pc = "resolve" \/ Decoding))

(* Steps outside decode() write no code.                                   *)
LEMMA OutsidePlace ==
  ASSUME IdsInv, PlaceInv,
         \/ \E s \in sites : Brk(s)
         \/ \E g \in DOMAIN guest : Segv(g)
         \/ Hit \/ GoOn \/ Patch \/ Resume
  PROVE  PlaceInv' /\ NewFound
<1>1. CASE \E s \in sites : Brk(s)
  <2>1. PICK s \in sites : Brk(s)
    BY <1>1
  <2>2. /\ anchor' = cache_get_patch(anchor, s.id) /\ pc = "idle" /\ pc' \in {"resolve", "exit"}
        /\ UNCHANGED <<sites, code>>
    BY <2>1 DEF Brk, Continue, Machine
  <2>3. anchor \in Anchors
    BY DEF IdsInv, SafeInv, TypeOK
  <2>4. /\ anchor'.blocks = anchor.blocks /\ anchor'.offsets = anchor.offsets
        /\ anchor'.host_p = anchor.host_p
    BY <2>2, <2>3 DEF cache_get_patch, Anchors
  <2>5. \A gp : Found(anchor', gp) = Found(anchor, gp)
    BY <2>4, SameFound
  <2>6. PlaceInv'
    BY <2>2, <2>4 DEF PlaceInv, Decoding
  <2> QED BY <2>5, <2>6 DEF NewFound
<1>2. CASE \/ \E g \in DOMAIN guest : Segv(g)
           \/ Hit \/ GoOn \/ Patch \/ Resume
  <2>1. anchor' = anchor /\ context' = context /\ code' = code /\ sites' \subseteq sites
    BY <1>2 DEF Segv, Hit, GoOn, Patch, Resume
  <2>2. NewFound
    BY <2>1 DEF NewFound
  <2>3. \/ pc \in {"idle", "resolve", "finish"} /\ pc' \in {"idle", "resolve", "finish"}
        \/ pc = "lookup" /\ pc' = "point" /\ site' = site /\ dest' = dest
    BY <1>2 DEF Segv, Hit, GoOn, Patch, Resume
  <2>4. PlaceInv'
    BY <2>1, <2>3 DEF PlaceInv, Decoding, From, Machine
  <2> QED BY <2>2, <2>4
<1> QED BY <1>1, <1>2

LEMMA MissPlace ==
  ASSUME IdsInv, PlaceInv, Miss
  PROVE  PlaceInv' /\ NewFound
<1> DEFINE p == [a |-> anchor, c |-> context_pull(anchor, goal)]
           m == cache_block_start(p)
<1>1. /\ SafeInv /\ TypeOK /\ anchor \in Anchors /\ goal \in Nat /\ pc = "resolve"
      /\ CacheShape /\ SiteOrder
  BY DEF IdsInv, SafeInv, TypeOK, Miss
<1>2. anchor.host_p \in Nat
  BY <1>1 DEF Anchors
<1>3. p \in Machines /\ p.a = anchor /\ p.c.gp = goal /\ p.c.hp = anchor.host_p /\ p.c.loffp = 0
  BY <1>1, <1>2, CacheAssumption DEF Machines, Contexts, context_pull
<1>4. Running(p) /\ AnchorInv(p.a) /\ Closed(p)
  BY <1>1, <1>3 DEF CacheShape, Decoding, Closed, Machine, Running
<1> HIDE DEF p
<1>5. /\ m \in Machines /\ Late(p, m, anchor.host_p) /\ (Running(m) => From(m, anchor.host_p))
      /\ m.c.hp = anchor.host_p
  BY <1>2, <1>3, <1>4, StartType, StartLate
<1>6. Continue(m, "point") /\ dest' = anchor.host_p
      /\ UNCHANGED <<guest, site, goal, sites, links, code, cleared>>
  BY DEF Miss, m, p
<1> HIDE DEF m
<1>7. /\ anchor' = m.a /\ context' = m.c /\ Machine' = m
      /\ (pc' # "exit" => pc' = "point" /\ Running(m))
  BY <1>5, <1>6, ContinueType DEF Labels
<1>8. NewFound
  BY <1>1, <1>3, <1>5, <1>6, <1>7 DEF NewFound, Late
<1>9. \A e \in code : e[2] <= anchor.host_p
  <2> SUFFICES ASSUME NEW e \in code PROVE e[2] <= anchor.host_p
    OBVIOUS
  <2>1. e[2] \in Nat /\ e[2] < anchor.host_p
    BY <1>1 DEF TypeOK, PlaceInv
  <2> QED BY <1>2, <2>1
<1>10. site # NULL => site.hp < anchor.host_p
  BY <1>1 DEF SiteOrder
<1>11. PlaceInv'
  BY <1>5, <1>6, <1>7, <1>9, <1>10 DEF PlaceInv, Decoding
<1> QED BY <1>8, <1>11

LEMMA PointPlace ==
  ASSUME IdsInv, PlaceInv, Point \/ Join
  PROVE  PlaceInv' /\ NewFound
<1> DEFINE m == cache_block_point(Machine)
           n == [m EXCEPT !.c.hp = @ + 1]
<1>1. TypeOK /\ CacheShape /\ pc \in {"point", "lookup"} /\ dest \in Nat
  BY DEF IdsInv, SafeInv, Point, Join, TypeOK
<1>2. Machine \in Machines /\ Machine.a = anchor /\ Machine.c = context /\ context.hp \in Nat
  BY <1>1, MachineType, Fields
<1>3. Running(Machine) /\ AnchorInv(Machine.a) /\ Open(Machine) /\ From(Machine, dest)
  BY <1>1, <1>2 DEF CacheShape, Decoding, PlaceInv
<1>4. /\ m \in Machines /\ Kept(Machine, m) /\ Late(Machine, m, dest)
      /\ (Running(m) => From(m, dest))
  BY <1>1, <1>2, <1>3, PointType, PointLate
<1>5. \/ Continue(m, "instr") /\ code' = code
      \/ Continue(n, "end") /\ code' = code \cup {<<context.gp, context.hp>>}
  BY DEF Point, Join
<1>6. UNCHANGED <<sites, site, dest>>
  BY DEF Point, Join
<1>7. \A e \in code : e[2] \in Nat /\ e[2] <= context.hp
  <2>1. \A e \in code : e[2] \in Nat
    BY <1>1 DEF TypeOK
  <2> QED BY <1>1, <2>1 DEF PlaceInv
<1> HIDE DEF m
<1>8. /\ n \in Machines /\ n.a = m.a /\ n.c.hp = m.c.hp + 1 /\ n.c.block = m.c.block
      /\ m.c.hp = context.hp
  BY <1>2, <1>4, NextWord DEF Kept
<1> HIDE DEF n
<1>9. CASE Continue(m, "instr") /\ code' = code
  <2>1. /\ anchor' = m.a /\ context' = m.c /\ Machine' = m
        /\ (pc' # "exit" => pc' = "instr" /\ Running(m))
    BY <1>4, <1>9, ContinueType DEF Labels
  <2>2. NewFound
    BY <1>1, <1>2, <1>4, <1>6, <2>1 DEF NewFound, Late, Decoding
  <2>3. PlaceInv'
    BY <1>1, <1>4, <1>6, <1>7, <1>8, <1>9, <2>1 DEF PlaceInv, Decoding
  <2> QED BY <2>2, <2>3
<1>10. CASE Continue(n, "end") /\ code' = code \cup {<<context.gp, context.hp>>}
  <2>1. /\ anchor' = n.a /\ context' = n.c /\ Machine' = n
        /\ (pc' # "exit" => pc' = "end" /\ Running(n))
    BY <1>8, <1>10, ContinueType DEF Labels
  <2>2. NewFound
    BY <1>1, <1>2, <1>4, <1>6, <1>8, <2>1 DEF NewFound, Late, Decoding
  <2>3. Running(n) => From(n, dest)
    BY <1>1, <1>2, <1>4, <1>8 DEF From, Running
  <2>4. \A e \in code' : e[2] < context'.hp
    BY <1>2, <1>7, <1>8, <1>10, <2>1
  <2>5. \A s \in sites' : \E e \in code' : e[2] = s.hp
    BY <1>6, <1>10 DEF PlaceInv
  <2>6. pc' # "exit" => (Decoding /\ site # NULL => site.hp < dest)'
    BY <1>1, <1>6 DEF PlaceInv, Decoding
  <2>7. PlaceInv'
    BY <1>6, <2>1, <2>3, <2>4, <2>5, <2>6 DEF PlaceInv, Decoding
  <2> QED BY <2>2, <2>7
<1> QED BY <1>5, <1>9, <1>10

(* An instruction that ends the block is at least one word.                *)
LEMMA InstrPlace ==
  ASSUME IdsInv, PlaceInv, Instr
  PROVE  PlaceInv' /\ NewFound
<1> DEFINE i == guest[context.gp]
<1>1. /\ SafeInv /\ TypeOK /\ CacheShape /\ OnProgram /\ IdsValid /\ pc = "instr"
      /\ anchor \in Anchors /\ context \in Contexts /\ dest \in Nat
  BY DEF IdsInv, SafeInv, TypeOK, Instr
<1>2. /\ AnchorInv(anchor) /\ ReuseValid(anchor) /\ i \in Instructions
      /\ (i.kind # "plain" => i.words > 0)
  BY <1>1, ProgramFacts DEF CacheShape, IdsValid, OnProgram
<1>3. SameBlocks(anchor, anchor')
  <2>1. CASE anchor' = anchor
    BY <2>1 DEF SameBlocks
  <2>2. CASE i.kind \in Patched /\ anchor' = cache_patch_point(anchor, i.kind, i.target)
    <3>1. i.target \in Nat
      BY <1>2 DEF Instructions
    <3> QED BY <1>1, <1>2, <2>2, <3>1, PatchPointType
  <2> QED BY <2>1, <2>2, InstrSites
<1>4. /\ context' = [context EXCEPT !.gp = @ + i.len, !.hp = @ + i.words]
      /\ code' = code \cup {<<context.gp, context.hp>>}
      /\ pc' = IF i.kind \in Ending THEN "end" ELSE "lookup"
      /\ UNCHANGED <<site, dest>>
  BY DEF Instr
<1>5. sites' = sites \/ sites' = sites \cup {NewSite(i)}
  BY InstrSites
<1>6. NewSite(i).hp = context.hp
  BY DEF NewSite
<1>7. i.words \in Nat /\ (i.kind \in Ending => i.words > 0)
  BY <1>2 DEF Instructions, Ending
<1> HIDE DEF i
<1>8. context'.block = context.block /\ context'.hp = context.hp + i.words /\ context.hp \in Nat
  BY <1>1, <1>4 DEF Contexts
<1>9. NewFound
  <2>1. \A gp : Found(anchor', gp) = Found(anchor, gp)
    BY <1>3, SameFound DEF SameBlocks
  <2> QED BY <2>1 DEF NewFound
<1>10. \A e \in code' : e[2] \in Nat /\ e[2] <= context.hp
  <2>1. \A e \in code : e[2] \in Nat /\ e[2] <= context.hp
    BY <1>1 DEF TypeOK, PlaceInv
  <2> QED BY <1>4, <1>8, <2>1
<1>11. /\ pc' = "lookup" => \A e \in code' : e[2] <= context'.hp
       /\ pc' = "end" => \A e \in code' : e[2] < context'.hp
  BY <1>4, <1>7, <1>8, <1>10
<1>12. \A s \in sites' : \E e \in code' : e[2] = s.hp
  <2>1. \A s \in sites : \E e \in code' : e[2] = s.hp
    BY <1>4 DEF PlaceInv
  <2>2. <<context.gp, context.hp>> \in code' /\ <<context.gp, context.hp>>[2] = NewSite(i).hp
    BY <1>4, <1>6
  <2> HIDE DEF NewSite
  <2>3. \E e \in code' : e[2] = NewSite(i).hp
    BY <2>2
  <2> QED BY <1>5, <2>1, <2>3
<1>13. From(Machine', dest)
  <2>1. From(Machine, dest)
    BY <1>1 DEF PlaceInv, Decoding
  <2>2. dest <= context'.hp
    BY <1>1, <1>7, <1>8, <2>1 DEF From, Machine
  <2> QED BY <1>3, <1>8, <2>1, <2>2 DEF From, Machine, SameBlocks
<1>14. site # NULL => site.hp < dest
  BY <1>1 DEF PlaceInv, Decoding
<1>15. PlaceInv'
  BY <1>4, <1>11, <1>12, <1>13, <1>14 DEF PlaceInv, Decoding
<1> QED BY <1>9, <1>15

LEMMA EndPlace ==
  ASSUME IdsInv, PlaceInv, End
  PROVE  PlaceInv' /\ NewFound
<1> DEFINE m == cache_block_end(Machine)
<1>1. TypeOK /\ CacheShape /\ pc = "end" /\ dest \in Nat
  BY DEF IdsInv, SafeInv, TypeOK, End
<1>2. Machine \in Machines /\ Machine.a = anchor /\ Machine.c = context
  BY <1>1, MachineType
<1>3. Running(Machine) /\ AnchorInv(Machine.a) /\ Building(Machine) /\ From(Machine, dest)
  BY <1>1, <1>2 DEF CacheShape, Decoding, Open, PlaceInv
<1>4. m \in Machines /\ Ended(Machine, m) /\ Late(Machine, m, dest)
  BY <1>1, <1>2, <1>3, EndType, EndLate
<1>5. Continue(m, "finish") /\ UNCHANGED <<dest, sites, code>>
  BY DEF End
<1> HIDE DEF m
<1>6. anchor' = m.a /\ pc' \in {"finish", "exit"}
  BY <1>4, <1>5, ContinueType DEF Labels
<1>7. NewFound
  BY <1>1, <1>2, <1>4, <1>5, <1>6 DEF NewFound, Late, Decoding
<1>8. anchor'.host_p = context.hp
  BY <1>2, <1>4, <1>6 DEF Ended
<1>9. PlaceInv'
  BY <1>1, <1>5, <1>6, <1>8 DEF PlaceInv, Decoding
<1> QED BY <1>7, <1>9

LEMMA PlaceStep ==
  ASSUME IdsInv, PlaceInv, Next
  PROVE  PlaceInv' /\ (Clear \/ NewFound)
<1>1. CASE Clear
  BY <1>1 DEF Clear, PlaceInv, Decoding
<1> QED
  BY <1>1, OutsidePlace, MissPlace, PointPlace, InstrPlace, EndPlace DEF Next, Handler

LEMMA PlaceNext == IdsInv /\ PlaceInv /\ [Next]_vars => PlaceInv'
<1> SUFFICES ASSUME IdsInv, PlaceInv, [Next]_vars PROVE PlaceInv'
  OBVIOUS
<1>1. CASE UNCHANGED vars
  BY <1>1 DEF vars, PlaceInv, Decoding, From, Machine
<1> QED BY <1>1, PlaceStep

(* How far host code reaches.  It goes up as long as a handler runs.       *)
Edge == IF Decoding THEN context.hp ELSE anchor.host_p

LEMMA EdgeGrows ==
  ASSUME IdsInv, PlaceInv, Next, ~ Clear
  PROVE  Edge \in Nat /\ (pc' # "exit" => Edge' \in Nat /\ Edge <= Edge')
<1>1. /\ SafeInv /\ TypeOK /\ CacheShape /\ OnProgram /\ anchor \in Anchors /\ context \in Contexts
  BY DEF IdsInv, SafeInv, TypeOK
<1>2. context.hp \in Nat /\ anchor.host_p \in Nat /\ Edge \in Nat
  BY <1>1 DEF Contexts, Anchors, Edge
<1>3. CASE \E s \in sites : Brk(s)
  <2>1. PICK s \in sites : Brk(s)
    BY <1>3
  <2>2. anchor' = cache_get_patch(anchor, s.id) /\ pc = "idle" /\ pc' \in {"resolve", "exit"}
    BY <2>1 DEF Brk, Continue, Machine
  <2>3. anchor'.host_p = anchor.host_p
    BY <1>1, <2>2 DEF cache_get_patch, Anchors
  <2> QED BY <1>2, <2>2, <2>3 DEF Edge, Decoding
<1>4. CASE (\E g \in DOMAIN guest : Segv(g)) \/ Hit \/ GoOn \/ Patch \/ Resume
  BY <1>2, <1>4 DEF Segv, Hit, GoOn, Patch, Resume, Edge, Decoding
<1>5. CASE Miss
  <2> DEFINE p == [a |-> anchor, c |-> context_pull(anchor, goal)]
             m == cache_block_start(p)
  <2>1. goal \in Nat /\ pc = "resolve"
    BY <1>1, <1>5 DEF TypeOK, Miss
  <2>2. p \in Machines /\ p.a = anchor /\ p.c.hp = anchor.host_p /\ p.c.loffp = 0
    BY <1>1, <1>2, <2>1, CacheAssumption DEF Machines, Contexts, context_pull
  <2>3. Running(p) /\ AnchorInv(p.a) /\ Closed(p)
    BY <1>1, <2>1, <2>2 DEF CacheShape, Decoding, Closed, Machine, Running
  <2> HIDE DEF p
  <2>4. m.c.hp = anchor.host_p
    BY <2>2, <2>3, StartType
  <2>5. context' = m.c /\ pc' \in {"point", "exit"}
    BY <1>5 DEF Miss, Continue, p
  <2> HIDE DEF m
  <2> QED BY <1>2, <2>1, <2>4, <2>5 DEF Edge, Decoding
<1>6. CASE Point \/ Join
  <2> DEFINE m == cache_block_point(Machine)
             n == [m EXCEPT !.c.hp = @ + 1]
  <2>1. Machine \in Machines /\ Machine.a = anchor /\ Machine.c = context
    BY <1>1, MachineType
  <2>2. Running(Machine) /\ AnchorInv(Machine.a) /\ Open(Machine)
    BY <1>1, <1>6, <2>1 DEF CacheShape, Decoding, Point, Join
  <2>3. Kept(Machine, m) /\ m \in Machines
    BY <2>1, <2>2, PointType
  <2>4. context' = m.c \/ context' = n.c
    BY <1>6 DEF Point, Join, Continue
  <2>5. pc \in {"point", "lookup"} /\ pc' \in {"instr", "end", "exit"}
    BY <1>6 DEF Point, Join, Continue
  <2> HIDE DEF m
  <2>6. m.c.hp = context.hp /\ n.c.hp = context.hp + 1
    BY <2>1, <2>3, NextWord DEF Kept
  <2> HIDE DEF n
  <2>7. context'.hp = context.hp \/ context'.hp = context.hp + 1
    BY <2>4, <2>6
  <2> QED BY <1>2, <2>5, <2>7 DEF Edge, Decoding
<1>7. CASE Instr
  <2> DEFINE i == guest[context.gp]
  <2>1. /\ context' = [context EXCEPT !.gp = @ + i.len, !.hp = @ + i.words]
        /\ pc = "instr" /\ pc' \in {"end", "lookup"}
    BY <1>7 DEF Instr
  <2>2. i \in Instructions
    BY <1>1, <2>1, ProgramFacts DEF OnProgram
  <2>3. i.words \in Nat
    BY <2>2 DEF Instructions
  <2> HIDE DEF i
  <2>4. context'.hp = context.hp + i.words
    BY <1>1, <2>1 DEF Contexts
  <2> QED BY <1>2, <2>1, <2>3, <2>4 DEF Edge, Decoding
<1>8. CASE End
  <2> DEFINE m == cache_block_end(Machine)
  <2>1. Machine \in Machines /\ Machine.a = anchor /\ Machine.c = context /\ pc = "end"
    BY <1>1, <1>8, MachineType DEF End
  <2>2. Running(Machine) /\ AnchorInv(Machine.a) /\ Building(Machine)
    BY <1>1, <2>1 DEF CacheShape, Decoding, Open
  <2>3. Ended(Machine, m)
    BY <2>1, <2>2, EndType
  <2>4. anchor' = m.a /\ pc' \in {"finish", "exit"}
    BY <1>8 DEF End, Continue
  <2> HIDE DEF m
  <2>5. anchor'.host_p = context.hp
    BY <2>1, <2>3, <2>4 DEF Ended
  <2> QED BY <1>2, <2>1, <2>4, <2>5 DEF Edge, Decoding
<1> QED
  BY <1>3, <1>4, <1>5, <1>6, <1>7, <1>8 DEF Next, Handler

(* Between two handlers all that can be found stands below the edge.       *)
LEMMA FoundBelow ==
  ASSUME IdsInv, FaithInv, PlaceInv, pc \in {"idle", "finish"}, NEW h,
         \/ \E i \in DOMAIN anchor.blocks : h = anchor.blocks[i].hp
         \/ \E gp \in Nat : h \in Found(anchor, gp)
  PROVE  h \in Nat /\ h < Edge
<1>1. anchor \in Anchors /\ code \subseteq Nat \X Nat
  BY DEF IdsInv, SafeInv, TypeOK
<1>2. \E gp : <<gp, h>> \in Claims(Machine)
  <2>1. CASE \E i \in DOMAIN anchor.blocks : h = anchor.blocks[i].hp
    <3>1. PICK i \in DOMAIN anchor.blocks : h = anchor.blocks[i].hp
      BY <2>1
    <3>2. <<anchor.blocks[i].gp_lo, h>> \in Entries(anchor)
      BY <3>1, EntryMember
    <3> QED BY <3>2 DEF Claims, Machine
  <2>2. CASE \E gp \in Nat : h \in Found(anchor, gp)
    <3>1. PICK gp \in Nat : h \in Found(anchor, gp)
      BY <2>2
    <3>2. <<gp, h>> \in Claims(Machine)
      BY <1>1, <3>1, FoundEntry DEF Claims, Machine
    <3> QED BY <3>2
  <2> QED BY <2>1, <2>2
<1>3. PICK gp : <<gp, h>> \in code
  BY <1>2 DEF FaithInv, Translated
<1>4. <<gp, h>>[2] = h /\ h \in Nat
  BY <1>1, <1>3
<1>5. <<gp, h>>[2] < anchor.host_p
  BY <1>3 DEF PlaceInv
<1> QED BY <1>4, <1>5 DEF Edge, Decoding

(* Where nothing is translated there is nothing to reach or to find.       *)
LEMMA NothingThere ==
  ASSUME IdsInv, FaithInv, PlaceInv, pc \in {"idle", "resolve"}, code = {}
  PROVE  sites = {} /\ \A gp \in Nat : Found(anchor, gp) = {}
<1>1. anchor \in Anchors
  BY DEF IdsInv, SafeInv, TypeOK
<1>2. Claims(Machine) = {}
  BY DEF FaithInv, Translated
<1>3. \A gp \in Nat : Found(anchor, gp) = {}
  BY <1>1, <1>2, FoundEntry DEF Claims, Machine
<1> QED BY <1>3 DEF PlaceInv

-----------------------------------------------------------------------------
(***************************************************************************)
(* What is translated is found again, for every program and every size of  *)
(* the tables: a look-up goes to the last block that starts below the      *)
(* address, and that block has a point there.                              *)
(*                                                                         *)
(* A finished block has points only as far as control runs straight on     *)
(* from its start, so the invariant speaks of straight runs: all code lies *)
(* in one from the start of some block, hence also in one from the start   *)
(* of the block that is found (Rooted), and a block has a point at every   *)
(* instruction of its run that it covers (Mature).  While decode() works,  *)
(* the open block has got as far as the instruction that comes next        *)
(* (Front).  Sole follows what is left where cache_search takes a 0 for    *)
(* "none".                                                                 *)
(***************************************************************************)

(* From x on, up to the instruction at g, nothing ends a block.            *)
Straight(p, x, g) == \A y \in DOMAIN p : x <= y /\ y < g => p[y].kind \notin Ending

(* Block i is the last one that starts below g, and none starts at g.      *)
Covers(blocks, i, g) ==
  /\ blocks[i].gp_lo < g
  /\ \A j \in DOMAIN blocks : i < j => blocks[j].gp_lo > g

(* One of the points lo + 1 .. hi, as points of block i, is at g.          *)
Pointed(a, i, lo, hi, g) ==
  \E k \in lo + 1 .. hi : a.blocks[i].gp_lo + a.offsets[k].goff = g

(* With the points lo + 1 .. hi block i, where a look-up takes a 0 for     *)
(* "none", holds the very places of the code that it covers.               *)
Sole(C, a, i, lo, hi) ==
  lo = 0 \/ a.blocks[i].hp = 0 =>
    \A e \in C : Covers(a.blocks, i, e[1]) =>
      \E k \in lo + 1 .. hi : PointAt(a, a.blocks[i], k) = e

(* A finished block has a point at every instruction that it runs through. *)
Mature(p, C, a, i) ==
  /\ \A g \in DOMAIN p : Covers(a.blocks, i, g) /\ Straight(p, a.blocks[i].gp_lo, g) =>
       Pointed(a, i, a.blocks[i].offsets, a.blocks[i].offsets + a.blocks[i].offsetssz, g)
  /\ Sole(C, a, i, a.blocks[i].offsets, a.blocks[i].offsets + a.blocks[i].offsetssz)

(* All code was reached in a straight run from the start of some block.    *)
Rooted(p, C, a) ==
  /\ \A i \in DOMAIN a.blocks : a.blocks[i].gp_lo \in DOMAIN p
  /\ \A e \in C :
       /\ e[1] \in DOMAIN p
       /\ \E i \in DOMAIN a.blocks :
            a.blocks[i].gp_lo <= e[1] /\ Straight(p, a.blocks[i].gp_lo, e[1])

AllFound(p, C, a) == Rooted(p, C, a) /\ \A i \in DOMAIN a.blocks : Mature(p, C, a, i)

(* What decode() has reached: the pending points are the instructions of   *)
(* the open block so far, and the blocks behind it start further on.       *)
Front(p, C, m) ==
  LET B == m.c.block
      b == m.a.blocks[B]
      lo == m.a.offsets_p
      hi == Len(m.a.offsets)
  IN  /\ Rooted(p, C, m.a)
      /\ \A i \in DOMAIN m.a.blocks : i # B => Mature(p, C, m.a, i)
      /\ Sole(C, m.a, B, lo, hi)
      /\ b.offsets = 0 /\ b.gp_lo <= m.c.gp /\ m.c.gp \in DOMAIN p
      /\ Straight(p, b.gp_lo, m.c.gp)
      /\ \A g \in DOMAIN p : b.gp_lo < g /\ g < m.c.gp => Pointed(m.a, B, lo, hi, g)
      /\ \A j \in DOMAIN m.a.blocks : B < j => m.c.gp <= m.a.blocks[j].gp_lo

Ahead(m) == \A j \in DOMAIN m.a.blocks : m.c.block < j => m.a.blocks[j].gp_lo # m.c.gp

(* The instruction has its point.                                          *)
Here(m) ==
  \/ m.c.gp = m.a.blocks[m.c.block].gp_lo
  \/ \E k \in m.a.offsets_p + 1 .. Len(m.a.offsets) :
       PointAt(m.a, m.a.blocks[m.c.block], k) = <<m.c.gp, m.c.hp>>

(* Nothing is missing but the end of the open block.                       *)
Finished(p, C, m) ==
  LET B == m.c.block
      lo == m.a.offsets_p
      hi == Len(m.a.offsets)
  IN  /\ Rooted(p, C, m.a)
      /\ \A i \in DOMAIN m.a.blocks : i # B => Mature(p, C, m.a, i)
      /\ Sole(C, m.a, B, lo, hi)
      /\ \A g \in DOMAIN p : Covers(m.a.blocks, B, g) /\ Straight(p, m.a.blocks[B].gp_lo, g) =>
           Pointed(m.a, B, lo, hi, g)

(* Ready for a new block at c.gp: only the block before it may lack points, *)
(* and only from c.gp on, which that block will no longer cover.           *)
Ready(p, C, m) ==
  LET blocks == m.a.blocks
  IN  /\ Rooted(p, C, m.a)
      /\ m.c.gp \in DOMAIN p
      /\ \A i \in DOMAIN blocks : \A g \in DOMAIN p :
           /\ Covers(blocks, i, g) /\ Straight(p, blocks[i].gp_lo, g)
           /\ blocks[i].gp_lo < m.c.gp => g < m.c.gp
           => Pointed(m.a, i, blocks[i].offsets, blocks[i].offsets + blocks[i].offsetssz, g)
      /\ \A i \in DOMAIN blocks :
           Sole(C, m.a, i, blocks[i].offsets, blocks[i].offsets + blocks[i].offsetssz)
      /\ m.a.offsets_p = 0 \/ m.c.hp = 0 =>
           \A e \in C : m.c.gp < e[1] =>
             \E j \in DOMAIN blocks : m.c.gp <= blocks[j].gp_lo /\ blocks[j].gp_lo <= e[1]

(* The blocks behind the open one start where they did.                    *)
Later(m, n) ==
  \A x : (\E j \in DOMAIN m.a.blocks : m.c.block < j /\ m.a.blocks[j].gp_lo = x) <=>
         (\E j \in DOMAIN n.a.blocks : n.c.block < j /\ n.a.blocks[j].gp_lo = x)

(* Where block i is found after an insertion at place pos.                 *)
Shift(pos, i) == IF i < pos THEN i ELSE i + 1

LEMMA BlockStarts ==
  ASSUME NEW a \in Anchors
  PROVE  /\ DOMAIN a.blocks = 1 .. Len(a.blocks) /\ Len(a.blocks) \in Nat
         /\ \A i \in DOMAIN a.blocks :
              /\ a.blocks[i] \in Blocks /\ a.blocks[i].gp_lo \in Nat /\ a.blocks[i].hp \in Nat
              /\ a.blocks[i].offsets \in Nat /\ a.blocks[i].offsetssz \in Nat
<1>1. a.blocks \in Seq(Blocks)
  BY DEF Anchors
<1>2. \A i \in DOMAIN a.blocks : a.blocks[i] \in Blocks
  BY <1>1
<1> QED BY <1>1, <1>2, BlockFields

LEMMA StartBlocks ==
  ASSUME NEW m \in Machines, Running(m), Sorted(m.a.blocks), Running(cache_block_start(m))
  PROVE  LET n == cache_block_start(m)
             P == n.c.block
         IN  /\ n \in Machines /\ n.c.gp = m.c.gp /\ n.c.hp = m.c.hp
             /\ n.a.offsets = m.a.offsets /\ n.a.offsets_p = m.a.offsets_p
             /\ P \in DOMAIN n.a.blocks /\ n.a.blocks[P] = NewBlock(m.c)
             /\ \A i \in DOMAIN m.a.blocks :
                  /\ Shift(P, i) \in DOMAIN n.a.blocks /\ Shift(P, i) # P
                  /\ n.a.blocks[Shift(P, i)] = m.a.blocks[i]
                  /\ Shift(P, i) < P <=> m.a.blocks[i].gp_lo < m.c.gp
             /\ \A j \in DOMAIN n.a.blocks : j # P => \E i \in DOMAIN m.a.blocks : j = Shift(P, i)
             /\ \A i, j \in DOMAIN m.a.blocks : i < j => Shift(P, i) < Shift(P, j)
<1> DEFINE n == cache_block_start(m)
           P == n.c.block
           L == Len(m.a.blocks)
           b == NewBlock(m.c)
<1>1. n \in Machines /\ Started(m, n) /\ n.a.blocks[P] = b
  BY StartFresh, StartShape
<1> HIDE DEF n
<1>2. P = InsertPos(m.a.blocks, m.c.gp) /\ n.a.blocks = Insert(m.a.blocks, P, b)
  BY <1>1 DEF Started
<1>3. m.a.blocks \in Seq(Blocks) /\ L \in Nat /\ m.c.gp \in Nat /\ m.a \in Anchors /\ m.c \in Contexts
  BY Fields
<1>4. b \in Blocks
  BY <1>3, CacheAssumption DEF NewBlock, Blocks, Contexts
<1>5. /\ P \in 1 .. L + 1
      /\ \A i \in 1 .. P - 1 : m.a.blocks[i].gp_lo < m.c.gp
      /\ P <= L => m.a.blocks[P].gp_lo >= m.c.gp
  BY <1>2, <1>3, InsertPosProperties
<1> HIDE DEF P, b
<1>6. /\ n.a.blocks \in Seq(Blocks) /\ Len(n.a.blocks) = L + 1
      /\ \A i \in 1 .. P - 1 : n.a.blocks[i] = m.a.blocks[i]
      /\ \A i \in P + 1 .. L + 1 : n.a.blocks[i] = m.a.blocks[i - 1]
  <2>1. m.a.blocks \in Seq(Blocks) /\ P \in 1 .. Len(m.a.blocks) + 1 /\ b \in Blocks
    BY <1>3, <1>4, <1>5
  <2>2. /\ Insert(m.a.blocks, P, b) \in Seq(Blocks)
        /\ Len(Insert(m.a.blocks, P, b)) = L + 1
        /\ \A i \in 1 .. P - 1 : Insert(m.a.blocks, P, b)[i] = m.a.blocks[i]
        /\ \A i \in P + 1 .. L + 1 : Insert(m.a.blocks, P, b)[i] = m.a.blocks[i - 1]
    <3> DEFINE bs == m.a.blocks
    <3>1. bs \in Seq(Blocks) /\ P \in 1 .. Len(bs) + 1 /\ b \in Blocks
      BY <2>1
    <3> HIDE DEF bs
    <3>2. /\ Insert(bs, P, b) \in Seq(Blocks)
          /\ Len(Insert(bs, P, b)) = Len(bs) + 1
          /\ \A i \in 1 .. P - 1 : Insert(bs, P, b)[i] = bs[i]
          /\ Insert(bs, P, b)[P] = b
          /\ \A i \in P + 1 .. Len(bs) + 1 : Insert(bs, P, b)[i] = bs[i - 1]
      BY <3>1, InsertProperties
    <3> QED BY <3>2 DEF bs
  <2> QED BY <1>2, <2>2
<1>7. DOMAIN m.a.blocks = 1 .. L /\ DOMAIN n.a.blocks = 1 .. L + 1
  BY <1>3, <1>6
<1>8. \A i \in 1 .. L : m.a.blocks[i].gp_lo \in Nat
  BY <1>3, <1>7, BlockStarts
<1>9. \A i \in 1 .. L : P <= i => m.a.blocks[i].gp_lo >= m.c.gp
  <2> SUFFICES ASSUME NEW i \in 1 .. L, P <= i
               PROVE  m.a.blocks[i].gp_lo >= m.c.gp
    OBVIOUS
  <2>1. P \in 1 .. L
    BY <1>3, <1>5
  <2>2. P = i \/ m.a.blocks[P].gp_lo <= m.a.blocks[i].gp_lo
    BY <1>7, <2>1 DEF Sorted
  <2> QED BY <1>3, <1>5, <1>8, <2>1, <2>2
<1> HIDE DEF L
<1>10. \A i \in 1 .. L :
         /\ Shift(P, i) \in 1 .. L + 1 /\ Shift(P, i) # P
         /\ n.a.blocks[Shift(P, i)] = m.a.blocks[i]
         /\ Shift(P, i) < P <=> m.a.blocks[i].gp_lo < m.c.gp
  <2> SUFFICES ASSUME NEW i \in 1 .. L
               PROVE  /\ Shift(P, i) \in 1 .. L + 1 /\ Shift(P, i) # P
                      /\ n.a.blocks[Shift(P, i)] = m.a.blocks[i]
                      /\ Shift(P, i) < P <=> m.a.blocks[i].gp_lo < m.c.gp
    OBVIOUS
  <2>1. CASE i < P
    <3>1. i \in 1 .. P - 1 /\ Shift(P, i) = i
      BY <1>3, <1>5, <2>1 DEF Shift
    <3>2. m.a.blocks[i].gp_lo < m.c.gp
      BY <1>5, <3>1
    <3>3. n.a.blocks[i] = m.a.blocks[i]
      BY <1>6, <3>1
    <3>4. i \in 1 .. L + 1 /\ i # P
      BY <1>3, <1>5, <2>1
    <3> QED BY <2>1, <3>1, <3>2, <3>3, <3>4
  <2>2. CASE P <= i
    <3>1. i + 1 \in P + 1 .. L + 1 /\ Shift(P, i) = i + 1 /\ (i + 1) - 1 = i /\ ~ (i + 1 < P)
      BY <1>3, <1>5, <2>2 DEF Shift
    <3>2. n.a.blocks[i + 1] = m.a.blocks[i]
      BY <1>6, <3>1
    <3>3. ~ (m.a.blocks[i].gp_lo < m.c.gp)
      BY <1>3, <1>8, <1>9, <2>2
    <3>4. i + 1 \in 1 .. L + 1 /\ i + 1 # P
      BY <1>3, <1>5, <2>2
    <3> QED BY <3>1, <3>2, <3>3, <3>4
  <2> QED BY <1>3, <1>5, <2>1, <2>2
<1>11. \A j \in 1 .. L + 1 : j # P => \E i \in 1 .. L : j = Shift(P, i)
  <2> SUFFICES ASSUME NEW j \in 1 .. L + 1, j # P
               PROVE  \E i \in 1 .. L : j = Shift(P, i)
    OBVIOUS
  <2>1. CASE j < P
    <3>1. j \in 1 .. L /\ Shift(P, j) = j
      BY <1>3, <1>5, <2>1 DEF Shift
    <3> QED BY <3>1
  <2>2. CASE j > P
    <3>1. j - 1 \in 1 .. L /\ Shift(P, j - 1) = j
      BY <1>3, <1>5, <2>2 DEF Shift
    <3> QED BY <3>1
  <2> QED BY <1>3, <1>5, <2>1, <2>2
<1>12. \A i, j \in 1 .. L : i < j => Shift(P, i) < Shift(P, j)
  BY <1>3, <1>5 DEF Shift
<1>13. P \in 1 .. L + 1
  BY <1>5
<1>14. /\ n.c.gp = m.c.gp /\ n.c.hp = m.c.hp
       /\ n.a.offsets = m.a.offsets /\ n.a.offsets_p = m.a.offsets_p
  BY <1>1 DEF Started
<1> QED BY <1>1, <1>7, <1>10, <1>11, <1>12, <1>13, <1>14 DEF P, b, n

(* After an insertion a block covers no more than before, and nothing from *)
(* the new block on.                                                       *)
LEMMA ShiftCovers ==
  ASSUME NEW m \in Machines, Running(m), Sorted(m.a.blocks), Running(cache_block_start(m)),
         NEW i \in DOMAIN m.a.blocks, NEW g \in Nat,
         LET n == cache_block_start(m) IN Covers(n.a.blocks, Shift(n.c.block, i), g)
  PROVE  Covers(m.a.blocks, i, g) /\ (m.a.blocks[i].gp_lo < m.c.gp => g < m.c.gp)
<1> DEFINE n == cache_block_start(m)
           P == n.c.block
<1>1. /\ P \in DOMAIN n.a.blocks /\ n.a.blocks[P] = NewBlock(m.c)
      /\ \A j \in DOMAIN m.a.blocks :
           /\ Shift(P, j) \in DOMAIN n.a.blocks
           /\ n.a.blocks[Shift(P, j)] = m.a.blocks[j]
           /\ Shift(P, j) < P <=> m.a.blocks[j].gp_lo < m.c.gp
      /\ \A j \in DOMAIN m.a.blocks : i < j => Shift(P, i) < Shift(P, j)
  BY StartBlocks
<1>2. Covers(n.a.blocks, Shift(P, i), g)
  OBVIOUS
<1>3. n.a.blocks[P].gp_lo = m.c.gp
  BY <1>1 DEF NewBlock
<1>4. m.c.gp \in Nat
  BY Fields
<1> HIDE DEF n, P
<1>5. Covers(m.a.blocks, i, g)
  BY <1>1, <1>2 DEF Covers
<1>6. m.a.blocks[i].gp_lo < m.c.gp => g < m.c.gp
  BY <1>1, <1>2, <1>3, <1>4 DEF Covers
<1> QED BY <1>5, <1>6

(* A new block at c.gp is the front.                                       *)
LEMMA StartFront ==
  ASSUME NEW p, DOMAIN p \subseteq Nat, NEW C \in SUBSET (Nat \X Nat),
         NEW m \in Machines, Running(m), Closed(m), AnchorInv(m.a), Sorted(m.a.blocks),
         Running(cache_block_start(m)), Ready(p, C, m)
  PROVE  Front(p, C, cache_block_start(m))
<1> DEFINE n == cache_block_start(m)
           P == n.c.block
           old == m.a.blocks
           new == n.a.blocks
<1>1. /\ n \in Machines /\ n.c.gp = m.c.gp /\ n.c.hp = m.c.hp
      /\ n.a.offsets = m.a.offsets /\ n.a.offsets_p = m.a.offsets_p
      /\ P \in DOMAIN new /\ new[P] = NewBlock(m.c)
      /\ \A i \in DOMAIN old :
           /\ Shift(P, i) \in DOMAIN new /\ Shift(P, i) # P
           /\ new[Shift(P, i)] = old[i]
           /\ Shift(P, i) < P <=> old[i].gp_lo < m.c.gp
      /\ \A j \in DOMAIN new : j # P => \E i \in DOMAIN old : j = Shift(P, i)
      /\ \A i, j \in DOMAIN old : i < j => Shift(P, i) < Shift(P, j)
  BY StartBlocks
<1>2. \A i \in DOMAIN old : \A g \in Nat : Covers(new, Shift(P, i), g) =>
        Covers(old, i, g) /\ (old[i].gp_lo < m.c.gp => g < m.c.gp)
  BY ShiftCovers
<1>3. /\ new[P].gp_lo = m.c.gp /\ new[P].hp = m.c.hp /\ new[P].offsets = 0
  BY <1>1 DEF NewBlock
<1>4. /\ m.c.gp \in Nat /\ m.a \in Anchors /\ n.a \in Anchors
      /\ \A i \in DOMAIN old : old[i].gp_lo \in Nat
      /\ \A j \in DOMAIN new : j \in Nat /\ new[j].gp_lo \in Nat
  <2>1. m.c.gp \in Nat /\ m.a \in Anchors /\ n.a \in Anchors
    BY <1>1, Fields
  <2> QED BY <2>1, BlockStarts
<1> HIDE DEF n, P, old, new
<1>5. Rooted(p, C, n.a)
  <2>1. /\ \A i \in DOMAIN old : old[i].gp_lo \in DOMAIN p
        /\ m.c.gp \in DOMAIN p
        /\ \A e \in C :
             /\ e[1] \in DOMAIN p
             /\ \E i \in DOMAIN old : old[i].gp_lo <= e[1] /\ Straight(p, old[i].gp_lo, e[1])
    BY DEF Ready, Rooted, old
  <2>2. \A j \in DOMAIN new : new[j].gp_lo \in DOMAIN p
    BY <1>1, <1>3, <2>1
  <2>3. \A e \in C : \E j \in DOMAIN new : new[j].gp_lo <= e[1] /\ Straight(p, new[j].gp_lo, e[1])
    BY <1>1, <2>1
  <2> QED BY <2>1, <2>2, <2>3 DEF Rooted, new
<1>6. ASSUME NEW j \in DOMAIN new, j # P
      PROVE  Mature(p, C, n.a, j)
  <2> PICK i \in DOMAIN old : j = Shift(P, i)
    BY <1>1, <1>6
  <2> DEFINE lo == old[i].offsets
             hi == old[i].offsets + old[i].offsetssz
  <2>1. new[j] = old[i] /\ n.a.offsets = m.a.offsets
    BY <1>1
  <2>2. ASSUME NEW g \in DOMAIN p, Covers(new, j, g), Straight(p, old[i].gp_lo, g)
        PROVE  Pointed(n.a, j, lo, hi, g)
    <3>1. Covers(old, i, g) /\ (old[i].gp_lo < m.c.gp => g < m.c.gp)
      BY <1>2, <2>2
    <3>2. Pointed(m.a, i, lo, hi, g)
      BY <2>2, <3>1 DEF Ready, old
    <3> QED BY <2>1, <3>2 DEF Pointed, new, old
  <2>3. Sole(C, n.a, j, lo, hi)
    <3>1. Sole(C, m.a, i, lo, hi)
      BY DEF Ready, old
    <3>2. \A e \in C : e[1] \in Nat
      OBVIOUS
    <3>3. \A e \in C : Covers(new, j, e[1]) => Covers(old, i, e[1])
      BY <1>2, <3>2
    <3>4. \A k : PointAt(n.a, new[j], k) = PointAt(m.a, old[i], k)
      BY <2>1 DEF PointAt
    <3> HIDE DEF lo, hi
    <3> QED BY <2>1, <3>1, <3>3, <3>4 DEF Sole, new, old
  <2> QED BY <2>1, <2>2, <2>3 DEF Mature, new
<1>7. Sole(C, n.a, P, n.a.offsets_p, Len(n.a.offsets))
  <2> SUFFICES ASSUME m.a.offsets_p = 0 \/ m.c.hp = 0, NEW e \in C, Covers(new, P, e[1])
               PROVE  FALSE
    BY <1>1, <1>3 DEF Sole, new
  <2>1. e[1] \in Nat /\ m.c.gp < e[1]
    BY <1>3 DEF Covers
  <2>2. PICK j \in DOMAIN old : m.c.gp <= old[j].gp_lo /\ old[j].gp_lo <= e[1]
    BY <2>1 DEF Ready, old
  <2>3. P < Shift(P, j) /\ Shift(P, j) \in DOMAIN new /\ new[Shift(P, j)] = old[j]
    <3>1. Shift(P, j) \in DOMAIN new /\ new[Shift(P, j)] = old[j] /\ Shift(P, j) # P
      BY <1>1
    <3>2. ~ (Shift(P, j) < P)
      <4>1. Shift(P, j) < P <=> old[j].gp_lo < m.c.gp
        BY <1>1
      <4> QED BY <1>4, <2>2, <4>1
    <3>3. P \in Nat /\ Shift(P, j) \in Nat
      BY <1>1, <1>4, <3>1
    <3> HIDE DEF P
    <3> QED BY <3>1, <3>2, <3>3
  <2> QED BY <1>4, <2>1, <2>2, <2>3 DEF Covers
<1>8. /\ Straight(p, m.c.gp, m.c.gp)
      /\ \A g \in DOMAIN p : ~ (m.c.gp < g /\ g < m.c.gp)
  BY <1>4 DEF Straight
<1>9. ASSUME NEW j \in DOMAIN new, P < j
      PROVE  m.c.gp <= new[j].gp_lo
  <2>1. P \in Nat /\ j \in Nat /\ j # P
    BY <1>1, <1>4, <1>9
  <2>2. PICK i \in DOMAIN old : j = Shift(P, i)
    BY <1>1, <2>1
  <2>3. ~ (j < P)
    BY <1>9, <2>1
  <2>4. new[j] = old[i] /\ (j < P <=> old[i].gp_lo < m.c.gp)
    BY <1>1, <2>2
  <2> QED BY <1>4, <2>3, <2>4
<1>10. m.c.gp \in DOMAIN p
  BY DEF Ready
<1>11. m.c.gp <= m.c.gp
  BY <1>4
<1>12. Front(p, C, n)
  BY Zenon, <1>1, <1>3, <1>5, <1>6, <1>7, <1>8, <1>9, <1>10, <1>11 DEF Front, new, P
<1> QED BY <1>12 DEF n

(* The end of the open block changes nothing that is said of the others,   *)
(* and the pending points become its own.                                  *)
LEMMA EndBlocks ==
  ASSUME NEW m \in Machines, AnchorInv(m.a), Running(m), Building(m)
  PROVE  LET n == cache_block_end(m)
         IN  /\ n \in Machines /\ n.c.gp = m.c.gp /\ n.c.hp = m.c.hp
             /\ n.a.offsets = m.a.offsets /\ n.a.offsets_p >= m.a.offsets_p
             /\ m.a.offsets_p \in Nat /\ n.a.offsets_p \in Nat
             /\ DOMAIN n.a.blocks = DOMAIN m.a.blocks /\ m.c.block \in DOMAIN m.a.blocks
             /\ n.a.blocks[m.c.block].offsets = m.a.offsets_p
             /\ n.a.blocks[m.c.block].offsets + n.a.blocks[m.c.block].offsetssz = Len(m.a.offsets)
             /\ \A i \in DOMAIN m.a.blocks :
                  /\ n.a.blocks[i].gp_lo = m.a.blocks[i].gp_lo
                  /\ n.a.blocks[i].hp = m.a.blocks[i].hp
                  /\ i # m.c.block => n.a.blocks[i] = m.a.blocks[i]
             /\ \A i, g : Covers(n.a.blocks, i, g) /\ i \in DOMAIN m.a.blocks =>
                  Covers(m.a.blocks, i, g)
<1> DEFINE n == cache_block_end(m)
           B == m.c.block
<1>1. n \in Machines /\ Ended(m, n)
  BY EndType
<1>2. B \in DOMAIN m.a.blocks /\ Len(m.a.offsets) = m.a.offsets_p + m.c.loffp
  BY DEF Building
<1> HIDE DEF n
<1>3. /\ Len(m.a.blocks) \in Nat /\ m.a.blocks \in Seq(Blocks) /\ n.a.blocks \in Seq(Blocks)
      /\ m.a.offsets_p \in Nat /\ m.c.loffp \in Nat
  BY <1>1, Fields
<1>4. Len(n.a.blocks) = Len(m.a.blocks)
  BY <1>1 DEF Ended
<1>5. DOMAIN n.a.blocks = 1 .. Len(m.a.blocks) /\ DOMAIN m.a.blocks = 1 .. Len(m.a.blocks)
  BY <1>3, <1>4
<1>6. /\ n.c.gp = m.c.gp /\ n.c.hp = m.c.hp
      /\ n.a.offsets = m.a.offsets /\ n.a.offsets_p = m.a.offsets_p + m.c.loffp
      /\ n.a.blocks[B].offsets = m.a.offsets_p /\ n.a.blocks[B].offsetssz = m.c.loffp
      /\ n.a.blocks[B].gp_lo = m.a.blocks[B].gp_lo /\ n.a.blocks[B].hp = m.a.blocks[B].hp
      /\ \A i \in DOMAIN m.a.blocks : i # B => n.a.blocks[i] = m.a.blocks[i]
  BY <1>1, <1>5 DEF Ended
<1>7. /\ n.a.offsets_p >= m.a.offsets_p /\ n.a.offsets_p \in Nat
      /\ n.a.blocks[B].offsets + n.a.blocks[B].offsetssz = Len(m.a.offsets)
  BY <1>2, <1>3, <1>6
<1>8. \A i \in DOMAIN m.a.blocks :
        n.a.blocks[i].gp_lo = m.a.blocks[i].gp_lo /\ n.a.blocks[i].hp = m.a.blocks[i].hp
  BY <1>6
<1>9. \A i, g : Covers(n.a.blocks, i, g) /\ i \in DOMAIN m.a.blocks => Covers(m.a.blocks, i, g)
  BY Zenon, <1>5, <1>8 DEF Covers
<1> QED BY Zenon, <1>1, <1>2, <1>3, <1>5, <1>6, <1>7, <1>8, <1>9 DEF n

LEMMA EndKeeps ==
  ASSUME NEW p, NEW C, NEW m \in Machines, AnchorInv(m.a), Running(m), Building(m),
         Rooted(p, C, m.a), \A i \in DOMAIN m.a.blocks : i # m.c.block => Mature(p, C, m.a, i),
         Sole(C, m.a, m.c.block, m.a.offsets_p, Len(m.a.offsets))
  PROVE  LET n == cache_block_end(m)
             B == m.c.block
         IN  /\ Rooted(p, C, n.a)
             /\ \A i \in DOMAIN n.a.blocks : i # B => Mature(p, C, n.a, i)
             /\ Sole(C, n.a, B, n.a.blocks[B].offsets, n.a.blocks[B].offsets + n.a.blocks[B].offsetssz)
<1> DEFINE n == cache_block_end(m)
           B == m.c.block
<1>1. /\ n.a.offsets = m.a.offsets
      /\ DOMAIN n.a.blocks = DOMAIN m.a.blocks /\ B \in DOMAIN m.a.blocks
      /\ n.a.blocks[B].offsets = m.a.offsets_p
      /\ n.a.blocks[B].offsets + n.a.blocks[B].offsetssz = Len(m.a.offsets)
      /\ \A i \in DOMAIN m.a.blocks :
           /\ n.a.blocks[i].gp_lo = m.a.blocks[i].gp_lo
           /\ n.a.blocks[i].hp = m.a.blocks[i].hp
           /\ i # m.c.block => n.a.blocks[i] = m.a.blocks[i]
      /\ \A i, g : Covers(n.a.blocks, i, g) /\ i \in DOMAIN m.a.blocks =>
           Covers(m.a.blocks, i, g)
  BY Zenon, EndBlocks
<1> HIDE DEF n, B
<1>2. Rooted(p, C, n.a)
  BY Zenon, <1>1 DEF Rooted
<1>3. ASSUME NEW i \in DOMAIN n.a.blocks, i # B
      PROVE  Mature(p, C, n.a, i)
  <2>1. n.a.blocks[i] = m.a.blocks[i] /\ n.a.offsets = m.a.offsets /\ Mature(p, C, m.a, i)
    BY <1>1, <1>3 DEF B
  <2>2. \A g : Covers(n.a.blocks, i, g) => Covers(m.a.blocks, i, g)
    BY Zenon, <1>1, <1>3
  <2> QED BY Zenon, <2>1, <2>2 DEF Mature, Pointed, Sole, PointAt
<1>4. Sole(C, n.a, B, m.a.offsets_p, Len(m.a.offsets))
  BY Zenon, <1>1 DEF Sole, PointAt, B
<1> QED BY <1>1, <1>2, <1>3, <1>4 DEF n, B

(* Where the open block is finished, so are all when decode() ends.        *)
LEMMA EndFound ==
  ASSUME NEW p, NEW C, NEW m \in Machines, AnchorInv(m.a), Running(m), Building(m),
         Finished(p, C, m)
  PROVE  AllFound(p, C, cache_block_end(m).a)
<1> DEFINE n == cache_block_end(m)
           B == m.c.block
<1>1. /\ n.a.offsets = m.a.offsets
      /\ DOMAIN n.a.blocks = DOMAIN m.a.blocks /\ B \in DOMAIN m.a.blocks
      /\ n.a.blocks[B].offsets = m.a.offsets_p
      /\ n.a.blocks[B].offsets + n.a.blocks[B].offsetssz = Len(m.a.offsets)
      /\ n.a.blocks[B].gp_lo = m.a.blocks[B].gp_lo
      /\ \A g : Covers(n.a.blocks, B, g) => Covers(m.a.blocks, B, g)
  BY EndBlocks
<1>2. /\ Rooted(p, C, n.a)
      /\ \A i \in DOMAIN n.a.blocks : i # B => Mature(p, C, n.a, i)
      /\ Sole(C, n.a, B, n.a.blocks[B].offsets, n.a.blocks[B].offsets + n.a.blocks[B].offsetssz)
  BY Zenon, EndKeeps DEF Finished
<1> HIDE DEF n, B
<1>3. \A g \in DOMAIN p : Covers(n.a.blocks, B, g) /\ Straight(p, n.a.blocks[B].gp_lo, g) =>
        Pointed(n.a, B, n.a.blocks[B].offsets, n.a.blocks[B].offsets + n.a.blocks[B].offsetssz, g)
  BY Zenon, <1>1 DEF Finished, Pointed, B
<1>4. Mature(p, C, n.a, B)
  BY <1>2, <1>3 DEF Mature
<1> QED BY <1>1, <1>2, <1>4 DEF AllFound, n

(* A split moves the front into a new block.                               *)
LEMMA SplitFront ==
  ASSUME NEW p, DOMAIN p \subseteq Nat, NEW C \in SUBSET (Nat \X Nat),
         NEW m \in Machines, Running(m), AnchorInv(m.a), Building(m), Neat(m.a), Reached(m),
         Front(p, C, m), m.a.blocks[m.c.block].gp_lo < m.c.gp, Running(Split(m))
  PROVE  Front(p, C, Split(m)) /\ Later(m, Split(m))
<1> DEFINE e == cache_block_end(m)
           n == Split(m)
           B == m.c.block
           old == m.a.blocks
<1>1. /\ e \in Machines /\ e.c.gp = m.c.gp /\ e.c.hp = m.c.hp
      /\ e.a.offsets = m.a.offsets /\ e.a.offsets_p >= m.a.offsets_p
      /\ m.a.offsets_p \in Nat /\ e.a.offsets_p \in Nat
      /\ DOMAIN e.a.blocks = DOMAIN old /\ B \in DOMAIN old
      /\ e.a.blocks[B].offsets = m.a.offsets_p
      /\ e.a.blocks[B].offsets + e.a.blocks[B].offsetssz = Len(m.a.offsets)
      /\ \A i \in DOMAIN old :
           /\ e.a.blocks[i].gp_lo = old[i].gp_lo
           /\ e.a.blocks[i].hp = old[i].hp
           /\ i # B => e.a.blocks[i] = old[i]
      /\ \A i, g : Covers(e.a.blocks, i, g) /\ i \in DOMAIN old => Covers(old, i, g)
  BY Zenon, EndBlocks
<1>2. AnchorInv(e.a) /\ Closed(e) /\ Neat(e.a)
  BY EndType, EndNeat
<1>3. n = cache_block_start(e)
  BY DEF Split
<1>4. Running(e)
  BY Zenon, <1>3 DEF cache_block_start
<1>5. /\ Rooted(p, C, e.a)
      /\ \A i \in DOMAIN e.a.blocks : i # B => Mature(p, C, e.a, i)
      /\ Sole(C, e.a, B, e.a.blocks[B].offsets, e.a.blocks[B].offsets + e.a.blocks[B].offsetssz)
  BY Zenon, EndKeeps DEF Front
<1>6. /\ m.c.gp \in Nat /\ m.c.hp \in Nat
      /\ \A i \in DOMAIN old : i \in Nat /\ old[i].gp_lo \in Nat /\ old[i].hp \in Nat
      /\ old[B].hp <= m.c.hp
  <2>1. m.a \in Anchors /\ m.c.gp \in Nat /\ m.c.hp \in Nat
    BY Fields
  <2>2. old[B].hp <= m.c.hp
    BY Zenon DEF Building
  <2>3. \A i \in DOMAIN old : old[i].gp_lo \in Nat /\ old[i].hp \in Nat
    BY Zenon, <2>1, BlockStarts
  <2>4. DOMAIN old = 1 .. Len(old) /\ Len(old) \in Nat
    BY Zenon, <2>1, BlockStarts
  <2> HIDE DEF old
  <2>5. \A i \in DOMAIN old : i \in Nat
    BY <2>4
  <2> QED BY Zenon, <2>1, <2>2, <2>3, <2>5
<1> HIDE DEF e, n, old
<1>7. Ready(p, C, e)
  <2>1. ASSUME NEW i \in DOMAIN e.a.blocks, NEW g \in DOMAIN p,
               Covers(e.a.blocks, i, g), Straight(p, e.a.blocks[i].gp_lo, g),
               e.a.blocks[i].gp_lo < e.c.gp => g < e.c.gp
        PROVE  Pointed(e.a, i, e.a.blocks[i].offsets,
                       e.a.blocks[i].offsets + e.a.blocks[i].offsetssz, g)
    <3>1. CASE i # B
      BY Zenon, <1>5, <2>1, <3>1 DEF Mature
    <3>2. CASE i = B
      <4>1. old[B].gp_lo < g /\ g < m.c.gp
        BY Zenon, <1>1, <2>1, <3>2 DEF Covers, old
      <4>2. Pointed(m.a, B, m.a.offsets_p, Len(m.a.offsets), g)
        BY Zenon, <4>1 DEF Front, old
      <4> QED BY Zenon, <1>1, <3>2, <4>2 DEF Pointed, old
    <3> QED BY Zenon, <3>1, <3>2
  <2>2. \A i \in DOMAIN e.a.blocks :
          Sole(C, e.a, i, e.a.blocks[i].offsets, e.a.blocks[i].offsets + e.a.blocks[i].offsetssz)
    BY Zenon, <1>5 DEF Mature
  <2>3. ASSUME e.a.offsets_p = 0 \/ e.c.hp = 0, NEW x \in C, e.c.gp < x[1],
               ~ \E j \in DOMAIN e.a.blocks : e.c.gp <= e.a.blocks[j].gp_lo /\ e.a.blocks[j].gp_lo <= x[1]
        PROVE  FALSE
    <3>1. x[1] \in Nat /\ m.c.gp < x[1]
      BY <1>1, <2>3
    <3>2. Covers(old, B, x[1])
      <4>1. ASSUME NEW j \in DOMAIN old, B < j
            PROVE  old[j].gp_lo > x[1]
        <5>1. m.c.gp <= old[j].gp_lo
          BY Zenon, <4>1 DEF Front, old
        <5>2. ~ (old[j].gp_lo <= x[1])
          BY Zenon, <1>1, <2>3, <5>1
        <5> QED BY SMTT(60), <1>6, <3>1, <5>2
      <4>2. old[B].gp_lo < x[1]
        <5>1. old[B].gp_lo < m.c.gp
          BY Zenon DEF old
        <5>2. old[B].gp_lo \in Nat /\ m.c.gp \in Nat
          BY Zenon, <1>1, <1>6
        <5> HIDE DEF B
        <5> QED BY <3>1, <5>1, <5>2
      <4> QED BY <4>1, <4>2 DEF Covers
    <3>3. m.a.offsets_p = 0 \/ old[B].hp = 0
      <4>1. e.a.offsets_p = 0 \/ m.c.hp = 0
        BY Zenon, <1>1, <2>3
      <4>2. /\ old[B].hp \in Nat /\ m.c.hp \in Nat /\ old[B].hp <= m.c.hp
            /\ m.a.offsets_p \in Nat /\ e.a.offsets_p >= m.a.offsets_p
        BY Zenon, <1>1, <1>6
      <4> HIDE DEF B
      <4> QED BY <4>1, <4>2
    <3>4. PICK k \in m.a.offsets_p + 1 .. Len(m.a.offsets) : PointAt(m.a, old[B], k) = x
      BY Zenon, <3>2, <3>3 DEF Front, Sole, old
    <3>5. old[B].gp_lo + m.a.offsets[k].goff = x[1]
      BY <3>4 DEF PointAt
    <3>6. x[1] <= m.c.gp
      BY Zenon, <3>5 DEF Reached, old
    <3> QED BY <1>6, <3>1, <3>6
  <2>4. e.c.gp \in DOMAIN p
    BY Zenon, <1>1 DEF Front
  <2> QED BY Zenon, <1>5, <2>1, <2>2, <2>3, <2>4 DEF Ready
<1>8. Sorted(e.a.blocks) /\ Running(cache_block_start(e))
  BY <1>2, <1>3 DEF Neat, n
<1>9. Front(p, C, n)
  BY <1>1, <1>2, <1>3, <1>4, <1>7, <1>8, StartFront
<1>10. Later(m, n)
  <2> DEFINE P == n.c.block
             new == n.a.blocks
  <2>1. /\ P \in DOMAIN new
        /\ \A i \in DOMAIN e.a.blocks :
             /\ Shift(P, i) \in DOMAIN new /\ Shift(P, i) # P
             /\ new[Shift(P, i)] = e.a.blocks[i]
             /\ Shift(P, i) < P <=> e.a.blocks[i].gp_lo < e.c.gp
        /\ \A j \in DOMAIN new : j # P => \E i \in DOMAIN e.a.blocks : j = Shift(P, i)
        /\ n.a \in Anchors
    <3>1. n \in Machines
      BY Zenon, <1>1, <1>3, <1>4, <1>8, StartBlocks
    <3>2. n.a \in Anchors
      BY <3>1, Fields
    <3>3. /\ P \in DOMAIN new
          /\ \A i \in DOMAIN e.a.blocks :
               /\ Shift(P, i) \in DOMAIN new /\ Shift(P, i) # P
               /\ new[Shift(P, i)] = e.a.blocks[i]
               /\ Shift(P, i) < P <=> e.a.blocks[i].gp_lo < e.c.gp
          /\ \A j \in DOMAIN new : j # P => \E i \in DOMAIN e.a.blocks : j = Shift(P, i)
      BY Zenon, <1>1, <1>3, <1>4, <1>8, StartBlocks
    <3> QED BY Zenon, <3>2, <3>3
  <2>2. \A j \in DOMAIN new : j \in Nat
    BY <2>1, BlockStarts
  <2>3. ASSUME NEW i \in DOMAIN old
        PROVE  B < i <=> P < Shift(P, i)
    <3>1. B < i => m.c.gp <= old[i].gp_lo
      BY Zenon, <2>3 DEF Front, old
    <3>2. ~ (B < i) => old[i].gp_lo < m.c.gp
      <4>1. ASSUME ~ (B < i) PROVE old[i].gp_lo <= old[B].gp_lo
        <5>1. i = B \/ i < B
          BY <1>1, <1>6, <4>1
        <5>2. Sorted(old)
          BY DEF Neat, old
        <5> QED BY <1>1, <1>6, <5>1, <5>2 DEF Sorted
      <4>2. old[B].gp_lo < m.c.gp
        BY Zenon DEF old
      <4>3. old[i].gp_lo \in Nat /\ old[B].gp_lo \in Nat /\ m.c.gp \in Nat
        BY Zenon, <1>1, <1>6, <2>3
      <4> HIDE DEF B
      <4> QED BY <4>1, <4>2, <4>3
    <3>3. Shift(P, i) < P <=> old[i].gp_lo < m.c.gp
      BY Zenon, <1>1, <2>1, <2>3
    <3>4. P \in Nat /\ Shift(P, i) \in Nat /\ Shift(P, i) # P
      BY <1>1, <2>1, <2>2, <2>3
    <3>5. old[i].gp_lo \in Nat /\ m.c.gp \in Nat
      BY Zenon, <1>6
    <3> HIDE DEF P, B
    <3> QED BY <2>3, <3>1, <3>2, <3>3, <3>4, <3>5
  <2>4. \A i \in DOMAIN old : Shift(P, i) \in DOMAIN new /\ new[Shift(P, i)].gp_lo = old[i].gp_lo
    BY Zenon, <1>1, <2>1
  <2>5. \A j \in DOMAIN new : P < j => \E i \in DOMAIN old : j = Shift(P, i)
    BY <1>1, <2>1, <2>2
  <2> HIDE DEF P, new
  <2>6. \A x : (\E j \in DOMAIN old : B < j /\ old[j].gp_lo = x) =>
               (\E j \in DOMAIN new : P < j /\ new[j].gp_lo = x)
    BY <2>3, <2>4
  <2>7. \A x : (\E j \in DOMAIN new : P < j /\ new[j].gp_lo = x) =>
               (\E j \in DOMAIN old : B < j /\ old[j].gp_lo = x)
    BY <2>3, <2>4, <2>5
  <2> QED BY Zenon, <2>6, <2>7 DEF Later, P, new, old
<1> QED BY Zenon, <1>9, <1>10 DEF n

(* A point more: nothing that was pointed at is lost, and the instruction  *)
(* has its place.                                                          *)
LEMMA AddFront ==
  ASSUME NEW p, NEW C, NEW m \in Machines, Running(m), Open(m), AnchorInv(m.a), Front(p, C, m),
         m.c.gp - m.a.blocks[m.c.block].gp_lo <= U8Max,
         m.c.hp - m.a.blocks[m.c.block].hp <= U8Max
  PROVE  Front(p, C, AddPoint(m)) /\ Here(AddPoint(m)) /\ Later(m, AddPoint(m))
<1> DEFINE n == AddPoint(m)
           B == m.c.block
           b == m.a.blocks[B]
           L == Len(m.a.offsets)
           new == [goff |-> (m.c.gp - b.gp_lo) % (U8Max + 1),
                   hoff |-> (m.c.hp - b.hp) % (U8Max + 1)]
<1>1. n \in Machines /\ Added(m, n) /\ Len(n.a.offsets) = L + 1
  BY AddShape
<1> HIDE DEF n
<1>2. /\ n.a.blocks = m.a.blocks /\ n.a.offsets_p = m.a.offsets_p /\ n.c.block = B
      /\ n.c.gp = m.c.gp /\ n.c.hp = m.c.hp /\ n.a.offsets = Append(m.a.offsets, new)
  BY <1>1 DEF Added
<1>3. /\ B \in DOMAIN m.a.blocks /\ b.gp_lo <= m.c.gp /\ b.hp <= m.c.hp
      /\ m.a.offsets \in Seq(Points) /\ L \in Nat /\ m.a.offsets_p \in Nat
      /\ m.c.gp \in Nat /\ m.c.hp \in Nat /\ L = m.a.offsets_p + m.c.loffp /\ m.c.loffp \in Nat
      /\ m.a \in Anchors
  BY Fields DEF Open, Building
<1>4. b.gp_lo \in Nat /\ b.hp \in Nat
  BY <1>3, BlockStarts
<1>5. new.goff = m.c.gp - b.gp_lo /\ new.hoff = m.c.hp - b.hp
  <2> DEFINE x == m.c.gp - b.gp_lo
             y == m.c.hp - b.hp
  <2>1. x \in Nat /\ x <= U8Max /\ y \in Nat /\ y <= U8Max /\ U8Max \in Nat
    <3>1. x <= U8Max /\ y <= U8Max /\ U8Max \in Nat
      BY CacheAssumption
    <3>2. /\ b.gp_lo \in Nat /\ b.hp \in Nat /\ m.c.gp \in Nat /\ m.c.hp \in Nat
          /\ b.gp_lo <= m.c.gp /\ b.hp <= m.c.hp
      BY Zenon, <1>3, <1>4
    <3> HIDE DEF b
    <3> QED BY <3>1, <3>2
  <2>2. new.goff = x % (U8Max + 1) /\ new.hoff = y % (U8Max + 1)
    OBVIOUS
  <2> HIDE DEF x, y, new
  <2>3. x % (U8Max + 1) = x /\ y % (U8Max + 1) = y
    BY <2>1
  <2> QED BY <2>2, <2>3 DEF x, y
<1> HIDE DEF new, L
<1>6. /\ \A k \in 1 .. L : n.a.offsets[k] = m.a.offsets[k]
      /\ n.a.offsets[L + 1] = new
  BY <1>2, <1>3 DEF L
<1>7. /\ L + 1 \in n.a.offsets_p + 1 .. Len(n.a.offsets)
      /\ m.a.offsets_p + 1 .. L \subseteq 1 .. L
      /\ m.a.offsets_p + 1 .. L \subseteq n.a.offsets_p + 1 .. Len(n.a.offsets)
  <2>1. Len(n.a.offsets) = L + 1 /\ n.a.offsets_p = m.a.offsets_p
    BY <1>1, <1>2
  <2> QED BY <1>3, <2>1
<1>8. PointAt(n.a, n.a.blocks[B], L + 1) = <<n.c.gp, n.c.hp>>
  <2>1. b.gp_lo + new.goff = m.c.gp /\ b.hp + new.hoff = m.c.hp
    <3>1. b.gp_lo \in Nat /\ b.hp \in Nat /\ m.c.gp \in Nat /\ m.c.hp \in Nat
      BY Zenon, <1>3, <1>4
    <3>2. new.goff = m.c.gp - b.gp_lo /\ new.hoff = m.c.hp - b.hp
      BY <1>5
    <3> HIDE DEF b
    <3> QED BY <3>1, <3>2
  <2> QED BY <1>2, <1>6, <2>1 DEF PointAt
<1>9. Here(n)
  BY Zenon, <1>2, <1>7, <1>8 DEF Here
<1>10. ASSUME NEW i \in DOMAIN m.a.blocks, i # B
       PROVE  Mature(p, C, n.a, i)
  <2> DEFINE lo == m.a.blocks[i].offsets
             hi == m.a.blocks[i].offsets + m.a.blocks[i].offsetssz
  <2>1. hi <= m.a.offsets_p /\ lo \in Nat /\ hi \in Nat
    <3>1. hi <= m.a.offsets_p
      BY DEF AnchorInv, InBounds
    <3>2. m.a.blocks[i].offsets \in Nat /\ m.a.blocks[i].offsetssz \in Nat
      BY <1>3, BlockStarts
    <3> QED BY <3>1, <3>2
  <2>2. lo + 1 .. hi \subseteq 1 .. L
    <3> HIDE DEF lo, hi
    <3> QED BY <1>3, <2>1
  <2>3. \A k \in lo + 1 .. hi : n.a.offsets[k] = m.a.offsets[k]
    BY Zenon, <1>6, <2>2
  <2>4. Mature(p, C, m.a, i)
    BY Zenon, <1>10 DEF Front
  <2> HIDE DEF lo, hi
  <2>5. \A g : Pointed(m.a, i, lo, hi, g) => Pointed(n.a, i, lo, hi, g)
    BY <1>2, <2>3 DEF Pointed
  <2>6. Sole(C, m.a, i, lo, hi) => Sole(C, n.a, i, lo, hi)
    BY <1>2, <2>3 DEF Sole, PointAt
  <2> QED BY Zenon, <1>2, <2>4, <2>5, <2>6 DEF Mature, lo, hi
<1>11. Sole(C, n.a, B, n.a.offsets_p, Len(n.a.offsets))
  <2>1. Sole(C, m.a, B, m.a.offsets_p, L)
    BY Zenon DEF Front, L
  <2>2. \A k \in m.a.offsets_p + 1 .. L : PointAt(n.a, n.a.blocks[B], k) = PointAt(m.a, b, k)
    BY <1>2, <1>6, <1>7 DEF PointAt
  <2> QED BY <1>2, <1>7, <2>1, <2>2 DEF Sole
<1>12. ASSUME NEW g \in DOMAIN p, b.gp_lo < g, g < m.c.gp
       PROVE  Pointed(n.a, B, n.a.offsets_p, Len(n.a.offsets), g)
  <2>1. Pointed(m.a, B, m.a.offsets_p, L, g)
    BY Zenon, <1>12 DEF Front, L
  <2> QED BY Zenon, <1>2, <1>6, <1>7, <2>1 DEF Pointed
<1>13. Rooted(p, C, n.a)
  BY Zenon, <1>2 DEF Front, Rooted
<1>14. Front(p, C, n)
  BY Zenon, <1>2, <1>10, <1>11, <1>12, <1>13 DEF Front
<1>15. Later(m, n)
  BY <1>2 DEF Later
<1> QED BY <1>9, <1>14, <1>15 DEF n

LEMMA LaterTransitive ==
  ASSUME NEW m, NEW n, NEW o, Later(m, n), Later(n, o)
  PROVE  Later(m, o)
BY DEF Later

(* cache_block_point: the instruction gets its place and the front stays.  *)
(* A new block takes more than its first point (U8Max > 1): were it full   *)
(* with that one, a second block would start at the same address.          *)
LEMMA PointFront ==
  ASSUME U8Max > 1, NEW p, DOMAIN p \subseteq Nat, NEW C \in SUBSET (Nat \X Nat),
         NEW m \in Machines, Running(m), AnchorInv(m.a), Open(m), Neat(m.a), Behind(m),
         Front(p, C, m), Running(cache_block_point(m))
  PROVE  LET n == cache_block_point(m)
         IN  Front(p, C, n) /\ Here(n) /\ Later(m, n)
<1> DEFINE n == cache_block_point(m)
           b == m.a.blocks[m.c.block]
           far == m.c.gp - b.gp_lo > U8Max \/ m.c.hp - b.hp > U8Max
           o == IF far THEN Split(m) ELSE m
           d == AddPoint(o)
<1>1. CASE m.c.gp = b.gp_lo
  <2>1. n = m
    BY <1>1 DEF cache_block_point
  <2> QED BY <1>1, <2>1 DEF Here, Later
<1>2. CASE m.c.gp # b.gp_lo
  <2>1. n = IF ~ Running(o) THEN o
            ELSE IF Len(d.a.offsets) >= MaxOffsets THEN Panic(d, "offsets")
            ELSE IF d.c.loffp = U8Max THEN Split(d) ELSE d
    BY Zenon, <1>2 DEF cache_block_point
  <2>2. m.c.gp \in Nat /\ m.c.hp \in Nat /\ b.gp_lo \in Nat /\ b.hp \in Nat /\ b.gp_lo < m.c.gp
        /\ Building(m) /\ m.c.loffp \in Nat
    <3>1. m.a \in Anchors /\ m.c.gp \in Nat /\ m.c.hp \in Nat /\ m.c.loffp \in Nat
      BY Fields
    <3>2. b.gp_lo \in Nat /\ b.hp \in Nat /\ b.gp_lo <= m.c.gp
      BY Zenon, <3>1, BlockStarts DEF Open, Building
    <3> QED BY <1>2, <3>1, <3>2 DEF Open
  <2>3. Reached(m)
    BY BehindReached DEF Open
  <2> HIDE DEF n, d
  <2>4. Running(o)
    BY Zenon, <2>1 DEF n
  <2>5. /\ o \in Machines /\ AnchorInv(o.a) /\ Open(o) /\ Neat(o.a) /\ Behind(o)
        /\ Front(p, C, o) /\ Later(m, o)
        /\ o.c.gp - o.a.blocks[o.c.block].gp_lo <= U8Max
        /\ o.c.hp - o.a.blocks[o.c.block].hp <= U8Max
        /\ far => o.c.loffp = 0
        /\ ~ far => o.a.blocks[o.c.block].gp_lo < o.c.gp
    <3>1. CASE far
      <4>1. o = Split(m) /\ Running(Split(m))
        BY <2>4, <3>1
      <4>2. /\ Split(m) \in Machines /\ AnchorInv(Split(m).a) /\ Open(Split(m))
            /\ Neat(Split(m).a) /\ Behind(Split(m))
        BY <2>2, <4>1, SplitType, SplitNeat
      <4>3. Front(p, C, Split(m)) /\ Later(m, Split(m))
        BY <2>2, <2>3, <4>1, SplitFront
      <4>4. LET s == Split(m) IN s.a.blocks[s.c.block].gp_lo = s.c.gp
                                 /\ s.a.blocks[s.c.block].hp = s.c.hp
        BY <2>2, <4>1, SplitFresh
      <4>5. Split(m).c.gp \in Nat /\ Split(m).c.hp \in Nat
        BY <4>2, Fields
      <4>6. Split(m).c.loffp = 0
        <5> DEFINE e == cache_block_end(m)
        <5>1. e \in Machines /\ Closed(e) /\ Running(e) /\ Split(m) = cache_block_start(e)
          <6>1. e \in Machines /\ Closed(e) /\ Split(m) = cache_block_start(e)
            BY <2>2, EndType DEF Split
          <6> QED BY <4>1, <6>1 DEF cache_block_start
        <5> HIDE DEF e
        <5>2. Started(e, cache_block_start(e))
          BY <4>1, <5>1, StartFresh
        <5> QED BY <5>1, <5>2 DEF Started, Closed
      <4> HIDE DEF o, far
      <4>7. /\ Split(m).c.gp - Split(m).a.blocks[Split(m).c.block].gp_lo <= U8Max
            /\ Split(m).c.hp - Split(m).a.blocks[Split(m).c.block].hp <= U8Max
        BY <4>4, <4>5, CacheAssumption
      <4> QED BY Zenon, <3>1, <4>1, <4>2, <4>3, <4>6, <4>7
    <3>2. CASE ~ far
      <4>1. o = m
        BY <3>2
      <4>2. m.c.gp - b.gp_lo <= U8Max /\ m.c.hp - b.hp <= U8Max
        BY <2>2, <3>2, CacheAssumption
      <4>3. Later(m, m)
        BY Zenon DEF Later
      <4> HIDE DEF o, far
      <4> QED BY <2>2, <3>2, <4>1, <4>2, <4>3
    <3> QED BY Zenon, <3>1, <3>2
  <2> HIDE DEF o, far
  <2>6. Front(p, C, d) /\ Here(d) /\ Later(o, d)
    BY <2>4, <2>5, AddFront DEF d
  <2>7. Later(m, d)
    BY <2>5, <2>6, LaterTransitive
  <2>8. /\ d \in Machines /\ Added(o, d) /\ Running(d) /\ Building(d)
        /\ Len(d.a.offsets) < MaxOffsets => AnchorInv(d.a)
    BY <2>4, <2>5, AddShape, AddType DEF d
  <2>9. Neat(d.a) /\ Reached(d)
    BY <2>4, <2>5, AddNeat DEF d
  <2>10. CASE n = d
    BY <2>6, <2>7, <2>10 DEF n
  <2>11. CASE n = Split(d) /\ d.c.loffp = U8Max /\ Len(d.a.offsets) < MaxOffsets
    <3>1. d.c.loffp = o.c.loffp + 1 /\ d.a.blocks = o.a.blocks
          /\ d.c.gp = o.c.gp /\ d.c.block = o.c.block
      BY <2>8 DEF Added
    <3>2. ~ far
      BY <2>5, <2>11, <3>1
    <3>3. d.a.blocks[d.c.block].gp_lo < d.c.gp
      BY <2>5, <3>1, <3>2
    <3>4. Running(Split(d))
      BY <2>11 DEF n
    <3>5. Front(p, C, Split(d)) /\ Later(d, Split(d))
      BY <2>6, <2>8, <2>9, <2>11, <3>3, <3>4, SplitFront
    <3>6. Here(Split(d))
      <4>1. Split(d).a.blocks[Split(d).c.block].gp_lo = Split(d).c.gp
        BY <2>8, <2>11, <3>4, SplitFresh
      <4> QED BY <4>1 DEF Here
    <3>7. Later(m, Split(d))
      BY <2>7, <3>5, LaterTransitive
    <3> QED BY <2>11, <3>5, <3>6, <3>7 DEF n
  <2>12. ~ Running(Panic(d, "offsets"))
    BY <2>8, PanicType DEF Panics
  <2>13. MaxOffsets \in Nat /\ Len(d.a.offsets) \in Nat
    BY <2>8, Fields, CacheAssumption
  <2>14. n = d \/ (n = Split(d) /\ d.c.loffp = U8Max /\ Len(d.a.offsets) < MaxOffsets)
    BY <2>1, <2>4, <2>12, <2>13 DEF n
  <2> QED BY Zenon, <2>10, <2>11, <2>14
<1> QED BY <1>1, <1>2

-----------------------------------------------------------------------------
(***************************************************************************)
(* The inductive invariant behind Findable, at every label of a handler.   *)
(***************************************************************************)
FindInv ==
  NoOverlap =>
    /\ pc \in {"idle", "resolve", "finish"} => AllFound(guest, code, anchor)
    /\ pc \in {"point", "instr", "lookup"} => Front(guest, code, Machine)
    /\ pc \in {"point", "instr"} => Ahead(Machine)
    /\ pc = "instr" => Here(Machine)
    /\ pc = "lookup" => anchor.blocks[context.block].gp_lo < context.gp
    /\ pc = "end" => Finished(guest, code, Machine)

(* Where no block starts at g, one before g covers it.                     *)
LEMMA Preceded ==
  ASSUME NEW a \in Anchors, Sorted(a.blocks), NEW g \in Nat,
         \A i \in DOMAIN a.blocks : a.blocks[i].gp_lo # g,
         NEW r \in DOMAIN a.blocks, a.blocks[r].gp_lo <= g
  PROVE  \E i \in DOMAIN a.blocks : Covers(a.blocks, i, g) /\ a.blocks[r].gp_lo <= a.blocks[i].gp_lo
<1> DEFINE P == InsertPos(a.blocks, g)
           L == Len(a.blocks)
           i == P - 1
<1>1. /\ DOMAIN a.blocks = 1 .. L /\ L \in Nat /\ a.blocks \in Seq(Blocks)
      /\ \A j \in DOMAIN a.blocks : a.blocks[j].gp_lo \in Nat
  BY BlockStarts DEF Anchors
<1>2. /\ P \in 1 .. L + 1
      /\ \A j \in 1 .. P - 1 : a.blocks[j].gp_lo < g
      /\ P <= L => a.blocks[P].gp_lo >= g
  BY <1>1, InsertPosProperties
<1> HIDE DEF P, L
<1>3. \A j \in DOMAIN a.blocks : P <= j => a.blocks[j].gp_lo > g
  <2> SUFFICES ASSUME NEW j \in DOMAIN a.blocks, P <= j
               PROVE  a.blocks[j].gp_lo > g
    OBVIOUS
  <2>1. P \in DOMAIN a.blocks /\ a.blocks[P].gp_lo >= g
    BY <1>1, <1>2
  <2>2. a.blocks[P].gp_lo <= a.blocks[j].gp_lo
    <3>1. P < j \/ P = j
      BY <1>1, <1>2
    <3> QED BY <1>1, <2>1, <3>1 DEF Sorted
  <2>3. a.blocks[j].gp_lo # g
    OBVIOUS
  <2> QED BY <1>1, <2>1, <2>2, <2>3
<1>4. r < P
  BY <1>1, <1>2, <1>3
<1>5. i \in DOMAIN a.blocks /\ r <= i /\ a.blocks[i].gp_lo < g
  BY <1>1, <1>2, <1>4
<1>6. \A j \in DOMAIN a.blocks : i < j => P <= j
  BY <1>1, <1>2
<1> HIDE DEF i
<1>7. a.blocks[r].gp_lo <= a.blocks[i].gp_lo
  <2>1. r = i \/ r < i
    BY <1>1, <1>5
  <2> QED BY <1>1, <1>5, <2>1 DEF Sorted
<1> QED BY <1>3, <1>5, <1>6, <1>7 DEF Covers

(* A run is straight from any address within it.                           *)
LEMMA StraightFrom ==
  ASSUME NEW p, DOMAIN p \subseteq Nat, NEW x \in Nat, NEW y \in Nat, x <= y, NEW g,
         Straight(p, x, g)
  PROVE  Straight(p, y, g)
BY DEF Straight

LEMMA AnswerType ==
  ASSUME NEW a \in Anchors, InBounds(a), NEW gp \in Nat
  PROVE  NULL \in cache_search(a, gp) <=> Found(a, gp) = {}
<1>1. \A t \in Found(a, gp) : t \in Nat
  BY FoundType
<1> QED BY <1>1, CacheAssumption DEF cache_search

(* No answer: no block starts there.                                       *)
LEMMA NoneStarts ==
  ASSUME NEW a \in Anchors, InBounds(a), NEW gp \in Nat, NULL \in cache_search(a, gp)
  PROVE  \A i \in DOMAIN a.blocks : a.blocks[i].gp_lo # gp
<1> SUFFICES ASSUME NEW i \in DOMAIN a.blocks, a.blocks[i].gp_lo = gp PROVE FALSE
  OBVIOUS
<1>1. a.blocks[i].hp \in Found(a, gp)
  BY FoundMember
<1> QED BY <1>1, AnswerType

LEMMA InitFind == Init => FindInv
<1> SUFFICES ASSUME Init PROVE AllFound(guest, code, anchor) /\ pc = "idle"
  BY DEF FindInv
<1>1. anchor.blocks = << >> /\ code = {} /\ pc = "idle"
  BY DEF Init, cahce_init
<1>2. DOMAIN anchor.blocks = {}
  BY <1>1
<1> QED BY <1>1, <1>2 DEF AllFound, Rooted

LEMMA SameAllFound ==
  ASSUME NEW a, NEW n, n.blocks = a.blocks, n.offsets = a.offsets, NEW p, NEW C,
         AllFound(p, C, a)
  PROVE  AllFound(p, C, n)
BY DEF AllFound, Rooted, Mature, Pointed, Sole, PointAt

(* Steps outside decode(), and the clearing.                               *)
LEMMA OutsideFind ==
  ASSUME SafeInv, FindInv,
         \/ \E s \in sites : Brk(s)
         \/ \E g \in DOMAIN guest : Segv(g)
         \/ Hit \/ Patch \/ Resume \/ Clear
  PROVE  FindInv'
<1>1. CASE \E s \in sites : Brk(s)
  <2>1. PICK s \in sites : Brk(s)
    BY <1>1
  <2>2. anchor' = cache_get_patch(anchor, s.id) /\ pc = "idle" /\ pc' \in {"resolve", "exit"}
        /\ guest' = guest /\ code' = code
    BY <2>1 DEF Brk, Continue, Machine
  <2>3. anchor \in Anchors
    BY DEF SafeInv, TypeOK
  <2>4. anchor'.blocks = anchor.blocks /\ anchor'.offsets = anchor.offsets
    BY <2>2, <2>3 DEF cache_get_patch, Anchors
  <2>5. NoOverlap' <=> NoOverlap
    BY <2>2 DEF NoOverlap
  <2>6. NoOverlap => AllFound(guest, code, anchor)
    BY <2>2 DEF FindInv
  <2>7. NoOverlap' => AllFound(guest', code', anchor')
    BY <2>2, <2>4, <2>5, <2>6, SameAllFound
  <2> QED BY <2>2, <2>7 DEF FindInv
<1>2. CASE \/ \E g \in DOMAIN guest : Segv(g)
           \/ Hit \/ Patch \/ Resume
  <2>1. anchor' = anchor /\ guest' = guest /\ code' = code
        /\ pc \in {"idle", "resolve", "finish"} /\ pc' \in {"idle", "resolve", "finish"}
    BY <1>2 DEF Segv, Hit, Patch, Resume
  <2>2. NoOverlap' <=> NoOverlap
    BY <2>1 DEF NoOverlap
  <2> QED BY <2>1, <2>2 DEF FindInv
<1>3. CASE Clear
  <2>1. anchor'.blocks = << >> /\ code' = {} /\ pc' = "idle"
    BY <1>3 DEF Clear, cache_clear, cahce_init
  <2>2. DOMAIN anchor'.blocks = {}
    BY <2>1
  <2>3. AllFound(guest', code', anchor')
    BY <2>1, <2>2 DEF AllFound, Rooted
  <2> QED BY <2>1, <2>3 DEF FindInv
<1> QED BY <1>1, <1>2, <1>3

(* A decode() that starts finds everything mature.                         *)
LEMMA MissReady ==
  ASSUME NEW p, DOMAIN p \subseteq Nat, NEW C \in SUBSET (Nat \X Nat), NEW m \in Machines,
         AnchorInv(m.a), Sorted(m.a.blocks), AllFound(p, C, m.a), m.c.gp \in DOMAIN p,
         \A i \in DOMAIN m.a.blocks : m.a.blocks[i].gp_lo # m.c.gp,
         m.c.hp = 0 => C = {}
  PROVE  Ready(p, C, m)
<1> DEFINE a == m.a
<1>1. a \in Anchors /\ a.offsets_p \in Nat /\ m.c.gp \in Nat
  BY Fields
<1>2. \A i \in DOMAIN a.blocks :
        /\ a.blocks[i].gp_lo \in Nat /\ a.blocks[i].offsets \in Nat
        /\ a.blocks[i].offsetssz \in Nat
        /\ a.blocks[i].offsets + a.blocks[i].offsetssz <= a.offsets_p
  BY <1>1, BlockStarts DEF AnchorInv, InBounds
<1>3. ASSUME a.offsets_p = 0, NEW e \in C, m.c.gp < e[1],
             ~ \E j \in DOMAIN a.blocks : m.c.gp <= a.blocks[j].gp_lo /\ a.blocks[j].gp_lo <= e[1]
      PROVE  FALSE
  <2>1. e[1] \in Nat /\ e[1] \in DOMAIN p
    BY DEF AllFound, Rooted
  <2>2. PICK r \in DOMAIN a.blocks : a.blocks[r].gp_lo <= e[1] /\ Straight(p, a.blocks[r].gp_lo, e[1])
    BY DEF AllFound, Rooted
  <2>3. \A i \in DOMAIN a.blocks : a.blocks[i].gp_lo # e[1]
    <3> SUFFICES ASSUME NEW i \in DOMAIN a.blocks, a.blocks[i].gp_lo = e[1] PROVE FALSE
      OBVIOUS
    <3> HIDE DEF a
    <3>1. m.c.gp <= a.blocks[i].gp_lo /\ a.blocks[i].gp_lo <= e[1]
      BY <1>1, <1>3, <2>1
    <3> QED BY <1>3, <3>1
  <2>4. PICK i \in DOMAIN a.blocks : Covers(a.blocks, i, e[1]) /\ a.blocks[r].gp_lo <= a.blocks[i].gp_lo
    BY <1>1, <2>1, <2>2, <2>3, Preceded
  <2>5. Straight(p, a.blocks[i].gp_lo, e[1])
    BY <1>2, <2>2, <2>4, StraightFrom
  <2>6. PICK k \in a.blocks[i].offsets + 1 .. a.blocks[i].offsets + a.blocks[i].offsetssz : TRUE
    BY <2>1, <2>4, <2>5 DEF AllFound, Mature, Pointed
  <2> HIDE DEF a
  <2> QED BY <1>1, <1>2, <1>3, <2>6
<1> QED BY <1>3 DEF Ready, AllFound, Mature

LEMMA MissFind ==
  ASSUME IdsInv, OrderInv, PlaceInv, FindInv, Miss
  PROVE  FindInv'
<1> DEFINE q == [a |-> anchor, c |-> context_pull(anchor, goal)]
           m == cache_block_start(q)
<1>1. /\ SafeInv /\ TypeOK /\ anchor \in Anchors /\ goal \in Nat /\ pc = "resolve"
      /\ CacheShape /\ OnProgram /\ code \in SUBSET (Nat \X Nat)
  BY DEF IdsInv, SafeInv, TypeOK, Miss
<1>2. anchor.host_p \in Nat
  BY <1>1 DEF Anchors
<1>3. q \in Machines /\ q.a = anchor /\ q.c.gp = goal /\ q.c.hp = anchor.host_p /\ q.c.loffp = 0
  BY <1>1, <1>2, CacheAssumption DEF Machines, Contexts, context_pull
<1>4. Running(q) /\ AnchorInv(q.a) /\ Closed(q) /\ Sorted(q.a.blocks)
  BY <1>1, <1>3 DEF CacheShape, Decoding, Closed, Machine, Running, OrderInv, Neat
<1>5. Continue(m, "point") /\ guest' = guest /\ code' = code
  BY DEF Miss, m, q
<1>6. NULL \in cache_search(anchor, goal)
  BY DEF Miss
<1> HIDE DEF q
<1>7. m \in Machines
  BY <1>3, <1>4, StartType
<1> HIDE DEF m
<1>8. Machine' = m /\ (pc' # "exit" => pc' = "point" /\ Running(m))
  BY <1>5, <1>7, ContinueType DEF Labels
<1>9. NoOverlap' <=> NoOverlap
  BY <1>5 DEF NoOverlap
<1>10. ASSUME NoOverlap, Running(m)
       PROVE  Front(guest, code, m) /\ Ahead(m)
  <2>1. DOMAIN guest \subseteq Nat /\ goal \in DOMAIN guest
    BY <1>1, ProgramFacts DEF OnProgram
  <2>2. AllFound(guest, code, anchor)
    BY <1>1, <1>10 DEF FindInv
  <2>3. \A i \in DOMAIN anchor.blocks : anchor.blocks[i].gp_lo # goal
    BY <1>1, <1>3, <1>4, <1>6, NoneStarts DEF AnchorInv
  <2>4. anchor.host_p = 0 => code = {}
    <3>1. \A e \in code : e[2] \in Nat /\ e[2] < anchor.host_p
      BY <1>1 DEF PlaceInv
    <3> QED BY <3>1
  <2>5. Ready(guest, code, q)
    BY <1>1, <1>3, <1>4, <2>1, <2>2, <2>3, <2>4, MissReady
  <2>6. Running(cache_block_start(q))
    BY <1>10 DEF m
  <2>7. Front(guest, code, m)
    BY <1>1, <1>3, <1>4, <2>1, <2>5, <2>6, StartFront DEF m
  <2>8. /\ m.c.gp = goal
        /\ \A j \in DOMAIN m.a.blocks : j # m.c.block =>
             \E i \in DOMAIN anchor.blocks : m.a.blocks[j] = anchor.blocks[i]
        /\ m.c.block \in DOMAIN m.a.blocks
    <3>1. LET n == cache_block_start(q)
              P == n.c.block
          IN  /\ n.c.gp = q.c.gp /\ P \in DOMAIN n.a.blocks
              /\ \A i \in DOMAIN q.a.blocks : n.a.blocks[Shift(P, i)] = q.a.blocks[i]
              /\ \A j \in DOMAIN n.a.blocks : j # P => \E i \in DOMAIN q.a.blocks : j = Shift(P, i)
      BY <1>3, <1>4, <2>6, StartBlocks
    <3> QED BY <1>3, <3>1 DEF m
  <2>9. \A j \in DOMAIN m.a.blocks : j \in Nat
    BY <1>7, Fields, BlockStarts
  <2>10. ASSUME NEW j \in DOMAIN m.a.blocks, m.c.block < j
         PROVE  m.a.blocks[j].gp_lo # m.c.gp
    <3>1. j # m.c.block
      BY <2>8, <2>9, <2>10
    <3> QED BY <2>3, <2>8, <3>1
  <2> QED BY <2>7, <2>10 DEF Ahead
<1>11. pc' # "exit" /\ NoOverlap' => Front(guest', code', Machine') /\ Ahead(Machine')
  BY <1>5, <1>8, <1>9, <1>10
<1> QED BY <1>8, <1>11 DEF FindInv

LEMMA PointFind ==
  ASSUME U8Max > 1, SafeInv, OrderInv, FindInv, Point
  PROVE  FindInv'
<1> DEFINE m == cache_block_point(Machine)
<1>1. /\ TypeOK /\ CacheShape /\ pc = "point" /\ code \in SUBSET (Nat \X Nat)
      /\ DOMAIN guest \subseteq Nat
  BY ProgramFacts DEF SafeInv, TypeOK, Point
<1>2. Machine \in Machines /\ Machine.a = anchor /\ Machine.c = context
  BY <1>1, MachineType
<1>3. Running(Machine) /\ AnchorInv(Machine.a) /\ Open(Machine) /\ Neat(Machine.a) /\ Behind(Machine)
  BY <1>1, <1>2 DEF CacheShape, Decoding, OrderInv
<1>4. m \in Machines /\ m.c.gp = context.gp
  BY <1>2, <1>3, PointType DEF Kept
<1>5. Continue(m, "instr") /\ guest' = guest /\ code' = code
  BY DEF Point
<1> HIDE DEF m
<1>6. Machine' = m /\ (pc' # "exit" => pc' = "instr" /\ Running(m))
  BY <1>4, <1>5, ContinueType DEF Labels
<1>7. NoOverlap' <=> NoOverlap
  BY <1>5 DEF NoOverlap
<1>8. ASSUME NoOverlap, Running(m)
      PROVE  Front(guest, code, m) /\ Ahead(m) /\ Here(m)
  <2>1. Front(guest, code, Machine) /\ Ahead(Machine)
    BY <1>1, <1>8 DEF FindInv
  <2>2. Front(guest, code, m) /\ Here(m) /\ Later(Machine, m)
    BY <1>1, <1>2, <1>3, <1>8, <2>1, PointFront DEF m
  <2>3. Ahead(m)
    BY <1>2, <1>4, <2>1, <2>2 DEF Ahead, Later
  <2> QED BY <2>2, <2>3
<1>9. pc' # "exit" /\ NoOverlap' =>
        Front(guest', code', Machine') /\ Ahead(Machine') /\ Here(Machine')
  BY <1>5, <1>6, <1>7, <1>8
<1> QED BY <1>6, <1>9 DEF FindInv

(* A new piece of code at the front is no business of the other blocks.    *)
LEMMA CodeBeside ==
  ASSUME NEW p, NEW C, NEW m \in Machines, Building(m), Front(p, C, m),
         Straight(p, m.a.blocks[m.c.block].gp_lo, m.c.gp)
  PROVE  LET D == C \cup {<<m.c.gp, m.c.hp>>}
         IN  /\ Rooted(p, D, m.a)
             /\ \A i \in DOMAIN m.a.blocks : i # m.c.block => Mature(p, D, m.a, i)
<1> DEFINE D == C \cup {<<m.c.gp, m.c.hp>>}
           B == m.c.block
           blocks == m.a.blocks
<1>1. /\ m.a \in Anchors /\ m.c.gp \in Nat /\ B \in DOMAIN blocks
      /\ \A i \in DOMAIN blocks : i \in Nat /\ blocks[i].gp_lo \in Nat
  <2>1. m.a \in Anchors /\ m.c.gp \in Nat
    BY Zenon, Fields
  <2> QED BY <2>1, BlockStarts DEF Building
<1>2. blocks[B].gp_lo <= m.c.gp /\ \A j \in DOMAIN blocks : B < j => m.c.gp <= blocks[j].gp_lo
  BY Zenon DEF Front
<1>3. Rooted(p, D, m.a)
  <2>1. Rooted(p, C, m.a) /\ m.c.gp \in DOMAIN p
    BY Zenon DEF Front
  <2> QED BY SMTT(60), <1>1, <1>2, <2>1 DEF Rooted
<1>4. ASSUME NEW i \in DOMAIN blocks, i # B
      PROVE  Mature(p, D, m.a, i)
  <2>1. ~ Covers(blocks, i, m.c.gp)
    <3>1. CASE i < B
      BY <1>1, <1>2, <3>1 DEF Covers
    <3>2. CASE B < i
      BY <1>1, <1>2, <3>2 DEF Covers
    <3> QED BY <1>1, <1>4, <3>1, <3>2
  <2>2. Mature(p, C, m.a, i)
    BY Zenon, <1>4 DEF Front
  <2> HIDE DEF B
  <2> QED BY <2>1, <2>2 DEF Mature, Sole
<1> QED BY <1>3, <1>4

(* Decoding the instruction at the front, len bytes long, which has its    *)
(* place: the front moves on, or the block is finished.                    *)
LEMMA StepFront ==
  ASSUME NEW p, DOMAIN p \subseteq Nat, NEW C, NEW m \in Machines, Building(m),
         Front(p, C, m), Ahead(m), Here(m), NEW len \in Nat \ {0},
         \A h \in DOMAIN p : ~ (m.c.gp < h /\ h < m.c.gp + len),
         NEW n, n.a.blocks = m.a.blocks, n.a.offsets = m.a.offsets,
         n.a.offsets_p = m.a.offsets_p, n.c.block = m.c.block, n.c.gp = m.c.gp + len
  PROVE  LET D == C \cup {<<m.c.gp, m.c.hp>>}
         IN  /\ p[m.c.gp].kind \in Ending => Finished(p, D, n)
             /\ p[m.c.gp].kind \notin Ending /\ n.c.gp \in DOMAIN p =>
                  Front(p, D, n) /\ n.a.blocks[n.c.block].gp_lo < n.c.gp
<1> DEFINE D == C \cup {<<m.c.gp, m.c.hp>>}
           B == m.c.block
           b == m.a.blocks[B]
           lo == m.a.offsets_p
           hi == Len(m.a.offsets)
<1>1. /\ m.c.gp \in Nat /\ B \in DOMAIN m.a.blocks
      /\ \A j \in DOMAIN m.a.blocks : m.a.blocks[j].gp_lo \in Nat
  <2>1. m.a \in Anchors /\ m.c.gp \in Nat
    BY Zenon, Fields
  <2> QED BY <2>1, BlockStarts DEF Building
<1>2. /\ b.offsets = 0 /\ b.gp_lo <= m.c.gp /\ m.c.gp \in DOMAIN p /\ Straight(p, b.gp_lo, m.c.gp)
      /\ \A g \in DOMAIN p : b.gp_lo < g /\ g < m.c.gp => Pointed(m.a, B, lo, hi, g)
      /\ \A j \in DOMAIN m.a.blocks : B < j => m.c.gp <= m.a.blocks[j].gp_lo
      /\ \A j \in DOMAIN m.a.blocks : m.a.blocks[j].gp_lo \in DOMAIN p
  BY Zenon DEF Front, Rooted
<1>3. Rooted(p, D, m.a) /\ \A i \in DOMAIN m.a.blocks : i # B => Mature(p, D, m.a, i)
  BY Zenon, <1>2, CodeBeside
<1>4. Rooted(p, D, n.a) /\ \A i \in DOMAIN n.a.blocks : i # B => Mature(p, D, n.a, i)
  BY <1>3 DEF Rooted, Mature, Pointed, Sole, PointAt
<1>5. \A g \in DOMAIN p : b.gp_lo < g /\ g <= m.c.gp => Pointed(m.a, B, lo, hi, g)
  <2>1. b.gp_lo < m.c.gp => Pointed(m.a, B, lo, hi, m.c.gp)
    <3> SUFFICES ASSUME b.gp_lo < m.c.gp PROVE Pointed(m.a, B, lo, hi, m.c.gp)
      BY Zenon
    <3>0. m.c.gp # b.gp_lo
      <4>1. b.gp_lo \in Nat /\ m.c.gp \in Nat
        BY Zenon, <1>1
      <4> HIDE DEF b
      <4> QED BY <4>1
    <3>1. PICK k \in lo + 1 .. hi : PointAt(m.a, b, k) = <<m.c.gp, m.c.hp>>
      BY Zenon, <3>0 DEF Here
    <3>2. b.gp_lo + m.a.offsets[k].goff = m.c.gp
      BY <3>1 DEF PointAt
    <3> QED BY <3>2 DEF Pointed
  <2> HIDE DEF b, lo, hi, B
  <2>2. \A g \in DOMAIN p : g <= m.c.gp => g < m.c.gp \/ g = m.c.gp
    BY <1>1
  <2> QED BY <1>2, <2>1, <2>2
<1>6. Sole(D, m.a, B, lo, hi)
  <2>1. Sole(C, m.a, B, lo, hi)
    BY DEF Front
  <2>2. Covers(m.a.blocks, B, m.c.gp) =>
          \E k \in lo + 1 .. hi : PointAt(m.a, b, k) = <<m.c.gp, m.c.hp>>
    <3>1. m.c.gp # b.gp_lo => \E k \in lo + 1 .. hi : PointAt(m.a, b, k) = <<m.c.gp, m.c.hp>>
      BY Zenon DEF Here
    <3>2. Covers(m.a.blocks, B, m.c.gp) => m.c.gp # b.gp_lo
      <4> HIDE DEF B
      <4> QED BY <1>1 DEF Covers
    <3> QED BY Zenon, <3>1, <3>2
  <2> HIDE DEF B, lo, hi
  <2> QED BY <2>1, <2>2 DEF Sole
<1>7. Sole(D, n.a, B, lo, hi)
  BY <1>6 DEF Sole, PointAt
<1>8. \A g \in DOMAIN p : g \in Nat /\ (g < n.c.gp => g <= m.c.gp)
  BY <1>1
<1>9. ASSUME p[m.c.gp].kind \in Ending
      PROVE  Finished(p, D, n)
  <2>1. ASSUME NEW g \in DOMAIN p, Covers(n.a.blocks, B, g), Straight(p, b.gp_lo, g)
        PROVE  Pointed(n.a, B, lo, hi, g)
    <3>1. ~ (m.c.gp < g)
      BY Zenon, <1>2, <1>9, <2>1 DEF Straight
    <3>2. b.gp_lo < g /\ g <= m.c.gp
      BY <1>1, <1>8, <2>1, <3>1 DEF Covers
    <3>3. Pointed(m.a, B, lo, hi, g)
      BY Zenon, <1>5, <3>2
    <3> QED BY Zenon, <3>3 DEF Pointed
  <2> QED BY <1>4, <1>7, <2>1 DEF Finished
<1>10. ASSUME p[m.c.gp].kind \notin Ending, n.c.gp \in DOMAIN p
       PROVE  Front(p, D, n) /\ b.gp_lo < n.c.gp
  <2>1. b.gp_lo < n.c.gp /\ b.gp_lo <= n.c.gp
    <3>1. /\ b.gp_lo \in Nat /\ m.c.gp \in Nat /\ b.gp_lo <= m.c.gp /\ n.c.gp = m.c.gp + len
      BY Zenon, <1>1, <1>2
    <3> HIDE DEF b
    <3> QED BY <3>1
  <2>2. Straight(p, b.gp_lo, n.c.gp)
    <3> SUFFICES ASSUME NEW y \in DOMAIN p, b.gp_lo <= y, y < n.c.gp
                 PROVE  p[y].kind \notin Ending
      BY DEF Straight
    <3>1. y = m.c.gp \/ y < m.c.gp
      BY <1>1, <1>8
    <3> QED BY <1>2, <1>10, <3>1 DEF Straight
  <2>3. ASSUME NEW g \in DOMAIN p, b.gp_lo < g, g < n.c.gp
        PROVE  Pointed(n.a, B, lo, hi, g)
    <3>1. Pointed(m.a, B, lo, hi, g)
      BY <1>5, <1>8, <2>3
    <3> QED BY <3>1 DEF Pointed
  <2>4. ASSUME NEW j \in DOMAIN n.a.blocks, B < j
        PROVE  n.c.gp <= n.a.blocks[j].gp_lo
    <3> DEFINE g == m.a.blocks[j].gp_lo
    <3>1. m.c.gp <= g /\ g # m.c.gp /\ g \in DOMAIN p /\ g \in Nat
      BY <1>1, <1>2, <2>4 DEF Ahead
    <3>2. ~ (m.c.gp < g /\ g < m.c.gp + len)
      BY <3>1
    <3> HIDE DEF g
    <3>3. m.c.gp + len <= g
      BY <1>1, <3>1, <3>2
    <3> QED BY Zenon, <3>3 DEF g
  <2> QED BY Zenon, <1>2, <1>4, <1>7, <1>10, <2>1, <2>2, <2>3, <2>4 DEF Front
<1> QED BY <1>9, <1>10

LEMMA InstrFind ==
  ASSUME SafeInv, FindInv, Instr
  PROVE  FindInv'
<1> DEFINE i == guest[context.gp]
           D == code \cup {<<context.gp, context.hp>>}
           B == context.block
           b == anchor.blocks[B]
<1>1. /\ TypeOK /\ CacheShape /\ OnProgram /\ IdsValid /\ pc = "instr"
      /\ anchor \in Anchors /\ context \in Contexts
  BY DEF SafeInv, TypeOK, Instr
<1>2. /\ AnchorInv(anchor) /\ ReuseValid(anchor) /\ Building(Machine) /\ i \in Instructions
      /\ context.gp \in DOMAIN guest /\ DOMAIN guest \subseteq Nat
      /\ i.kind \notin Ending => context.gp + i.len \in DOMAIN guest
  BY <1>1, ProgramFacts DEF CacheShape, IdsValid, OnProgram, Decoding, Open
<1>3. SameBlocks(anchor, anchor')
  <2>1. CASE anchor' = anchor
    BY <2>1 DEF SameBlocks
  <2>2. CASE i.kind \in Patched /\ anchor' = cache_patch_point(anchor, i.kind, i.target)
    <3>1. i.target \in Nat
      BY <1>2 DEF Instructions
    <3> QED BY <1>1, <1>2, <2>2, <3>1, PatchPointType
  <2> QED BY <2>1, <2>2, InstrSites
<1>4. /\ context' = [context EXCEPT !.gp = @ + i.len, !.hp = @ + i.words]
      /\ code' = D /\ guest' = guest
      /\ pc' = IF i.kind \in Ending THEN "end" ELSE "lookup"
  BY DEF Instr
<1>5. context'.block = B /\ context'.gp = context.gp + i.len
  BY <1>1, <1>4 DEF Contexts
<1>6. Machine \in Machines /\ Machine.a = anchor /\ Machine.c = context
  BY <1>1, MachineType
<1>7. /\ context.gp \in Nat /\ i.len \in Nat \ {0} /\ B \in DOMAIN anchor.blocks
      /\ b.gp_lo \in Nat /\ b.gp_lo <= context.gp
      /\ \A j \in DOMAIN anchor.blocks : anchor.blocks[j].gp_lo \in Nat
  BY <1>1, <1>2, <1>6, BlockStarts DEF Building, Instructions, Contexts
<1> HIDE DEF i, D
<1>8. NoOverlap' <=> NoOverlap
  BY <1>4 DEF NoOverlap
<1>9. ASSUME NoOverlap
      PROVE  \A h \in DOMAIN guest : ~ (context.gp < h /\ h < context.gp + i.len)
  <2> SUFFICES ASSUME NEW h \in DOMAIN guest, context.gp < h, h < context.gp + i.len
               PROVE  FALSE
    OBVIOUS
  <2>1. h \in context.gp + 1 .. context.gp + i.len - 1
    BY <1>2, <1>7
  <2> QED BY <1>2, <1>9, <2>1 DEF NoOverlap, i
<1>10. Machine'.a = anchor' /\ Machine'.c = context'
  BY DEF Machine
<1>11. ASSUME NoOverlap
       PROVE  /\ i.kind \in Ending => Finished(guest, D, Machine')
              /\ i.kind \notin Ending =>
                   Front(guest, D, Machine') /\ anchor'.blocks[context'.block].gp_lo < context'.gp
  <2>1. Front(guest, code, Machine) /\ Ahead(Machine) /\ Here(Machine)
    BY <1>1, <1>11 DEF FindInv
  <2> DEFINE m == Machine
             n == Machine'
  <2>2. /\ m \in Machines /\ Building(m) /\ m.c.gp = context.gp /\ m.c.hp = context.hp
        /\ n.a.blocks = m.a.blocks /\ n.a.offsets = m.a.offsets
        /\ n.a.offsets_p = m.a.offsets_p /\ n.c.block = m.c.block /\ n.c.gp = m.c.gp + i.len
        /\ n.a = anchor' /\ n.c = context'
    BY <1>2, <1>3, <1>5, <1>6, <1>10 DEF SameBlocks
  <2>3. Front(guest, code, m) /\ Ahead(m) /\ Here(m)
    BY <2>1
  <2> HIDE DEF m, n
  <2>4. LET E == code \cup {<<m.c.gp, m.c.hp>>}
        IN  /\ guest[m.c.gp].kind \in Ending => Finished(guest, E, n)
            /\ guest[m.c.gp].kind \notin Ending /\ n.c.gp \in DOMAIN guest =>
                 Front(guest, E, n) /\ n.a.blocks[n.c.block].gp_lo < n.c.gp
    BY Zenon, <1>2, <1>7, <1>9, <1>11, <2>2, <2>3, StepFront
  <2>5. n.c.gp = context.gp + i.len
    BY <2>2
  <2>6. /\ i.kind \in Ending => Finished(guest, D, n)
        /\ i.kind \notin Ending => Front(guest, D, n) /\ n.a.blocks[n.c.block].gp_lo < n.c.gp
    BY <1>2, <2>2, <2>4, <2>5 DEF D, i
  <2> QED BY <2>2, <2>6 DEF n
<1>12. NoOverlap' /\ i.kind \in Ending => Finished(guest', code', Machine')
  BY <1>4, <1>8, <1>11
<1>13. NoOverlap' /\ i.kind \notin Ending =>
         Front(guest', code', Machine') /\ anchor'.blocks[context'.block].gp_lo < context'.gp
  BY <1>4, <1>8, <1>11
<1> QED BY <1>4, <1>12, <1>13 DEF FindInv

LEMMA GoOnFind ==
  ASSUME SafeInv, FindInv, GoOn
  PROVE  FindInv'
<1>1. /\ pc = "lookup" /\ pc' = "point" /\ NULL \in cache_search(anchor, context.gp)
      /\ anchor' = anchor /\ context' = context /\ guest' = guest /\ code' = code
      /\ Machine' = Machine
  BY DEF GoOn, Machine
<1>2. /\ anchor \in Anchors /\ context.gp \in Nat /\ InBounds(anchor)
      /\ Machine.a = anchor /\ Machine.c = context
  BY MachineType DEF SafeInv, TypeOK, Contexts, CacheShape, AnchorInv
<1>3. Ahead(Machine)
  BY <1>1, <1>2, NoneStarts DEF Ahead
<1>4. NoOverlap' <=> NoOverlap
  BY <1>1 DEF NoOverlap
<1> QED BY <1>1, <1>3, <1>4 DEF FindInv

(* An answer for the next instruction is the start of a later block: the   *)
(* open one has no points yet as far as cache_search knows.                *)
LEMMA AnswerAhead ==
  ASSUME NEW p, NEW C, NEW m \in Machines, Building(m), Front(p, C, m), Sorted(m.a.blocks),
         m.a.blocks[m.c.block].gp_lo < m.c.gp, Found(m.a, m.c.gp) # {}
  PROVE  \E j \in DOMAIN m.a.blocks : m.c.block < j /\ m.a.blocks[j].gp_lo = m.c.gp
<1> DEFINE B == m.c.block
           blocks == m.a.blocks
           gp == m.c.gp
<1>1. /\ m.a \in Anchors /\ gp \in Nat /\ B \in DOMAIN blocks
      /\ DOMAIN blocks = 1 .. Len(blocks) /\ Len(blocks) \in Nat
      /\ \A i \in DOMAIN blocks : i \in Nat /\ blocks[i].gp_lo \in Nat
  <2>1. m.a \in Anchors /\ gp \in Nat
    BY Fields
  <2> QED BY SMTT(60), <2>1, BlockStarts DEF Building
<1>2. /\ blocks[B].offsets = 0
      /\ \A j \in DOMAIN blocks : B < j => gp <= blocks[j].gp_lo
  BY Zenon DEF Front
<1>3. PICK h : h \in Found(m.a, gp)
  OBVIOUS
<1>4. CASE \E i \in DOMAIN blocks : blocks[i].gp_lo = gp /\ h = blocks[i].hp
  <2>1. PICK i \in DOMAIN blocks : blocks[i].gp_lo = gp
    BY <1>4
  <2>2. ~ (i < B) /\ i # B
    BY <1>1, <2>1 DEF Sorted
  <2> QED BY <1>1, <2>1, <2>2
<1>5. CASE \E i \in DOMAIN blocks : IsPredecessor(blocks, i, gp) /\ blocks[i].offsets # 0
  <2>1. PICK i \in DOMAIN blocks : IsPredecessor(blocks, i, gp) /\ blocks[i].offsets # 0
    BY <1>5
  <2>2. i # B
    BY <1>2, <2>1
  <2>3. ~ (B < i)
    BY <1>1, <1>2, <2>1 DEF IsPredecessor
  <2>4. i < B
    BY <1>1, <2>2, <2>3
  <2>5. i + 1 \in DOMAIN blocks /\ (i + 1 < B \/ i + 1 = B) /\ i < Len(blocks)
    BY <1>1, <2>4
  <2>6. blocks[i + 1].gp_lo <= blocks[B].gp_lo
    BY <1>1, <2>5 DEF Sorted
  <2>7. blocks[i + 1].gp_lo > gp
    BY <2>1, <2>5 DEF IsPredecessor
  <2>8. blocks[i + 1].gp_lo \in Nat /\ blocks[B].gp_lo \in Nat /\ blocks[B].gp_lo < gp
    BY <1>1, <2>5
  <2> HIDE DEF B, blocks, gp
  <2> QED BY <1>1, <2>6, <2>7, <2>8
<1> QED BY <1>3, <1>4, <1>5, FoundMember

(* A later block starts at the front: the open one is finished.            *)
LEMMA JoinFront ==
  ASSUME NEW p, DOMAIN p \subseteq Nat, NEW C, NEW m \in Machines, Building(m), Front(p, C, m),
         NEW j \in DOMAIN m.a.blocks, m.c.block < j, m.a.blocks[j].gp_lo = m.c.gp
  PROVE  Finished(p, C \cup {<<m.c.gp, m.c.hp>>}, m)
<1> DEFINE D == C \cup {<<m.c.gp, m.c.hp>>}
           B == m.c.block
           lo == m.a.offsets_p
           hi == Len(m.a.offsets)
<1>1. Rooted(p, D, m.a) /\ \A i \in DOMAIN m.a.blocks : i # B => Mature(p, D, m.a, i)
  BY Zenon, CodeBeside DEF Front
<1>2. m.c.gp \in Nat
  BY Fields
<1>3. \A g : Covers(m.a.blocks, B, g) => m.a.blocks[B].gp_lo < g /\ m.c.gp > g
  BY DEF Covers
<1>4. ~ Covers(m.a.blocks, B, m.c.gp)
  BY <1>2, <1>3
<1>5. Sole(D, m.a, B, lo, hi)
  <2>1. Sole(C, m.a, B, lo, hi)
    BY Zenon DEF Front
  <2> HIDE DEF B, lo, hi
  <2> QED BY <1>4, <2>1 DEF Sole
<1>6. ASSUME NEW g \in DOMAIN p, Covers(m.a.blocks, B, g)
      PROVE  Pointed(m.a, B, lo, hi, g)
  <2>1. m.a.blocks[B].gp_lo < g /\ g < m.c.gp
    BY <1>2, <1>3, <1>6
  <2> QED BY <2>1 DEF Front
<1> QED BY Zenon, <1>1, <1>5, <1>6 DEF Finished

LEMMA JoinFind ==
  ASSUME U8Max > 1, SafeInv, OrderInv, FindInv, Join
  PROVE  FindInv'
<1> DEFINE m == cache_block_point(Machine)
           n == [m EXCEPT !.c.hp = @ + 1]
           D == code \cup {<<context.gp, context.hp>>}
<1>1. /\ TypeOK /\ CacheShape /\ pc = "lookup" /\ code \in SUBSET (Nat \X Nat)
      /\ DOMAIN guest \subseteq Nat
  BY ProgramFacts DEF SafeInv, TypeOK, Join
<1>2. Machine \in Machines /\ Machine.a = anchor /\ Machine.c = context
  BY <1>1, MachineType
<1>3. /\ Running(Machine) /\ AnchorInv(Machine.a) /\ Open(Machine) /\ Building(Machine)
      /\ Neat(Machine.a) /\ Behind(Machine)
  BY <1>1, <1>2 DEF CacheShape, Decoding, OrderInv, Open
<1>4. /\ m \in Machines /\ m.c.gp = context.gp /\ m.c.hp = context.hp
      /\ Running(m) => Building(m)
  BY <1>2, <1>3, PointType DEF Kept, Open
<1>5. Continue(n, "end") /\ guest' = guest /\ code' = D
  BY DEF Join
<1>6. Found(anchor, context.gp) # {}
  BY DEF Join, cache_search
<1> HIDE DEF m, D
<1>7. n \in Machines /\ n.a = m.a /\ n.c.block = m.c.block
  BY <1>4, NextWord
<1> HIDE DEF n
<1>8. Machine' = n /\ (pc' # "exit" => pc' = "end" /\ Running(n))
  BY <1>5, <1>7, ContinueType DEF Labels
<1>9. NoOverlap' <=> NoOverlap
  BY <1>5 DEF NoOverlap
<1>10. ASSUME NoOverlap, Running(n)
       PROVE  Finished(guest, D, n)
  <2>1. Front(guest, code, Machine) /\ Machine.a.blocks[Machine.c.block].gp_lo < Machine.c.gp
    BY <1>1, <1>2, <1>10 DEF FindInv
  <2>2. Running(m)
    BY <1>7, <1>10 DEF Running
  <2>3. Front(guest, code, m) /\ Later(Machine, m)
    BY <1>1, <1>2, <1>3, <2>1, <2>2, PointFront DEF m
  <2>4. \E j \in DOMAIN Machine.a.blocks :
          Machine.c.block < j /\ Machine.a.blocks[j].gp_lo = Machine.c.gp
    BY <1>2, <1>3, <1>6, <2>1, AnswerAhead DEF Neat
  <2>5. PICK j \in DOMAIN m.a.blocks : m.c.block < j /\ m.a.blocks[j].gp_lo = context.gp
    BY <1>2, <2>3, <2>4 DEF Later
  <2>6. Finished(guest, D, m)
    BY <1>1, <1>4, <2>2, <2>3, <2>5, JoinFront DEF D
  <2> QED BY <1>7, <2>6 DEF Finished
<1>11. pc' # "exit" /\ NoOverlap' => Finished(guest', code', Machine')
  BY <1>5, <1>8, <1>9, <1>10
<1> QED BY <1>8, <1>11 DEF FindInv

LEMMA EndFind ==
  ASSUME SafeInv, FindInv, End
  PROVE  FindInv'
<1> DEFINE m == cache_block_end(Machine)
<1>1. TypeOK /\ CacheShape /\ pc = "end"
  BY DEF SafeInv, End
<1>2. Machine \in Machines /\ Machine.a = anchor /\ Machine.c = context
  BY <1>1, MachineType
<1>3. Running(Machine) /\ AnchorInv(Machine.a) /\ Building(Machine)
  BY <1>1, <1>2 DEF CacheShape, Decoding, Open
<1>4. m \in Machines
  BY <1>2, <1>3, EndType
<1>5. Continue(m, "finish") /\ guest' = guest /\ code' = code
  BY DEF End
<1> HIDE DEF m
<1>6. anchor' = m.a /\ (pc' # "exit" => pc' = "finish")
  BY <1>4, <1>5, ContinueType DEF Labels
<1>7. NoOverlap' <=> NoOverlap
  BY <1>5 DEF NoOverlap
<1>8. NoOverlap => AllFound(guest, code, m.a)
  BY <1>1, <1>2, <1>3, EndFound DEF FindInv, m
<1>9. NoOverlap' => AllFound(guest', code', anchor')
  BY <1>5, <1>6, <1>7, <1>8
<1> QED BY <1>6, <1>9 DEF FindInv

LEMMA FindNext ==
  ASSUME U8Max > 1
  PROVE  IdsInv /\ OrderInv /\ PlaceInv /\ FindInv /\ [Next]_vars => FindInv'
<1> SUFFICES ASSUME IdsInv, OrderInv, PlaceInv, FindInv, [Next]_vars PROVE FindInv'
  OBVIOUS
<1>1. SafeInv
  BY DEF IdsInv
<1>2. CASE UNCHANGED vars
  BY <1>2 DEF vars, FindInv, Machine, NoOverlap
<1> QED
  BY <1>1, <1>2, OutsideFind, MissFind, PointFind, InstrFind, GoOnFind, JoinFind, EndFind
     DEF Next, Handler

(* What is mature is found, or taken for "none".                           *)
LEMMA MatureFound ==
  ASSUME NEW p, DOMAIN p \subseteq Nat, NEW C \in SUBSET (Nat \X Nat), NEW a \in Anchors,
         InBounds(a), Sorted(a.blocks), AllFound(p, C, a), NEW e \in C
  PROVE  \/ Found(a, e[1]) # {}
         \/ e[2] = 0
         \/ \E i \in DOMAIN a.blocks :
              a.blocks[i].offsets = 0 /\ <<e[1], e[2]>> \in PointsOf(a, a.blocks[i])
<1>1. e[1] \in Nat /\ e[2] \in Nat /\ e = <<e[1], e[2]>> /\ e[1] \in DOMAIN p
  BY DEF AllFound, Rooted
<1>2. \A i \in DOMAIN a.blocks :
        /\ a.blocks[i] \in Blocks /\ a.blocks[i].gp_lo \in Nat /\ a.blocks[i].hp \in Nat
        /\ a.blocks[i].offsets \in Nat /\ a.blocks[i].offsetssz \in Nat
        /\ a.blocks[i].offsets + a.blocks[i].offsetssz <= a.offsets_p
  BY BlockStarts DEF InBounds
<1>3. CASE \E i \in DOMAIN a.blocks : a.blocks[i].gp_lo = e[1]
  <2>1. PICK i \in DOMAIN a.blocks : a.blocks[i].gp_lo = e[1]
    BY <1>3
  <2>2. a.blocks[i].hp \in Found(a, e[1])
    BY <2>1, FoundMember
  <2> QED BY <2>2
<1>4. CASE \A i \in DOMAIN a.blocks : a.blocks[i].gp_lo # e[1]
  <2>1. PICK r \in DOMAIN a.blocks : a.blocks[r].gp_lo <= e[1] /\ Straight(p, a.blocks[r].gp_lo, e[1])
    BY DEF AllFound, Rooted
  <2>2. PICK i \in DOMAIN a.blocks : Covers(a.blocks, i, e[1]) /\ a.blocks[r].gp_lo <= a.blocks[i].gp_lo
    BY <1>1, <1>4, <2>1, Preceded
  <2> DEFINE b == a.blocks[i]
             lo == b.offsets
             hi == b.offsets + b.offsetssz
  <2>3. Straight(p, b.gp_lo, e[1])
    BY <1>2, <2>1, <2>2, StraightFrom
  <2>4. Mature(p, C, a, i)
    BY DEF AllFound
  <2>5. PICK k \in lo + 1 .. hi : b.gp_lo + a.offsets[k].goff = e[1]
    BY <1>1, <2>2, <2>3, <2>4 DEF Mature, Pointed
  <2>6. IsPredecessor(a.blocks, i, e[1])
    <3>1. DOMAIN a.blocks = 1 .. Len(a.blocks) /\ Len(a.blocks) \in Nat
      BY BlockStarts
    <3>2. /\ a.blocks[i].gp_lo < e[1]
          /\ \A j \in DOMAIN a.blocks : i < j => a.blocks[j].gp_lo > e[1]
      BY Zenon, <2>2 DEF Covers
    <3>3. i < Len(a.blocks) => i + 1 \in DOMAIN a.blocks /\ i < i + 1
      BY <3>1
    <3> QED BY Zenon, <3>2, <3>3 DEF IsPredecessor
  <2>7. \A j \in lo + 1 .. hi : a.offsets[j].hoff \in Nat
    <3> SUFFICES ASSUME NEW j \in lo + 1 .. hi PROVE a.offsets[j].hoff \in Nat
      OBVIOUS
    <3>1. a.offsets \in Seq(Points) /\ a.offsets_p \in Nat /\ a.offsets_p <= Len(a.offsets)
      BY DEF Anchors, InBounds
    <3>2. lo \in Nat /\ hi \in Nat /\ hi <= a.offsets_p
      BY <1>2
    <3> HIDE DEF lo, hi
    <3>3. j \in 1 .. Len(a.offsets)
      BY <3>1, <3>2
    <3>4. a.offsets[j] \in Points
      BY <3>1, <3>3
    <3> QED BY <3>4 DEF Points
  <2>8. \A j \in lo + 1 .. hi : b.gp_lo + a.offsets[j].goff = e[1] /\ lo # 0
          /\ b.hp + a.offsets[j].hoff # 0 => Found(a, e[1]) # {}
    <3> SUFFICES ASSUME NEW j \in lo + 1 .. hi, b.gp_lo + a.offsets[j].goff = e[1], lo # 0,
                        b.hp + a.offsets[j].hoff # 0
                 PROVE  Found(a, e[1]) # {}
      OBVIOUS
    <3>1. b.hp + a.offsets[j].hoff \in block_cache_search(a, b, e[1])
      BY DEF block_cache_search
    <3>2. b.hp + a.offsets[j].hoff \in Found(a, e[1])
      BY <1>4, <2>6, <3>1, FoundMember
    <3> QED BY <3>2
  <2>9. CASE lo = 0 \/ b.hp = 0
    <3>1. PICK j \in lo + 1 .. hi : PointAt(a, b, j) = e
      BY <2>2, <2>4, <2>9 DEF Mature, Sole
    <3>2. b.gp_lo + a.offsets[j].goff = e[1] /\ b.hp + a.offsets[j].hoff = e[2]
      BY <3>1 DEF PointAt
    <3>3. CASE lo = 0
      <4>1. e \in PointsOf(a, b)
        BY <3>1, PointMember
      <4> QED BY <1>1, <3>3, <4>1
    <3>4. CASE lo # 0
      BY <2>8, <3>2, <3>4
    <3> QED BY <3>3, <3>4
  <2>10. CASE lo # 0 /\ b.hp # 0
    <3>1. b.hp + a.offsets[k].hoff # 0
      BY <1>2, <2>7, <2>10
    <3> QED BY <2>5, <2>8, <2>10, <3>1
  <2> QED BY <2>9, <2>10
<1> QED BY <1>3, <1>4

(***************************************************************************)
(* What is translated is found again between two handlers, so decode()     *)
(* runs once for an instruction, save where cache_search takes a 0 for     *)
(* "none": for every program in which no instruction starts within another *)
(* and for every size of the tables, as long as a block may hold more than *)
(* one point.                                                              *)
(***************************************************************************)
THEOREM TranslatedIsFound == ASSUME U8Max > 1 PROVE Spec => []Findable
<1>1. Init => IdsInv /\ OrderInv /\ PlaceInv /\ FindInv
  BY InitIds, InitOrder, InitPlace, InitFind
<1>2. (IdsInv /\ OrderInv /\ PlaceInv /\ FindInv) /\ [Next]_vars
        => (IdsInv /\ OrderInv /\ PlaceInv /\ FindInv)'
  <2>1. IdsInv => SafeInv
    BY DEF IdsInv
  <2> QED BY <2>1, IdsNext, OrderNext, PlaceNext, FindNext
<1>3. IdsInv /\ OrderInv /\ PlaceInv /\ FindInv => Findable
  <2> SUFFICES ASSUME IdsInv, OrderInv, FindInv, pc = "idle", NoOverlap, NEW e \in code
               PROVE  Found(anchor, e[1]) # {} \/ TakenForNone(e[1], e[2])
    BY DEF Findable
  <2>1. /\ anchor \in Anchors /\ InBounds(anchor) /\ Sorted(anchor.blocks)
        /\ code \in SUBSET (Nat \X Nat) /\ DOMAIN guest \subseteq Nat
        /\ AllFound(guest, code, anchor)
    BY ProgramFacts DEF IdsInv, SafeInv, TypeOK, CacheShape, AnchorInv, OrderInv, Neat, FindInv
  <2> QED BY <2>1, MatureFound DEF TakenForNone
<1> QED BY <1>1, <1>2, <1>3, PTL DEF Spec
=============================================================================
