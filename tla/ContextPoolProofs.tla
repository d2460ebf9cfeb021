------------------------- MODULE ContextPoolProofs --------------------------
(***************************************************************************)
(* Proofs about ContextPool, for any threads and any number of slots: a    *)
(* context has one owner, and as many slots as threads are enough.         *)
(***************************************************************************)
EXTENDS ContextPool, FiniteSetTheorems, TLAPS

-----------------------------------------------------------------------------
(***************************************************************************)
(* Types and ownership.                                                    *)
(***************************************************************************)
SafeInv == TypeOK /\ OneOwner

LEMMA InitSafe == Init => SafeInv
<1> SUFFICES ASSUME Init PROVE TypeOK /\ OneOwner
  BY DEF SafeInv
<1>1. 0 \in 0 .. max_process
  BY PoolAssumption
<1>2. TypeOK
  BY <1>1 DEF Init, TypeOK
<1>3. OneOwner
  BY DEF Init, OneOwner
<1> QED BY <1>2, <1>3

LEMMA PullSafe == ASSUME SafeInv, NEW t \in Threads, Pull(t) PROVE SafeInv'
<1>1. TypeOK'
  BY PoolAssumption DEF SafeInv, TypeOK, Pull
<1>2. \A u \in Threads : pc'[u] = "decode" => pc[u] = "decode" /\ slot'[u] = slot[u]
  BY DEF SafeInv, TypeOK, Pull
<1>3. OneOwner'
  BY <1>2 DEF SafeInv, OneOwner, Pull
<1> QED BY <1>1, <1>3 DEF SafeInv

LEMMA ClaimSafe == ASSUME SafeInv, NEW t \in Threads, Claim(t) PROVE SafeInv'
<1>1. TypeOK'
  BY DEF SafeInv, TypeOK, Claim
<1>2. slot' = slot /\ slot[t] \in Slots /\ ~ in_use[slot[t]]
  BY PoolAssumption DEF SafeInv, TypeOK, Claim, Slots
<1>3. \A u \in Threads : pc'[u] = "decode" => u = t \/ pc[u] = "decode"
  BY DEF SafeInv, TypeOK, Claim
<1>4. \A s \in Slots : in_use'[s] = (in_use[s] \/ s = slot[t])
  BY <1>2 DEF SafeInv, TypeOK, Claim
<1>5. \A u \in Threads : pc[u] = "decode" => slot[u] # slot[t]
  BY <1>2 DEF SafeInv, OneOwner
<1>6. OneOwner'
  <2>1. ASSUME NEW u \in Threads, pc'[u] = "decode" PROVE slot[u] \in Slots /\ in_use'[slot[u]]
    BY <1>2, <1>3, <1>4, <2>1 DEF SafeInv, OneOwner
  <2>2. ASSUME NEW u \in Threads, NEW v \in Threads,
               pc'[u] = "decode", pc'[v] = "decode", slot[u] = slot[v]
        PROVE  u = v
    BY <1>3, <1>5, <2>2 DEF SafeInv, OneOwner
  <2>3. Slots' = Slots
    BY DEF Slots
  <2> QED BY <1>2, <2>1, <2>2, <2>3 DEF OneOwner
<1> QED BY <1>1, <1>6 DEF SafeInv

LEMMA PassSafe == ASSUME SafeInv, NEW t \in Threads, Pass(t) PROVE SafeInv'
<1>1. TypeOK'
  BY PoolAssumption DEF SafeInv, TypeOK, Pass
<1>2. \A u \in Threads : pc[u] = "decode" => slot'[u] = slot[u]
  BY DEF SafeInv, TypeOK, Pass
<1>3. OneOwner'
  BY <1>2 DEF SafeInv, OneOwner, Pass
<1> QED BY <1>1, <1>3 DEF SafeInv

LEMMA NoFreeSafe == ASSUME SafeInv, NEW t \in Threads, NoFree(t) PROVE SafeInv'
  BY DEF SafeInv, TypeOK, OneOwner, NoFree

LEMMA FreeSafe == ASSUME SafeInv, NEW t \in Threads, Free(t) PROVE SafeInv'
<1>1. TypeOK'
  BY DEF SafeInv, TypeOK, Free
<1>2. \A u \in Threads : pc'[u] = "decode" => u # t /\ pc[u] = "decode"
  BY DEF SafeInv, TypeOK, Free
<1>3. \A u \in Threads : u # t /\ pc[u] = "decode" => slot[u] # slot[t]
  BY DEF SafeInv, OneOwner, Free
<1>4. \A s \in Slots : s # slot[t] => in_use'[s] = in_use[s]
  BY DEF SafeInv, TypeOK, Free
<1>5. OneOwner'
  BY <1>2, <1>3, <1>4 DEF SafeInv, OneOwner, Free, Slots
<1> QED BY <1>1, <1>5 DEF SafeInv

LEMMA SafeStep == SafeInv /\ [Next]_vars => SafeInv'
<1> SUFFICES ASSUME SafeInv, [Next]_vars PROVE SafeInv'
  OBVIOUS
<1>1. ASSUME NEW t \in Threads, Pull(t) \/ Search(t) \/ Free(t) PROVE SafeInv'
  BY <1>1, PullSafe, ClaimSafe, PassSafe, NoFreeSafe, FreeSafe DEF Search
<1>2. CASE UNCHANGED vars
  BY <1>2 DEF vars, SafeInv, TypeOK, OneOwner
<1> QED BY <1>1, <1>2 DEF Next

LEMMA SafeAlways == Spec => []SafeInv
  BY InitSafe, SafeStep, PTL DEF Spec

(***************************************************************************)
(* The flags and cursors stay in range for any threads and any pool.       *)
(***************************************************************************)
THEOREM TypeCorrect == Spec => []TypeOK
<1>1. SafeInv => TypeOK
  BY DEF SafeInv
<1> QED BY <1>1, SafeAlways, PTL

(***************************************************************************)
(* No two threads ever decode into the same Context, whatever in_use held  *)
(* at the start.                                                           *)
(***************************************************************************)
THEOREM ContextHasOneOwner == Spec => []OneOwner
<1>1. SafeInv => OneOwner
  BY DEF SafeInv
<1> QED BY <1>1, SafeAlways, PTL

-----------------------------------------------------------------------------
(***************************************************************************)
(* The slots that belong to nobody stay the same.                          *)
(***************************************************************************)
LEMMA LeakedStays == ASSUME SafeInv, [Next]_vars PROVE Leaked' = Leaked
<1>1. ASSUME in_use' = in_use, \A s \in Slots : Owned(s)' = Owned(s) PROVE Leaked' = Leaked
  BY <1>1 DEF Leaked, Slots
<1>2. ASSUME NEW t \in Threads, Pull(t) PROVE Leaked' = Leaked
  <2>1. \A u \in Threads : (pc'[u] = "decode") = (pc[u] = "decode")
    BY <1>2 DEF SafeInv, TypeOK, Pull
  <2>2. \A u \in Threads : pc[u] = "decode" => slot'[u] = slot[u]
    BY <1>2 DEF SafeInv, TypeOK, Pull
  <2> QED BY <1>1, <1>2, <2>1, <2>2 DEF Owned, Pull
<1>3. ASSUME NEW t \in Threads, Pass(t) PROVE Leaked' = Leaked
  <2>1. pc' = pc /\ \A u \in Threads : pc[u] = "decode" => slot'[u] = slot[u]
    BY <1>3 DEF SafeInv, TypeOK, Pass
  <2> QED BY <1>1, <1>3, <2>1 DEF Owned, Pass
<1>4. ASSUME NEW t \in Threads, NoFree(t) PROVE Leaked' = Leaked
  BY <1>1, <1>4 DEF Owned, NoFree
<1>5. ASSUME NEW t \in Threads, Claim(t) PROVE Leaked' = Leaked
  <2>1. slot' = slot /\ slot[t] \in Slots /\ ~ in_use[slot[t]] /\ pc[t] = "search"
    BY <1>5, PoolAssumption DEF SafeInv, TypeOK, Claim, Slots
  <2>2. \A u \in Threads : pc'[u] = (IF u = t THEN "decode" ELSE pc[u])
    BY <1>5 DEF SafeInv, TypeOK, Claim
  <2>3. \A s \in Slots : in_use'[s] = (IF s = slot[t] THEN TRUE ELSE in_use[s])
    BY <1>5, <2>1 DEF SafeInv, TypeOK, Claim
  <2>4. ASSUME NEW s \in Slots PROVE (in_use'[s] /\ ~ Owned(s)') <=> (in_use[s] /\ ~ Owned(s))
    <3>1. CASE s = slot[t]
      BY <2>1, <2>2, <3>1 DEF Owned
    <3>2. CASE s # slot[t]
      BY <2>1, <2>2, <2>3, <3>2 DEF Owned
    <3> QED BY <3>1, <3>2
  <2> QED BY <2>4 DEF Leaked, Slots
<1>6. ASSUME NEW t \in Threads, Free(t) PROVE Leaked' = Leaked
  <2>1. slot' = slot /\ slot[t] \in Slots /\ pc[t] = "decode"
    BY <1>6 DEF SafeInv, OneOwner, Free
  <2>2. \A u \in Threads : pc'[u] = (IF u = t THEN "run" ELSE pc[u])
    BY <1>6 DEF SafeInv, TypeOK, Free
  <2>3. \A s \in Slots : in_use'[s] = (IF s = slot[t] THEN FALSE ELSE in_use[s])
    BY <1>6, <2>1 DEF SafeInv, TypeOK, Free
  <2>4. ASSUME NEW s \in Slots PROVE (in_use'[s] /\ ~ Owned(s)') <=> (in_use[s] /\ ~ Owned(s))
    <3>1. CASE s = slot[t]
      BY <2>1, <2>3, <3>1 DEF Owned
    <3>2. CASE s # slot[t]
      BY <2>1, <2>2, <2>3, <3>2 DEF Owned
    <3> QED BY <3>1, <3>2
  <2> QED BY <2>4 DEF Leaked, Slots
<1>7. CASE UNCHANGED vars
  BY <1>1, <1>7 DEF vars, Owned
<1> QED BY <1>2, <1>3, <1>4, <1>5, <1>6, <1>7 DEF Next, Search

-----------------------------------------------------------------------------
(***************************************************************************)
(* A slot for every thread, besides those that belong to nobody, is enough.*)
(* Beyond(i) are the threads that stand at slot i or further up.  A thread *)
(* goes past slot i only while an owner sits there, who is then not beyond *)
(* it, or while the slot belongs to nobody (Low).                          *)
(***************************************************************************)
Beyond(i) == {t \in Threads : pc[t] \in {"search", "decode"} /\ slot[t] >= i}
Low(i) == {s \in Leaked : s < i}
Room(i) == Cardinality(Threads) + Cardinality(Low(i))

Crowd == \A i \in 0 .. max_process : Beyond(i) # {} => Cardinality(Beyond(i)) + i <= Room(i)

RoomInv == SafeInv /\ Crowd

LEMMA FiniteSlots == IsFiniteSet(Slots)
  BY PoolAssumption, FS_Interval DEF Slots

LEMMA FiniteLow ==
  /\ \A i \in Nat : IsFiniteSet(Low(i)) /\ Cardinality(Low(i)) \in Nat
  /\ IsFiniteSet(Leaked) /\ Cardinality(Leaked) \in Nat
<1>1. Leaked \subseteq Slots /\ \A i \in Nat : Low(i) \subseteq Slots
  BY DEF Leaked, Low
<1> QED BY <1>1, FiniteSlots, FS_Subset, FS_CardinalityType

LEMMA RoomType == ASSUME NEW i \in Nat PROVE Room(i) \in Nat
<1>1. Cardinality(Threads) \in Nat
  BY PoolAssumption, FS_CardinalityType
<1> QED BY <1>1, FiniteLow DEF Room

(* A smaller crowd needs no more room.                                     *)
LEMMA SmallerCrowd ==
  ASSUME NEW A \in SUBSET Threads, NEW B \in SUBSET Threads, NEW i \in Nat, NEW room \in Nat,
         A # {}, A \subseteq B, B # {} => Cardinality(B) + i <= room
  PROVE  Cardinality(A) + i <= room
<1>1. IsFiniteSet(A) /\ IsFiniteSet(B)
  BY PoolAssumption, FS_Subset
<1>2. Cardinality(A) \in Nat /\ Cardinality(B) \in Nat
  BY <1>1, FS_CardinalityType
<1>3. Cardinality(A) <= Cardinality(B)
  BY <1>1, FS_Subset
<1> QED BY <1>2, <1>3

(* A crowd without one of its members needs one place less.                *)
LEMMA WithoutOne ==
  ASSUME NEW A \in SUBSET Threads, NEW B \in SUBSET Threads, NEW i \in Nat, NEW u \in B,
         NEW room \in Nat, A \subseteq B \ {u}, Cardinality(B) + i <= room
  PROVE  Cardinality(A) + (i + 1) <= room
<1>1. IsFiniteSet(A) /\ IsFiniteSet(B) /\ IsFiniteSet(B \ {u})
  BY PoolAssumption, FS_Subset, FS_RemoveElement
<1>2. Cardinality(A) \in Nat /\ Cardinality(B) \in Nat /\ Cardinality(B \ {u}) \in Nat
  BY <1>1, FS_CardinalityType
<1>3. Cardinality(B \ {u}) = Cardinality(B) - 1
  BY <1>1, FS_RemoveElement
<1>4. Cardinality(A) <= Cardinality(B \ {u})
  BY <1>1, FS_Subset
<1> QED BY <1>2, <1>3, <1>4

(* One slot further there is as much room, or one place more where the slot*)
(* belongs to nobody.                                                      *)
LEMMA RoomGrows ==
  ASSUME NEW j \in Nat
  PROVE  Room(j) <= Room(j + 1) /\ (j \in Leaked => Room(j + 1) = Room(j) + 1)
<1>1. Low(j) \subseteq Low(j + 1) /\ j \notin Low(j) /\ \A s \in Leaked : s \in Int
  BY PoolAssumption DEF Low, Leaked, Slots
<1>2. ASSUME j \in Leaked PROVE Low(j + 1) = Low(j) \cup {j}
  <2>1. \A s \in Leaked : s < j + 1 <=> s < j \/ s = j
    BY <1>1
  <2> QED BY <1>2, <2>1 DEF Low
<1>3. IsFiniteSet(Low(j)) /\ IsFiniteSet(Low(j + 1))
  BY FiniteLow
<1>4. Cardinality(Low(j)) <= Cardinality(Low(j + 1))
  BY <1>1, <1>3, FS_Subset
<1>5. j \in Leaked => Cardinality(Low(j + 1)) = Cardinality(Low(j)) + 1
  BY <1>1, <1>2, <1>3, FS_AddElement
<1>6. Cardinality(Threads) \in Nat /\ Cardinality(Low(j)) \in Nat /\ Cardinality(Low(j + 1)) \in Nat
  BY <1>3, PoolAssumption, FS_CardinalityType
<1> QED BY <1>4, <1>5, <1>6 DEF Room

LEMMA BeyondThreads == \A i \in Nat : Beyond(i) \in SUBSET Threads /\ Beyond(i)' \in SUBSET Threads
  BY DEF Beyond

LEMMA SameRoom == ASSUME SafeInv, [Next]_vars, NEW i \in Nat PROVE Room(i)' = Room(i)
  BY LeakedStays DEF Room, Low

(* Steps that let nobody go further up keep the crowds.                    *)
LEMMA CrowdShrinks ==
  ASSUME RoomInv, [Next]_vars, \A i \in 0 .. max_process : Beyond(i)' \subseteq Beyond(i)
  PROVE  Crowd'
<1> SUFFICES ASSUME NEW i \in 0 .. max_process, Beyond(i)' # {}
             PROVE  Cardinality(Beyond(i)') + i <= Room(i)'
  BY DEF Crowd
<1>1. i \in Nat
  BY PoolAssumption
<1>2. Cardinality(Beyond(i)') + i <= Room(i)
  BY <1>1, BeyondThreads, RoomType, SmallerCrowd DEF RoomInv, Crowd
<1> QED BY <1>1, <1>2, SameRoom DEF RoomInv

LEMMA InitRoom == Init => RoomInv
<1> SUFFICES ASSUME Init PROVE Crowd
  BY InitSafe DEF RoomInv
<1>1. \A i \in 0 .. max_process : Beyond(i) = {}
  BY DEF Init, Beyond
<1> QED BY <1>1 DEF Crowd

LEMMA PullRoom == ASSUME RoomInv, NEW t \in Threads, Pull(t) PROVE Crowd'
<1> SUFFICES ASSUME NEW i \in 0 .. max_process, Beyond(i)' # {}
             PROVE  Cardinality(Beyond(i)') + i <= Room(i)'
  BY DEF Crowd
<1>1. i \in Nat /\ Room(i) \in Nat /\ Room(i)' = Room(i)
  <2>1. [Next]_vars
    BY DEF Next
  <2> QED BY <2>1, RoomType, SameRoom, PoolAssumption DEF RoomInv
<1>2. CASE i = 0
  <2>1. Threads # {}
    OBVIOUS
  <2>2. Cardinality(Threads) \in Nat /\ Cardinality(Low(i)) \in Nat
    BY <1>1, PoolAssumption, FS_CardinalityType, FiniteLow
  <2>3. Cardinality(Threads) + i <= Room(i)
    BY <1>2, <2>2 DEF Room
  <2> QED BY <1>1, <2>1, <2>3, BeyondThreads, SmallerCrowd
<1>3. CASE i # 0
  <2>1. slot'[t] = 0 /\ \A u \in Threads : u # t => pc'[u] = pc[u] /\ slot'[u] = slot[u]
    BY DEF RoomInv, SafeInv, TypeOK, Pull
  <2>2. Beyond(i)' \subseteq Beyond(i)
    BY <1>3, <2>1, PoolAssumption DEF Beyond
  <2> QED BY <1>1, <2>2, BeyondThreads, SmallerCrowd DEF RoomInv, Crowd
<1> QED BY <1>2, <1>3

LEMMA ClaimRoom == ASSUME RoomInv, NEW t \in Threads, Claim(t) PROVE Crowd'
<1>1. \A u \in Threads : pc'[u] = (IF u = t THEN "decode" ELSE pc[u]) /\ slot'[u] = slot[u]
  BY DEF RoomInv, SafeInv, TypeOK, Claim
<1>2. pc[t] = "search"
  BY DEF Claim
<1>3. \A i \in 0 .. max_process : Beyond(i)' \subseteq Beyond(i)
  BY <1>1, <1>2 DEF Beyond
<1> QED BY <1>3, CrowdShrinks DEF Next, Search

(* Past the slot either its owner stays behind, so that one thread less is *)
(* beyond, or it belongs to nobody, so that there is one place more.       *)
LEMMA PassRoom == ASSUME RoomInv, NEW t \in Threads, Pass(t) PROVE Crowd'
<1> DEFINE j == slot[t]
<1>1. /\ pc[t] = "search" /\ j \in Nat /\ j < max_process
      /\ pc' = pc /\ in_use' = in_use /\ in_use[j] /\ j \in Slots
  BY PoolAssumption DEF RoomInv, SafeInv, TypeOK, Pass, Slots
<1>2. \A u \in Threads : slot'[u] = (IF u = t THEN j + 1 ELSE slot[u])
  BY DEF RoomInv, SafeInv, TypeOK, Pass
<1>3. \A u \in Threads : slot[u] \in 0 .. max_process
  BY DEF RoomInv, SafeInv, TypeOK
<1>4. t \in Beyond(j)
  BY <1>1, <1>3 DEF Beyond
<1> HIDE DEF j
<1>5. Cardinality(Beyond(j)) + j <= Room(j)
  BY <1>1, <1>4, PoolAssumption DEF RoomInv, Crowd
<1>6. \A u \in Threads : pc[u] \in {"search", "decode"} /\ slot'[u] >= j + 1 => u \in Beyond(j)
  <2> SUFFICES ASSUME NEW u \in Threads, pc[u] \in {"search", "decode"}, slot'[u] >= j + 1
               PROVE  u \in Beyond(j)
    OBVIOUS
  <2>1. CASE u = t
    BY <1>4, <2>1
  <2>2. CASE u # t
    BY <1>1, <1>2, <1>3, <2>2 DEF Beyond
  <2> QED BY <2>1, <2>2
<1>7. ASSUME NEW i \in 0 .. max_process, Beyond(i)' # {}
      PROVE  Cardinality(Beyond(i)') + i <= Room(i)
  <2>0. i \in Nat /\ Room(i) \in Nat /\ Room(j) \in Nat
    BY <1>1, RoomType, PoolAssumption
  <2>1. CASE i = j + 1
    <3>1. Beyond(i)' \subseteq Beyond(j)
      BY <1>1, <1>6, <2>1 DEF Beyond
    <3>2. CASE Owned(j)
      <4>1. PICK o \in Threads : pc[o] = "decode" /\ slot[o] = j
        BY <3>2 DEF Owned
      <4>2. o \in Beyond(j) /\ o # t
        BY <1>1, <4>1 DEF Beyond
      <4>3. o \notin Beyond(i)'
        BY <1>1, <1>2, <2>1, <4>1, <4>2 DEF Beyond
      <4>4. Beyond(i)' \subseteq Beyond(j) \ {o}
        BY <3>1, <4>3
      <4>5. Cardinality(Beyond(i)') + (j + 1) <= Room(j)
        BY <1>1, <1>5, <2>0, <4>2, <4>4, BeyondThreads, WithoutOne
      <4>6. Cardinality(Beyond(i)') \in Nat
        BY <2>0, BeyondThreads, PoolAssumption, FS_Subset, FS_CardinalityType
      <4>7. Room(j) <= Room(i)
        BY <1>1, <2>1, RoomGrows
      <4> QED BY <1>1, <2>0, <2>1, <4>5, <4>6, <4>7
    <3>3. CASE ~ Owned(j)
      <4>1. Room(i) = Room(j) + 1
        BY <1>1, <2>1, <3>3, RoomGrows DEF Leaked
      <4>2. Cardinality(Beyond(i)') + j <= Room(j)
        BY <1>1, <1>5, <1>7, <2>0, <3>1, BeyondThreads, SmallerCrowd
      <4>3. Cardinality(Beyond(i)') \in Nat
        BY <2>0, BeyondThreads, PoolAssumption, FS_Subset, FS_CardinalityType
      <4> QED BY <1>1, <2>0, <2>1, <4>1, <4>2, <4>3
    <3> QED BY <3>2, <3>3
  <2>2. CASE i # j + 1
    <3>1. Beyond(i)' \subseteq Beyond(i)
      <4> SUFFICES ASSUME NEW u \in Beyond(i)' PROVE u \in Beyond(i)
        OBVIOUS
      <4>1. u \in Threads /\ pc[u] \in {"search", "decode"} /\ slot'[u] >= i
        BY <1>1 DEF Beyond
      <4>2. slot[u] >= i
        <5>1. CASE u = t
          BY <1>1, <1>2, <2>0, <2>2, <4>1, <5>1 DEF j
        <5>2. CASE u # t
          BY <1>2, <4>1, <5>2
        <5> QED BY <5>1, <5>2
      <4> QED BY <4>1, <4>2 DEF Beyond
    <3> QED BY <1>7, <2>0, <3>1, BeyondThreads, SmallerCrowd DEF RoomInv, Crowd
  <2> QED BY <2>1, <2>2
<1>8. [Next]_vars
  BY DEF Next, Search
<1>9. \A i \in 0 .. max_process : Room(i)' = Room(i)
  BY <1>8, SameRoom, PoolAssumption DEF RoomInv
<1> QED BY <1>7, <1>9 DEF Crowd

LEMMA FreeRoom == ASSUME RoomInv, NEW t \in Threads, Free(t) PROVE Crowd'
<1>1. /\ \A u \in Threads : slot'[u] = slot[u] /\ (u # t => pc'[u] = pc[u])
      /\ pc'[t] = "run"
  BY DEF RoomInv, SafeInv, TypeOK, OneOwner, Free
<1>2. \A i \in 0 .. max_process : Beyond(i)' \subseteq Beyond(i)
  BY <1>1 DEF Beyond
<1> QED BY <1>2, CrowdShrinks DEF Next

LEMMA RoomStep == RoomInv /\ [Next]_vars => RoomInv'
<1> SUFFICES ASSUME RoomInv, [Next]_vars PROVE Crowd'
  BY SafeStep DEF RoomInv
<1>1. ASSUME UNCHANGED <<pc, slot>> PROVE Crowd'
  BY <1>1, CrowdShrinks DEF Beyond
<1>2. ASSUME NEW t \in Threads, NoFree(t) PROVE Crowd'
  BY <1>1, <1>2 DEF NoFree
<1>3. CASE UNCHANGED vars
  BY <1>1, <1>3 DEF vars
<1>4. ASSUME NEW t \in Threads, Pull(t) \/ Search(t) \/ Free(t) PROVE Crowd'
  BY <1>2, <1>4, PullRoom, ClaimRoom, PassRoom, FreeRoom DEF Search
<1> QED BY <1>3, <1>4 DEF Next

(* With room for every thread, nobody reaches the end of the pool.         *)
LEMMA EnoughRoom ==
  ASSUME RoomInv, Cardinality(Threads) + Cardinality(Leaked) <= max_process, ~ panicked,
         [Next]_vars
  PROVE  ~ panicked'
<1>1. ASSUME NEW t \in Threads, NoFree(t) PROVE FALSE
  <2>1. t \in Beyond(max_process)
    BY <1>1, PoolAssumption DEF NoFree, Beyond
  <2>2. Cardinality(Beyond(max_process)) + max_process <= Room(max_process)
    BY <2>1, PoolAssumption DEF RoomInv, Crowd
  <2>3. Low(max_process) = Leaked
    BY PoolAssumption DEF Low, Leaked, Slots
  <2>4. IsFiniteSet(Beyond(max_process)) /\ Cardinality(Beyond(max_process)) \in Nat
    BY BeyondThreads, PoolAssumption, FS_Subset, FS_CardinalityType
  <2>5. Cardinality(Beyond(max_process)) # 0
    BY <2>1, <2>4, FS_EmptySet
  <2>6. Cardinality(Threads) \in Nat /\ Cardinality(Leaked) \in Nat
    BY PoolAssumption, FS_CardinalityType, FiniteLow
  <2> QED BY <2>2, <2>3, <2>4, <2>5, <2>6, PoolAssumption DEF Room
<1> QED BY <1>1 DEF Next, Search, Pull, Claim, Pass, Free, vars

(***************************************************************************)
(* "CONTEXT::NO_FREE" is out of reach when every thread has a slot besides *)
(* those that were taken from the start, for any number of them.           *)
(***************************************************************************)
THEOREM PoolSuffices == Spec => []NeverExhausted
<1> DEFINE Inv == RoomInv /\ NeverExhausted
<1>1. Init => Inv
  BY InitRoom DEF Init, NeverExhausted
<1>2. Inv /\ [Next]_vars => Inv'
  <2> SUFFICES ASSUME Inv, [Next]_vars PROVE NeverExhausted'
    BY RoomStep
  <2>1. Leaked' = Leaked
    BY LeakedStays DEF RoomInv
  <2> QED BY <2>1, EnoughRoom DEF NeverExhausted
<1>3. Inv => NeverExhausted
  OBVIOUS
<1> QED BY <1>1, <1>2, <1>3, PTL DEF Spec
=============================================================================
