------------------------- MODULE CacheSearchProofs --------------------------
(***************************************************************************)
(* The binary searches of cache_search keep the promise of module Cache on *)
(* every well-formed cache and for every address.                          *)
(***************************************************************************)
EXTENDS CacheSearch, TLAPS

(***************************************************************************)
(* The invariants of the two loops: everything before left is too small,   *)
(* everything after right too large.                                       *)
(***************************************************************************)
Narrowed(size) == left \in 0 .. size /\ right \in -1 .. size - 1 /\ left <= right + 1

BlocksInv ==
  /\ Narrowed(Len(a.blocks))
  /\ \A i \in 1 .. Len(a.blocks) : i <= left => a.blocks[i].gp_lo < gp
  /\ \A i \in 1 .. Len(a.blocks) : i > right + 1 => a.blocks[i].gp_lo > gp

(* The block whose points are searched is the one where gp can be.         *)
Chosen ==
  /\ StartsAt(a.blocks, gp) = {}
  /\ block \in DOMAIN a.blocks
  /\ IsPredecessor(a.blocks, block, gp)
  /\ a.blocks[block].offsets # 0

PointsInv ==
  LET b == a.blocks[block]
  IN  /\ Chosen
      /\ Narrowed(b.offsetssz)
      /\ \A i \in 1 .. b.offsetssz : i <= left => a.offsets[b.offsets + i].goff < gp - b.gp_lo
      /\ \A i \in 1 .. b.offsetssz : i > right + 1 => a.offsets[b.offsets + i].goff > gp - b.gp_lo

SearchInv ==
  /\ WellFormed(a) /\ gp \in Nat
  /\ pc \in {"blocks", "points", "done"}
  /\ left \in Nat /\ right \in Nat \cup {-1}
  /\ block \in {0} \cup DOMAIN a.blocks
  /\ result \in Nat \cup {NULL}
  /\ pc = "blocks" => BlocksInv
  /\ pc = "points" => PointsInv
  /\ KeepsPromise

LEMMA Middle ==
  ASSUME NEW l \in Int, NEW r \in Int, l <= r
  PROVE  (l + r) \div 2 \in Int /\ l <= (l + r) \div 2 /\ (l + r) \div 2 <= r
OBVIOUS

LEMMA CacheFields ==
  ASSUME WellFormed(a)
  PROVE  /\ a.blocks \in Seq(Blocks) /\ a.offsets \in Seq(Points)
         /\ Len(a.blocks) \in Nat /\ DOMAIN a.blocks = 1 .. Len(a.blocks)
         /\ \A i \in DOMAIN a.blocks :
              /\ a.blocks[i].gp_lo \in Nat /\ a.blocks[i].hp \in Nat
              /\ a.blocks[i].offsets \in Nat /\ a.blocks[i].offsetssz \in Nat
              /\ a.blocks[i].offsets + a.blocks[i].offsetssz <= Len(a.offsets)
         /\ \A i, j \in DOMAIN a.blocks : i < j => a.blocks[i].gp_lo <= a.blocks[j].gp_lo
         /\ \A k \in DOMAIN a.offsets : a.offsets[k].goff \in Nat /\ a.offsets[k].hoff \in Nat
<1>1. a \in Anchors /\ U8Max \in Nat
  BY CacheAssumption DEF WellFormed
<1>2. a.blocks \in Seq(Blocks) /\ a.offsets \in Seq(Points) /\ a.offsets_p \in Nat
  BY <1>1 DEF Anchors
<1>3. Len(a.blocks) \in Nat /\ DOMAIN a.blocks = 1 .. Len(a.blocks)
      /\ Len(a.offsets) \in Nat /\ a.offsets_p <= Len(a.offsets)
  BY <1>2 DEF WellFormed, InBounds
<1>4. ASSUME NEW i \in DOMAIN a.blocks
      PROVE  /\ a.blocks[i].gp_lo \in Nat /\ a.blocks[i].hp \in Nat
             /\ a.blocks[i].offsets \in Nat /\ a.blocks[i].offsetssz \in Nat
             /\ a.blocks[i].offsets + a.blocks[i].offsetssz <= Len(a.offsets)
  <2>1. a.blocks[i] \in Blocks
    BY <1>2, <1>3
  <2>2. /\ a.blocks[i].gp_lo \in Nat /\ a.blocks[i].hp \in Nat
        /\ a.blocks[i].offsets \in Nat /\ a.blocks[i].offsetssz \in Nat
    BY <1>1, <2>1 DEF Blocks
  <2>3. a.blocks[i].offsets + a.blocks[i].offsetssz <= a.offsets_p
    BY DEF WellFormed, InBounds
  <2> DEFINE e == a.blocks[i].offsets + a.blocks[i].offsetssz
  <2>4. e \in Nat /\ e <= a.offsets_p
    BY <2>2, <2>3
  <2> HIDE DEF e
  <2>5. e <= Len(a.offsets)
    BY <1>2, <1>3, <2>4
  <2> QED BY <2>2, <2>5 DEF e
<1>5. ASSUME NEW k \in DOMAIN a.offsets PROVE a.offsets[k].goff \in Nat /\ a.offsets[k].hoff \in Nat
  <2>1. a.offsets[k] \in Points
    BY <1>2
  <2> QED BY <1>1, <2>1 DEF Points
<1>6. \A i, j \in DOMAIN a.blocks : i < j => a.blocks[i].gp_lo <= a.blocks[j].gp_lo
  BY DEF WellFormed, Sorted
<1> QED BY <1>2, <1>3, <1>4, <1>5, <1>6

(* At most one block is the predecessor of an address.                     *)
LEMMA OnePredecessor ==
  ASSUME WellFormed(a), gp \in Nat, NEW i \in DOMAIN a.blocks, NEW j \in DOMAIN a.blocks,
         IsPredecessor(a.blocks, i, gp), IsPredecessor(a.blocks, j, gp)
  PROVE  i = j
<1>1. ASSUME NEW x \in DOMAIN a.blocks, NEW y \in DOMAIN a.blocks, x < y,
             IsPredecessor(a.blocks, x, gp), IsPredecessor(a.blocks, y, gp)
      PROVE  FALSE
  <2>1. x \in 1 .. Len(a.blocks) /\ y \in 1 .. Len(a.blocks) /\ x + 1 \in DOMAIN a.blocks
        /\ x + 1 <= y /\ Len(a.blocks) \in Nat
    BY <1>1, CacheFields
  <2>2. a.blocks[x + 1].gp_lo > gp /\ a.blocks[y].gp_lo < gp
    BY <1>1, <2>1 DEF IsPredecessor
  <2>4. a.blocks[x + 1].gp_lo \in Nat /\ a.blocks[y].gp_lo \in Nat
    BY <2>1, CacheFields
  <2>3. a.blocks[x + 1].gp_lo <= a.blocks[y].gp_lo
    <3>1. CASE x + 1 < y
      BY <2>1, <3>1, CacheFields
    <3>2. CASE x + 1 = y
      BY <2>4, <3>2
    <3> QED BY <2>1, <3>1, <3>2
  <2> QED BY <2>2, <2>3, <2>4
<1>2. i \in Int /\ j \in Int
  BY CacheFields
<1> QED BY <1>1, <1>2

(* Where the first loop ends, no block starts at gp, and the block at      *)
(* right, if any, is the predecessor.                                      *)
LEMMA BlocksEnd ==
  ASSUME WellFormed(a), gp \in Nat, BlocksInv, left > right
  PROVE  /\ StartsAt(a.blocks, gp) = {}
         /\ right >= 0 => right + 1 \in DOMAIN a.blocks /\ IsPredecessor(a.blocks, right + 1, gp)
         /\ right < 0 => \A i \in DOMAIN a.blocks : ~ IsPredecessor(a.blocks, i, gp)
<1> DEFINE n == Len(a.blocks)
<1>1. /\ n \in Nat /\ DOMAIN a.blocks = 1 .. n /\ left = right + 1 /\ right \in -1 .. n - 1
      /\ left \in 0 .. n
  BY CacheFields DEF BlocksInv, Narrowed
<1>2. \A i \in 1 .. n : a.blocks[i].gp_lo \in Nat
  BY CacheFields
<1>3. \A i \in 1 .. n : (i <= left => a.blocks[i].gp_lo < gp) /\ (i > left => a.blocks[i].gp_lo > gp)
  BY <1>1 DEF BlocksInv
<1> HIDE DEF n
<1>4. StartsAt(a.blocks, gp) = {}
  BY <1>1, <1>2, <1>3 DEF StartsAt
<1>5. ASSUME right >= 0 PROVE right + 1 \in DOMAIN a.blocks /\ IsPredecessor(a.blocks, right + 1, gp)
  <2>1. right + 1 \in 1 .. n
    BY <1>1, <1>5
  <2>2. a.blocks[right + 1].gp_lo < gp
    BY <1>1, <1>3, <2>1
  <2>3. right + 1 < n => a.blocks[right + 1 + 1].gp_lo > gp
    BY <1>1, <1>3, <2>1
  <2> QED BY <1>1, <2>1, <2>2, <2>3 DEF IsPredecessor, n
<1>6. ASSUME right < 0, NEW i \in DOMAIN a.blocks PROVE ~ IsPredecessor(a.blocks, i, gp)
  <2>1. a.blocks[i].gp_lo > gp /\ a.blocks[i].gp_lo \in Nat
    BY <1>1, <1>2, <1>3, <1>6
  <2> QED BY <2>1 DEF IsPredecessor
<1> QED BY <1>4, <1>5, <1>6

(* What Found comes to, by the block before gp.                            *)
LEMMA FoundNone ==
  ASSUME StartsAt(a.blocks, gp) = {},
         \A i \in DOMAIN a.blocks :
           IsPredecessor(a.blocks, i, gp) /\ a.blocks[i].offsets # 0 =>
             block_cache_search(a, a.blocks[i], gp) = {}
  PROVE  NULL \in cache_search(a, gp)
BY DEF Found, cache_search

LEMMA FoundIn ==
  ASSUME StartsAt(a.blocks, gp) = {}, NEW i \in DOMAIN a.blocks,
         IsPredecessor(a.blocks, i, gp), a.blocks[i].offsets # 0,
         NEW t \in block_cache_search(a, a.blocks[i], gp)
  PROVE  t \in cache_search(a, gp)
<1>1. t \in Found(a, gp)
  BY DEF Found
<1> QED BY <1>1 DEF cache_search

-----------------------------------------------------------------------------
LEMMA InitSearch == Init => SearchInv
<1> SUFFICES ASSUME Init PROVE SearchInv
  OBVIOUS
<1>1. WellFormed(a) /\ gp \in Nat
  BY SearchAssumption DEF Init
<1>2. Len(a.blocks) \in Nat
  BY <1>1, CacheFields
<1>3. left = 0 /\ right = Len(a.blocks) - 1 /\ pc = "blocks" /\ block = 0 /\ result = NULL
  BY DEF Init
<1>4. right \in Nat \cup {-1} /\ Narrowed(Len(a.blocks))
  BY <1>2, <1>3 DEF Narrowed
<1>5. BlocksInv
  BY <1>2, <1>3, <1>4 DEF BlocksInv
<1> QED BY <1>1, <1>3, <1>4, <1>5 DEF SearchInv, KeepsPromise

(* Where the loop that runs stands, and what the element at mid is.        *)
LEMMA Probe ==
  ASSUME SearchInv, pc # "done", left <= right
  PROVE  /\ left \in Nat /\ right \in Nat /\ mid \in Nat /\ left <= mid /\ mid <= right
         /\ pc = "blocks" => mid + 1 \in 1 .. Len(a.blocks) /\ mid + 1 \in DOMAIN a.blocks
         /\ pc = "points" => /\ mid + 1 \in 1 .. a.blocks[block].offsetssz
                             /\ a.blocks[block].offsets + (mid + 1) \in DOMAIN a.offsets
         /\ Key \in Nat /\ Sought \in Nat
<1>1. left \in Nat /\ right \in Int /\ right \in Nat
  BY DEF SearchInv
<1>2. mid \in Int /\ left <= mid /\ mid <= right
  BY <1>1, Middle DEF mid
<1>3. mid \in Nat
  BY <1>1, <1>2
<1> HIDE DEF mid
<1>4. CASE pc = "blocks"
  <2>1. right < Len(a.blocks) /\ Len(a.blocks) \in Nat /\ DOMAIN a.blocks = 1 .. Len(a.blocks)
    BY <1>4, CacheFields DEF SearchInv, BlocksInv, Narrowed
  <2>2. mid + 1 \in 1 .. Len(a.blocks)
    BY <1>1, <1>2, <1>3, <2>1
  <2>3. Key \in Nat /\ Sought \in Nat
    BY <1>4, <2>1, <2>2, CacheFields DEF Key, Sought, SearchInv
  <2> QED BY <1>1, <1>2, <1>3, <1>4, <2>1, <2>2, <2>3
<1>5. CASE pc = "points"
  <2> DEFINE b == a.blocks[block]
  <2>1. PointsInv /\ block \in DOMAIN a.blocks /\ WellFormed(a) /\ gp \in Nat
    BY <1>5 DEF SearchInv, PointsInv, Chosen
  <2>2. /\ b.gp_lo \in Nat /\ b.offsets \in Nat /\ b.offsetssz \in Nat
        /\ b.offsets + b.offsetssz <= Len(a.offsets)
        /\ a.offsets \in Seq(Points)
    BY <2>1, CacheFields
  <2>3. right < b.offsetssz /\ b.gp_lo < gp
    BY <2>1, <2>2 DEF PointsInv, Narrowed, Chosen, IsPredecessor
  <2> HIDE DEF b
  <2>4. mid + 1 \in 1 .. b.offsetssz
    BY <1>1, <1>2, <1>3, <2>2, <2>3
  <2>5. b.offsets + (mid + 1) \in DOMAIN a.offsets
    <3>1. Len(a.offsets) \in Nat /\ DOMAIN a.offsets = 1 .. Len(a.offsets)
      BY <2>2
    <3> QED BY <2>2, <2>4, <3>1
  <2>6. Key = a.offsets[b.offsets + (mid + 1)].goff
    <3>1. b.offsets + mid + 1 = b.offsets + (mid + 1)
      BY <1>3, <2>2
    <3> QED BY <1>5, <3>1 DEF Key, b
  <2>7. Key \in Nat
    BY <2>1, <2>5, <2>6, CacheFields
  <2>8. Sought = gp - b.gp_lo
    BY <1>5 DEF Sought, b
  <2>9. Sought \in Nat
    BY <2>1, <2>2, <2>3, <2>8
  <2> QED BY <1>1, <1>2, <1>3, <1>5, <2>4, <2>5, <2>7, <2>9 DEF b
<1> QED BY <1>4, <1>5 DEF SearchInv

(* The elements are sorted, so what holds of the one at mid holds of all   *)
(* before it, or of all after it.                                          *)
LEMMA BelowMid ==
  ASSUME SearchInv, pc = "blocks", left <= right, NEW i \in 1 .. Len(a.blocks)
  PROVE  /\ i <= mid + 1 => a.blocks[i].gp_lo <= Key
         /\ i >= mid + 1 => a.blocks[i].gp_lo >= Key
<1>1. /\ WellFormed(a) /\ mid \in Nat /\ mid + 1 \in DOMAIN a.blocks /\ Key = a.blocks[mid + 1].gp_lo
  BY Probe DEF SearchInv, Key
<1>2. i \in DOMAIN a.blocks /\ i \in Int /\ a.blocks[i].gp_lo \in Nat /\ Key \in Nat
  BY <1>1, CacheFields
<1>3. i < mid + 1 => a.blocks[i].gp_lo <= Key
  BY <1>1, <1>2, CacheFields
<1>4. i > mid + 1 => a.blocks[i].gp_lo >= Key
  BY <1>1, <1>2, CacheFields
<1>5. i = mid + 1 => a.blocks[i].gp_lo = Key
  BY <1>1
<1> QED BY <1>1, <1>2, <1>3, <1>4, <1>5

LEMMA BelowMidPoint ==
  ASSUME SearchInv, pc = "points", left <= right, NEW i \in 1 .. a.blocks[block].offsetssz
  PROVE  LET x == a.offsets[a.blocks[block].offsets + i].goff
         IN  /\ x \in Nat
             /\ i < mid + 1 => x < Key
             /\ i = mid + 1 => x = Key
             /\ i > mid + 1 => x > Key
<1> DEFINE b == a.blocks[block]
<1>1. block \in DOMAIN a.blocks /\ WellFormed(a)
  BY DEF SearchInv, PointsInv, Chosen
<1>2. /\ b.offsets \in Nat /\ b.offsetssz \in Nat /\ b.offsets + b.offsetssz <= Len(a.offsets)
      /\ a.offsets \in Seq(Points)
      /\ \A j, k \in b.offsets + 1 .. b.offsets + b.offsetssz :
           j < k => a.offsets[j].goff < a.offsets[k].goff
  BY <1>1, CacheFields DEF WellFormed
<1>3. mid \in Nat /\ mid + 1 \in 1 .. b.offsetssz
  BY Probe
<1>4. b.offsets + mid + 1 = b.offsets + (mid + 1)
  <2> DEFINE m == mid
  <2>1. b.offsets \in Nat /\ m \in Nat
    BY <1>2, <1>3
  <2> SUFFICES b.offsets + m + 1 = b.offsets + (m + 1)
    OBVIOUS
  <2> HIDE DEF b, m
  <2> QED BY <2>1
<1>5. Key = a.offsets[b.offsets + (mid + 1)].goff
  BY <1>4 DEF Key
<1> SUFFICES /\ a.offsets[b.offsets + i].goff \in Nat
             /\ i < mid + 1 => a.offsets[b.offsets + i].goff < Key
             /\ i = mid + 1 => a.offsets[b.offsets + i].goff = Key
             /\ i > mid + 1 => a.offsets[b.offsets + i].goff > Key
  OBVIOUS
<1>6. i \in 1 .. b.offsetssz
  OBVIOUS
<1> HIDE DEF b
<1>7. b.offsets + i \in b.offsets + 1 .. b.offsets + b.offsetssz
      /\ b.offsets + (mid + 1) \in b.offsets + 1 .. b.offsets + b.offsetssz
      /\ (i < mid + 1 => b.offsets + i < b.offsets + (mid + 1))
      /\ (i > mid + 1 => b.offsets + (mid + 1) < b.offsets + i)
  BY <1>2, <1>3, <1>6
<1>8. b.offsets + i \in DOMAIN a.offsets /\ b.offsets + (mid + 1) \in DOMAIN a.offsets
  <2>1. Len(a.offsets) \in Nat /\ DOMAIN a.offsets = 1 .. Len(a.offsets)
    BY <1>2
  <2> QED BY <1>2, <1>7, <2>1
<1>9. a.offsets[b.offsets + i].goff \in Nat /\ a.offsets[b.offsets + (mid + 1)].goff \in Nat
  BY <1>1, <1>8, CacheFields
<1>10. i < mid + 1 => a.offsets[b.offsets + i].goff < Key
  BY <1>2, <1>5, <1>7
<1>11. i > mid + 1 => a.offsets[b.offsets + i].goff > Key
  BY <1>2, <1>5, <1>7, <1>9
<1> QED BY <1>5, <1>9, <1>10, <1>11

LEMMA RightStep ==
  ASSUME SearchInv, Right
  PROVE  SearchInv' /\ right' - left' < right - left
<1>1. /\ pc # "done" /\ left <= right /\ Key < Sought /\ left' = mid + 1
      /\ UNCHANGED <<a, gp, pc, right, block, result>>
  BY DEF Right
<1>2. /\ left \in Nat /\ right \in Nat /\ mid \in Nat /\ left <= mid /\ mid <= right
      /\ Key \in Nat /\ Sought \in Nat
  BY <1>1, Probe
<1>3. left' \in Nat /\ right' \in Nat /\ right' - left' < right - left
  BY <1>1, <1>2
<1>4. ASSUME pc = "blocks" PROVE BlocksInv'
  <2>1. BlocksInv /\ Len(a.blocks) \in Nat
    BY <1>4, CacheFields DEF SearchInv
  <2>2. Narrowed(Len(a.blocks))'
    BY <1>1, <1>2, <2>1 DEF Narrowed, BlocksInv
  <2>3. ASSUME NEW i \in 1 .. Len(a.blocks), i <= left' PROVE a.blocks[i].gp_lo < gp
    <3>1. a.blocks[i].gp_lo <= Key
      BY <1>1, <1>4, <2>3, BelowMid
    <3>2. a.blocks[i].gp_lo \in Nat /\ gp \in Nat
      BY CacheFields DEF SearchInv
    <3>3. Key < gp
      BY <1>1, <1>4 DEF Sought
    <3> QED BY <1>2, <3>1, <3>2, <3>3
  <2> QED BY <1>1, <2>1, <2>2, <2>3 DEF BlocksInv
<1>5. ASSUME pc = "points" PROVE PointsInv'
  <2> DEFINE b == a.blocks[block]
  <2>1. PointsInv /\ block \in DOMAIN a.blocks /\ WellFormed(a) /\ gp \in Nat
    BY <1>5 DEF SearchInv, PointsInv, Chosen
  <2>2. b.offsetssz \in Nat /\ b.gp_lo \in Nat
    BY <2>1, CacheFields
  <2>3. Narrowed(b.offsetssz)'
    BY <1>1, <1>2, <2>1, <2>2 DEF Narrowed, PointsInv
  <2>4. ASSUME NEW i \in 1 .. b.offsetssz, i <= left'
        PROVE  a.offsets[b.offsets + i].goff < gp - b.gp_lo
    <3>1. i < mid + 1 \/ i = mid + 1
      BY <1>1, <1>2, <2>2, <2>4
    <3>2. a.offsets[b.offsets + i].goff \in Nat /\ a.offsets[b.offsets + i].goff <= Key
      BY <1>1, <1>2, <1>5, <3>1, BelowMidPoint
    <3>3. Key < gp - b.gp_lo
      BY <1>1, <1>5 DEF Sought
    <3> QED BY <1>2, <2>1, <2>2, <3>2, <3>3
  <2>5. Chosen'
    BY <1>1, <2>1 DEF PointsInv, Chosen
  <2> QED BY <1>1, <2>1, <2>3, <2>4, <2>5 DEF PointsInv
<1>6. SearchInv'
  BY <1>1, <1>3, <1>4, <1>5 DEF SearchInv, KeepsPromise
<1> QED BY <1>3, <1>6

LEMMA LeftStep ==
  ASSUME SearchInv, Left
  PROVE  SearchInv' /\ right' - left' < right - left
<1>1. /\ pc # "done" /\ left <= right /\ Key > Sought /\ right' = mid - 1
      /\ UNCHANGED <<a, gp, pc, left, block, result>>
  BY DEF Left
<1>2. /\ left \in Nat /\ right \in Nat /\ mid \in Nat /\ left <= mid /\ mid <= right
      /\ Key \in Nat /\ Sought \in Nat
  BY <1>1, Probe
<1>3. right' \in Nat \cup {-1} /\ right' - left' < right - left
  BY <1>1, <1>2
<1>4. ASSUME pc = "blocks" PROVE BlocksInv'
  <2>1. BlocksInv /\ Len(a.blocks) \in Nat
    BY <1>4, CacheFields DEF SearchInv
  <2>2. Narrowed(Len(a.blocks))'
    BY <1>1, <1>2, <2>1 DEF Narrowed, BlocksInv
  <2>3. ASSUME NEW i \in 1 .. Len(a.blocks), i > right' + 1 PROVE a.blocks[i].gp_lo > gp
    <3>1. i >= mid + 1
      BY <1>1, <1>2, <2>1, <2>3
    <3>2. a.blocks[i].gp_lo >= Key
      BY <1>1, <1>4, <3>1, BelowMid
    <3>3. a.blocks[i].gp_lo \in Nat /\ gp \in Nat
      BY CacheFields DEF SearchInv
    <3>4. Key > gp
      BY <1>1, <1>4 DEF Sought
    <3> QED BY <1>2, <3>2, <3>3, <3>4
  <2> QED BY <1>1, <2>1, <2>2, <2>3 DEF BlocksInv
<1>5. ASSUME pc = "points" PROVE PointsInv'
  <2> DEFINE b == a.blocks[block]
  <2>1. PointsInv /\ block \in DOMAIN a.blocks /\ WellFormed(a) /\ gp \in Nat
    BY <1>5 DEF SearchInv, PointsInv, Chosen
  <2>2. b.offsetssz \in Nat /\ b.gp_lo \in Nat
    BY <2>1, CacheFields
  <2>3. Narrowed(b.offsetssz)'
    BY <1>1, <1>2, <2>1, <2>2 DEF Narrowed, PointsInv
  <2>4. ASSUME NEW i \in 1 .. b.offsetssz, i > right' + 1
        PROVE  a.offsets[b.offsets + i].goff > gp - b.gp_lo
    <3>1. i > mid + 1 \/ i = mid + 1
      BY <1>1, <1>2, <2>2, <2>4
    <3>2. a.offsets[b.offsets + i].goff \in Nat /\ a.offsets[b.offsets + i].goff >= Key
      BY <1>1, <1>2, <1>5, <3>1, BelowMidPoint
    <3>3. Key > gp - b.gp_lo
      BY <1>1, <1>5 DEF Sought
    <3> QED BY <1>2, <2>1, <2>2, <3>2, <3>3
  <2>5. Chosen'
    BY <1>1, <2>1 DEF PointsInv, Chosen
  <2> QED BY <1>1, <2>1, <2>3, <2>4, <2>5 DEF PointsInv
<1>6. SearchInv'
  BY <1>1, <1>3, <1>4, <1>5 DEF SearchInv, KeepsPromise
<1> QED BY <1>3, <1>6

LEMMA FoundBlockStep ==
  ASSUME SearchInv, FoundBlock
  PROVE  SearchInv'
<1>1. /\ pc = "blocks" /\ left <= right /\ Key = Sought /\ pc' = "done"
      /\ result' = a.blocks[mid + 1].hp /\ UNCHANGED <<a, gp, left, right, block>>
  BY DEF FoundBlock, Return
<1>2. mid + 1 \in DOMAIN a.blocks /\ a.blocks[mid + 1].gp_lo = gp /\ a.blocks[mid + 1].hp \in Nat
  <2>1. mid + 1 \in DOMAIN a.blocks
    BY <1>1, Probe
  <2>2. a.blocks[mid + 1].gp_lo = gp
    BY <1>1 DEF Key, Sought
  <2> QED BY <2>1, <2>2, CacheFields DEF SearchInv
<1>3. result' \in Found(a, gp)
  BY <1>1, <1>2 DEF Found, StartsAt
<1>4. result' \in cache_search(a, gp)
  BY <1>3 DEF cache_search
<1> QED BY <1>1, <1>2, <1>4 DEF SearchInv, KeepsPromise

LEMMA DescendStep ==
  ASSUME SearchInv, Descend
  PROVE  SearchInv'
<1>1. /\ pc = "blocks" /\ left > right /\ right >= 0 /\ a.blocks[right + 1].offsets # 0
      /\ pc' = "points" /\ block' = right + 1 /\ left' = 0
      /\ right' = a.blocks[right + 1].offsetssz - 1 /\ UNCHANGED <<a, gp, result>>
  BY DEF Descend
<1>2. /\ StartsAt(a.blocks, gp) = {} /\ block' \in DOMAIN a.blocks
      /\ IsPredecessor(a.blocks, block', gp)
  BY <1>1, BlocksEnd DEF SearchInv
<1>3. a.blocks[block'].offsetssz \in Nat
  BY <1>2, CacheFields DEF SearchInv
<1>4. right' \in Nat \cup {-1} /\ Narrowed(a.blocks[block].offsetssz)'
  BY <1>1, <1>3 DEF Narrowed
<1>5. Chosen'
  BY <1>1, <1>2 DEF Chosen
<1>6. PointsInv'
  BY <1>1, <1>3, <1>4, <1>5 DEF PointsInv
<1> QED BY <1>1, <1>2, <1>4, <1>6 DEF SearchInv, KeepsPromise

LEMMA FoundPointStep ==
  ASSUME SearchInv, FoundPoint
  PROVE  SearchInv'
<1> DEFINE b == a.blocks[block]
           k == b.offsets + (mid + 1)
           hp == b.hp + a.offsets[k].hoff
<1>1. /\ PointsInv /\ Chosen /\ WellFormed(a) /\ gp \in Nat /\ pc = "points"
      /\ block \in DOMAIN a.blocks /\ left <= right /\ Key = Sought
  BY Zenon DEF SearchInv, FoundPoint, PointsInv, Chosen
<1>2. /\ b.gp_lo \in Nat /\ b.offsets \in Nat /\ b.offsetssz \in Nat /\ b.hp \in Nat
      /\ mid \in Nat /\ mid + 1 \in 1 .. b.offsetssz /\ k \in DOMAIN a.offsets
  BY <1>1, CacheFields, Probe
<1>3. b.offsets + mid + 1 = k
  BY <1>2
<1>4. /\ pc' = "done" /\ result' = (IF hp = 0 THEN NULL ELSE hp)
      /\ UNCHANGED <<a, gp, left, right, block>>
  BY <1>3 DEF FoundPoint, Return
<1>5. a.offsets[k].goff = gp - b.gp_lo /\ a.offsets[k].goff \in Nat /\ hp \in Nat
  <2>1. a.offsets[k].goff \in Nat /\ a.offsets[k].hoff \in Nat
    BY <1>1, <1>2, CacheFields
  <2>2. a.offsets[k].goff = gp - b.gp_lo
    BY <1>1, <1>3 DEF Key, Sought
  <2> QED BY <1>2, <2>1, <2>2
<1>6. b.gp_lo + a.offsets[k].goff = gp
  <2> HIDE DEF b, k, hp
  <2>1. b.gp_lo \in Nat
    BY Zenon, <1>2
  <2>2. gp \in Nat
    BY Zenon, <1>1
  <2>3. a.offsets[k].goff = gp - b.gp_lo
    BY <1>5
  <2> QED BY <2>1, <2>2, <2>3
<1>7. CASE hp # 0
  <2>1. k \in b.offsets + 1 .. b.offsets + b.offsetssz
    BY <1>2
  <2>2. hp \in block_cache_search(a, b, gp)
    BY <1>6, <1>7, <2>1 DEF block_cache_search
  <2>3. hp \in cache_search(a, gp)
    BY <1>1, <2>2, FoundIn DEF Chosen
  <2> QED BY Zenon, <1>1, <1>4, <1>5, <1>7, <2>3 DEF SearchInv, KeepsPromise
<1>8. CASE hp = 0
  <2>1. \A j \in b.offsets + 1 .. b.offsets + b.offsetssz : b.gp_lo + a.offsets[j].goff = gp => j = k
    <3> SUFFICES ASSUME NEW j \in b.offsets + 1 .. b.offsets + b.offsetssz,
                        b.gp_lo + a.offsets[j].goff = gp
                 PROVE  j = k
      OBVIOUS
    <3>1. j - b.offsets \in 1 .. b.offsetssz /\ b.offsets + (j - b.offsets) = j /\ j \in Int
      BY <1>2
    <3> DEFINE i == j - b.offsets
    <3>2. /\ a.offsets[j].goff \in Nat
          /\ i < mid + 1 => a.offsets[j].goff < Key
          /\ i > mid + 1 => a.offsets[j].goff > Key
      BY <1>1, <3>1, BelowMidPoint
    <3>3. a.offsets[j].goff = Key
      BY <1>1, <1>2, <3>2 DEF Sought
    <3>4. Key \in Nat
      BY <3>2, <3>3
    <3>5. ~ (i < mid + 1) /\ ~ (i > mid + 1)
      BY <3>2, <3>3, <3>4
    <3> QED BY <1>2, <3>1, <3>5
  <2>2. block_cache_search(a, b, gp) = {}
    BY <1>8, <2>1 DEF block_cache_search
  <2>3. NULL \in cache_search(a, gp)
    BY <1>1, <2>2, FoundNone, OnePredecessor DEF Chosen
  <2> QED BY <1>1, <1>4, <1>8, <2>3 DEF SearchInv, KeepsPromise
<1> QED BY Zenon, <1>7, <1>8

LEMMA NotFoundStep ==
  ASSUME SearchInv, NotFound
  PROVE  SearchInv'
<1>1. /\ left > right /\ pc' = "done" /\ result' = NULL /\ UNCHANGED <<a, gp, left, right, block>>
      /\ WellFormed(a) /\ gp \in Nat /\ pc \in {"blocks", "points"}
  BY DEF NotFound, Return, SearchInv
<1>2. ASSUME pc = "blocks" PROVE NULL \in cache_search(a, gp)
  <2>1. right >= 0 => a.blocks[right + 1].offsets = 0
    BY <1>2 DEF NotFound
  <2>2. /\ StartsAt(a.blocks, gp) = {}
        /\ right >= 0 => right + 1 \in DOMAIN a.blocks /\ IsPredecessor(a.blocks, right + 1, gp)
        /\ right < 0 => \A i \in DOMAIN a.blocks : ~ IsPredecessor(a.blocks, i, gp)
    BY <1>1, <1>2, BlocksEnd DEF SearchInv
  <2>3. right >= 0 \/ right < 0
    BY DEF SearchInv
  <2>4. ASSUME NEW i \in DOMAIN a.blocks, IsPredecessor(a.blocks, i, gp) PROVE a.blocks[i].offsets = 0
    BY <1>1, <2>1, <2>2, <2>3, <2>4, OnePredecessor
  <2> QED BY <2>2, <2>4, FoundNone
<1>3. ASSUME pc = "points" PROVE NULL \in cache_search(a, gp)
  <2> DEFINE b == a.blocks[block]
  <2>1. PointsInv /\ Chosen /\ block \in DOMAIN a.blocks
    BY <1>3 DEF SearchInv, PointsInv, Chosen
  <2>2. b.gp_lo \in Nat /\ b.offsets \in Nat /\ b.offsetssz \in Nat
        /\ a.offsets \in Seq(Points) /\ b.offsets + b.offsetssz <= Len(a.offsets)
    BY <1>1, <2>1, CacheFields
  <2>3. left = right + 1 /\ left \in Int
    BY <1>1, <2>1, <2>2 DEF PointsInv, Narrowed
  <2>4. ASSUME NEW j \in b.offsets + 1 .. b.offsets + b.offsetssz PROVE b.gp_lo + a.offsets[j].goff # gp
    <3> DEFINE i == j - b.offsets
    <3>0. b.offsets \in Nat /\ b.offsetssz \in Nat /\ b.gp_lo \in Nat /\ gp \in Nat
      BY Zenon, <1>1, <2>2
    <3>1. i \in 1 .. b.offsetssz /\ b.offsets + i = j
      <4> HIDE DEF b
      <4> QED BY <3>0
    <3> HIDE DEF i
    <3>2. i <= left \/ i > right + 1
      <4> HIDE DEF b
      <4> QED BY <2>3, <3>0, <3>1
    <3>3. a.offsets[j].goff < gp - b.gp_lo \/ a.offsets[j].goff > gp - b.gp_lo
      BY <2>1, <3>1, <3>2 DEF PointsInv
    <3>4. a.offsets[j].goff \in Nat
      <4>1. j \in DOMAIN a.offsets
        <5>1. a.offsets \in Seq(Points) /\ b.offsets + b.offsetssz <= Len(a.offsets)
          BY Zenon, <2>2
        <5> HIDE DEF b
        <5>2. Len(a.offsets) \in Nat /\ DOMAIN a.offsets = 1 .. Len(a.offsets)
          BY <5>1
        <5> QED BY <3>0, <5>1, <5>2
      <4> QED BY <1>1, <4>1, CacheFields
    <3> HIDE DEF b
    <3> QED BY <3>0, <3>3, <3>4
  <2>5. block_cache_search(a, b, gp) = {}
    BY <2>4 DEF block_cache_search
  <2> QED BY <1>1, <2>1, <2>5, FoundNone, OnePredecessor DEF Chosen
<1> QED BY <1>1, <1>2, <1>3 DEF SearchInv, KeepsPromise

Narrow == pc' = pc => right' - left' < right - left

LEMMA SearchNext == SearchInv /\ [Next]_vars => SearchInv' /\ [Narrow]_vars
<1> SUFFICES ASSUME SearchInv, [Next]_vars PROVE SearchInv' /\ [Narrow]_vars
  OBVIOUS
<1>1. CASE UNCHANGED vars
  BY <1>1 DEF vars, SearchInv, BlocksInv, PointsInv, Chosen, Narrowed, KeepsPromise
<1>2. CASE Right \/ Left
  BY <1>2, RightStep, LeftStep DEF Narrow
<1>3. CASE FoundBlock \/ FoundPoint \/ Descend \/ NotFound
  <2>1. pc' # pc
    BY <1>3 DEF FoundBlock, FoundPoint, Descend, NotFound, Return
  <2> QED BY <1>3, <2>1, FoundBlockStep, FoundPointStep, DescendStep, NotFoundStep DEF Narrow
<1> QED BY <1>1, <1>2, <1>3 DEF Next

(***************************************************************************)
(* Every probe of the two loops lies inside the tables.                    *)
(***************************************************************************)
THEOREM ProbesInTables == Spec => []TypeOK
<1>1. SearchInv => TypeOK
  <2> SUFFICES ASSUME SearchInv PROVE TypeOK
    OBVIOUS
  <2>1. pc = "blocks" => right < Len(a.blocks)
    BY CacheFields DEF SearchInv, BlocksInv, Narrowed
  <2>2. pc = "points" => block \in DOMAIN a.blocks /\ right < a.blocks[block].offsetssz
    BY CacheFields DEF SearchInv, PointsInv, Chosen, Narrowed
  <2>3. 0 \notin DOMAIN a.blocks
    BY CacheFields DEF SearchInv
  <2> QED BY <2>1, <2>2, <2>3 DEF SearchInv, TypeOK
<1> QED BY <1>1, InitSearch, SearchNext, PTL DEF Spec

(***************************************************************************)
(* cache_search answers what module Cache says it answers: on every sorted *)
(* cache, for every address.                                               *)
(***************************************************************************)
THEOREM SearchKeepsPromise == Spec => []KeepsPromise
<1>1. SearchInv => KeepsPromise
  BY DEF SearchInv
<1> QED BY <1>1, InitSearch, SearchNext, PTL DEF Spec

(***************************************************************************)
(* Each turn of a loop narrows the interval: neither loop can go on        *)
(* for ever.                                                               *)
(***************************************************************************)
THEOREM SearchNarrows == Spec => Narrows
<1>1. Narrows <=> [][Narrow]_vars
  BY PTL DEF Narrows, Narrow
<1> QED BY <1>1, InitSearch, SearchNext, PTL DEF Spec
=============================================================================
