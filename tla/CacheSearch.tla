---------------------------- MODULE CacheSearch -----------------------------
(***************************************************************************)
(* cache_search step by step: a binary search over the sorted blocks, and, *)
(* if no block starts at the address, a second one over the points of the  *)
(* block before it.  Module Cache states what the search promises - the    *)
(* operators Found and cache_search - and the translator relies on that;   *)
(* this module is the loop itself, shown to keep the promise on every      *)
(* well-formed cache.                                                      *)
(*                                                                         *)
(* left, right and mid are the C variables: they count from 0, and right   *)
(* is -1 when the address lies before the first element.                   *)
(***************************************************************************)
EXTENDS Cache

CONSTANTS
  Caches,     (* the anchors searched                                      *)
  Addresses   (* the guest addresses searched for                          *)

(***************************************************************************)
(* What block insertion and block points make of the tables.               *)
(***************************************************************************)
WellFormed(a) ==
  /\ a \in Anchors
  /\ InBounds(a)
  /\ Sorted(a.blocks)
  /\ \A i \in DOMAIN a.blocks :
       LET b == a.blocks[i]
       IN  \A j, k \in b.offsets + 1 .. b.offsets + b.offsetssz :
             j < k => a.offsets[j].goff < a.offsets[k].goff

ASSUME SearchAssumption ==
  /\ \A a \in Caches : WellFormed(a)
  /\ Addresses \subseteq Nat

VARIABLES
  a,       (* the anchor                                                   *)
  gp,      (* the address                                                  *)
  pc,      (* which loop runs: "blocks", "points", or "done"               *)
  left, right,
  block,   (* cache: the block whose points are searched                   *)
  result   (* what cache_search returns                                    *)

vars == <<a, gp, pc, left, right, block, result>>

Init ==
  /\ a \in Caches
  /\ gp \in Addresses
  /\ pc = "blocks"
  /\ left = 0 /\ right = Len(a.blocks) - 1
  /\ block = 0
  /\ result = NULL

-----------------------------------------------------------------------------
mid == (left + right) \div 2

(* The key at mid: where the block starts, or where the point lies in it.  *)
Key ==
  IF pc = "blocks" THEN a.blocks[mid + 1].gp_lo
  ELSE a.offsets[a.blocks[block].offsets + mid + 1].goff

Sought == IF pc = "blocks" THEN gp ELSE gp - a.blocks[block].gp_lo

Return(r) ==
  /\ pc' = "done"
  /\ result' = r
  /\ UNCHANGED <<a, gp, left, right, block>>

(* The loop finds a block that starts at gp ...                            *)
FoundBlock ==
  /\ pc = "blocks"
  /\ left <= right
  /\ Key = Sought
  /\ Return(a.blocks[mid + 1].hp)

(* ... or a point at gp, of which host offset 0 counts as none.            *)
FoundPoint ==
  LET hp == a.blocks[block].hp + a.offsets[a.blocks[block].offsets + mid + 1].hoff
  IN  /\ pc = "points"
      /\ left <= right
      /\ Key = Sought
      /\ Return(IF hp = 0 THEN NULL ELSE hp)

Right_stays ==
  /\ pc # "done"
  /\ left <= right
  /\ Key < Sought
  /\ left' = mid
  /\ UNCHANGED <<a, gp, pc, right, block, result>>

Right_back ==
  /\ pc # "done"
  /\ left <= right
  /\ Key < Sought
  /\ left' = mid - 1
  /\ UNCHANGED <<a, gp, pc, right, block, result>>

Right ==
  /\ pc # "done"
  /\ left <= right
  /\ Key < Sought
  /\ left' = mid + 1
  /\ UNCHANGED <<a, gp, pc, right, block, result>>

Left ==
  /\ pc # "done"
  /\ left <= right
  /\ Key > Sought
  /\ right' = mid - 1
  /\ UNCHANGED <<a, gp, pc, left, block, result>>

(* No block starts at gp; the one at right, if it is a block and has       *)
(* points, is searched for a point.                                        *)
Descend_left ==
  /\ pc = "blocks"
  /\ left > right
  /\ right >= 0
  /\ left < Len(a.blocks)
  /\ a.blocks[left + 1].offsets # 0
  /\ pc' = "points"
  /\ block' = left + 1
  /\ left' = 0 /\ right' = a.blocks[left + 1].offsetssz - 1
  /\ UNCHANGED <<a, gp, result>>

Descend_past ==
  /\ pc = "blocks"
  /\ left > right
  /\ right >= 0
  /\ a.blocks[right + 1].offsets # 0
  /\ pc' = "points"
  /\ block' = right + 1
  /\ left' = 0 /\ right' = a.blocks[right + 1].offsetssz
  /\ UNCHANGED <<a, gp, result>>

Descend ==
  /\ pc = "blocks"
  /\ left > right
  /\ right >= 0
  /\ a.blocks[right + 1].offsets # 0
  /\ pc' = "points"
  /\ block' = right + 1
  /\ left' = 0 /\ right' = a.blocks[right + 1].offsetssz - 1
  /\ UNCHANGED <<a, gp, result>>

NotFound ==
  /\ left > right
  /\ \/ pc = "points"
     \/ pc = "blocks" /\ (right >= 0 => a.blocks[right + 1].offsets = 0)
  /\ Return(NULL)

Next == FoundBlock \/ FoundPoint \/ Right \/ Left \/ Descend \/ NotFound

Spec == Init /\ [][Next]_vars
FairSpec == Spec /\ WF_vars(Next)

-----------------------------------------------------------------------------
(***************************************************************************)
(* Types; and the probes of both loops stay inside the tables.             *)
(***************************************************************************)
TypeOK ==
  /\ WellFormed(a) /\ gp \in Nat
  /\ pc \in {"blocks", "points", "done"}
  /\ left \in Nat
  /\ right \in Nat \cup {-1}
  /\ block \in {0} \cup DOMAIN a.blocks
  /\ pc = "blocks" => right < Len(a.blocks)
  /\ pc = "points" => /\ block # 0
                      /\ right < a.blocks[block].offsetssz
  /\ result \in Nat \cup {NULL}

(***************************************************************************)
(* The search keeps the promise of module Cache: it returns what Found     *)
(* says, and NULL only when Found is empty.                                *)
(***************************************************************************)
KeepsPromise == pc = "done" => result \in cache_search(a, gp)

(***************************************************************************)
(* Every turn of a loop narrows the interval, so the loops end.            *)
(***************************************************************************)
Narrows == [][pc' = pc => right' - left' < right - left]_vars

(* cache_search returns.                                                   *)
Returns == <>(pc = "done")
=============================================================================
