------------------------------- MODULE Cache --------------------------------
(***************************************************************************)
(* The translation cache of ByteShatter (src/src/cache.c): the Anchor with *)
(* its three tables - code blocks sorted by guest address, instruction     *)
(* points inside the blocks, and patch records with a stack of reusable    *)
(* ids - and the Context one decode() works with (src/src/memory.h).       *)
(*                                                                         *)
(* An operation of cache.c is an operator on a record m = [a |-> Anchor,   *)
(* c |-> Context] that returns the record the C function leaves behind.    *)
(* panic() ends the process: it sets a.panic, and nothing that the same    *)
(* handler would have done next happens any more.                          *)
(*                                                                         *)
(* Addresses are offsets: a guest address is the low half of the pointer   *)
(* (gp_lo), a host address is an index of 32-bit words from anchor->host.  *)
(* Block numbers, points and patch ids count from 1, as TLA+ sequences do; *)
(* the ids cache_patch_point returns count from 1 in the code as well.     *)
(***************************************************************************)
EXTENDS Integers, Sequences

CONSTANTS
  MaxBlocks,   (* blocks_c: capacity of the block table                    *)
  MaxJumps,    (* jumps_reuse_c, and the first value of jumps_c            *)
  MaxOffsets,  (* offsets_c: capacity of the instruction point table       *)
  HostSize,    (* host_c: what cahce_init received as size                 *)
  U8Max,       (* the largest value of uint8_t: 255 in the build           *)
  NULL         (* the null pointer                                         *)

ASSUME CacheAssumption ==
  /\ MaxBlocks \in Nat
  /\ MaxJumps \in Nat \ {0}
  /\ MaxOffsets \in Nat \ {0}
  /\ HostSize \in Nat
  /\ U8Max \in Nat \ {0}
  /\ NULL \notin Nat

(* What a process dies of: the panic() calls of cache.c.                   *)
Panics == {"blocks", "offsets", "host", "reuse"}

(***************************************************************************)
(* cahce_init: every table empty.                                          *)
(***************************************************************************)
cahce_init ==
  [blocks |-> << >>, offsets |-> << >>, offsets_p |-> 0, host_p |-> 0,
   jumps |-> << >>, jumps_c |-> MaxJumps, reuse |-> << >>, panic |-> "none"]

(* cache_clear resets the cursors; the grown jumps array keeps its size.   *)
cache_clear(a) == [cahce_init EXCEPT !.jumps_c = a.jumps_c]

(***************************************************************************)
(* context_pull: decoding of gp will append at the end of the host code.   *)
(***************************************************************************)
context_pull(a, gp) == [gp |-> gp, hp |-> a.host_p, loffp |-> 0, block |-> 0]

Running(m) == m.a.panic = "none"
Panic(m, why) == [a |-> [m.a EXCEPT !.panic = why], c |-> m.c]

(***************************************************************************)
(* Types.  A patch record names the kind of branch its BRK word stands for *)
(* and the guest address the branch goes to.                               *)
(***************************************************************************)
Patched == {"jcc", "call", "jmp"}
Blocks == [gp_lo : Nat, hp : Nat, offsets : Nat, offsetssz : 0 .. U8Max,
           end : 0 .. U8Max]
Points == [goff : 0 .. U8Max, hoff : 0 .. U8Max]
Jumps == [kind : Patched, target : Nat]
Anchors == [blocks : Seq(Blocks), offsets : Seq(Points), offsets_p : Nat,
            host_p : Nat, jumps : Seq(Jumps), jumps_c : Nat, reuse : Seq(Nat),
            panic : {"none"} \cup Panics]
Contexts == [gp : Nat, hp : Nat, loffp : 0 .. U8Max, block : Nat]

-----------------------------------------------------------------------------
(***************************************************************************)
(* Blocks and points.  The block table is kept sorted by insertion.        *)
(***************************************************************************)

(* The first position whose block does not start below gp.                 *)
InsertPos_append(blocks, gp) == Len(blocks) + 1

InsertPos(blocks, gp) ==
  CHOOSE p \in 1 .. Len(blocks) + 1 :
    /\ \A i \in 1 .. p - 1 : blocks[i].gp_lo < gp
    /\ p <= Len(blocks) => blocks[p].gp_lo >= gp

(* Entries from p on move up by one and block takes place p.               *)
Insert_overwrite(blocks, p, block) ==
  [i \in 1 .. Len(blocks) + 1 |->
     IF i < p THEN blocks[i] ELSE IF i = p THEN block
     ELSE blocks[IF i > Len(blocks) THEN i - 1 ELSE i]]

Insert(blocks, p, block) ==
  [i \in 1 .. Len(blocks) + 1 |->
     IF i < p THEN blocks[i] ELSE IF i = p THEN block ELSE blocks[i - 1]]

cache_block_start(m) ==
  LET pos == InsertPos(m.a.blocks, m.c.gp)
      new == [gp_lo |-> m.c.gp, hp |-> m.c.hp, offsets |-> 0, offsetssz |-> 0,
              end |-> 1]
  IN  IF ~ Running(m) THEN m
      ELSE IF Len(m.a.blocks) + 1 >= MaxBlocks THEN Panic(m, "blocks")
      ELSE [a |-> [m.a EXCEPT !.blocks = Insert(@, pos, new)],
            c |-> [m.c EXCEPT !.block = pos]]

(* The end of a block is stored in a uint8_t.                              *)
cache_block_end(m) ==
  LET b == m.a.blocks[m.c.block]
      done == [b EXCEPT !.end = (m.c.hp - b.hp) % (U8Max + 1),
                        !.offsets = m.a.offsets_p,
                        !.offsetssz = m.c.loffp]
  IN  [a |-> [m.a EXCEPT !.blocks[m.c.block] = done,
                         !.offsets_p = @ + m.c.loffp,
                         !.host_p = m.c.hp,
                         !.panic = IF m.c.hp >= HostSize THEN "host" ELSE @],
       c |-> [m.c EXCEPT !.loffp = 0]]

(* The block under construction is closed and a new one opened at gp.      *)
Split(m) == cache_block_start(cache_block_end(m))

(* The offsets of a point are stored in uint8_t fields.                    *)
AddPoint(m) ==
  LET b == m.a.blocks[m.c.block]
      p == [goff |-> (m.c.gp - b.gp_lo) % (U8Max + 1),
            hoff |-> (m.c.hp - b.hp) % (U8Max + 1)]
  IN  [a |-> [m.a EXCEPT !.offsets = Append(@, p)],
       c |-> [m.c EXCEPT !.loffp = @ + 1]]

(***************************************************************************)
(* An instruction point at (gp, hp).  The start of a block is no point; a  *)
(* point whose offsets do not fit uint8_t starts a block of its own first, *)
(* and a block that is full of points is closed.                           *)
(***************************************************************************)
cache_block_point_host_unchecked(m) ==
  LET b == m.a.blocks[m.c.block]
      open == IF m.c.gp - b.gp_lo > U8Max THEN Split(m) ELSE m
      added == AddPoint(open)
  IN  IF m.c.gp = b.gp_lo THEN m
      ELSE IF ~ Running(open) THEN open
      ELSE IF Len(added.a.offsets) >= MaxOffsets THEN Panic(added, "offsets")
      ELSE IF added.c.loffp = U8Max THEN Split(added)
      ELSE added

cache_block_point_never_full(m) ==
  LET b == m.a.blocks[m.c.block]
      TooFar == m.c.gp - b.gp_lo > U8Max + 1 \/ m.c.hp - b.hp > U8Max
      open == IF TooFar THEN Split(m) ELSE m
      added == AddPoint(open)
  IN  IF m.c.gp = b.gp_lo THEN m
      ELSE IF ~ Running(open) THEN open
      ELSE IF Len(added.a.offsets) >= MaxOffsets THEN Panic(added, "offsets")
      ELSE added

cache_block_point(m) ==
  LET b == m.a.blocks[m.c.block]
      TooFar == m.c.gp - b.gp_lo > U8Max \/ m.c.hp - b.hp > U8Max
      open == IF TooFar THEN Split(m) ELSE m
      added == AddPoint(open)
  IN  IF m.c.gp = b.gp_lo THEN m
      ELSE IF ~ Running(open) THEN open
      ELSE IF Len(added.a.offsets) >= MaxOffsets THEN Panic(added, "offsets")
      ELSE IF added.c.loffp = U8Max THEN Split(added)
      ELSE added

-----------------------------------------------------------------------------
(***************************************************************************)
(* Patch records.  An id comes from the top of the reuse stack, or is new; *)
(* the record array doubles when it is full, the reuse stack never grows.  *)
(***************************************************************************)
cache_patch_id(a) ==
  IF a.reuse # << >> THEN a.reuse[Len(a.reuse)] ELSE Len(a.jumps) + 1

cache_patch_point_no_pop(a, kind, target) ==
  LET jump == [kind |-> kind, target |-> target]
      grown == Len(a.jumps) + 1
  IN  IF a.reuse # << >>
      THEN [a EXCEPT !.jumps[cache_patch_id(a)] = jump]
      ELSE [a EXCEPT !.jumps = Append(@, jump),
                     !.jumps_c = IF grown >= @ THEN 2 * @ ELSE @]

cache_patch_point_grow_late(a, kind, target) ==
  LET jump == [kind |-> kind, target |-> target]
      grown == Len(a.jumps) + 1
  IN  IF a.reuse # << >>
      THEN [a EXCEPT !.reuse = SubSeq(@, 1, Len(@) - 1),
                     !.jumps[cache_patch_id(a)] = jump]
      ELSE [a EXCEPT !.jumps = Append(@, jump),
                     !.jumps_c = IF grown > @ THEN 2 * @ ELSE @]

cache_patch_point(a, kind, target) ==
  LET jump == [kind |-> kind, target |-> target]
      grown == Len(a.jumps) + 1
  IN  IF a.reuse # << >>
      THEN [a EXCEPT !.reuse = SubSeq(@, 1, Len(@) - 1),
                     !.jumps[cache_patch_id(a)] = jump]
      ELSE [a EXCEPT !.jumps = Append(@, jump),
                     !.jumps_c = IF grown >= @ THEN 2 * @ ELSE @]

(* The record of id; the id itself becomes reusable at once.               *)
cache_get_patch(a, id) ==
  LET reuse == Append(a.reuse, id)
  IN  [a EXCEPT !.reuse = reuse,
                !.panic = IF Len(reuse) = MaxJumps THEN "reuse" ELSE @]

-----------------------------------------------------------------------------
(***************************************************************************)
(* Look-up, by what the two binary searches promise on sorted tables: a    *)
(* block that starts at gp, else the point at gp of the last block that    *)
(* starts below gp.  A block whose points start at index 0 has no points   *)
(* as far as cache_search knows (it takes 0 for "not finished"), and host  *)
(* offset 0 is "not found".  When several blocks start at gp the midpoint  *)
(* of the search decides which one is returned: Found is the set of them.  *)
(***************************************************************************)
StartsAt(blocks, gp) == {i \in DOMAIN blocks : blocks[i].gp_lo = gp}

(* The last block that starts below gp: where the search for gp ends.      *)
IsPredecessor_left(blocks, i, gp) ==
  /\ blocks[i].gp_lo > gp
  /\ i > 1 => blocks[i - 1].gp_lo < gp

IsPredecessor(blocks, i, gp) ==
  /\ blocks[i].gp_lo < gp
  /\ i < Len(blocks) => blocks[i + 1].gp_lo > gp

(* The points of a block, as host addresses, at guest address gp.          *)
block_cache_search_truncated(a, b, gp) ==
  {b.hp + a.offsets[k].hoff :
     k \in {j \in b.offsets + 1 .. b.offsets + b.offsetssz :
              a.offsets[j].goff = (gp - b.gp_lo) % (U8Max + 1)}} \ {0}

block_cache_search(a, b, gp) ==
  {b.hp + a.offsets[k].hoff :
     k \in {j \in b.offsets + 1 .. b.offsets + b.offsetssz :
              b.gp_lo + a.offsets[j].goff = gp}} \ {0}

Found(a, gp) ==
  IF StartsAt(a.blocks, gp) # {}
  THEN {a.blocks[i].hp : i \in StartsAt(a.blocks, gp)}
  ELSE UNION {block_cache_search(a, a.blocks[i], gp) :
                i \in {j \in DOMAIN a.blocks :
                         /\ IsPredecessor(a.blocks, j, gp)
                         /\ a.blocks[j].offsets # 0}}

cache_search(a, gp) == IF Found(a, gp) = {} THEN {NULL} ELSE Found(a, gp)

-----------------------------------------------------------------------------
(***************************************************************************)
(* What the tables say: Entries is the set of (guest, host) pairs that     *)
(* cache_search could ever answer with.  The points of the block under     *)
(* construction are the last loffp ones.                                   *)
(***************************************************************************)
Starts(a) == {<<a.blocks[i].gp_lo, a.blocks[i].hp>> : i \in DOMAIN a.blocks}

PointsOf(a, b) ==
  {<<b.gp_lo + a.offsets[k].goff, b.hp + a.offsets[k].hoff>> :
     k \in b.offsets + 1 .. b.offsets + b.offsetssz}

Entries(a) == Starts(a) \cup UNION {PointsOf(a, a.blocks[i]) : i \in DOMAIN a.blocks}

(* Cursors and used slots lie inside the arrays.                           *)
InBounds(a) ==
  /\ Len(a.blocks) <= MaxBlocks
  /\ Len(a.offsets) <= MaxOffsets
  /\ Len(a.reuse) <= MaxJumps
  /\ Len(a.jumps) < a.jumps_c
  /\ a.offsets_p <= Len(a.offsets)
  /\ \A i \in DOMAIN a.blocks : a.blocks[i].offsets + a.blocks[i].offsetssz <= a.offsets_p

Sorted(blocks) ==
  \A i, j \in DOMAIN blocks : i < j => blocks[i].gp_lo <= blocks[j].gp_lo
=============================================================================
