--------------------------- MODULE MCCacheSearch ----------------------------
(***************************************************************************)
(* Caches for the search: up to four blocks, translated in the order of    *)
(* their points (Made), at any guest addresses.  A block of the same       *)
(* address as an older one is inserted before it.                          *)
(***************************************************************************)
EXTENDS CacheSearch, FiniteSets

Point(g, h) == [goff |-> g, hoff |-> h]

PointTable == <<Point(1, 0), Point(3, 2), Point(2, 1), Point(1, 1), Point(2, 2), Point(4, 5)>>

Made == << [hp |-> 0, offsets |-> 0, offsetssz |-> 2], [hp |-> 3, offsets |-> 2, offsetssz |-> 1],
           [hp |-> 5, offsets |-> 3, offsetssz |-> 3], [hp |-> 11, offsets |-> 6, offsetssz |-> 0] >>

Block(g, b) == [gp_lo |-> g, hp |-> b.hp, offsets |-> b.offsets, offsetssz |-> b.offsetssz, end |-> 1]

Before(at, i, j) == at[i] < at[j] \/ (at[i] = at[j] /\ i > j)

(* The block that stands at position p.                                    *)
At(at, p) == CHOOSE i \in DOMAIN at : Cardinality({j \in DOMAIN at : Before(at, j, i)}) = p - 1

CacheOf(at) ==
  [cahce_init EXCEPT
     !.blocks = [p \in DOMAIN at |-> Block(at[At(at, p)], Made[At(at, p)])],
     !.offsets = PointTable, !.offsets_p = Len(PointTable), !.host_p = 12]

SmallCaches == UNION {{CacheOf(at) : at \in [1 .. n -> 0 .. 4]} : n \in 0 .. 4}

SmallAddresses == 0 .. 7
=============================================================================
