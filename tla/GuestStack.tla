----------------------------- MODULE GuestStack -----------------------------
(***************************************************************************)
(* The guest's first stack (src/src/stack.c): one mapping that is filled   *)
(* from both ends, pointers downwards from sp, the strings they point to   *)
(* upwards from dp.  Nothing checks that the two do not meet.              *)
(*                                                                         *)
(* A stack is a record of the C globals and the memory, cell by cell, of   *)
(* eight bytes.  A cell holds <<"word", n>>, or <<"text", s, i>>, the i-th *)
(* cell of string s.  Addresses count cells from the start of the mapping. *)
(***************************************************************************)
EXTENDS Integers, Sequences

CONSTANTS
  StackSize,  (* STACK_SIZE, in cells: the mapping is made of whole pages  *)
  Strings,    (* the strings argv and envp are made of                     *)
  CellsOf     (* how many cells a string and its final zero take           *)

ASSUME StackAssumption ==
  /\ StackSize \in Nat /\ StackSize % 2 = 0
  /\ CellsOf \in [Strings -> Nat \ {0}]

Word(n) == <<"word", n>>
Text(s) == [i \in 1 .. CellsOf[s] |-> <<"text", s, i>>]

(* A store outside the mapping is left out; Fits says when there is none.  *)
Store(mem, from, cells) ==
  [a \in DOMAIN mem |-> IF a \in from .. from + Len(cells) - 1 THEN cells[a - from + 1]
                        ELSE mem[a]]

stack_init_above ==
  [mem |-> [a \in 0 .. StackSize - 1 |-> Word(0)], dp |-> 0, sp |-> StackSize + 1, argc |-> 0]

stack_init ==
  [mem |-> [a \in 0 .. StackSize - 1 |-> Word(0)], dp |-> 0, sp |-> StackSize, argc |-> 0]

(* *(--sp) = n                                                             *)
PushWord(k, n) == [k EXCEPT !.sp = @ - 1, !.mem = Store(@, k.sp - 1, <<Word(n)>>)]

(* push_envp: the pointer first, then the characters (0 is a word).        *)
push_envp(k, s) ==
  LET p == PushWord(k, k.dp)
  IN  [p EXCEPT !.mem = Store(@, k.dp, Text(s)), !.dp = @ + CellsOf[s]]

push_arg(k, s) == [push_envp(k, s) EXCEPT !.argc = @ + 1]

(* The System V ABI wants sp to be a multiple of 16 bytes at the entry.    *)
(* When argc would spoil that, everything moves one cell down first.       *)
push_argc_shift(k) == PushWord(IF k.sp % 2 = 0 THEN [k EXCEPT !.sp = @ - 1] ELSE k, k.argc)

push_argc_odd(k) == PushWord(IF k.sp % 2 = 1 THEN [k EXCEPT !.sp = @ - 1] ELSE k, k.argc)

push_argc(k) ==
  LET moved == [k EXCEPT !.mem = Store(@, k.sp - 1, [i \in 1 .. StackSize - k.sp |-> k.mem[k.sp + i - 1]]),
                         !.sp = @ - 1]
  IN  PushWord(IF k.sp % 2 = 0 THEN moved ELSE k, k.argc)

(* set_auxv, for entries i of a type and a value: downwards, the type last.*)
set_auxv(k, auxv) ==
  LET n == Len(auxv)
      cells == [i \in 1 .. 2 * n |-> Word(auxv[(i + 1) \div 2][IF i % 2 = 1 THEN 1 ELSE 2])]
  IN  [k EXCEPT !.mem = Store(@, k.sp - 2 * n, cells), !.sp = @ - 2 * n]
-----------------------------------------------------------------------------
(* The string a pointer in cell a points to is s, whole and unspoilt.      *)
PointsTo(k, a, s) ==
  /\ a \in DOMAIN k.mem
  /\ \E p \in 0 .. StackSize - CellsOf[s] :
       /\ k.mem[a] = Word(p)
       /\ \A i \in 1 .. CellsOf[s] : k.mem[p + i - 1] = <<"text", s, i>>
=============================================================================
