--------------------------- MODULE MCStackFusion ----------------------------
(***************************************************************************)
(* Guest states in which no two registers or stack cells hold the same:    *)
(* one with half the stack in use, one with none.                          *)
(***************************************************************************)
EXTENDS StackFusion

StartAt(sp) ==
  [regs |-> [r \in GuestRegs |-> CASE r = "rbp" -> 20 [] r = "rax" -> 21 [] r = "rbx" -> 22],
   lr |-> 23, sp |-> sp, mem |-> [x \in Stack |-> 10 + x]]

HalfFull == {StartAt(StackCells \div 2)}
Empty == {StartAt(StackCells)}
=============================================================================
