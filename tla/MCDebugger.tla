----------------------------- MODULE MCDebugger -----------------------------
(***************************************************************************)
(* The debugger on two short programs with a loop: a branch is the first   *)
(* word of a block, is patched, and blocks are inserted before it.         *)
(***************************************************************************)
EXTENDS Debugger, TLC

Plain1 == [len |-> 1, words |-> 1, kind |-> "plain", target |-> 0]
Exit1 == [len |-> 1, words |-> 1, kind |-> "exit", target |-> 0]
Branch1(k, t) == [len |-> 1, words |-> 1, kind |-> k, target |-> t]

Stepped ==
  { (0 :> Plain1) @@ (1 :> Branch1("jmp", 0)),
    (0 :> Branch1("jcc", 2)) @@ (1 :> Branch1("jmp", 0)) @@ (2 :> Exit1) }
=============================================================================
