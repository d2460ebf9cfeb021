---------------------------- MODULE MCTranslator ----------------------------
(***************************************************************************)
(* Small guest programs for TLC, with every constant of cache.c scaled     *)
(* down so that blocks split, tables fill up and ids are reused within a   *)
(* few instructions.                                                       *)
(***************************************************************************)
EXTENDS Translator, TLC

Sized(n, w) == [len |-> n, words |-> w, kind |-> "plain", target |-> 0]
Plain(w) == Sized(1, w)
Exit == [len |-> 1, words |-> 1, kind |-> "exit", target |-> 0]
Branch(k, t) == [len |-> 1, words |-> 1, kind |-> k, target |-> t]

(* Every program of three instructions whose last one ends a block.        *)
AnyInstr == {Plain(2), Exit} \cup {Branch(k, t) : k \in {"jcc", "jmp"}, t \in 0 .. 2}

SmallPrograms == {p \in [0 .. 2 -> AnyInstr] : p[2].kind \in Ending}

(* A program at address 0, given as a sequence of one-byte instructions.   *)
From0(s) == [g \in 0 .. Len(s) - 1 |-> s[g + 1]]

(***************************************************************************)
(* Longer ones: a run of instructions that fills a block with points, one  *)
(* that outgrows the 8-bit host offset, loops and calls across blocks, a   *)
(* branch further ahead than an 8-bit guest offset, and two readings of    *)
(* the same bytes (a branch into an instruction).                          *)
(***************************************************************************)
LongPrograms ==
  { From0(<<Plain(0), Plain(1), Plain(1), Branch("jcc", 1), Exit>>),
    From0(<<Plain(2), Plain(2), Branch("call", 4), Plain(1), Branch("jmp", 1)>>),
    (0 :> Plain(1)) @@ (1 :> Exit) @@ (2 :> Plain(1)) @@ (3 :> Branch("jmp", 6)) @@ (6 :> Exit),
    From0(<<Branch("jcc", 3), Plain(1), Branch("jmp", 0), Branch("jcc", 1), Exit>>),
    (0 :> Sized(2, 1)) @@ (1 :> Plain(1)) @@ (2 :> Sized(2, 2)) @@ (3 :> Plain(0))
      @@ (4 :> Branch("jmp", 3)) }

=============================================================================
