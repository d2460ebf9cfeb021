---------------------------- MODULE ContextPool -----------------------------
(***************************************************************************)
(* The pool of decoding contexts (src/src/memory.c).  decode() pulls a     *)
(* Context before it translates and frees it at the end; every thread that *)
(* traps at the same time needs one.  context_search walks the pool with   *)
(* one compare-and-exchange per slot, so the pulls and frees of different  *)
(* threads interleave between any two slots.                               *)
(*                                                                         *)
(* The pool has one slot per processor, whatever the number of threads, and*)
(* comes from malloc: what in_use holds at the start is indeterminate.     *)
(***************************************************************************)
EXTENDS Integers, FiniteSets

CONSTANTS
  Threads,      (* the threads that execute guest code                     *)
  max_process   (* the number of slots: processors online, at least 1      *)

ASSUME PoolAssumption ==
  /\ IsFiniteSet(Threads)
  /\ max_process \in Nat \ {0}

Slots == 0 .. max_process - 1

VARIABLES
  in_use,    (* the flag of every slot                                     *)
  pc,        (* where each thread is                                       *)
  slot,      (* i in context_search, then the slot the thread holds        *)
  panicked   (* the process has ended with CONTEXT::NO_FREE                *)

vars == <<in_use, pc, slot, panicked>>

TypeOK ==
  /\ in_use \in [Slots -> BOOLEAN]
  /\ pc \in [Threads -> {"run", "search", "decode"}]
  /\ slot \in [Threads -> 0 .. max_process]
  /\ panicked \in BOOLEAN

Init ==
  /\ in_use \in [Slots -> BOOLEAN]
  /\ pc = [t \in Threads |-> "run"]
  /\ slot = [t \in Threads |-> 0]
  /\ panicked = FALSE

-----------------------------------------------------------------------------
(* context_pull: the thread's guest code has trapped.                      *)
Pull(t) ==
  /\ ~ panicked /\ pc[t] = "run"
  /\ pc' = [pc EXCEPT ![t] = "search"]
  /\ slot' = [slot EXCEPT ![t] = 0]
  /\ UNCHANGED <<in_use, panicked>>

(* One turn of the loop in context_search: the exchange succeeds ...       *)
Claim_stored(t) ==
  /\ ~ panicked /\ pc[t] = "search"
  /\ slot[t] < max_process
  /\ in_use' = [in_use EXCEPT ![slot[t]] = TRUE]
  /\ pc' = [pc EXCEPT ![t] = "decode"]
  /\ UNCHANGED <<slot, panicked>>

Claim(t) ==
  /\ ~ panicked /\ pc[t] = "search"
  /\ slot[t] < max_process
  /\ ~ in_use[slot[t]]
  /\ in_use' = [in_use EXCEPT ![slot[t]] = TRUE]
  /\ pc' = [pc EXCEPT ![t] = "decode"]
  /\ UNCHANGED <<slot, panicked>>

(* ... or it fails, and the next slot is tried.                            *)
Pass_retry(t) ==
  /\ ~ panicked /\ pc[t] = "search"
  /\ slot[t] < max_process
  /\ in_use[slot[t]]
  /\ UNCHANGED vars

Pass_unbounded(t) ==
  /\ ~ panicked /\ pc[t] = "search"
  /\ slot[t] < max_process => in_use[slot[t]]
  /\ slot' = [slot EXCEPT ![t] = @ + 1]
  /\ UNCHANGED <<in_use, pc, panicked>>

Pass(t) ==
  /\ ~ panicked /\ pc[t] = "search"
  /\ slot[t] < max_process
  /\ in_use[slot[t]]
  /\ slot' = [slot EXCEPT ![t] = @ + 1]
  /\ UNCHANGED <<in_use, pc, panicked>>

(* The loop ends without a slot: context_pull panics.                      *)
NoFree_early(t) ==
  /\ ~ panicked /\ pc[t] = "search"
  /\ slot[t] = max_process - 1
  /\ panicked' = TRUE
  /\ UNCHANGED <<in_use, pc, slot>>

NoFree(t) ==
  /\ ~ panicked /\ pc[t] = "search"
  /\ slot[t] = max_process
  /\ panicked' = TRUE
  /\ UNCHANGED <<in_use, pc, slot>>

(* context_free, at the end of decode().                                   *)
Free(t) ==
  /\ ~ panicked /\ pc[t] = "decode"
  /\ in_use' = [in_use EXCEPT ![slot[t]] = FALSE]
  /\ pc' = [pc EXCEPT ![t] = "run"]
  /\ UNCHANGED <<slot, panicked>>

Search(t) == Claim(t) \/ Pass(t) \/ NoFree(t)

Next == \E t \in Threads : Pull(t) \/ Search(t) \/ Free(t)

Spec == Init /\ [][Next]_vars

(* A thread inside context_search keeps running; nothing is assumed of the *)
(* threads that hold a slot.                                               *)
FairSpec == Spec /\ \A t \in Threads : WF_vars(Search(t))

-----------------------------------------------------------------------------
(***************************************************************************)
(* A context belongs to one decode() at a time, and its flag says so: two  *)
(* threads never write through the same Context.                           *)
(***************************************************************************)
OneOwner ==
  /\ \A t \in Threads : pc[t] = "decode" => slot[t] \in Slots /\ in_use[slot[t]]
  /\ \A t, u \in Threads :
       pc[t] = "decode" /\ pc[u] = "decode" /\ slot[t] = slot[u] => t = u

(***************************************************************************)
(* A slot whose flag was set from the start belongs to nobody and is never *)
(* freed.  As long as there is a slot for every thread besides those, the  *)
(* search never fails, although a slot may be freed behind it and claimed  *)
(* again before it: a thread that has passed i slots was passed over by as *)
(* many owners, or such slots, that stay behind it.                        *)
(***************************************************************************)
Owned(s) == \E t \in Threads : pc[t] = "decode" /\ slot[t] = s
Leaked == {s \in Slots : in_use[s] /\ ~ Owned(s)}

NeverExhausted == Cardinality(Threads) + Cardinality(Leaked) <= max_process => ~ panicked

(***************************************************************************)
(* context_search is wait-free: it returns, with a slot or a panic, however*)
(* long the other threads keep theirs.                                     *)
(***************************************************************************)
SearchEnds == \A t \in Threads : pc[t] = "search" ~> pc[t] # "search" \/ panicked
=============================================================================
