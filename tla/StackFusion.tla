---------------------------- MODULE StackFusion ----------------------------
(***************************************************************************)
(* The PUSH/POP optimizer of encode (src/src/encoder.c).  ARM64 wants its  *)
(* stack pointer aligned to two registers, so a single PUSH or POP takes   *)
(* three words that go round the stack pointer.  When the encoder meets a  *)
(* second PUSH (POP) it rewinds the host pointer over the three words of   *)
(* the first and stores (loads) both registers as a pair.  What it knows   *)
(* of the first is kept in two static variables, prev_instruction and      *)
(* prev_register, which outlive the block, the decode and every encoder    *)
(* path that does not reset them.                                          *)
(*                                                                         *)
(* The words are not spelled out: the host executes each as it is emitted, *)
(* and states holds the host after every word of the running decode, so    *)
(* that rewinding over words forgets their effect.  The guest executes     *)
(* each instruction beside it.  Addresses count stack cells of eight       *)
(* bytes; the stack grows down from StackCells.  Control that leaves the   *)
(* code, and POP rsp, which loads the scratch register, are left out.      *)
(***************************************************************************)
EXTENDS Integers, Sequences

CONSTANTS
  Regs,        (* the registers pushed, popped and set; neither rbp nor rsp *)
  StackCells,  (* the size of the stack                                    *)
  Starts,      (* the guest states in which a decode may start             *)
  Operands,    (* what is pushed and popped                                *)
  MaxInstrs,   (* how many instructions are encoded, in all decodes        *)
  Ends,        (* whether a decode may end by reaching translated code     *)
  Wild         (* whether the program may be one that is not tame          *)

GuestRegs == Regs \cup {"rbp"}
HostRegs == GuestRegs \cup {"sc1"}
Stack == 0 .. StackCells - 1

(* rbp travels with the link register; sc1 and sc2 are scratch registers.  *)
Guests == [regs : [GuestRegs -> Int], lr : Int, sp : 0 .. StackCells, mem : [Stack -> Int]]
Hosts == [regs : [HostRegs -> Int], lr : Int, sp : 0 .. StackCells, mem : [Stack -> Int],
          sc2 : Int]

(* What PUSH takes besides registers: the frame pointer, the stack         *)
(* pointer, an immediate, the memory operand [rsp].                        *)
OtherOperands == {"rbp", "rsp", "imm", "top"}

ASSUME FusionAssumption ==
  /\ Regs \cap (OtherOperands \cup {"sc1"}) = {}
  /\ StackCells \in Nat
  /\ Starts \subseteq Guests
  /\ Operands \subseteq Regs \cup OtherOperands
  /\ MaxInstrs \in Nat
  /\ Ends \in BOOLEAN /\ Wild \in BOOLEAN

VARIABLES
  states,            (* the host after each word of this decode            *)
  prev_instruction,
  prev_register,
  intact,            (* no word of an earlier decode was rewound over      *)
  guests,            (* the guest after each instruction of this decode    *)
  last,              (* the latest instruction of this decode              *)
  points,            (* how many words were out when each was reached      *)
  fused,             (* which of them are the second of a pair             *)
  count              (* instructions encoded so far                        *)

encoder == <<prev_instruction, prev_register>>
vars == <<states, encoder, intact, guests, last, points, fused, count>>

-----------------------------------------------------------------------------
(***************************************************************************)
(* Host words, as what they make of the host.                              *)
(***************************************************************************)
Scratch(h, v) == [h EXCEPT !.regs = [@ EXCEPT !["sc1"] = v]]
Address(h, n) == [h EXCEPT !.sc2 = h.sp - n]
SetSp(h, n) == [h EXCEPT !.sp = h.sc2 + n]
Store(h, r) == [h EXCEPT !.mem = [@ EXCEPT ![h.sc2] = h.regs[r]]]
Load(h, r) == [h EXCEPT !.regs = [@ EXCEPT ![r] = h.mem[h.sc2]]]
StoreBoth(h, lo, hi) ==
  [h EXCEPT !.mem = [@ EXCEPT ![h.sc2] = h.regs[lo], ![h.sc2 + 1] = h.regs[hi]]]
LoadBoth(h, lo, hi, n) ==
  [h EXCEPT !.regs = [@ EXCEPT ![lo] = h.mem[h.sc2], ![hi] = h.mem[h.sc2 + n]]]

(* What is emitted for one PUSH or POP, and for two.  q is the register of *)
(* the first of the two.  Both cells loaded into one register leave either *)
(* of them there: n is 1, or 0 if the first cell wins.                     *)
PushOne(h, r) ==
  LET h1 == Address(h, 1)  h2 == Store(h1, r)  IN  <<h1, h2, SetSp(h2, 0)>>
PopOne_bytes(h, r) ==
  LET h1 == Address(h, 0)  h2 == Load(h1, r)  IN  <<h1, h2, SetSp(h2, 8)>>
PopOne(h, r) ==
  LET h1 == Address(h, 0)  h2 == Load(h1, r)  IN  <<h1, h2, SetSp(h2, 1)>>

PushBoth_swapped(h, q, r) ==
  LET h1 == Address(h, 2)  h2 == StoreBoth(h1, q, r)  IN  <<h1, h2, SetSp(h2, 0)>>
PushBoth(h, q, r) ==
  LET h1 == Address(h, 2)  h2 == StoreBoth(h1, r, q)  IN  <<h1, h2, SetSp(h2, 0)>>

PopBoth(h, q, r, n) ==
  LET h1 == Address(h, 0)  h2 == LoadBoth(h1, q, r, n)  IN  <<h1, h2, SetSp(h2, 2)>>

(* x29 and x30 are pushed and popped with one word.                        *)
PushFrameWord(h) ==
  [h EXCEPT !.sp = @ - 2,
            !.mem = [@ EXCEPT ![h.sp - 2] = h.lr, ![h.sp - 1] = h.regs["rbp"]]]
PopFrameWord(h) ==
  [h EXCEPT !.sp = @ + 2, !.lr = h.mem[h.sp],
            !.regs = [@ EXCEPT !["rbp"] = h.mem[h.sp + 1]]]

-----------------------------------------------------------------------------
(***************************************************************************)
(* The guest.                                                              *)
(***************************************************************************)
(* No two PUSHes push the same immediate.                                  *)
Immediate == count

Value(g, x) ==
  CASE x \in Regs -> g.regs[x]
    [] x = "rsp" -> g.sp
    [] x = "imm" -> Immediate
    [] x = "top" -> g.mem[g.sp]

Pushed(g, x) == [g EXCEPT !.sp = @ - 1, !.mem = [@ EXCEPT ![g.sp - 1] = Value(g, x)]]
Popped(g, r) == [g EXCEPT !.sp = @ + 1, !.regs = [@ EXCEPT ![r] = g.mem[g.sp]]]
FramePushed(g) ==
  [g EXCEPT !.sp = @ - 2,
            !.mem = [@ EXCEPT ![g.sp - 2] = g.lr, ![g.sp - 1] = g.regs["rbp"]]]
FramePopped(g) ==
  [g EXCEPT !.sp = @ + 2, !.lr = g.mem[g.sp],
            !.regs = [@ EXCEPT !["rbp"] = g.mem[g.sp + 1]]]
Set(g, r, v) == [g EXCEPT !.regs = [@ EXCEPT ![r] = v]]

(* The host is where the guest is: scratch registers and cells below the   *)
(* stack pointer do not matter.                                            *)
Agree(h, g) ==
  /\ \A r \in GuestRegs : h.regs[r] = g.regs[r]
  /\ h.lr = g.lr /\ h.sp = g.sp
  /\ \A x \in g.sp .. StackCells - 1 : h.mem[x] = g.mem[x]

HostOf(g) ==
  [regs |-> [r \in HostRegs |-> IF r \in GuestRegs THEN g.regs[r] ELSE 0],
   lr |-> g.lr, sp |-> g.sp, mem |-> g.mem, sc2 |-> 0]

-----------------------------------------------------------------------------
(***************************************************************************)
(* The encoder.                                                            *)
(***************************************************************************)
Nothing == [op |-> "NOP", arg |-> "none"]

Host == states[Len(states)]
Guest == guests[Len(guests)]

(* The words that are left after patch(context, Back), if they were this   *)
(* decode's.                                                               *)
Back_four == 4
Back == 3
Own == Len(states) > Back
Rewound == IF Own THEN SubSeq(states, 1, Len(states) - Back) ELSE <<states[1]>>

(* The words s are followed by the one that puts x into a register, if it  *)
(* is not in one.                                                          *)
Fetch(s, x) ==
  LET h == s[Len(s)]
  IN  CASE x \in Regs -> s
        [] x = "rsp" -> Append(s, Scratch(h, h.sp))
        [] x = "imm" -> Append(s, Scratch(h, Immediate))
        [] x = "top" -> Append(s, Scratch(h, h.mem[h.sp]))
Source(x) == IF x \in Regs THEN x ELSE "sc1"

(* What goes with every instruction: its point, and the guest executes it. *)
Reach(op, x, g) ==
  /\ intact
  /\ count < MaxInstrs
  /\ count' = count + 1
  /\ points' = Append(points, Len(states))
  /\ guests' = Append(guests, g)
  /\ last' = [op |-> op, arg |-> x]

Init ==
  /\ \E g \in Starts : guests = <<g>> /\ states = <<HostOf(g)>>
  /\ prev_instruction = "NOP" /\ prev_register = "sc1"
  /\ intact = TRUE
  /\ last = Nothing
  /\ points = << >> /\ fused = {}
  /\ count = 0

(* The stack has room for x, and [rsp] lies in it.                         *)
CanPush(x) ==
  /\ x \in Operands \ {"rbp"}
  /\ Guest.sp >= 1
  /\ x = "top" => Guest.sp < StackCells

PushFirst(x) ==
  /\ CanPush(x)
  /\ prev_instruction # "PUSH"
  /\ Reach("PUSH", x, Pushed(Guest, x))
  /\ LET s == Fetch(states, x) IN states' = s \o PushOne(s[Len(s)], Source(x))
  /\ prev_instruction' = "PUSH" /\ prev_register' = Source(x)
  /\ UNCHANGED <<intact, fused>>

(* The programs that the optimizer is right about: the instruction before  *)
(* is the one it remembers; the operand needs neither the stack pointer    *)
(* nor the scratch register that holds the other operand.                  *)
TamePush(x) ==
  /\ last.op = "PUSH" /\ last.arg # "rbp"
  /\ x \in Regs \/ (x = "imm" /\ last.arg \in Regs)
TamePop(r) == last.op = "POP" /\ last.arg \notin {"rbp", r}

PushSecond(x) ==
  /\ CanPush(x)
  /\ prev_instruction = "PUSH"
  /\ Wild \/ TamePush(x)
  /\ Reach("PUSH", x, Pushed(Guest, x))
  /\ LET s == Fetch(Rewound, x)
     IN  states' = s \o PushBoth(s[Len(s)], prev_register, Source(x))
  /\ intact' = Own
  /\ prev_instruction' = "NOP"
  /\ fused' = fused \cup {Len(guests)}
  /\ UNCHANGED prev_register

(* PUSH rbp rewinds as well, and then leaves.                              *)
PushFrame ==
  /\ "rbp" \in Operands
  /\ Guest.sp >= 2
  /\ prev_instruction = "PUSH" => Wild
  /\ Reach("PUSH", "rbp", FramePushed(Guest))
  /\ LET s == IF prev_instruction = "PUSH" THEN Rewound ELSE states
     IN  states' = Append(s, PushFrameWord(s[Len(s)]))
  /\ intact' = (prev_instruction = "PUSH" => Own)
  /\ UNCHANGED <<encoder, fused>>

PopFirst(r) ==
  /\ r \in Operands \cap Regs
  /\ Guest.sp < StackCells
  /\ prev_instruction # "POP"
  /\ Reach("POP", r, Popped(Guest, r))
  /\ states' = states \o PopOne(Host, r)
  /\ prev_instruction' = "POP" /\ prev_register' = r
  /\ UNCHANGED <<intact, fused>>

PopSecond(r) ==
  /\ r \in Operands \cap Regs
  /\ Guest.sp < StackCells
  /\ prev_instruction = "POP"
  /\ Wild \/ TamePop(r)
  /\ Reach("POP", r, Popped(Guest, r))
  /\ \E n \in IF r = prev_register THEN {0, 1} ELSE {1} :
       states' = Rewound \o PopBoth(Rewound[Len(Rewound)], prev_register, r, n)
  /\ intact' = Own
  /\ prev_instruction' = "NOP"
  /\ fused' = fused \cup {Len(guests)}
  /\ UNCHANGED prev_register

(* POP rbp leaves before the optimizer.                                    *)
PopFrame ==
  /\ "rbp" \in Operands
  /\ Guest.sp + 2 <= StackCells
  /\ Reach("POP", "rbp", FramePopped(Guest))
  /\ states' = Append(states, PopFrameWord(Host))
  /\ UNCHANGED <<encoder, intact, fused>>

(* An instruction of at least 16 bits: here, one that sets r.              *)
Other(r) ==
  /\ Reach("MOV", r, Set(Guest, r, 2))
  /\ states' = Append(states, Set(Host, r, 2))
  /\ prev_instruction' = "NOP"
  /\ UNCHANGED <<prev_register, intact, fused>>

(* An 8-bit instruction goes to encode8bit before prev_instruction is reset. *)
Byte(r) ==
  /\ Reach("SETE", r, Set(Guest, r, 3))
  /\ states' = Append(states, Set(Host, r, 3))
  /\ UNCHANGED <<encoder, intact, fused>>

(* The next instruction is translated already: decode branches there, and  *)
(* the next decode starts behind the branch.                               *)
Join ==
  /\ Ends /\ intact
  /\ count < MaxInstrs
  /\ count' = count + 1
  /\ \E g \in Starts : guests' = <<g>> /\ states' = <<HostOf(g)>>
  /\ last' = Nothing
  /\ points' = << >> /\ fused' = {}
  /\ UNCHANGED <<encoder, intact>>

Next ==
  \/ \E x \in Operands : PushFirst(x) \/ PushSecond(x) \/ PopFirst(x) \/ PopSecond(x)
  \/ PushFrame \/ PopFrame
  \/ \E r \in Regs : Other(r) \/ Byte(r)
  \/ Join

Spec == Init /\ [][Next]_vars

-----------------------------------------------------------------------------
(***************************************************************************)
(* Types.  The stack pointer of the host stays in the stack.               *)
(***************************************************************************)
TypeOK ==
  /\ states \in Seq(Hosts) /\ states # << >>
  /\ prev_instruction \in {"PUSH", "POP", "NOP"}
  /\ prev_register \in Regs \cup {"sc1"}
  /\ intact \in BOOLEAN
  /\ guests \in Seq(Guests) /\ guests # << >>
  /\ points \in Seq(Nat \ {0}) /\ Len(guests) = Len(points) + 1
  /\ fused \subseteq DOMAIN points
  /\ count \in 0 .. MaxInstrs

(* Where the host is when it comes to instruction k, or to the end.        *)
Position(k) == IF k \in DOMAIN points THEN points[k] ELSE Len(states)

Serves(k) ==
  /\ Position(k) \in DOMAIN states
  /\ Agree(states[Position(k)], guests[k])

(***************************************************************************)
(* The words do what the guest's instructions do: at the point of every    *)
(* instruction, and at the end, the host is where the guest is, and so a   *)
(* jump to that point continues as the guest would.  The second of a pair  *)
(* has no such point.                                                      *)
(***************************************************************************)
SameMeaning == \A k \in DOMAIN guests \ fused : Serves(k)

(***************************************************************************)
(* "pop/push/mov optimizer": run from its start, the code that is out so   *)
(* far does what the guest's instructions do.                              *)
(***************************************************************************)
FallsThrough == intact => Agree(Host, Guest)

(***************************************************************************)
(* Rewinding leaves the addresses of the translation where the cache can   *)
(* search them: the points ascend, and none lies behind the words that are *)
(* out, that of a pair's second instruction, which was taken before the    *)
(* rewinding, included.                                                    *)
(***************************************************************************)
PointsAscend ==
  \A k \in DOMAIN points :
    /\ points[k] <= Len(states)
    /\ \A j \in 1 .. k : points[j] <= points[k]
=============================================================================
