--------------------------- MODULE DebuggerProofs ---------------------------
(***************************************************************************)
(* Theorems about the debugger, for every program and every size of the    *)
(* tables.  SavedInv says what holds between any two steps of the          *)
(* translator, the signals and any user; DebugInv, in the second half, what *)
(* a careful user can rely on.                                             *)
(***************************************************************************)
EXTENDS Debugger, FaithfulProofs

(* What is saved could stand in host memory again: never a BRK 0, and the  *)
(* patch record of a BRK word is still there.                              *)
SavedValid ==
  \A s \in prev_instr : s \in Sites /\ s.id \in DOMAIN anchor.jumps

(* Before debug_enable there is nothing; the clearing comes before it.     *)
Disabled ==
  /\ traps = {} /\ prev_instr = {} /\ prev_instrp = NULL
  /\ break_block = NULL /\ break_pc = NULL /\ prompt # "ask"

SavedInv ==
  /\ SafeInv /\ DebugTypeOK /\ OneBreakpoint /\ SavedValid
  /\ enabled => cleared
  /\ ~ enabled => Disabled
  /\ prompt = "ask" => traps = {}

(* What the commands and signals leave alone.                              *)
Still == UNCHANGED <<guest, anchor, context, pc, site, goal, dest, links, code, cleared>>

LEMMA NotNull == SavedValid => NULL \notin prev_instr
BY NullAssumption DEF SavedValid

-----------------------------------------------------------------------------
(* The translator's invariant, when words come and go but their records    *)
(* stay.                                                                   *)
LEMMA WordsMove ==
  ASSUME SafeInv, Still,
         \A s \in sites' : s \in Sites /\ s.id \in DOMAIN anchor.jumps
  PROVE  SafeInv'
<1>1. TypeOK /\ CacheShape /\ OnProgram /\ IdsValid
  BY DEF SafeInv
<1>2. TypeOK'
  BY <1>1 DEF TypeOK, Still
<1>3. CacheShape'
  BY <1>1 DEF CacheShape, Decoding, Machine, Still
<1>4. OnProgram' /\ IdsValid'
  BY <1>1 DEF OnProgram, IdsValid, Still
<1> QED
  BY <1>2, <1>3, <1>4 DEF SafeInv

(* No step of the translator but the clearing takes a patch record away.   *)
LEMMA RecordsStay ==
  ASSUME SafeInv, Next, ~ Clear
  PROVE  DOMAIN anchor.jumps \subseteq DOMAIN anchor'.jumps
<1>1. TypeOK /\ CacheShape /\ OnProgram /\ IdsValid
  BY DEF SafeInv
<1>2. Machine \in Machines /\ Machine.a = anchor /\ Machine.c = context /\ anchor \in Anchors
  BY <1>1, MachineType DEF TypeOK
<1>3. CASE \E s \in sites : Brk(s)
  <2>1. PICK s \in sites : Brk(s)
    BY <1>3
  <2>2. anchor' = cache_get_patch(anchor, s.id)
    BY <1>2, <2>1 DEF Brk, Continue, Machine
  <2> QED BY <2>2 DEF cache_get_patch
<1>4. CASE (\E g \in DOMAIN guest : Segv(g)) \/ Hit \/ GoOn \/ Patch \/ Resume
  <2>1. anchor' = anchor
    BY <1>4 DEF Segv, Hit, GoOn, Patch, Resume
  <2> QED BY <2>1
<1>5. CASE Miss
  <2> DEFINE p == [a |-> anchor, c |-> context_pull(anchor, goal)]
             m == cache_block_start(p)
  <2>1. anchor' = m.a
    BY <1>5 DEF Miss, Continue
  <2>2. /\ anchor.host_p \in Nat /\ goal \in Nat /\ pc = "resolve"
    BY <1>1, <1>2, <1>5 DEF Miss, TypeOK, Anchors
  <2>3. p \in Machines /\ p.a = anchor /\ p.c.loffp = 0
    BY <1>2, <2>2, CacheAssumption DEF Machines, Contexts, context_pull
  <2>4. Running(p) /\ AnchorInv(p.a) /\ Closed(p)
    BY <1>1, <2>2, <2>3 DEF CacheShape, Decoding, Closed, Machine, Running
  <2> HIDE DEF p
  <2>5. Kept(p, m)
    BY <2>3, <2>4, StartKeeps
  <2> QED BY <2>1, <2>3, <2>5 DEF Kept
<1>6. CASE Point \/ Join
  <2> DEFINE m == cache_block_point(Machine)
  <2>1. Running(Machine) /\ AnchorInv(Machine.a) /\ Open(Machine)
    BY <1>1, <1>2, <1>6 DEF CacheShape, Decoding, Point, Join
  <2>2. Kept(Machine, m) /\ m \in Machines
    BY <1>2, <2>1, PointType
  <2>3. anchor' = m.a \/ anchor' = [m EXCEPT !.c.hp = @ + 1].a
    BY <1>6 DEF Point, Join, Continue
  <2> HIDE DEF m
  <2>4. anchor' = m.a
    BY <2>2, <2>3, NextWord
  <2> QED BY <1>2, <2>2, <2>4 DEF Kept
<1>7. CASE Instr
  <2> DEFINE i == guest[context.gp]
  <2>1. \/ i.kind \in Patched /\ anchor' = cache_patch_point(anchor, i.kind, i.target)
        \/ anchor' = anchor
    BY <1>7, InstrSites
  <2>2. AnchorInv(anchor) /\ ReuseValid(anchor) /\ i.target \in Nat
    <3>1. pc = "instr"
      BY <1>7 DEF Instr
    <3>2. i \in Instructions
      BY <1>1, <3>1, ProgramFacts DEF OnProgram
    <3> QED BY <1>1, <3>1, <3>2 DEF CacheShape, IdsValid, Instructions
  <2> HIDE DEF i
  <2>3. CASE i.kind \in Patched /\ anchor' = cache_patch_point(anchor, i.kind, i.target)
    <3> DEFINE n == cache_patch_point(anchor, i.kind, i.target)
    <3>1. anchor \in Anchors /\ i.kind \in Patched
      BY <1>2, <2>3
    <3>2. DOMAIN n.jumps = DOMAIN anchor.jumps \cup {cache_patch_id(anchor)}
      <4>1. /\ anchor \in Anchors /\ AnchorInv(anchor) /\ ReuseValid(anchor)
            /\ i.kind \in Patched /\ i.target \in Nat
        BY Zenon, <2>2, <3>1
      <4> QED BY Zenon, <4>1, PatchPointJumps
    <3>3. anchor' = n
      BY <2>3
    <3> HIDE DEF n
    <3> QED BY <3>2, <3>3
  <2> QED BY <2>1, <2>3
<1>8. CASE End
  <2>1. /\ pc = "end" /\ Continue(cache_block_end(Machine), "finish")
        /\ sites' \subseteq sites
        /\ UNCHANGED <<guest, site, goal, dest, links, code, cleared>>
    BY <1>8 DEF End
  <2>2. DOMAIN anchor'.jumps = DOMAIN anchor.jumps
    BY <2>1, EndStep
  <2> QED BY <2>2
<1> QED
  BY <1>3, <1>4, <1>5, <1>6, <1>7, <1>8 DEF Next, Handler

-----------------------------------------------------------------------------
(* Setting a breakpoint where there is none.                               *)
LEMMA WordKept ==
  ASSUME SafeInv, traps = {}, NEW h
  PROVE  /\ WordAt(h) \subseteq sites
         /\ \A s \in WordAt(h) : s \in Sites /\ s.id \in DOMAIN anchor.jumps
<1>1. WordAt(h) \subseteq sites
  BY DEF WordAt, SitesAt
<1> QED
  BY <1>1 DEF SafeInv, TypeOK, IdsValid

LEMMA SetBreak ==
  ASSUME SafeInv, traps = {}, NEW h \in Nat, set_bp(h),
         DOMAIN anchor.jumps \subseteq DOMAIN anchor'.jumps
  PROVE  /\ sites' \subseteq sites /\ SavedValid' /\ OneBreakpoint'
         /\ prev_instrp' = h /\ traps' = {h} /\ break_block' = NULL /\ break_pc' = NULL
         /\ prev_instr' \subseteq Sites
<1>1. /\ prev_instr' = WordAt(h) /\ prev_instrp' = h /\ sites' = sites \ SitesAt(h)
      /\ traps' = {h} /\ break_block' = NULL /\ break_pc' = NULL
  BY DEF set_bp
<1>2. SavedValid' /\ prev_instr' \subseteq Sites
  BY <1>1, WordKept DEF SavedValid
<1>3. NULL \notin prev_instr'
  BY <1>2, NullAssumption
<1>4. OneBreakpoint'
  BY <1>1, <1>3 DEF OneBreakpoint
<1> QED
  BY <1>1, <1>2, <1>4

(* debug_check_break, when a breakpoint is pending only if none is set.    *)
LEMMA CheckBreak ==
  ASSUME SafeInv, DebugTypeOK, OneBreakpoint, SavedValid,
         NEW a \in Anchors, InBounds(a), NEW block \in (Nat \ {0}) \cup {NULL}, NEW gp \in Nat \cup {NULL},
         traps # {} => block = NULL /\ gp = NULL,
         DOMAIN anchor.jumps \subseteq DOMAIN anchor'.jumps,
         debug_check_break(a, block, gp)
  PROVE  /\ sites' \subseteq sites /\ SavedValid' /\ OneBreakpoint'
         /\ prev_instrp' \in Nat \cup {NULL} /\ prev_instr' \subseteq Sites
         /\ traps' \subseteq Nat
         /\ break_block' \in (Nat \ {0}) \cup {NULL} /\ break_pc' \in Nat \cup {NULL}
<1>1. PICK h \in BreakAt(a, block, gp) :
        IF h # NULL THEN set_bp(h)
        ELSE /\ break_block' = block /\ break_pc' = gp
             /\ UNCHANGED <<sites, prev_instrp, prev_instr, traps>>
  BY DEF debug_check_break
<1>2. h = NULL \/ (h \in Nat /\ traps = {})
  <2>1. CASE block # NULL /\ block <= Len(a.blocks)
    <3>1. a.blocks \in Seq(Blocks) /\ block \in 1 .. Len(a.blocks)
      BY <2>1 DEF Anchors
    <3>2. a.blocks[block] \in Blocks
      BY <3>1
    <3>3. h = a.blocks[block].hp
      BY <1>1, <2>1 DEF BreakAt
    <3> QED BY <2>1, <3>2, <3>3, BlockFields
  <2>2. CASE ~ (block # NULL /\ block <= Len(a.blocks)) /\ gp = NULL
    BY <1>1, <2>2 DEF BreakAt
  <2>3. CASE ~ (block # NULL /\ block <= Len(a.blocks)) /\ gp # NULL
    <3>1. h \in cache_search(a, gp) /\ gp \in Nat
      BY <1>1, <2>3 DEF BreakAt
    <3>2. h = NULL \/ h \in Found(a, gp)
      BY <3>1 DEF cache_search
    <3> QED BY <2>3, <3>1, <3>2, FoundType
  <2> QED BY <2>1, <2>2, <2>3
<1>3. CASE h # NULL
  <2>1. set_bp(h) /\ h \in Nat /\ traps = {}
    BY <1>1, <1>2, <1>3
  <2>2. /\ sites' \subseteq sites /\ SavedValid' /\ OneBreakpoint'
        /\ prev_instrp' = h /\ traps' = {h} /\ break_block' = NULL /\ break_pc' = NULL
        /\ prev_instr' \subseteq Sites
    BY <2>1, SetBreak
  <2> QED BY <2>1, <2>2
<1>4. CASE h = NULL
  <2>1. /\ break_block' = block /\ break_pc' = gp
        /\ UNCHANGED <<sites, prev_instrp, prev_instr, traps>>
    BY <1>1, <1>4
  <2>2. SavedValid' /\ prev_instr' \subseteq Sites
    BY <2>1 DEF SavedValid
  <2>3. OneBreakpoint'
    BY <2>1 DEF OneBreakpoint
  <2> QED BY <2>1, <2>2, <2>3 DEF DebugTypeOK
<1> QED
  BY <1>3, <1>4

-----------------------------------------------------------------------------
(***************************************************************************)
(* The steps of DebugNext, one by one.                                     *)
(***************************************************************************)
LEMMA InitSaved == DebugInit => SavedInv
<1> SUFFICES ASSUME DebugInit PROVE SavedInv
  OBVIOUS
<1>1. SafeInv
  BY InitSafe DEF DebugInit
<1>2. DebugTypeOK
  BY DEF DebugInit, DebugTypeOK
<1>3. OneBreakpoint /\ SavedValid /\ Disabled
  BY DEF DebugInit, OneBreakpoint, SavedValid, Disabled
<1> QED
  BY <1>1, <1>2, <1>3 DEF DebugInit, SavedInv, Disabled

LEMMA EnableSaved ==
  ASSUME SavedInv, debug_enable
  PROVE  SavedInv'
<1>1. SafeInv'
  BY SafeStep DEF SavedInv, debug_enable
<1>2. /\ traps' = {} /\ prev_instr' = {} /\ prompt' # "ask" /\ cleared' = TRUE /\ enabled' = TRUE
  BY DEF SavedInv, Disabled, debug_enable, vars
<1>3. DebugTypeOK'
  BY DEF SavedInv, DebugTypeOK, debug_enable
<1> QED
  BY <1>1, <1>2, <1>3 DEF SavedInv, OneBreakpoint, SavedValid

(* A stop: the saved word goes back, and no BRK 0 is left.                 *)
LEMMA WaitSaved ==
  ASSUME SavedInv, NEW h \in Nat \cup {NULL}, debug_wait(h), enabled
  PROVE  SavedInv'
<1>1. /\ SafeInv /\ DebugTypeOK /\ OneBreakpoint /\ SavedValid /\ cleared
      /\ NULL \notin prev_instr
  BY NotNull DEF SavedInv
<1>2. /\ Restore /\ Still /\ at' = h /\ sc' = "own" /\ prompt' = "ask"
      /\ UNCHANGED <<enabled, prev_instr, break_block, break_pc>>
  BY DEF debug_wait, Still
<1>3. /\ traps' = {} /\ prev_instrp' = NULL /\ spoilt' \subseteq Nat
      /\ \A s \in sites' : s \in sites \/ s \in prev_instr
  <2>1. CASE prev_instrp = NULL
    <3>1. traps = {}
      BY <1>1, <2>1, CacheAssumption DEF OneBreakpoint, DebugTypeOK
    <3> QED BY <1>1, <1>2, <2>1, <3>1 DEF Restore, DebugTypeOK
  <2>2. CASE prev_instrp # NULL
    <3>1. /\ traps' = (traps \ {prev_instrp}) \cup {g \in {prev_instrp} : NULL \in prev_instr}
          /\ sites' = {s \in sites : s.hp # prev_instrp} \cup (prev_instr \ {NULL})
          /\ spoilt' = IF prev_instrp \in traps THEN spoilt ELSE spoilt \cup {prev_instrp}
          /\ prev_instrp' = NULL
      BY <1>2, <2>2 DEF Restore
    <3>2. traps' = {}
      BY <1>1, <3>1 DEF OneBreakpoint
    <3> QED BY <1>1, <2>2, <3>1, <3>2 DEF DebugTypeOK
  <2> QED BY <2>1, <2>2
<1>4. \A s \in sites' : s \in Sites /\ s.id \in DOMAIN anchor.jumps
  BY <1>1, <1>3 DEF SafeInv, TypeOK, IdsValid, SavedValid
<1>5. SafeInv'
  BY <1>1, <1>2, <1>4, WordsMove
<1>6. SavedValid' /\ OneBreakpoint'
  BY <1>1, <1>2, <1>3 DEF SavedValid, OneBreakpoint, Still
<1>7. DebugTypeOK'
  BY <1>1, <1>2, <1>3 DEF DebugTypeOK
<1> QED
  BY <1>1, <1>2, <1>3, <1>5, <1>6, <1>7 DEF SavedInv, Still

(* Signals and commands that change no word.                               *)
LEMMA AskSaved ==
  ASSUME SavedInv,
         \/ InterruptExit \/ PrintFails \/ NextInstrDies \/ Exit
         \/ \E i \in 1 .. MaxBlocks : BreakBlock(i)
         \/ \E gp \in DOMAIN guest : BreakAddress(gp)
  PROVE  SavedInv'
<1>1. /\ SafeInv /\ DebugTypeOK /\ OneBreakpoint /\ SavedValid
      /\ (enabled => cleared) /\ (~ enabled => Disabled) /\ (prompt = "ask" => traps = {})
  BY DEF SavedInv
<1>2. /\ UNCHANGED vars /\ UNCHANGED <<enabled, prev_instrp, prev_instr, traps, spoilt, at>>
      /\ prompt' \in {prompt, "gone"} /\ sc' \in {sc, "dead"}
  BY DEF InterruptExit, PrintFails, NextInstrDies, Exit, BreakBlock, BreakAddress
<1>3. SafeInv'
  BY <1>1, <1>2, SafeStep
<1>4. SavedValid'
  BY <1>1, <1>2 DEF SavedValid, vars
<1>5. \/ UNCHANGED <<break_block, break_pc>>
      \/ /\ prompt = "ask" /\ break_block' \in (Nat \ {0}) \cup {NULL}
         /\ break_pc' \in Nat \cup {NULL}
  <2>1. CASE \E i \in 1 .. MaxBlocks : BreakBlock(i)
    BY <1>1, <2>1, CacheAssumption DEF BreakBlock, Asked, DebugTypeOK
  <2>2. CASE \E gp \in DOMAIN guest : BreakAddress(gp)
    BY <1>1, <2>2, ProgramFacts DEF BreakAddress, Asked, SafeInv, DebugTypeOK
  <2>3. CASE InterruptExit \/ PrintFails \/ NextInstrDies \/ Exit
    BY <2>3 DEF InterruptExit, PrintFails, NextInstrDies, Exit
  <2> QED BY <2>1, <2>2, <2>3
<1>6. OneBreakpoint'
  BY <1>1, <1>2, <1>5 DEF OneBreakpoint
<1>7. DebugTypeOK'
  BY <1>1, <1>2, <1>5 DEF DebugTypeOK
<1>8. ~ enabled' => Disabled'
  BY <1>1, <1>2, <1>5 DEF Disabled
<1> QED
  BY <1>1, <1>2, <1>3, <1>4, <1>6, <1>7, <1>8 DEF SavedInv, vars

(* Steps of the translator, with or without a word written over.           *)
LEMMA TranslateSaved ==
  ASSUME SavedInv, Next, traps' \subseteq traps, spoilt' \subseteq spoilt,
         UNCHANGED <<enabled, prompt, at, sc, prev_instrp, prev_instr, break_block, break_pc>>
  PROVE  SavedInv'
<1>1. /\ SafeInv /\ DebugTypeOK /\ OneBreakpoint /\ SavedValid
      /\ (enabled => cleared) /\ (~ enabled => Disabled) /\ (prompt = "ask" => traps = {})
  BY DEF SavedInv
<1>2. SafeInv'
  BY <1>1, SafeStep
<1>3. DebugTypeOK' /\ OneBreakpoint' /\ (prompt' = "ask" => traps' = {})
  BY <1>1 DEF DebugTypeOK, OneBreakpoint
<1>4. ~ enabled' => Disabled'
  BY <1>1 DEF Disabled
<1>5. CASE Clear
  <2>1. ~ enabled /\ prev_instr = {}
    BY <1>1, <1>5 DEF Clear, Disabled
  <2>2. SavedValid' /\ ~ enabled'
    BY <2>1 DEF SavedValid
  <2> QED BY <1>2, <1>3, <1>4, <2>2 DEF SavedInv
<1>6. CASE ~ Clear
  <2>1. SavedValid'
    BY <1>1, <1>6, RecordsStay DEF SavedValid
  <2>2. cleared' = cleared
    BY <1>6 DEF Next, Handler, Brk, Segv, Hit, Miss, Point, Instr, GoOn, Join, End, Patch, Resume
  <2> QED BY <1>1, <1>2, <1>3, <1>4, <2>1, <2>2 DEF SavedInv
<1> QED
  BY <1>5, <1>6

(* The end of decode(), where a pending breakpoint may be set.             *)
LEMMA EndSaved ==
  ASSUME SavedInv, EndAndCheck, prompt # "ask"
  PROVE  SavedInv'
<1> DEFINE m == cache_block_end(Machine)
<1>1. /\ SafeInv /\ DebugTypeOK /\ OneBreakpoint /\ SavedValid
      /\ (enabled => cleared) /\ (~ enabled => Disabled) /\ (prompt = "ask" => traps = {})
  BY DEF SavedInv
<1>2. /\ pc = "end" /\ Continue(m, "finish")
      /\ \/ /\ enabled /\ Running(m) /\ debug_check_break(m.a, break_block, break_pc)
         \/ UNCHANGED <<sites, prev_instrp, prev_instr, traps, break_block, break_pc>>
      /\ UNCHANGED <<guest, site, goal, dest, links, code, cleared, enabled, prompt, at, sc, spoilt>>
  BY DEF EndAndCheck
<1>3. CASE UNCHANGED <<sites, prev_instrp, prev_instr, traps, break_block, break_pc>>
  <2>1. End
    BY <1>2, <1>3 DEF End
  <2>2. Next
    BY <2>1 DEF Next, Handler
  <2> QED BY <1>2, <1>3, <2>2, TranslateSaved
<1>4. CASE enabled /\ Running(m) /\ debug_check_break(m.a, break_block, break_pc)
  <2>1. m.a \in Anchors /\ InBounds(m.a) /\ m.a.jumps = anchor.jumps
    <3>1. Machine \in Machines /\ Machine.a = anchor
      BY <1>1, MachineType DEF SafeInv
    <3>2. Running(Machine) /\ AnchorInv(Machine.a) /\ Building(Machine)
      BY <1>1, <1>2, <3>1 DEF SafeInv, CacheShape, Decoding, Open
    <3>3. m \in Machines /\ AnchorInv(m.a) /\ Ended(Machine, m)
      BY <3>1, <3>2, EndType
    <3> HIDE DEF m
    <3> QED BY <3>1, <3>3 DEF Machines, AnchorInv, Ended
  <2>2. DOMAIN anchor'.jumps = DOMAIN anchor.jumps
    <3>1. anchor' = m.a
      BY <1>2 DEF Continue
    <3> QED BY <2>1, <3>1
  <2>3. /\ break_block \in (Nat \ {0}) \cup {NULL} /\ break_pc \in Nat \cup {NULL}
        /\ traps # {} => break_block = NULL /\ break_pc = NULL
    BY <1>1 DEF DebugTypeOK, OneBreakpoint
  <2> HIDE DEF m
  <2>4. /\ sites' \subseteq sites /\ SavedValid' /\ OneBreakpoint'
        /\ prev_instrp' \in Nat \cup {NULL} /\ prev_instr' \subseteq Sites
        /\ traps' \subseteq Nat
        /\ break_block' \in (Nat \ {0}) \cup {NULL} /\ break_pc' \in Nat \cup {NULL}
    BY <1>1, <1>4, <2>1, <2>2, <2>3, CheckBreak
  <2>5. SafeInv'
    BY <1>1, <1>2, <2>4, EndStep DEF m
  <2>6. DebugTypeOK'
    BY <1>1, <1>2, <2>4 DEF DebugTypeOK
  <2> QED BY <1>1, <1>2, <1>4, <2>4, <2>5, <2>6 DEF SavedInv
<1> QED
  BY <1>2, <1>3, <1>4

(* The block the user stopped in has a number, if there is one.            *)
LEMMA BlockNumber ==
  ASSUME SavedInv, NEW h \in Nat \cup {NULL}
  PROVE  cache_search_block(h) \in (Nat \ {0}) \cup {NULL}
<1> DEFINE R == {ss \in Nat \X Nat : ss[1] < ss[2]}
<1>1. Holding(h) \subseteq Nat \ {0}
  <2>1. anchor.blocks \in Seq(Blocks)
    BY DEF SavedInv, SafeInv, TypeOK, Anchors
  <2>2. DOMAIN anchor.blocks = 1 .. Len(anchor.blocks) /\ Len(anchor.blocks) \in Nat
    BY <2>1
  <2> QED BY <2>2 DEF Holding
<1>2. CASE h = NULL \/ Holding(h) = {}
  BY <1>2 DEF cache_search_block
<1>3. CASE ~ (h = NULL \/ Holding(h) = {})
  <2>1. IsWellFoundedOn(R, Nat)
    BY NatLessThanWellFounded DEF OpToRel
  <2>2. PICK i \in Holding(h) : TRUE
    BY <1>3
  <2>3. PICK p \in Holding(h) : \A j \in Holding(h) : ~ (<<j, p>> \in R)
    <3> HIDE DEF R
    <3> QED BY <1>1, <2>1, <2>2, WFMin
  <2>4. \A j \in Holding(h) : p <= j
    <3> SUFFICES ASSUME NEW j \in Holding(h) PROVE ~ (j < p)
      BY <1>1
    <3>1. j \in Nat /\ p \in Nat /\ ~ (<<j, p>> \in R)
      BY <1>1, <2>3
    <3>2. j < p => <<j, p>> \in R
      BY <3>1
    <3> QED BY <3>1, <3>2
  <2>5. cache_search_block(h) \in Holding(h)
    BY <1>3, <2>4 DEF cache_search_block
  <2> QED BY <1>1, <2>5
<1> QED
  BY <1>2, <1>3

(* The commands that end debug_wait.                                       *)
LEMMA ReturnSaved ==
  ASSUME SavedInv, Asked, Still,
         sites' \subseteq sites, SavedValid', OneBreakpoint',
         prev_instrp' \in Nat \cup {NULL}, prev_instr' \subseteq Sites, traps' \subseteq Nat,
         break_block' \in (Nat \ {0}) \cup {NULL}, break_pc' \in Nat \cup {NULL},
         prompt' = "run", at' = NULL, sc' = "own", UNCHANGED <<enabled, spoilt>>
  PROVE  SavedInv'
<1>1. SafeInv'
  <2>1. \A s \in sites' : s \in Sites /\ s.id \in DOMAIN anchor.jumps
    BY DEF SavedInv, SafeInv, TypeOK, IdsValid
  <2> QED BY <2>1, WordsMove DEF SavedInv
<1>2. DebugTypeOK'
  BY DEF SavedInv, DebugTypeOK
<1>3. enabled
  BY DEF SavedInv, Disabled, Asked
<1> QED
  BY <1>1, <1>2, <1>3 DEF SavedInv, Still

LEMMA RunSaved ==
  ASSUME SavedInv, Run \/ NextBlock
  PROVE  SavedInv'
<1>1. /\ SafeInv /\ DebugTypeOK /\ OneBreakpoint /\ SavedValid /\ (prompt = "ask" => traps = {})
  BY DEF SavedInv
<1>2. PICK block \in (Nat \ {0}) \cup {NULL} : Return(block, break_pc)
  <2>1. CASE Run
    BY <1>1, <2>1 DEF Run, DebugTypeOK
  <2>2. CASE NextBlock
    <3>1. current_block \in (Nat \ {0}) \cup {NULL}
      BY <1>1, BlockNumber DEF current_block, DebugTypeOK
    <3>2. \/ Return(1, break_pc)
          \/ current_block # NULL /\ Return(current_block + 1, break_pc)
      BY <2>2 DEF NextBlock
    <3>3. current_block # NULL => current_block + 1 \in Nat \ {0}
      BY <3>1
    <3> QED BY <3>2, <3>3
  <2> QED BY <2>1, <2>2
<1>3. /\ Asked /\ debug_check_break(anchor, block, break_pc) /\ Still
      /\ prompt' = "run" /\ at' = NULL /\ sc' = "own" /\ UNCHANGED <<enabled, spoilt>>
  BY <1>2 DEF Return, Still
<1>4. /\ anchor \in Anchors /\ InBounds(anchor) /\ DOMAIN anchor.jumps \subseteq DOMAIN anchor'.jumps
      /\ break_pc \in Nat \cup {NULL} /\ traps = {}
  BY <1>1, <1>3 DEF SafeInv, TypeOK, CacheShape, AnchorInv, DebugTypeOK, Asked, Still
<1>5. /\ sites' \subseteq sites /\ SavedValid' /\ OneBreakpoint'
      /\ prev_instrp' \in Nat \cup {NULL} /\ prev_instr' \subseteq Sites
      /\ traps' \subseteq Nat
      /\ break_block' \in (Nat \ {0}) \cup {NULL} /\ break_pc' \in Nat \cup {NULL}
  BY <1>1, <1>3, <1>4, CheckBreak
<1> QED
  BY <1>3, <1>5, ReturnSaved

LEMMA StepSaved ==
  ASSUME SavedInv, NextInstr
  PROVE  SavedInv'
<1>1. /\ SafeInv /\ DebugTypeOK /\ (prompt = "ask" => traps = {})
  BY DEF SavedInv
<1>2. /\ Asked /\ current_block # NULL /\ set_bp(at + 1) /\ Still
      /\ prompt' = "run" /\ at' = NULL /\ sc' = "own" /\ UNCHANGED <<enabled, spoilt>>
  BY DEF NextInstr, Still
<1>3. traps = {} /\ DOMAIN anchor.jumps \subseteq DOMAIN anchor'.jumps
  BY <1>1, <1>2 DEF Asked, Still
<1>4. at + 1 \in Nat
  BY <1>1, <1>2 DEF current_block, cache_search_block, DebugTypeOK
<1>5. /\ sites' \subseteq sites /\ SavedValid' /\ OneBreakpoint'
      /\ prev_instrp' = at + 1 /\ traps' = {at + 1} /\ break_block' = NULL /\ break_pc' = NULL
      /\ prev_instr' \subseteq Sites
  BY <1>1, <1>2, <1>3, <1>4, SetBreak
<1> QED
  BY <1>2, <1>4, <1>5, ReturnSaved

-----------------------------------------------------------------------------
LEMMA SavedStep == SavedInv /\ [DebugNext]_dvars => SavedInv'
<1> SUFFICES ASSUME SavedInv, [DebugNext]_dvars PROVE SavedInv'
  OBVIOUS
<1>1. CASE Translate
  <2>1. CASE EndAndCheck
    BY <1>1, <2>1, EndSaved DEF Translate
  <2>2. CASE Quiet
    <3>1. Next /\ UNCHANGED debug
      BY <2>2 DEF Quiet, Next, Handler
    <3> QED BY <3>1, TranslateSaved DEF debug
  <2>3. CASE Emits
    <3>1. Next
      BY <2>3 DEF Emits, Next, Handler
    <3> QED BY <2>3, <3>1, TranslateSaved DEF Emits, Overwrite
  <2>4. CASE Patches
    <3>1. Next
      BY <2>4 DEF Patches, Next, Handler
    <3> QED BY <2>4, <3>1, TranslateSaved DEF Patches, Overwrite
  <2> QED BY <1>1, <2>1, <2>2, <2>3, <2>4 DEF Translate
<1>2. CASE debug_enable
  BY <1>2, EnableSaved
<1>3. CASE \E h \in traps : Breakpoint(h)
  <2>1. PICK h \in traps : Breakpoint(h)
    BY <1>3
  <2>2. h \in Nat /\ enabled
    BY <2>1 DEF SavedInv, DebugTypeOK, Disabled
  <2> QED BY <2>1, <2>2, WaitSaved DEF Breakpoint
<1>4. CASE \E h \in 0 .. anchor.host_p - 1 \cup {NULL} : Interrupt(h)
  <2>1. PICK h \in 0 .. anchor.host_p - 1 \cup {NULL} : Interrupt(h)
    BY <1>4
  <2>2. anchor.host_p \in Nat
    BY DEF SavedInv, SafeInv, TypeOK, Anchors
  <2>3. h \in Nat \cup {NULL}
    BY <2>1, <2>2
  <2> QED BY <2>1, <2>3, WaitSaved DEF Interrupt
<1>5. CASE InterruptExit
  BY <1>5, AskSaved
<1>6. CASE Command
  BY <1>6, AskSaved, RunSaved, StepSaved DEF Command
<1>7. CASE UNCHANGED dvars
  <2>1. UNCHANGED vars /\ UNCHANGED debug
    BY <1>7 DEF dvars
  <2>2. SafeInv'
    BY <2>1, SafeStep DEF SavedInv
  <2> QED
    BY <2>1, <2>2 DEF SavedInv, DebugTypeOK, OneBreakpoint, SavedValid, Disabled, debug, vars
<1> QED
  BY <1>1, <1>2, <1>3, <1>4, <1>5, <1>6, <1>7 DEF DebugNext

THEOREM SavedInvariant == DebugSpec => []SavedInv
BY InitSaved, SavedStep, PTL DEF DebugSpec

(***************************************************************************)
(* The debugger's state is typed: the saved word is always a place in host *)
(* memory, a pending block always a number from 1.                         *)
(***************************************************************************)
THEOREM DebuggerTyped == DebugSpec => []DebugTypeOK
<1>1. SavedInv => DebugTypeOK
  BY DEF SavedInv
<1> QED
  BY <1>1, SavedInvariant, PTL

(***************************************************************************)
(* One saved word suffices: set_bp never overwrites a saved word that is   *)
(* still needed, whatever the user asks for in whatever order, and whatever*)
(* is translated, patched or cleared meanwhile.                            *)
(***************************************************************************)
THEOREM OneSavedWord == DebugSpec => []OneBreakpoint
<1>1. SavedInv => OneBreakpoint
  BY DEF SavedInv
<1> QED
  BY <1>1, SavedInvariant, PTL

(***************************************************************************)
(* The translator's tables stay in their bounds under the debugger too,    *)
(* although it takes words away and writes old ones back.                  *)
(***************************************************************************)
THEOREM TablesStayUnderDebugger == DebugSpec => []TablesInBounds
<1>1. SavedInv => TablesInBounds
  BY DEF SavedInv, SafeInv, CacheShape, AnchorInv, TablesInBounds, Open, Building, Machine
<1> QED
  BY <1>1, SavedInvariant, PTL

-----------------------------------------------------------------------------
(***************************************************************************)
(* Transparency.  View is the translator as it is with the breakpoint      *)
(* taken away, with its invariants and what is proved of them.             *)
(***************************************************************************)
View == INSTANCE FaithfulProofs WITH sites <- Undone

LEMMA ViewParameters ==
  /\ NULL \notin View!Sites
  /\ \A p \in Programs : View!IsProgram(p)
BY NullAssumption, ProgramsAssumption
   DEF View!Sites, Sites, View!Patched, Patched, View!IsProgram, IsProgram,
       View!Instructions, Instructions, View!Ending, Ending

(* The cache's operations, which know nothing of words.                    *)
LEMMA SameFoundView ==
  ASSUME NEW a, NEW gp
  PROVE  View!Found(a, gp) = Found(a, gp) /\ Plain!Found(a, gp) = Found(a, gp)
BY DEF View!Found, Plain!Found, Found, View!StartsAt, Plain!StartsAt, StartsAt,
       View!IsPredecessor, Plain!IsPredecessor, IsPredecessor,
       View!block_cache_search, Plain!block_cache_search, block_cache_search

LEMMA SameSearch ==
  ASSUME NEW a, NEW gp
  PROVE  /\ View!cache_search(a, gp) = cache_search(a, gp)
         /\ Plain!cache_search(a, gp) = cache_search(a, gp)
BY SameFoundView DEF View!cache_search, Plain!cache_search, cache_search

LEMMA SameStart ==
  ASSUME NEW m
  PROVE  /\ View!cache_block_start(m) = cache_block_start(m)
         /\ Plain!cache_block_start(m) = cache_block_start(m)
BY DEF View!cache_block_start, Plain!cache_block_start, cache_block_start,
       View!InsertPos, Plain!InsertPos, InsertPos, View!Insert, Plain!Insert, Insert,
       View!Running, Plain!Running, Running, View!Panic, Plain!Panic, Panic

LEMMA SameBlockEnd ==
  ASSUME NEW m
  PROVE  /\ View!cache_block_end(m) = cache_block_end(m)
         /\ Plain!cache_block_end(m) = cache_block_end(m)
BY Zenon DEF View!cache_block_end, Plain!cache_block_end, cache_block_end

LEMMA SamePoint ==
  ASSUME NEW m
  PROVE  /\ View!cache_block_point(m) = cache_block_point(m)
         /\ Plain!cache_block_point(m) = cache_block_point(m)
<1>1. \A n : View!Split(n) = Split(n) /\ Plain!Split(n) = Split(n)
  BY SameStart, SameBlockEnd DEF View!Split, Plain!Split, Split
<1>2. \A n : View!AddPoint(n) = AddPoint(n) /\ Plain!AddPoint(n) = AddPoint(n)
  BY DEF View!AddPoint, Plain!AddPoint, AddPoint
<1>3. \A n : (View!Running(n) <=> Running(n)) /\ (Plain!Running(n) <=> Running(n))
  BY DEF View!Running, Plain!Running, Running
<1>4. \A n, why : View!Panic(n, why) = Panic(n, why) /\ Plain!Panic(n, why) = Panic(n, why)
  BY DEF View!Panic, Plain!Panic, Panic
<1> QED
  BY Zenon, <1>1, <1>2, <1>3, <1>4 DEF View!cache_block_point, Plain!cache_block_point, cache_block_point

LEMMA SamePatch ==
  ASSUME NEW a
  PROVE  /\ View!cache_patch_id(a) = cache_patch_id(a)
         /\ Plain!cache_patch_id(a) = cache_patch_id(a)
         /\ \A kind, target :
              /\ View!cache_patch_point(a, kind, target) = cache_patch_point(a, kind, target)
              /\ Plain!cache_patch_point(a, kind, target) = cache_patch_point(a, kind, target)
         /\ \A id :
              /\ View!cache_get_patch(a, id) = cache_get_patch(a, id)
              /\ Plain!cache_get_patch(a, id) = cache_get_patch(a, id)
<1>1. /\ View!cache_patch_id(a) = cache_patch_id(a)
      /\ Plain!cache_patch_id(a) = cache_patch_id(a)
  BY DEF View!cache_patch_id, Plain!cache_patch_id, cache_patch_id
<1>2. \A kind, target :
        /\ View!cache_patch_point(a, kind, target) = cache_patch_point(a, kind, target)
        /\ Plain!cache_patch_point(a, kind, target) = cache_patch_point(a, kind, target)
  BY <1>1 DEF View!cache_patch_point, Plain!cache_patch_point, cache_patch_point
<1>3. \A id :
        /\ View!cache_get_patch(a, id) = cache_get_patch(a, id)
        /\ Plain!cache_get_patch(a, id) = cache_get_patch(a, id)
  BY DEF View!cache_get_patch, Plain!cache_get_patch, cache_get_patch
<1> QED BY <1>1, <1>2, <1>3

LEMMA SameClear ==
  /\ View!cahce_init = cahce_init /\ Plain!cahce_init = cahce_init
  /\ \A a : View!cache_clear(a) = cache_clear(a) /\ Plain!cache_clear(a) = cache_clear(a)
  /\ \A a, gp : View!context_pull(a, gp) = context_pull(a, gp)
                /\ Plain!context_pull(a, gp) = context_pull(a, gp)
BY DEF View!cahce_init, Plain!cahce_init, cahce_init, View!cache_clear, Plain!cache_clear,
       cache_clear, View!context_pull, Plain!context_pull, context_pull

LEMMA SameLabels ==
  /\ View!Machine = Machine /\ Plain!Machine = Machine
  /\ View!Decoding <=> Decoding
  /\ View!Patched = Patched /\ Plain!Patched = Patched
  /\ View!Ending = Ending /\ Plain!Ending = Ending
  /\ View!Edge = IF Decoding THEN context.hp ELSE anchor.host_p
BY DEF View!Machine, Plain!Machine, Machine, View!Decoding, Decoding, View!Patched, Plain!Patched,
       Patched, View!Ending, Plain!Ending, Ending, View!Edge

LEMMA SameContinue ==
  ASSUME NEW m, NEW next
  PROVE  /\ View!Continue(m, next) <=> Continue(m, next)
         /\ Plain!Continue(m, next) <=> Continue(m, next)
BY DEF View!Continue, Plain!Continue, Continue, View!Running, Plain!Running, Running

-----------------------------------------------------------------------------
(* Each step of the translator is one with the breakpoint taken away, if   *)
(* that does to the words what the step says.                              *)
LEMMA BrkView ==
  ASSUME NEW s \in sites, Brk(s), Undone' = Undone
  PROVE  View!Brk(s) /\ Plain!Brk(s)
<1>1. s \in Undone
  BY DEF Undone
<1>2. /\ pc = "idle" /\ goal' = anchor.jumps[s.id].target /\ site' = s
      /\ Continue([Machine EXCEPT !.a = cache_get_patch(@, s.id)], "resolve")
      /\ UNCHANGED <<guest, dest, links, code, cleared>>
  BY DEF Brk
<1>3. /\ View!Continue([View!Machine EXCEPT !.a = View!cache_get_patch(@, s.id)], "resolve")
      /\ Plain!Continue([Plain!Machine EXCEPT !.a = Plain!cache_get_patch(@, s.id)], "resolve")
  BY <1>2, SameContinue, SameLabels, SamePatch
<1> QED BY <1>1, <1>2, <1>3 DEF View!Brk, Plain!Brk

LEMMA SegvView ==
  ASSUME NEW g \in DOMAIN guest, Segv(g), Undone' = Undone
  PROVE  View!Segv(g) /\ Plain!Segv(g)
BY DEF Segv, View!Segv, Plain!Segv

LEMMA HitView ==
  ASSUME Hit, Undone' = Undone
  PROVE  View!Hit /\ Plain!Hit
<1>1. /\ View!cache_search(anchor, goal) = cache_search(anchor, goal)
      /\ Plain!cache_search(anchor, goal) = cache_search(anchor, goal)
  BY SameSearch
<1> QED BY <1>1 DEF Hit, View!Hit, Plain!Hit

LEMMA MissView ==
  ASSUME Miss, Undone' = Undone
  PROVE  View!Miss /\ Plain!Miss
<1> DEFINE p == [a |-> anchor, c |-> context_pull(anchor, goal)]
<1>1. /\ View!cache_search(anchor, goal) = cache_search(anchor, goal)
      /\ Plain!cache_search(anchor, goal) = cache_search(anchor, goal)
  BY SameSearch
<1>2. Continue(cache_block_start(p), "point")
  BY DEF Miss
<1>3. /\ View!Continue(View!cache_block_start(p), "point")
      /\ Plain!Continue(Plain!cache_block_start(p), "point")
  <2> HIDE DEF p
  <2> QED BY <1>2, SameContinue, SameStart
<1>4. /\ View!context_pull(anchor, goal) = context_pull(anchor, goal)
      /\ Plain!context_pull(anchor, goal) = context_pull(anchor, goal)
  BY SameClear
<1> QED BY <1>1, <1>3, <1>4 DEF Miss, View!Miss, Plain!Miss

LEMMA PointView ==
  ASSUME Point, Undone' = Undone
  PROVE  View!Point /\ Plain!Point
<1>1. Continue(cache_block_point(Machine), "instr")
  BY DEF Point
<1>2. /\ View!Continue(View!cache_block_point(View!Machine), "instr")
      /\ Plain!Continue(Plain!cache_block_point(Plain!Machine), "instr")
  BY <1>1, SameContinue, SamePoint, SameLabels
<1> QED BY <1>2 DEF Point, View!Point, Plain!Point

LEMMA InstrView ==
  ASSUME Instr, UNCHANGED <<prev_instr, prev_instrp, traps>>
  PROVE  View!Instr /\ Plain!Instr
<1> DEFINE i == guest[context.gp]
           brk == [hp |-> context.hp, id |-> cache_patch_id(anchor),
                   kind |-> i.kind, target |-> i.target]
<1>1. /\ View!cache_patch_id(anchor) = cache_patch_id(anchor)
      /\ Plain!cache_patch_id(anchor) = cache_patch_id(anchor)
      /\ View!cache_patch_point(anchor, i.kind, i.target) = cache_patch_point(anchor, i.kind, i.target)
      /\ Plain!cache_patch_point(anchor, i.kind, i.target) = cache_patch_point(anchor, i.kind, i.target)
  BY SamePatch
<1>2. View!Patched = Patched /\ Plain!Patched = Patched /\ View!Ending = Ending /\ Plain!Ending = Ending
  BY SameLabels
<1>3. CASE i.kind \in Patched
  <2>1. sites' = sites \cup {brk}
    BY <1>3 DEF Instr
  <2>2. Undone' = Undone \cup {brk}
    <3> HIDE DEF brk
    <3> QED BY <2>1 DEF Undone
  <2> QED BY <1>1, <1>2, <1>3, <2>2 DEF Instr, View!Instr, Plain!Instr
<1>4. CASE i.kind \notin Patched
  <2>1. sites' = sites
    BY <1>4 DEF Instr
  <2>2. Undone' = Undone
    BY <2>1 DEF Undone
  <2> QED BY <1>1, <1>2, <1>4, <2>2 DEF Instr, View!Instr, Plain!Instr
<1> QED BY <1>3, <1>4

LEMMA GoOnView ==
  ASSUME GoOn, Undone' = Undone
  PROVE  View!GoOn /\ Plain!GoOn
<1>1. /\ View!cache_search(anchor, context.gp) = cache_search(anchor, context.gp)
      /\ Plain!cache_search(anchor, context.gp) = cache_search(anchor, context.gp)
  BY SameSearch
<1> QED BY <1>1 DEF GoOn, View!GoOn, Plain!GoOn

LEMMA JoinView ==
  ASSUME Join, Undone' = Undone
  PROVE  View!Join /\ Plain!Join
<1> DEFINE n(m) == [m EXCEPT !.c.hp = @ + 1]
<1>1. /\ View!cache_search(anchor, context.gp) = cache_search(anchor, context.gp)
      /\ Plain!cache_search(anchor, context.gp) = cache_search(anchor, context.gp)
  BY SameSearch
<1>2. Continue(n(cache_block_point(Machine)), "end")
  BY DEF Join
<1>3. /\ View!Continue(n(View!cache_block_point(View!Machine)), "end")
      /\ Plain!Continue(n(Plain!cache_block_point(Plain!Machine)), "end")
  <2>1. /\ View!cache_block_point(View!Machine) = cache_block_point(Machine)
        /\ Plain!cache_block_point(Plain!Machine) = cache_block_point(Machine)
    BY SamePoint, SameLabels
  <2> QED BY <1>2, <2>1, SameContinue
<1> QED BY <1>1, <1>3 DEF Join, View!Join, Plain!Join

LEMMA EndView ==
  ASSUME pc = "end", Continue(cache_block_end(Machine), "finish"), Undone' = Undone,
         UNCHANGED <<guest, site, goal, dest, links, code, cleared>>
  PROVE  View!End /\ Plain!End
<1>1. /\ View!Continue(View!cache_block_end(View!Machine), "finish")
      /\ Plain!Continue(Plain!cache_block_end(Plain!Machine), "finish")
  BY SameContinue, SameBlockEnd, SameLabels
<1> QED BY <1>1 DEF View!End, Plain!End

LEMMA PatchView ==
  ASSUME Patch, Undone' = Undone \ {site}
  PROVE  View!Patch /\ Plain!Patch
BY DEF Patch, View!Patch, Plain!Patch

LEMMA ResumeView ==
  ASSUME Resume, Undone' = Undone
  PROVE  View!Resume /\ Plain!Resume
BY DEF Resume, View!Resume, Plain!Resume

LEMMA ClearView ==
  ASSUME Clear, Undone' = {}
  PROVE  View!Clear /\ Plain!Clear
BY SameClear DEF Clear, View!Clear, Plain!Clear

-----------------------------------------------------------------------------
(***************************************************************************)
(* The invariant.  A saved word is always in place: its BRK 0 stands in    *)
(* code that is written already and is not the word being served, so the   *)
(* translator overwrites neither.  A breakpoint asked for is still to come:*)
(* the block will be there when one is next looked for, the address is not *)
(* translated yet, or only just now, behind the word being served.         *)
(***************************************************************************)
InPlace ==
  /\ prev_instrp # NULL => prev_instrp \in traps
  /\ \A s \in prev_instr : prev_instrp # NULL => s.hp = prev_instrp
  /\ \A s \in sites : s.hp \notin traps
  /\ prev_instrp # NULL /\ pc # "exit" => prev_instrp < View!Edge
  /\ pc \notin {"idle", "exit"} /\ site # NULL /\ prev_instrp # NULL => prev_instrp # site.hp
  /\ prompt = "ask" => pc = "idle"
  /\ CodeIntact

(* debug_enable's break in the first block, before anything is translated. *)
FirstBlock ==
  /\ break_block = 1
  /\ pc \in {"idle", "resolve"} => code = {}
  /\ pc \notin {"idle", "exit"} => site = NULL
  /\ pc # "finish"

BlockComes ==
  break_block # NULL => \/ prompt = "ask" /\ break_block <= Len(anchor.blocks)
                        \/ prompt = "gone"
                        \/ FirstBlock

AddressComes ==
  prompt = "run" /\ break_pc # NULL /\ pc # "exit" =>
    \A h \in Found(anchor, break_pc) : Decoding /\ h >= dest

StandInv == InPlace /\ BlockComes /\ AddressComes

ViewInv == View!IdsInv /\ View!FaithInv /\ View!PlaceInv

DebugInv == SavedInv /\ ViewInv /\ StandInv

LEMMA InitDebug == DebugInit => DebugInv
<1> SUFFICES ASSUME DebugInit PROVE DebugInv
  OBVIOUS
<1>1. SavedInv
  BY InitSaved
<1>2. Undone = {}
  BY DEF DebugInit, Init, Undone
<1>3. View!Init /\ Plain!Init
  BY <1>2, SameClear DEF DebugInit, Init, View!Init, Plain!Init
<1>4. ViewInv
  BY <1>3, ViewParameters, CacheAssumption, View!InitIds, View!InitFaith, View!InitPlace DEF ViewInv
<1>5. StandInv
  BY DEF DebugInit, Init, StandInv, InPlace, BlockComes, AddressComes, CodeIntact
<1> QED BY <1>1, <1>4, <1>5 DEF DebugInv

LEMMA ViewNext == ViewInv /\ [View!Next]_View!vars => ViewInv'
BY ViewParameters, CacheAssumption, View!IdsNext, View!FaithNext, View!PlaceNext DEF ViewInv

(* Between two handlers, a breakpoint is set in code that is written.      *)
BreakBelow ==
  \A block \in (Nat \ {0}) \cup {NULL} : \A gp \in Nat \cup {NULL} :
    \A h \in BreakAt(anchor, block, gp) \ {NULL} : h \in Nat /\ h < View!Edge

LEMMA BreakPlace ==
  ViewInv /\ anchor \in Anchors /\ pc \in {"idle", "finish"} => BreakBelow
<1> SUFFICES ASSUME ViewInv, anchor \in Anchors, pc \in {"idle", "finish"},
                    NEW block \in (Nat \ {0}) \cup {NULL}, NEW gp \in Nat \cup {NULL},
                    NEW h \in BreakAt(anchor, block, gp) \ {NULL}
             PROVE  h \in Nat /\ h < View!Edge
  BY DEF BreakBelow
<1>1. \/ \E i \in DOMAIN anchor.blocks : h = anchor.blocks[i].hp
      \/ \E g \in Nat : h \in View!Found(anchor, g)
  <2>1. CASE block # NULL /\ block <= Len(anchor.blocks)
    <3>1. block \in DOMAIN anchor.blocks
      BY <2>1 DEF Anchors
    <3> QED BY <2>1, <3>1 DEF BreakAt
  <2>2. CASE ~ (block # NULL /\ block <= Len(anchor.blocks))
    <3>1. gp \in Nat /\ h \in cache_search(anchor, gp)
      BY <2>2 DEF BreakAt
    <3>2. h \in Found(anchor, gp)
      BY <3>1 DEF cache_search
    <3> QED BY <3>1, <3>2, SameFoundView
  <2> QED BY <2>1, <2>2
<1>2. View!IdsInv /\ View!FaithInv /\ View!PlaceInv
  BY DEF ViewInv
<1> QED
  BY <1>1, <1>2, ViewParameters, CacheAssumption, View!FoundBelow

LEMMA BreakPlaceNext ==
  (ViewInv /\ anchor \in Anchors /\ pc \in {"idle", "finish"} => BreakBelow)'
BY BreakPlace, PTL

-----------------------------------------------------------------------------
(* Steps of the translator leave the breakpoint in place.                  *)
Moving ==
  \/ \E s \in sites : Brk(s)
  \/ \E g \in DOMAIN guest : Segv(g)
  \/ Hit \/ Miss \/ Point \/ Instr \/ GoOn \/ Join \/ Patch \/ Resume

Unbroken == UNCHANGED <<prompt, prev_instrp, prev_instr, break_block, break_pc, traps, spoilt>>

LEMMA TrapStays ==
  ASSUME DebugInv, Quiet \/ Emits \/ Patches, ~ Clear
  PROVE  Moving /\ Unbroken
<1>1. /\ traps \subseteq {prev_instrp} /\ prev_instrp \in Nat \cup {NULL} /\ spoilt = {}
      /\ traps \subseteq Nat /\ NULL \notin Nat
  BY CacheAssumption
     DEF DebugInv, SavedInv, OneBreakpoint, DebugTypeOK, StandInv, InPlace, CodeIntact
<1>2. CASE Quiet
  BY <1>2 DEF Quiet, debug, Moving, Unbroken
<1>3. CASE Emits
  <2>1. pc \in {"instr", "lookup"} /\ context.hp \in Nat
    <3>1. context \in Contexts
      BY DEF DebugInv, SavedInv, SafeInv, TypeOK
    <3> QED BY <1>3, <3>1 DEF Emits, Instr, Join, Contexts
  <2>2. prev_instrp # NULL => prev_instrp < context.hp
    BY <2>1, SameLabels DEF DebugInv, StandInv, InPlace, Decoding
  <2>3. \A h \in traps : h \notin context.hp .. context'.hp - 1
    <3> SUFFICES ASSUME NEW h \in traps, h \in context.hp .. context'.hp - 1 PROVE FALSE
      OBVIOUS
    <3>1. h = prev_instrp /\ h \in Nat
      BY <1>1
    <3>2. h < context.hp
      BY <1>1, <2>2, <3>1
    <3>3. context.hp <= h
      OBVIOUS
    <3> QED BY <2>1, <3>1, <3>2, <3>3
  <2>4. traps' = traps \ (context.hp .. context'.hp - 1) /\ spoilt' = spoilt \ (context.hp .. context'.hp - 1)
        /\ UNCHANGED <<prompt, prev_instrp, prev_instr, break_block, break_pc>>
    BY <1>3 DEF Emits, Overwrite
  <2>5. traps' = traps /\ spoilt' = spoilt
    BY <1>1, <2>3, <2>4
  <2> QED BY <1>3, <2>4, <2>5 DEF Emits, Moving, Unbroken
<1>4. CASE Patches
  <2>1. pc = "finish" /\ site # NULL /\ traps' = traps \ {site.hp} /\ spoilt' = spoilt \ {site.hp}
        /\ UNCHANGED <<prompt, prev_instrp, prev_instr, break_block, break_pc>>
    BY <1>4 DEF Patches, Patch, Overwrite
  <2>2. prev_instrp # NULL => prev_instrp # site.hp
    BY <2>1 DEF DebugInv, StandInv, InPlace
  <2>3. site.hp \notin traps
    BY <1>1, <2>2
  <2> QED BY <1>1, <1>4, <2>1, <2>3 DEF Patches, Moving, Unbroken
<1> QED BY <1>2, <1>3, <1>4

LEMMA MovingView ==
  ASSUME DebugInv, Moving, Unbroken
  PROVE  View!Next /\ Plain!Next
<1>1. UNCHANGED <<prev_instr, prev_instrp, traps>>
  BY DEF Unbroken
<1>2. sites' = sites => Undone' = Undone
  BY <1>1 DEF Undone
<1>3. ASSUME NEW s \in sites, Brk(s)
      PROVE  View!Next /\ Plain!Next
  <2>1. sites' = sites
    BY <1>3 DEF Brk
  <2>2. View!Brk(s) /\ Plain!Brk(s) /\ s \in Undone
    BY <1>2, <1>3, <2>1, BrkView DEF Undone
  <2> QED BY <2>2 DEF View!Next, Plain!Next
<1>4. ASSUME NEW g \in DOMAIN guest, Segv(g)
      PROVE  View!Next /\ Plain!Next
  <2>1. sites' = sites
    BY <1>4 DEF Segv
  <2>2. View!Segv(g) /\ Plain!Segv(g)
    BY <1>2, <1>4, <2>1, SegvView
  <2> QED BY <2>2 DEF View!Next, Plain!Next
<1>5. CASE Hit \/ Miss \/ Point \/ GoOn \/ Join \/ Resume
  <2>1. sites' = sites
    BY <1>5 DEF Hit, Miss, Point, GoOn, Join, Resume
  <2> QED
    BY <1>2, <1>5, <2>1, HitView, MissView, PointView, GoOnView, JoinView, ResumeView
       DEF View!Next, View!Handler, Plain!Next, Plain!Handler
<1>6. CASE Instr
  BY <1>1, <1>6, InstrView DEF View!Next, View!Handler, Plain!Next, Plain!Handler
<1>7. CASE Patch
  <2>1. pc = "finish" /\ site # NULL /\ sites' = sites \ {site}
    BY <1>7 DEF Patch
  <2>2. \A s \in prev_instr \ {NULL} : prev_instrp \in traps => s # site
    <3>1. prev_instrp \in traps => prev_instrp # NULL
      BY CacheAssumption DEF DebugInv, SavedInv, DebugTypeOK
    <3> QED BY <2>1, <3>1 DEF DebugInv, StandInv, InPlace
  <2>3. Undone' = Undone \ {site}
    BY <1>1, <2>1, <2>2 DEF Undone
  <2> QED BY <1>7, <2>3, PatchView DEF View!Next, View!Handler, Plain!Next, Plain!Handler
<1> QED BY <1>3, <1>4, <1>5, <1>6, <1>7 DEF Moving

LEMMA MovingPlace ==
  ASSUME DebugInv, Moving, Unbroken, prompt = "run"
  PROVE  InPlace'
<1>1. /\ View!IdsInv /\ View!PlaceInv /\ InPlace /\ OneBreakpoint /\ DebugTypeOK
  BY DEF DebugInv, ViewInv, StandInv, SavedInv
<1>2. UNCHANGED <<prompt, prev_instrp, prev_instr, traps, spoilt>>
  BY DEF Unbroken
<1>3. View!Edge \in Nat /\ (pc' # "exit" => View!Edge' \in Nat /\ View!Edge <= View!Edge')
  <2>1. cleared' = cleared
    BY DEF Moving, Brk, Segv, Hit, Miss, Point, Instr, GoOn, Join, Patch, Resume
  <2>2. View!Next /\ ~ View!Clear
    <3>1. ~ View!Clear
      BY <2>1 DEF View!Clear
    <3> QED BY <3>1, MovingView
  <2> QED BY <1>1, <2>2, ViewParameters, CacheAssumption, View!EdgeGrows
<1>4. prev_instrp # NULL /\ pc' # "exit" => prev_instrp < View!Edge'
  <2> SUFFICES ASSUME prev_instrp # NULL, pc' # "exit" PROVE prev_instrp < View!Edge'
    OBVIOUS
  <2>1. pc # "exit"
    BY DEF Moving, Brk, Segv, Hit, Miss, Point, Instr, GoOn, Join, Patch, Resume
  <2>2. prev_instrp \in Nat /\ prev_instrp < View!Edge
    BY <1>1, <2>1 DEF InPlace, DebugTypeOK
  <2> QED BY <1>3, <2>2
<1>5. \A s \in sites' : s.hp \notin traps
  <2> SUFFICES ASSUME NEW s \in sites', s \notin sites PROVE s.hp \notin traps
    BY <1>1 DEF InPlace
  <2>1. Instr /\ s.hp = context.hp
    <3>1. Instr
      BY DEF Moving, Brk, Segv, Hit, Miss, Point, GoOn, Join, Patch, Resume
    <3>2. s = NewSite(guest[context.gp])
      BY <3>1, InstrSites
    <3> QED BY <3>1, <3>2 DEF NewSite
  <2>2. context.hp \in Nat /\ View!Edge = context.hp /\ pc # "exit"
    <3>1. pc = "instr" /\ context \in Contexts
      BY <2>1 DEF Instr, DebugInv, SavedInv, SafeInv, TypeOK
    <3> QED BY <3>1, SameLabels DEF Decoding, Contexts
  <2>3. \A h \in traps : h = prev_instrp /\ h \in Nat
    BY <1>1 DEF OneBreakpoint, DebugTypeOK
  <2>4. \A h \in traps : h < context.hp
    BY <1>1, <2>2, <2>3, CacheAssumption DEF InPlace
  <2> QED BY <2>1, <2>2, <2>3, <2>4
<1>6. pc' \notin {"idle", "exit"} /\ site' # NULL /\ prev_instrp # NULL => prev_instrp # site'.hp
  <2>1. CASE \E s \in sites : Brk(s)
    <3>1. PICK s \in sites : Brk(s)
      BY <2>1
    <3> QED BY <1>1, <3>1 DEF Brk, InPlace
  <2>2. CASE \E g \in DOMAIN guest : Segv(g)
    BY <2>2 DEF Segv
  <2>3. CASE Hit \/ Miss \/ Point \/ Instr \/ GoOn \/ Join \/ Patch \/ Resume
    <3>1. pc \notin {"idle", "exit"} /\ site' = site
      BY <2>3 DEF Hit, Miss, Point, Instr, GoOn, Join, Patch, Resume
    <3> QED BY <1>1, <3>1 DEF InPlace
  <2> QED BY <2>1, <2>2, <2>3 DEF Moving
<1>7. prompt = "ask" => pc' = "idle"
  OBVIOUS
<1> QED BY <1>1, <1>2, <1>4, <1>5, <1>6, <1>7 DEF InPlace, CodeIntact

(* Without a breakpoint of its own the first block is still to come.       *)
LEMMA MovingFirst ==
  ASSUME DebugInv, Moving, Unbroken, prompt = "run"
  PROVE  BlockComes'
<1> SUFFICES ASSUME break_block' # NULL PROVE FirstBlock'
  BY DEF BlockComes
<1>1. FirstBlock /\ break_block' = break_block /\ View!IdsInv /\ View!FaithInv /\ View!PlaceInv
  BY DEF Unbroken, DebugInv, StandInv, BlockComes, ViewInv
<1>2. pc \in {"idle", "resolve"} => sites = {} /\ \A gp \in Nat : Found(anchor, gp) = {}
  <2> SUFFICES ASSUME pc \in {"idle", "resolve"}
               PROVE  sites = {} /\ \A gp \in Nat : Found(anchor, gp) = {}
    OBVIOUS
  <2>1. Undone = {} /\ \A gp \in Nat : View!Found(anchor, gp) = {}
    BY <1>1, ViewParameters, CacheAssumption, View!NothingThere DEF FirstBlock
  <2> QED BY <2>1, SameFoundView DEF Undone
<1>3. ~ \E s \in sites : Brk(s)
  BY <1>2 DEF Brk
<1>4. ~ Hit
  <2> SUFFICES ASSUME Hit PROVE FALSE
    OBVIOUS
  <2>1. pc = "resolve" /\ goal \in Nat
    BY DEF Hit, DebugInv, SavedInv, SafeInv, TypeOK
  <2>2. cache_search(anchor, goal) = {NULL}
    BY <1>2, <2>1 DEF cache_search
  <2> QED BY <2>2 DEF Hit
<1>5. ~ Patch /\ ~ Resume
  BY <1>1 DEF Patch, Resume, FirstBlock
<1>6. CASE \E g \in DOMAIN guest : Segv(g)
  BY <1>1, <1>6 DEF Segv, FirstBlock
<1>7. CASE Miss \/ Point \/ GoOn \/ Join \/ Instr
  BY <1>1, <1>7 DEF Miss, Point, GoOn, Join, Instr, Continue, FirstBlock
<1> QED BY <1>3, <1>4, <1>5, <1>6, <1>7 DEF Moving

(* What is found for the first time stands behind the word being served.   *)
LEMMA ViewFound ==
  ASSUME ViewInv, View!Next, cleared' = cleared, NEW gp \in Nat, NEW h \in Found(anchor', gp)
  PROVE  h \in Found(anchor, gp) \/ (h >= dest' /\ (pc = "resolve" \/ Decoding))
<1>1. ~ View!Clear
  BY DEF View!Clear
<1>2. View!NewFound
  BY <1>1, ViewParameters, CacheAssumption, View!PlaceStep DEF ViewInv
<1>3. h \in View!Found(anchor', gp)
  BY SameFoundView
<1>4. h \in View!Found(anchor, gp) \/ (h >= dest' /\ (pc = "resolve" \/ View!Decoding))
  BY <1>2, <1>3 DEF View!NewFound
<1> QED BY <1>4, SameFoundView, SameLabels

LEMMA MovingAddress ==
  ASSUME DebugInv, Moving, Unbroken, prompt = "run"
  PROVE  AddressComes'
<1> SUFFICES ASSUME break_pc # NULL, pc' # "exit", NEW h \in Found(anchor', break_pc)
             PROVE  Decoding' /\ h >= dest'
  BY DEF AddressComes, Unbroken
<1>1. cleared' = cleared /\ pc # "exit"
  BY DEF Moving, Brk, Segv, Hit, Miss, Point, Instr, GoOn, Join, Patch, Resume
<1>2. break_pc \in Nat /\ ViewInv
  BY DEF DebugInv, SavedInv, DebugTypeOK
<1>3. \A g \in Found(anchor, break_pc) : Decoding /\ g >= dest
  BY <1>1 DEF DebugInv, StandInv, AddressComes
<1>4. h \in Found(anchor, break_pc) \/ (h >= dest' /\ (pc = "resolve" \/ Decoding))
  BY <1>1, <1>2, MovingView, ViewFound
<1>5. CASE Decoding
  <2>1. Decoding' /\ dest' = dest
    BY <1>5 DEF Decoding, Moving, Brk, Segv, Hit, Miss, Point, Instr, GoOn, Join, Patch, Resume, Continue
  <2> QED BY <1>3, <1>4, <2>1
<1>6. CASE ~ Decoding
  <2>1. h >= dest' /\ pc = "resolve"
    BY <1>3, <1>4, <1>6
  <2>2. Hit \/ Miss
    BY <2>1 DEF Moving, Brk, Segv, Point, Instr, GoOn, Join, Patch, Resume
  <2>3. ~ Hit
    BY <1>3, <1>6 DEF Hit
  <2>4. Decoding'
    BY <2>2, <2>3 DEF Miss, Continue, Decoding
  <2> QED BY <2>1, <2>4
<1> QED BY <1>5, <1>6

-----------------------------------------------------------------------------
(* cache_clear comes before the debugger.                                  *)
LEMMA ClearDebug ==
  ASSUME DebugInv, Clear, UNCHANGED debug
  PROVE  View!Next /\ Plain!Next /\ StandInv'
<1>1. ~ enabled /\ Disabled /\ spoilt = {}
  BY DEF DebugInv, SavedInv, StandInv, InPlace, CodeIntact, Clear
<1>2. sites' = {} /\ Undone' = {}
  BY <1>1 DEF Clear, debug, Disabled, Undone
<1>3. View!Clear /\ Plain!Clear
  BY <1>2, ClearView
<1>4. StandInv'
  BY <1>1, <1>2 DEF StandInv, InPlace, BlockComes, AddressComes, CodeIntact, Disabled, debug, Clear
<1> QED BY <1>3, <1>4 DEF View!Next, Plain!Next

(* A breakpoint is set where none is.                                      *)
LEMMA SetStand ==
  ASSUME NEW h \in Nat, set_bp(h), traps = {}, spoilt' = {}, prompt' = "run",
         pc' # "exit" => h < View!Edge',
         pc' \notin {"idle", "exit"} /\ site' # NULL => h # site'.hp
  PROVE  StandInv'
<1>1. /\ prev_instr' = SitesAt(h) /\ prev_instrp' = h /\ sites' = sites \ SitesAt(h)
      /\ traps' = {h} /\ break_block' = NULL /\ break_pc' = NULL
  BY DEF set_bp, WordAt
<1>2. \A s \in prev_instr' : s.hp = h
  BY <1>1 DEF SitesAt
<1>3. \A s \in sites' : s.hp \notin traps'
  BY <1>1 DEF SitesAt
<1> QED BY <1>1, <1>2, <1>3 DEF StandInv, InPlace, BlockComes, AddressComes, CodeIntact

LEMMA SetUndone ==
  ASSUME NEW h \in Nat, set_bp(h), traps = {}, sites \subseteq Sites
  PROVE  Undone' = Undone
<1>1. /\ prev_instr' = SitesAt(h) /\ prev_instrp' = h /\ sites' = sites \ SitesAt(h)
      /\ traps' = {h}
  BY DEF set_bp, WordAt
<1>2. SitesAt(h) \subseteq sites /\ NULL \notin SitesAt(h)
  BY NullAssumption DEF SitesAt
<1> QED BY <1>1, <1>2 DEF Undone

LEMMA ViewSteps == [View!Next]_View!vars /\ DebugInv /\ SavedInv' /\ StandInv' => DebugInv'
BY ViewNext DEF DebugInv

(* The end of decode().                                                    *)
LEMMA EndDebug ==
  ASSUME DebugInv, EndAndCheck, prompt = "run"
  PROVE  View!Next /\ Plain!Next /\ DebugInv'
<1> DEFINE m == cache_block_end(Machine)
<1>1. /\ pc = "end" /\ Continue(m, "finish") /\ pc' \in {"finish", "exit"}
      /\ anchor' = m.a /\ (pc' # "exit" => Running(m)) /\ (Running(m) => pc' = "finish")
      /\ UNCHANGED <<guest, site, goal, dest, links, code, cleared, enabled, prompt, at, sc, spoilt>>
  BY DEF EndAndCheck, Continue
<1>2. \/ /\ enabled /\ Running(m) /\ debug_check_break(m.a, break_block, break_pc)
      \/ /\ ~ (enabled /\ Running(m))
         /\ UNCHANGED <<sites, prev_instrp, prev_instr, traps, break_block, break_pc>>
  BY DEF EndAndCheck
<1> HIDE DEF m
<1>3. SavedInv'
  BY EndSaved DEF DebugInv
<1>4. /\ SavedInv /\ DebugTypeOK /\ SavedValid /\ OneBreakpoint /\ InPlace /\ BlockComes
      /\ AddressComes /\ ViewInv /\ sites \subseteq Sites /\ (~ enabled => Disabled)
  BY DEF DebugInv, SavedInv, StandInv, SafeInv, TypeOK
<1>5. anchor' \in Anchors /\ (pc' # "exit" => anchor'.blocks # << >>)
  <2>1. SafeInv'
    BY <1>3 DEF SavedInv
  <2>2. anchor' \in Anchors
    BY <2>1 DEF SafeInv, TypeOK
  <2>3. Machine \in Machines /\ Machine.a = anchor /\ Machine.c = context
    BY MachineType DEF DebugInv, SavedInv, SafeInv
  <2>4. Running(Machine) /\ AnchorInv(Machine.a) /\ Building(Machine)
    BY <1>1, <2>3 DEF DebugInv, SavedInv, SafeInv, CacheShape, Decoding, Open
  <2>5. Ended(Machine, m)
    BY <2>3, <2>4, EndType DEF m
  <2>6. Len(anchor'.blocks) = Len(anchor.blocks) /\ Len(anchor.blocks) # 0
    <3>1. Len(anchor'.blocks) = Len(anchor.blocks)
      BY <1>1, <2>3, <2>5 DEF Ended
    <3>2. context.block \in 1 .. Len(anchor.blocks) /\ anchor.blocks \in Seq(Blocks)
      BY <2>3, <2>4, Fields DEF Building
    <3> QED BY <3>1, <3>2
  <2> QED BY <2>2, <2>6
<1>6. ASSUME UNCHANGED <<sites, prev_instrp, prev_instr, traps>>
      PROVE  View!End /\ Plain!End /\ InPlace'
  <2>1. Undone' = Undone
    BY <1>6 DEF Undone
  <2>2. View!End /\ Plain!End
    BY <1>1, <2>1, EndView DEF m
  <2>3. View!Edge \in Nat /\ (pc' # "exit" => View!Edge' \in Nat /\ View!Edge <= View!Edge')
    <3>1. View!Next /\ ~ View!Clear
      BY <1>1, <2>2 DEF View!Next, View!Handler, View!Clear
    <3> QED BY <1>4, <3>1, ViewParameters, CacheAssumption, View!EdgeGrows DEF ViewInv
  <2>4. prev_instrp # NULL /\ pc' # "exit" => prev_instrp < View!Edge'
    BY <1>1, <1>4, <2>3 DEF InPlace, DebugTypeOK
  <2> QED BY <1>1, <1>4, <1>6, <2>2, <2>4 DEF InPlace, CodeIntact
<1>7. CASE ~ (enabled /\ Running(m))
  <2>1. UNCHANGED <<sites, prev_instrp, prev_instr, traps, break_block, break_pc>>
    BY <1>2, <1>7
  <2>2. View!End /\ Plain!End /\ InPlace'
    BY <1>6, <2>1
  <2>3. BlockComes'
    BY <1>1, <1>4, <1>7, <2>1 DEF BlockComes, FirstBlock, Disabled
  <2>4. AddressComes'
    BY <1>1, <1>4, <1>7, <2>1 DEF AddressComes, Disabled
  <2> QED
    BY <1>3, <2>2, <2>3, <2>4, ViewSteps DEF StandInv, View!Next, View!Handler, Plain!Next, Plain!Handler
<1>8. CASE enabled /\ Running(m)
  <2>1. PICK h \in BreakAt(anchor', break_block, break_pc) :
          IF h # NULL THEN set_bp(h)
          ELSE /\ break_block' = break_block /\ break_pc' = break_pc
               /\ UNCHANGED <<sites, prev_instrp, prev_instr, traps>>
    BY <1>1, <1>2, <1>8 DEF debug_check_break
  <2>2. pc' = "finish"
    BY <1>1, <1>8
  <2>3. break_block # NULL => break_block = 1 /\ site = NULL /\ break_block <= Len(anchor'.blocks)
    <3>1. break_block # NULL => FirstBlock
      BY <1>4 DEF BlockComes
    <3>2. Len(anchor'.blocks) \in Nat /\ Len(anchor'.blocks) # 0
      BY <1>5, <2>2 DEF Anchors
    <3> QED BY <1>1, <3>1, <3>2 DEF FirstBlock
  <2>4. CASE h = NULL
    <3>1. break_block' = break_block /\ break_pc' = break_pc
          /\ UNCHANGED <<sites, prev_instrp, prev_instr, traps>>
      BY <2>1, <2>4
    <3>2. View!End /\ Plain!End /\ InPlace'
      BY <1>6, <3>1
    <3>3. break_block = NULL
      <4> SUFFICES ASSUME break_block # NULL PROVE FALSE
        OBVIOUS
      <4>1. break_block \in 1 .. Len(anchor'.blocks)
        BY <1>5, <2>3 DEF Anchors
      <4>2. anchor'.blocks[break_block] \in Blocks
        BY <1>5, <4>1 DEF Anchors
      <4>3. anchor'.blocks[break_block].hp \in Nat
        BY <4>2, BlockFields
      <4> QED BY <2>1, <2>3, <2>4, <4>3, CacheAssumption DEF BreakAt
    <3>4. break_pc = NULL \/ Found(anchor', break_pc) = {}
      <4> SUFFICES ASSUME break_pc # NULL, Found(anchor', break_pc) # {} PROVE FALSE
        OBVIOUS
      <4>1. NULL \in Found(anchor', break_pc)
        BY <2>1, <2>4, <3>3 DEF BreakAt, cache_search
      <4>2. break_pc \in Nat /\ InBounds(anchor')
        BY <1>3, <1>4 DEF DebugTypeOK, SavedInv, SafeInv, CacheShape, AnchorInv
      <4> QED BY <1>5, <4>1, <4>2, FoundType, CacheAssumption
    <3>5. BlockComes' /\ AddressComes'
      BY <3>1, <3>3, <3>4 DEF BlockComes, AddressComes
    <3> QED
      BY <1>3, <3>2, <3>5, ViewSteps DEF StandInv, View!Next, View!Handler, Plain!Next, Plain!Handler
  <2>5. CASE h # NULL
    <3>1. set_bp(h) /\ traps = {}
      <4>1. break_block # NULL \/ break_pc # NULL
        BY <2>1, <2>5 DEF BreakAt
      <4> QED BY <1>4, <2>1, <2>5, <4>1 DEF OneBreakpoint
    <3>2. prev_instrp' = h /\ h \in Nat
      <4>1. prev_instrp' = h
        BY <3>1 DEF set_bp
      <4> QED BY <1>3, <2>5, <4>1 DEF SavedInv, DebugTypeOK
    <3>3. Undone' = Undone
      BY <1>4, <3>1, <3>2, SetUndone
    <3>4. View!End /\ Plain!End
      BY <1>1, <3>3, EndView DEF m
    <3>5. View!Next
      BY <3>4 DEF View!Next, View!Handler
    <3>6. ViewInv'
      BY <1>4, <3>5, ViewNext
    <3>7. h < View!Edge'
      <4>1. BreakBelow'
        BY <1>5, <2>2, <3>6, BreakPlaceNext
      <4> QED BY <1>4, <2>1, <2>5, <4>1 DEF BreakBelow, DebugTypeOK
    <3>8. site' # NULL => h # site'.hp
      <4> SUFFICES ASSUME site # NULL PROVE h # site.hp
        BY <1>1
      <4>1. break_block = NULL
        BY <2>3
      <4>2. break_pc \in Nat /\ h \in Found(anchor', break_pc)
        BY <1>4, <2>1, <2>5, <4>1 DEF BreakAt, cache_search, DebugTypeOK
      <4>3. h \in Found(anchor, break_pc) \/ h >= dest'
        BY <1>1, <1>4, <3>5, <4>2, ViewFound
      <4>4. h >= dest
        BY <1>1, <1>4, <4>2, <4>3, CacheAssumption DEF AddressComes
      <4>5. site.hp < dest
        BY <1>1, <1>4, SameLabels DEF ViewInv, View!PlaceInv, Decoding
      <4>6. dest \in Nat /\ site.hp \in Nat
        BY <1>4 DEF SavedInv, SafeInv, TypeOK, Sites
      <4> QED BY <3>2, <4>4, <4>5, <4>6
    <3>9. spoilt' = {}
      BY <1>1, <1>4 DEF InPlace, CodeIntact
    <3>10. StandInv'
      BY <1>1, <3>1, <3>2, <3>7, <3>8, <3>9, SetStand
    <3> QED
      BY <1>3, <3>4, <3>5, <3>10, ViewSteps DEF Plain!Next, Plain!Handler
  <2> QED BY <2>4, <2>5
<1> QED BY <1>7, <1>8

-----------------------------------------------------------------------------
(* Outside the translator nothing but words, and the prompt, change.       *)
LEMMA StillView ==
  ASSUME Still, Undone' = Undone
  PROVE  UNCHANGED View!vars /\ UNCHANGED Plain!vars
BY DEF Still, View!vars, Plain!vars

LEMMA StillEdge ==
  ASSUME Still
  PROVE  View!Edge' = View!Edge /\ (Decoding' <=> Decoding)
BY DEF Still, View!Edge, View!Decoding, Decoding

(* A stop puts the saved word back where it was.                           *)
LEMMA WaitDebug ==
  ASSUME DebugInv, NEW h \in Nat \cup {NULL}, debug_wait(h), enabled, Executing
  PROVE  UNCHANGED View!vars /\ UNCHANGED Plain!vars /\ DebugInv'
<1>1. SavedInv'
  BY WaitSaved DEF DebugInv
<1>2. /\ Restore /\ Still /\ prompt' = "ask" /\ prompt = "run" /\ pc = "idle"
      /\ UNCHANGED <<prev_instr, break_block, break_pc>>
  BY DEF debug_wait, Still, Executing
<1>3. /\ OneBreakpoint /\ InPlace /\ BlockComes /\ NULL \notin prev_instr /\ NULL \notin traps
  BY NotNull, CacheAssumption DEF DebugInv, SavedInv, StandInv, DebugTypeOK
<1>4. traps' = {} /\ prev_instrp' = NULL /\ spoilt' = {} /\ sites' = Undone
  <2>1. CASE prev_instrp = NULL
    BY <1>2, <1>3, <2>1 DEF Restore, OneBreakpoint, InPlace, CodeIntact, Undone
  <2>2. CASE prev_instrp # NULL
    <3>1. /\ traps' = (traps \ {prev_instrp}) \cup {g \in {prev_instrp} : NULL \in prev_instr}
          /\ sites' = {s \in sites : s.hp # prev_instrp} \cup (prev_instr \ {NULL})
          /\ spoilt' = IF prev_instrp \in traps THEN spoilt ELSE spoilt \cup {prev_instrp}
          /\ prev_instrp' = NULL
      BY <1>2, <2>2 DEF Restore
    <3>2. prev_instrp \in traps /\ {s \in sites : s.hp # prev_instrp} = sites
      BY <1>3, <2>2 DEF InPlace
    <3>3. traps' = {} /\ spoilt' = {}
      BY <1>3, <3>1, <3>2 DEF OneBreakpoint, InPlace, CodeIntact
    <3>4. sites' = Undone
      BY <3>1, <3>2 DEF Undone
    <3> QED BY <3>1, <3>3, <3>4
  <2> QED BY <2>1, <2>2
<1>5. Undone' = Undone
  BY <1>4 DEF Undone
<1>6. UNCHANGED View!vars /\ UNCHANGED Plain!vars
  BY <1>2, <1>5, StillView
<1>7. InPlace' /\ AddressComes'
  BY <1>2, <1>4 DEF InPlace, AddressComes, CodeIntact, Still
<1>8. BlockComes'
  BY <1>2, <1>3 DEF BlockComes, FirstBlock, Still
<1> QED BY <1>1, <1>6, <1>7, <1>8, ViewSteps DEF StandInv

(* Commands that set no breakpoint, signals, and debug_enable.             *)
LEMMA AskDebug ==
  ASSUME DebugInv, Careful,
         \/ InterruptExit \/ PrintFails \/ NextInstrDies \/ Exit
         \/ \E i \in 1 .. MaxBlocks : BreakBlock(i)
         \/ \E gp \in DOMAIN guest : BreakAddress(gp)
  PROVE  UNCHANGED View!vars /\ UNCHANGED Plain!vars /\ DebugInv'
<1>1. SavedInv'
  BY AskSaved DEF DebugInv
<1>2. /\ Still /\ UNCHANGED <<sites, prev_instrp, prev_instr, traps, spoilt>>
      /\ prompt' \in {prompt, "gone"} /\ (prompt' = "run" => FALSE)
  BY DEF InterruptExit, PrintFails, NextInstrDies, Exit, BreakBlock, BreakAddress, Still, vars, Asked
<1>3. Undone' = Undone
  BY <1>2 DEF Undone
<1>4. UNCHANGED View!vars /\ UNCHANGED Plain!vars
  BY <1>2, <1>3, StillView
<1>5. InPlace'
  BY <1>2, StillEdge DEF DebugInv, StandInv, InPlace, CodeIntact, Still
<1>6. AddressComes'
  BY <1>2 DEF AddressComes
<1>7. BlockComes'
  <2>1. CASE \E i \in 1 .. MaxBlocks : BreakBlock(i)
    BY <2>1 DEF BreakBlock, Asked, BlockComes, vars
  <2>2. CASE \E gp \in DOMAIN guest : BreakAddress(gp)
    BY <2>2 DEF BreakAddress, BlockComes, FirstBlock, DebugInv, StandInv, vars
  <2>3. CASE PrintFails
    BY <2>3 DEF PrintFails, BlockComes, FirstBlock, DebugInv, StandInv, vars
  <2>4. CASE InterruptExit \/ NextInstrDies \/ Exit
    BY <2>4 DEF InterruptExit, NextInstrDies, Exit, BlockComes
  <2> QED BY <2>1, <2>2, <2>3, <2>4
<1> QED BY <1>1, <1>4, <1>5, <1>6, <1>7, ViewSteps DEF StandInv

LEMMA EnableDebug ==
  ASSUME DebugInv, debug_enable
  PROVE  UNCHANGED View!vars /\ UNCHANGED Plain!vars /\ DebugInv'
<1>1. SavedInv' /\ Disabled
  BY EnableSaved DEF DebugInv, SavedInv, debug_enable
<1>2. /\ Still /\ UNCHANGED <<sites, prompt, prev_instrp, prev_instr, break_pc, traps, spoilt>>
      /\ break_block' = 1 /\ pc = "idle" /\ code = {}
  BY DEF debug_enable, Still, vars
<1>3. Undone' = Undone
  BY <1>2 DEF Undone
<1>4. UNCHANGED View!vars /\ UNCHANGED Plain!vars
  BY <1>2, <1>3, StillView
<1>5. InPlace' /\ BlockComes' /\ AddressComes'
  BY <1>1, <1>2 DEF DebugInv, StandInv, InPlace, BlockComes, FirstBlock, AddressComes, CodeIntact,
                    Disabled, Still
<1> QED BY <1>1, <1>4, <1>5, ViewSteps DEF StandInv

(* The commands that go on.                                                *)
LEMMA SetDebug ==
  ASSUME DebugInv, SavedInv', Asked, NEW h \in Nat, h < View!Edge, set_bp(h), Still,
         prompt' = "run", UNCHANGED spoilt
  PROVE  UNCHANGED View!vars /\ UNCHANGED Plain!vars /\ DebugInv'
<1>1. /\ SavedInv /\ DebugTypeOK /\ SavedValid /\ sites \subseteq Sites /\ traps = {} /\ spoilt = {}
      /\ pc = "idle"
  BY DEF DebugInv, SavedInv, SafeInv, TypeOK, Asked, StandInv, InPlace, CodeIntact
<1>2. Undone' = Undone
  BY <1>1, SetUndone
<1>3. UNCHANGED View!vars /\ UNCHANGED Plain!vars
  BY <1>2, StillView
<1>4. h < View!Edge' /\ pc' = "idle"
  BY <1>1, StillEdge DEF Still
<1>5. StandInv'
  BY <1>1, <1>4, SetStand
<1> QED BY <1>3, <1>5, ViewSteps

LEMMA ReturnDebug ==
  ASSUME DebugInv, SavedInv', NEW block \in (Nat \ {0}) \cup {NULL}, Return(block, break_pc),
         block = NULL \/ block <= Len(anchor.blocks) \/ (block = break_block /\ FirstBlock)
  PROVE  UNCHANGED View!vars /\ UNCHANGED Plain!vars /\ DebugInv'
<1>1. /\ Asked /\ debug_check_break(anchor, block, break_pc) /\ Still
      /\ prompt' = "run" /\ UNCHANGED spoilt /\ pc = "idle"
  BY DEF Return, Still, Asked, DebugInv, StandInv, InPlace
<1>2. PICK h \in BreakAt(anchor, block, break_pc) :
        IF h # NULL THEN set_bp(h)
        ELSE /\ break_block' = block /\ break_pc' = break_pc
             /\ UNCHANGED <<sites, prev_instrp, prev_instr, traps>>
  BY <1>1 DEF debug_check_break
<1>3. break_pc \in Nat \cup {NULL} /\ anchor \in Anchors /\ InBounds(anchor)
  BY DEF DebugInv, SavedInv, DebugTypeOK, SafeInv, TypeOK, CacheShape, AnchorInv
<1>4. CASE h # NULL
  <2>1. BreakBelow
    BY <1>1, <1>3, BreakPlace DEF DebugInv
  <2>2. h \in Nat /\ h < View!Edge /\ set_bp(h)
    BY <1>2, <1>3, <1>4, <2>1 DEF BreakBelow
  <2> QED BY <1>1, <2>2, SetDebug
<1>5. CASE h = NULL
  <2>1. break_block' = block /\ break_pc' = break_pc
        /\ UNCHANGED <<sites, prev_instrp, prev_instr, traps>>
    BY <1>2, <1>5
  <2>2. Undone' = Undone
    BY <2>1 DEF Undone
  <2>3. UNCHANGED View!vars /\ UNCHANGED Plain!vars
    BY <1>1, <2>2, StillView
  <2>4. ~ (block # NULL /\ block <= Len(anchor.blocks))
    <3> SUFFICES ASSUME block # NULL, block <= Len(anchor.blocks) PROVE FALSE
      OBVIOUS
    <3>1. block \in 1 .. Len(anchor.blocks)
      BY <1>3 DEF Anchors
    <3>2. anchor.blocks[block] \in Blocks
      BY <1>3, <3>1 DEF Anchors
    <3>3. anchor.blocks[block].hp \in Nat
      BY <3>2, BlockFields
    <3> QED BY <1>2, <1>5, <3>3, CacheAssumption DEF BreakAt
  <2>5. BlockComes'
    BY <1>1, <2>1, <2>4 DEF BlockComes, FirstBlock, Still
  <2>6. break_pc = NULL \/ Found(anchor, break_pc) = {}
    <3> SUFFICES ASSUME break_pc # NULL, Found(anchor, break_pc) # {} PROVE FALSE
      OBVIOUS
    <3>1. NULL \in Found(anchor, break_pc)
      BY <1>2, <1>5, <2>4 DEF BreakAt, cache_search
    <3> QED BY <1>3, <3>1, FoundType, CacheAssumption
  <2>7. AddressComes'
    BY <1>1, <2>1, <2>6 DEF AddressComes, Still
  <2>8. InPlace'
    BY <1>1, <2>1, StillEdge DEF DebugInv, StandInv, InPlace, CodeIntact, Still
  <2> QED BY <2>3, <2>5, <2>7, <2>8, ViewSteps DEF StandInv
<1> QED BY <1>4, <1>5

LEMMA GoDebug ==
  ASSUME DebugInv, Careful, Run \/ NextBlock \/ NextInstr
  PROVE  UNCHANGED View!vars /\ UNCHANGED Plain!vars /\ DebugInv'
<1>1. SavedInv'
  BY RunSaved, StepSaved DEF DebugInv
<1>2. CASE Run
  <2>1. break_block \in (Nat \ {0}) \cup {NULL} /\ Return(break_block, break_pc) /\ prompt = "ask"
    BY <1>2 DEF Run, Return, Asked, DebugInv, SavedInv, DebugTypeOK
  <2>2. break_block = NULL \/ break_block <= Len(anchor.blocks) \/ FirstBlock
    BY <2>1 DEF DebugInv, StandInv, BlockComes
  <2> QED BY <1>1, <2>1, <2>2, ReturnDebug
<1>3. CASE NextBlock
  <2> DEFINE next == IF current_block = NULL THEN 1 ELSE current_block + 1
  <2>1. next <= Len(anchor.blocks) /\ Return(next, break_pc)
    BY <1>3 DEF NextBlock
  <2>2. next \in Nat \ {0}
    <3>1. current_block \in (Nat \ {0}) \cup {NULL}
      BY BlockNumber DEF current_block, DebugInv, SavedInv, DebugTypeOK
    <3>2. current_block # NULL => current_block + 1 \in Nat \ {0}
      BY <3>1
    <3> QED BY <3>2
  <2> HIDE DEF next
  <2> QED BY <1>1, <2>1, <2>2, ReturnDebug
<1>4. CASE NextInstr
  <2>1. /\ Asked /\ current_block # NULL /\ at + 1 < anchor.host_p /\ set_bp(at + 1) /\ Still
        /\ prompt' = "run" /\ UNCHANGED spoilt
    BY <1>4 DEF NextInstr, Still
  <2>2. at + 1 \in Nat
    BY <2>1 DEF current_block, cache_search_block, DebugInv, SavedInv, DebugTypeOK
  <2>3. at + 1 < View!Edge
    BY <2>1, SameLabels DEF Asked, DebugInv, StandInv, InPlace, Decoding
  <2> QED BY <1>1, <2>1, <2>2, <2>3, SetDebug
<1> QED BY <1>2, <1>3, <1>4

-----------------------------------------------------------------------------
LEMMA DebugStep ==
  ASSUME Careful, DebugInv, [DebugNext]_dvars
  PROVE  DebugInv' /\ [Plain!Next]_Plain!vars
<1>1. SavedInv'
  BY SavedStep DEF DebugInv
<1>2. CASE Translate
  <2>1. prompt = "run"
    BY <1>2 DEF Translate
  <2>2. CASE EndAndCheck
    BY <2>1, <2>2, EndDebug
  <2>3. CASE Quiet /\ Clear
    BY <1>1, <2>3, ClearDebug, ViewSteps DEF Quiet
  <2>4. CASE (Quiet \/ Emits \/ Patches) /\ ~ Clear
    <3>1. Moving /\ Unbroken
      BY <2>4, TrapStays
    <3>2. View!Next /\ Plain!Next
      BY <3>1, MovingView
    <3>3. StandInv'
      BY <2>1, <3>1, MovingPlace, MovingFirst, MovingAddress DEF StandInv
    <3> QED BY <1>1, <3>2, <3>3, ViewSteps
  <2>5. Clear => ~ Emits /\ ~ Patches
    BY DEF Clear, Emits, Patches, Instr, Join, Patch
  <2> QED BY <1>2, <2>2, <2>3, <2>4, <2>5 DEF Translate
<1>3. CASE debug_enable
  BY <1>3, EnableDebug
<1>4. CASE \E h \in traps : Breakpoint(h)
  <2>1. PICK h \in traps : Breakpoint(h)
    BY <1>4
  <2>2. h \in Nat /\ enabled
    BY <2>1 DEF DebugInv, SavedInv, DebugTypeOK, Disabled
  <2> QED BY <2>1, <2>2, WaitDebug DEF Breakpoint
<1>5. CASE \E h \in 0 .. anchor.host_p - 1 \cup {NULL} : Interrupt(h)
  <2>1. PICK h \in 0 .. anchor.host_p - 1 \cup {NULL} : Interrupt(h)
    BY <1>5
  <2>2. anchor.host_p \in Nat
    BY DEF DebugInv, SavedInv, SafeInv, TypeOK, Anchors
  <2>3. h \in Nat \cup {NULL}
    BY <2>1, <2>2
  <2> QED BY <2>1, <2>3, WaitDebug DEF Interrupt
<1>6. CASE InterruptExit
  BY <1>6, AskDebug
<1>7. CASE Command
  BY <1>7, AskDebug, GoDebug DEF Command
<1>8. CASE UNCHANGED dvars
  <2>1. UNCHANGED vars /\ UNCHANGED debug
    BY <1>8 DEF dvars
  <2>2. Still /\ Undone' = Undone
    BY <2>1 DEF vars, debug, Still, Undone
  <2>3. UNCHANGED View!vars /\ UNCHANGED Plain!vars
    BY <2>2, StillView
  <2>4. StandInv'
    BY <2>1, <2>2, StillEdge
       DEF DebugInv, StandInv, InPlace, BlockComes, FirstBlock, AddressComes, CodeIntact, Still,
           vars, debug
  <2> QED BY <1>1, <2>3, <2>4, ViewSteps
<1> QED
  BY <1>2, <1>3, <1>4, <1>5, <1>6, <1>7, <1>8 DEF DebugNext

THEOREM DebugInvariant ==
  ASSUME Careful
  PROVE  DebugSpec => []DebugInv
<1>1. DebugInv /\ [DebugNext]_dvars => DebugInv'
  BY DebugStep
<1> QED BY <1>1, InitDebug, PTL DEF DebugSpec

(***************************************************************************)
(* Stepping leaves the program as it is: whatever a user who names blocks  *)
(* that exist asks for, and whatever is translated and patched meanwhile,  *)
(* a saved word is written back only where the translator left it alone.   *)
(***************************************************************************)
THEOREM CodeStaysIntact ==
  ASSUME Careful
  PROVE  DebugSpec => []CodeIntact
<1>1. DebugInv => CodeIntact
  BY DEF DebugInv, StandInv, InPlace
<1> QED BY <1>1, DebugInvariant, PTL

(***************************************************************************)
(* With the breakpoint taken away the process under the debugger is the    *)
(* translator without one, step for step.                                  *)
(***************************************************************************)
THEOREM DebuggerTransparent ==
  ASSUME Careful
  PROVE  DebugSpec => Transparent
<1>1. DebugInit => Plain!Init
  <2> SUFFICES ASSUME DebugInit PROVE Plain!Init
    OBVIOUS
  <2>1. Undone = {}
    BY DEF DebugInit, Init, Undone
  <2> QED BY <2>1, SameClear DEF DebugInit, Init, Plain!Init
<1>2. DebugInv /\ [DebugNext]_dvars => [Plain!Next]_Plain!vars
  BY DebugStep
<1> QED BY <1>1, <1>2, DebugInvariant, PTL DEF DebugSpec, Transparent, Plain!Spec

(***************************************************************************)
(* So what is proved of the translator holds under the debugger, of the    *)
(* words as they would be without the breakpoint: every branch leads to    *)
(* the translation of its target, and every live BRK word has its record.  *)
(***************************************************************************)
THEOREM TranslatorUnderDebugger ==
  ASSUME Careful
  PROVE  DebugSpec => [](View!LinksFaithful /\ View!EntriesFaithful /\ View!PatchIds)
<1>1. DebugInv => View!LinksFaithful /\ View!EntriesFaithful /\ View!PatchIds
  BY DEF DebugInv, ViewInv, View!IdsInv, View!FaithInv, View!EntriesFaithful, View!Claims, View!Machine
<1> QED BY <1>1, DebugInvariant, PTL
=============================================================================
