------------------------------ MODULE Debugger ------------------------------
(***************************************************************************)
(* The debugger (src/src/debugger.c) inside the running translator.  It    *)
(* stops translated code by a BRK 0 written over one of its words and      *)
(* keeps the word that stood there; the translator works on the same       *)
(* words meanwhile: decode() appends code, brk_handler patches branches,   *)
(* insertions renumber the blocks that the user names by number.           *)
(*                                                                         *)
(* Only the handler that asks the user is here an own step: between two    *)
(* commands nothing else runs.  A SIGINT reaches the process while it runs *)
(* translated code or a library; one that interrupts a handler is left out.*)
(***************************************************************************)
EXTENDS Translator, FiniteSets

CONSTANT
  Careful  (* the user names blocks that exist (by sb too, so not in the   *)
           (* newest one), and steps only where the host code goes on      *)
           (* behind the present word                                      *)

ASSUME CarefulAssumption == Careful \in BOOLEAN

VARIABLES
  enabled,      (* debug_enable was called                                 *)
  prompt,       (* "run", "ask" (in debug_wait) or "gone" (_exit)          *)
  at,           (* in debug_wait, the interrupted word; NULL if that is not *)
                (* one of translated code, and outside debug_wait          *)
  sc,           (* in debug_wait, where sc points: to the frame of this    *)
                (* signal, or to the dead one of a signal within it        *)
  prev_instrp,  (* the word under the breakpoint; NULL if there is none    *)
  prev_instr,   (* what stood there, as WordAt tells                       *)
  break_block,  (* the block to stop in; NULL for UINT32_MAX               *)
  break_pc,     (* the guest address to stop at; NULL for UINT64_MAX       *)
  traps,        (* the BRK 0 words in host memory                          *)
  spoilt        (* the words of code that hold something else than the     *)
                (* translator, or a breakpoint, wrote there last           *)

debug == <<enabled, prompt, at, sc, prev_instrp, prev_instr, break_block,
           break_pc, traps, spoilt>>
dvars == <<vars, debug>>

DebugInit ==
  /\ Init
  /\ enabled = FALSE /\ prompt = "run" /\ at = NULL /\ sc = "own"
  /\ prev_instrp = NULL /\ prev_instr = {}
  /\ break_block = NULL /\ break_pc = NULL
  /\ traps = {} /\ spoilt = {}

-----------------------------------------------------------------------------
(***************************************************************************)
(* The breakpoint.                                                         *)
(***************************************************************************)

SitesAt(h) == {s \in sites : s.hp = h}

(* What is kept of the word at h: that it is a BRK site, or a BRK 0 (NULL),*)
(* or nothing, for all other words.                                        *)
WordAt(h) == IF h \in traps THEN {NULL} ELSE SitesAt(h)

set_bp_pending(h) ==
  /\ prev_instr' = WordAt(h)
  /\ prev_instrp' = h
  /\ sites' = sites \ SitesAt(h)
  /\ traps' = traps \cup {h}
  /\ break_pc' = NULL
  /\ UNCHANGED break_block

(* set_bp saves the word and forgets what was asked for.                    *)
set_bp(h) ==
  /\ prev_instr' = WordAt(h)
  /\ prev_instrp' = h
  /\ sites' = sites \ SitesAt(h)
  /\ traps' = traps \cup {h}
  /\ break_block' = NULL
  /\ break_pc' = NULL

(* Where debug_check_break puts one: the block goes first, and setting it  *)
(* forgets the address.                                                    *)
BreakAt(a, block, gp) ==
  IF block # NULL /\ block <= Len(a.blocks) THEN {a.blocks[block].hp}
  ELSE IF gp = NULL THEN {NULL} ELSE cache_search(a, gp)

debug_check_break_anywhere(a, block, gp) == \E h \in BreakAt(a, block, gp) : set_bp(h)

debug_check_break(a, block, gp) ==
  \E h \in BreakAt(a, block, gp) :
    IF h # NULL THEN set_bp(h)
    ELSE /\ break_block' = block
         /\ break_pc' = gp
         /\ UNCHANGED <<sites, prev_instrp, prev_instr, traps>>

(* debug_enable: main calls it when the initialisers have run and their    *)
(* translations are cleared; the first block is to stop in.                *)
debug_enable ==
  /\ pc = "idle" /\ cleared /\ code = {} /\ ~ enabled
  /\ enabled' = TRUE
  /\ break_block' = 1
  /\ UNCHANGED <<vars, prompt, at, sc, prev_instrp, prev_instr, break_pc, traps, spoilt>>

-----------------------------------------------------------------------------
(***************************************************************************)
(* debug_wait, up to the prompt: the saved word goes back.  It is the      *)
(* right word if the BRK 0 still stands there.                             *)
(***************************************************************************)
Restore_forgets ==
  /\ traps' = traps \ {prev_instrp}
  /\ prev_instrp' = NULL
  /\ UNCHANGED <<sites, spoilt>>

Restore_again ==
  IF prev_instrp = NULL THEN UNCHANGED <<sites, traps, spoilt, prev_instrp>>
  ELSE /\ traps' = traps \ {prev_instrp}
       /\ sites' = {s \in sites : s.hp # prev_instrp} \cup (prev_instr \ {NULL})
       /\ spoilt' = IF prev_instrp \in traps THEN spoilt ELSE spoilt \cup {prev_instrp}
       /\ UNCHANGED prev_instrp

Restore ==
  IF prev_instrp = NULL THEN UNCHANGED <<sites, traps, spoilt, prev_instrp>>
  ELSE /\ traps' = (traps \ {prev_instrp})
                     \cup {h \in {prev_instrp} : NULL \in prev_instr}
       /\ sites' = {s \in sites : s.hp # prev_instrp} \cup (prev_instr \ {NULL})
       /\ spoilt' = IF prev_instrp \in traps THEN spoilt ELSE spoilt \cup {prev_instrp}
       /\ prev_instrp' = NULL

debug_wait(h) ==
  /\ Restore
  /\ at' = h
  /\ sc' = "own"
  /\ prompt' = "ask"
  /\ UNCHANGED <<guest, anchor, context, pc, site, goal, dest, links, code,
                 cleared, enabled, prev_instr, break_block, break_pc>>

Executing == prompt = "run" /\ pc = "idle"

(* brk_handler, id 0: a breakpoint is reached.                             *)
Breakpoint(h) == Executing /\ h \in traps /\ debug_wait(h)

(* segi_handler: the user interrupts translated code, or a library.        *)
Interrupt(h) == Executing /\ enabled /\ debug_wait(h)

InterruptExit ==
  /\ Executing /\ ~ enabled
  /\ prompt' = "gone"
  /\ UNCHANGED <<vars, enabled, at, sc, prev_instrp, prev_instr, break_block,
                 break_pc, traps, spoilt>>

-----------------------------------------------------------------------------
(***************************************************************************)
(* The commands.  cache_search_block names the block by host address, with *)
(* the length as the block stores it; UINT32_MAX is NULL.                  *)
(***************************************************************************)
Holding(h) ==
  {i \in DOMAIN anchor.blocks :
     h \in anchor.blocks[i].hp .. anchor.blocks[i].hp + anchor.blocks[i].end - 1}

cache_search_block(h) ==
  IF h = NULL \/ Holding(h) = {} THEN NULL
  ELSE CHOOSE i \in Holding(h) : \A j \in Holding(h) : i <= j

current_block == cache_search_block(at)

Asked == prompt = "ask"

(* brb: the user names a block by number.                                  *)
BreakBlock(i) ==
  /\ Asked
  /\ Careful => i <= Len(anchor.blocks)
  /\ break_block' = i
  /\ UNCHANGED <<vars, enabled, prompt, at, sc, prev_instrp, prev_instr,
                 break_pc, traps, spoilt>>

(* brk: ... or a guest address.                                            *)
BreakAddress(gp) ==
  /\ Asked
  /\ break_pc' = gp
  /\ UNCHANGED <<vars, enabled, prompt, at, sc, prev_instrp, prev_instr,
                 break_block, traps, spoilt>>

(* print of memory that cannot be read: segv_handler steps over the access *)
(* and leaves sc on the frame of that fault.                               *)
PrintFails ==
  /\ Asked
  /\ sc' = "dead"
  /\ UNCHANGED <<vars, enabled, prompt, at, prev_instrp, prev_instr,
                 break_block, break_pc, traps, spoilt>>

(* The command ends debug_wait.                                            *)
Return(block, gp) ==
  /\ Asked
  /\ debug_check_break(anchor, block, gp)
  /\ prompt' = "run" /\ at' = NULL /\ sc' = "own"
  /\ UNCHANGED <<guest, anchor, context, pc, site, goal, dest, links, code,
                 cleared, enabled, spoilt>>

Run == Return(break_block, break_pc)

(* sb: of no block the next is block 0.                                    *)
NextBlock ==
  LET next == IF current_block = NULL THEN 1 ELSE current_block + 1
  IN  /\ Careful => next <= Len(anchor.blocks)
      /\ Return(next, break_pc)

(* si: the word after this one.  Without a block its record is read at     *)
(* address 0; through a dead frame the program counter is not one of code. *)
NextInstr ==
  /\ Asked
  /\ sc = "own" /\ current_block # NULL
  /\ Careful => at + 1 < anchor.host_p
  /\ set_bp(at + 1)
  /\ prompt' = "run" /\ at' = NULL /\ sc' = "own"
  /\ UNCHANGED <<guest, anchor, context, pc, site, goal, dest, links, code,
                 cleared, enabled, spoilt>>

NextInstrDies ==
  /\ Asked
  /\ sc = "dead" \/ current_block = NULL
  /\ prompt' = "gone"
  /\ UNCHANGED <<vars, enabled, at, sc, prev_instrp, prev_instr, break_block,
                 break_pc, traps, spoilt>>

Exit ==
  /\ Asked
  /\ prompt' = "gone"
  /\ UNCHANGED <<vars, enabled, at, sc, prev_instrp, prev_instr, break_block,
                 break_pc, traps, spoilt>>

Command ==
  \/ \E i \in 1 .. MaxBlocks : BreakBlock(i)
  \/ \E gp \in DOMAIN guest : BreakAddress(gp)
  \/ PrintFails \/ Run \/ NextBlock \/ NextInstr \/ NextInstrDies \/ Exit

-----------------------------------------------------------------------------
(***************************************************************************)
(* The translator writes words, whatever stands there.                     *)
(***************************************************************************)
Overwrite(words) ==
  /\ traps' = traps \ words
  /\ spoilt' = spoilt \ words
  /\ UNCHANGED <<enabled, prompt, at, sc, prev_instrp, prev_instr,
                 break_block, break_pc>>

Emits == (Instr \/ Join) /\ Overwrite(context.hp .. context'.hp - 1)

Patches == Patch /\ Overwrite({site.hp})

(* The end of decode(): a pending breakpoint may be there now.             *)
EndAndCheck ==
  LET m == cache_block_end(Machine)
  IN  /\ pc = "end"
      /\ Continue(m, "finish")
      /\ IF enabled /\ Running(m) THEN debug_check_break(m.a, break_block, break_pc)
         ELSE UNCHANGED <<sites, prev_instrp, prev_instr, traps, break_block, break_pc>>
      /\ UNCHANGED <<guest, site, goal, dest, links, code, cleared, enabled,
                     prompt, at, sc, spoilt>>

(* Nothing of the guest runs between cache_clear and debug_enable.         *)
Quiet ==
  /\ \/ \E s \in sites : Brk(s)
     \/ \E g \in DOMAIN guest : Segv(g)
     \/ Hit \/ Miss \/ Point \/ GoOn \/ Resume \/ Clear
  /\ UNCHANGED debug

Translate == prompt = "run" /\ (Quiet \/ Emits \/ Patches \/ EndAndCheck)

DebugNext ==
  \/ Translate
  \/ debug_enable
  \/ \E h \in traps : Breakpoint(h)
  \/ \E h \in 0 .. anchor.host_p - 1 \cup {NULL} : Interrupt(h)
  \/ InterruptExit
  \/ Command

DebugSpec == DebugInit /\ [][DebugNext]_dvars

-----------------------------------------------------------------------------
DebugTypeOK ==
  /\ enabled \in BOOLEAN
  /\ prompt \in {"run", "ask", "gone"}
  /\ at \in Nat \cup {NULL}
  /\ sc \in {"own", "dead"}
  /\ prev_instrp \in Nat \cup {NULL}
  /\ prev_instr \subseteq Sites \cup {NULL}
  /\ break_block \in (Nat \ {0}) \cup {NULL}
  /\ break_pc \in Nat \cup {NULL}
  /\ traps \subseteq Nat /\ spoilt \subseteq Nat

(***************************************************************************)
(* There is one saved word: a BRK 0 in host memory is always the one it    *)
(* belongs to, and never itself the saved word.  Otherwise the code under  *)
(* it would be gone, and translated code would stop there for ever.  A     *)
(* breakpoint asked for is pending only while none is set, although        *)
(* commands, the end of decode() and stepping all set breakpoints.         *)
(***************************************************************************)
OneBreakpoint ==
  /\ traps \subseteq {prev_instrp}
  /\ traps # {} => NULL \notin prev_instr /\ break_block = NULL /\ break_pc = NULL

(***************************************************************************)
(* "si - go to next instruction", "sb - go to next block" (help): stepping *)
(* leaves the program as it is.  Whenever a saved word is written back it  *)
(* belongs there: no word of translated code holds an older value than the *)
(* translator, or brk_handler, wrote.                                      *)
(***************************************************************************)
CodeIntact == spoilt = {}

(***************************************************************************)
(* The debugger is transparent: with the breakpoint taken away the process *)
(* is the translator as it is without a debugger, step for step; stops and *)
(* commands are no steps of it.                                            *)
(***************************************************************************)
Undone ==
  sites \cup {s \in prev_instr \ {NULL} : prev_instrp \in traps}

Plain == INSTANCE Translator WITH sites <- Undone

Transparent == Plain!Spec
=============================================================================
