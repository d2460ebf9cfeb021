----------------------------- MODULE Translator -----------------------------
(***************************************************************************)
(* The translator of ByteShatter at run time: the signal handlers that     *)
(* translated code falls into (src/src/patcher.c), the decode() loop they  *)
(* call (src/src/decoder.c) and the cache both work on (module Cache).     *)
(*                                                                         *)
(* Guest pages are not executable, so guest code runs only as its          *)
(* translation.  A direct branch is first translated to a BRK word that    *)
(* carries the id of a patch record; when it traps, brk_handler looks the  *)
(* target up, translates it if need be, and overwrites the BRK by the      *)
(* branch.  A transfer to a guest address (an indirect branch, a return to *)
(* untranslated code, a call from a library) faults, and segv_handler      *)
(* resumes at the translation.  Translated code is the environment here:   *)
(* it may reach any live BRK word and any guest instruction next.          *)
(***************************************************************************)
EXTENDS Cache

CONSTANT Programs  (* the guest programs considered *)

VARIABLES
  guest,    (* the program: guest memory as instructions                   *)
  anchor,   (* the cache                                                   *)
  context,  (* the Context of the decode() call                            *)
  pc,       (* where the handler is                                        *)
  site,     (* the BRK word being served; NULL in segv_handler             *)
  goal,     (* the guest address to resolve                                *)
  dest,     (* block/target: the host address to resume at                 *)
  sites,    (* the BRK words in translated code                            *)
  links,    (* history: the branches written into translated code          *)
  code,     (* history: at host h stands the translation of guest g        *)
  cleared   (* elf_init has called cache_clear                             *)

vars == <<guest, anchor, context, pc, site, goal, dest, sites, links, code,
          cleared>>

-----------------------------------------------------------------------------
(***************************************************************************)
(* Guest instructions, as far as decode() tells them apart: their length,  *)
(* the number of host words encode() emits for them, whether they leave a  *)
(* patch site (Jcc, CALL and JMP with an immediate target), and whether    *)
(* they end the block (decode_instr returns 1).  "exit" is RET, or a JMP   *)
(* through a register or memory.                                           *)
(***************************************************************************)
Ending == {"jmp", "exit"}
Instructions == [len : Nat \ {0}, words : Nat,
                 kind : {"plain", "exit"} \cup Patched, target : Nat]

(* Control never runs off a program: successors are instructions of it.    *)
(* A branch, direct or not, is at least one word.                          *)
IsProgram(p) ==
  /\ DOMAIN p \subseteq Nat
  /\ \A g \in DOMAIN p :
       /\ p[g] \in Instructions
       /\ p[g].kind # "plain" => p[g].words > 0
       /\ p[g].kind \in Patched => p[g].target \in DOMAIN p
       /\ p[g].kind \notin Ending => g + p[g].len \in DOMAIN p

Sites == [hp : Nat, id : Nat, kind : Patched, target : Nat]

ASSUME NullAssumption == NULL \notin Sites

ASSUME ProgramsAssumption == \A p \in Programs : IsProgram(p)

Machine == [a |-> anchor, c |-> context]

(* The handler goes on at label next with cache m, unless a panic ended it. *)
Continue(m, next) ==
  /\ anchor' = m.a
  /\ context' = m.c
  /\ pc' = IF Running(m) THEN next ELSE "exit"

Init ==
  /\ guest \in Programs
  /\ anchor = cahce_init
  /\ context = [gp |-> 0, hp |-> 0, loffp |-> 0, block |-> 0]
  /\ pc = "idle"
  /\ site = NULL /\ goal = 0 /\ dest = 0
  /\ sites = {} /\ links = {} /\ code = {}
  /\ cleared = FALSE

-----------------------------------------------------------------------------
(***************************************************************************)
(* Translated code traps.                                                  *)
(***************************************************************************)

(* brk_handler: the record is copied and its id given back before anything *)
(* else happens; the BRK word stays in place until the end.                *)
Brk(s) ==
  /\ pc = "idle"
  /\ s \in sites
  /\ goal' = anchor.jumps[s.id].target
  /\ site' = s
  /\ Continue([Machine EXCEPT !.a = cache_get_patch(@, s.id)], "resolve")
  /\ UNCHANGED <<guest, dest, sites, links, code, cleared>>

(* segv_handler: the program counter is a guest address.                   *)
Segv(g) ==
  /\ pc = "idle"
  /\ g \in DOMAIN guest
  /\ goal' = g
  /\ site' = NULL
  /\ pc' = "resolve"
  /\ UNCHANGED <<guest, anchor, context, dest, sites, links, code, cleared>>

(* Both handlers: the target is translated already ...                     *)
Hit ==
  /\ pc = "resolve"
  /\ \E t \in cache_search(anchor, goal) \ {NULL} : dest' = t
  /\ pc' = "finish"
  /\ UNCHANGED <<guest, anchor, context, site, goal, sites, links, code, cleared>>

(* ... or decode() starts, and its code will begin at the present host_p.  *)
Miss ==
  /\ pc = "resolve"
  /\ NULL \in cache_search(anchor, goal)
  /\ dest' = anchor.host_p
  /\ Continue(cache_block_start([a |-> anchor, c |-> context_pull(anchor, goal)]),
              "point")
  /\ UNCHANGED <<guest, site, goal, sites, links, code, cleared>>

-----------------------------------------------------------------------------
(***************************************************************************)
(* decode(): one iteration is Point, Instr, and - unless the instruction   *)
(* ends the block - GoOn or Join.                                         *)
(***************************************************************************)
Point ==
  /\ pc = "point"
  /\ Continue(cache_block_point(Machine), "instr")
  /\ UNCHANGED <<guest, site, goal, dest, sites, links, code, cleared>>

(* decode_instr and encode.  The patch record is written by encode().      *)
Instr ==
  LET i == guest[context.gp]
      brk == [hp |-> context.hp, id |-> cache_patch_id(anchor),
              kind |-> i.kind, target |-> i.target]
  IN  /\ pc = "instr"
      /\ IF i.kind \in Patched
         THEN /\ anchor' = cache_patch_point(anchor, i.kind, i.target)
              /\ sites' = sites \cup {brk}
         ELSE UNCHANGED <<anchor, sites>>
      /\ context' = [context EXCEPT !.gp = @ + i.len, !.hp = @ + i.words]
      /\ code' = code \cup {<<context.gp, context.hp>>}
      /\ pc' = IF i.kind \in Ending THEN "end" ELSE "lookup"
      /\ UNCHANGED <<guest, site, goal, dest, links, cleared>>

(* The next instruction is not translated yet: go on.                      *)
GoOn_retry ==
  /\ pc = "lookup"
  /\ NULL \in cache_search(anchor, context.gp)
  /\ UNCHANGED vars

GoOn ==
  /\ pc = "lookup"
  /\ NULL \in cache_search(anchor, context.gp)
  /\ pc' = "point"
  /\ UNCHANGED <<guest, anchor, context, site, goal, dest, sites, links, code, cleared>>

(* It is: the block ends with a branch to that translation.                *)
Join ==
  LET m == cache_block_point(Machine)
  IN  /\ pc = "lookup"
      /\ \E t \in cache_search(anchor, context.gp) \ {NULL} :
           links' = links \cup {[hp |-> context.hp, target |-> context.gp, dest |-> t]}
      /\ Continue([m EXCEPT !.c.hp = @ + 1], "end")
      /\ code' = code \cup {<<context.gp, context.hp>>}
      /\ UNCHANGED <<guest, site, goal, dest, sites, cleared>>

End ==
  /\ pc = "end"
  /\ Continue(cache_block_end(Machine), "finish")
  /\ UNCHANGED <<guest, site, goal, dest, sites, links, code, cleared>>

-----------------------------------------------------------------------------
(***************************************************************************)
(* The handlers return: brk_handler overwrites the BRK word by the branch, *)
(* segv_handler sets the program counter.                                  *)
(***************************************************************************)
Patch ==
  /\ pc = "finish"
  /\ site # NULL
  /\ sites' = sites \ {site}
  /\ links' = links \cup {[hp |-> site.hp, target |-> site.target, dest |-> dest]}
  /\ pc' = "idle"
  /\ UNCHANGED <<guest, anchor, context, site, goal, dest, code, cleared>>

Resume ==
  /\ pc = "finish"
  /\ site = NULL
  /\ pc' = "idle"
  /\ UNCHANGED <<guest, anchor, context, site, goal, dest, sites, links, code, cleared>>

(* elf_init, once the initialisers of the guest have run: the translations *)
(* made for them are given up, and with them every branch between them.    *)
Clear ==
  /\ pc = "idle"
  /\ ~ cleared
  /\ anchor' = cache_clear(anchor)
  /\ sites' = {} /\ links' = {} /\ code' = {}
  /\ cleared' = TRUE
  /\ UNCHANGED <<guest, context, pc, site, goal, dest>>

Handler == Hit \/ Miss \/ Point \/ Instr \/ GoOn \/ Join \/ End \/ Patch \/ Resume

Next ==
  \/ \E s \in sites : Brk(s)
  \/ \E g \in DOMAIN guest : Segv(g)
  \/ Handler
  \/ Clear

Spec == Init /\ [][Next]_vars

(* A handler runs to its end: nothing else runs on its thread meanwhile.   *)
FairSpec == Spec /\ WF_vars(Handler)

-----------------------------------------------------------------------------
(***************************************************************************)
(* Types.                                                                  *)
(***************************************************************************)
Links == [hp : Nat, target : Nat, dest : Nat]

Decoding == pc \in {"point", "instr", "lookup", "end"}

TypeOK ==
  /\ guest \in Programs
  /\ anchor \in Anchors
  /\ context \in Contexts
  /\ pc \in {"idle", "resolve", "point", "instr", "lookup", "end", "finish", "exit"}
  /\ site \in Sites \cup {NULL}
  /\ goal \in Nat /\ dest \in Nat
  /\ sites \subseteq Sites
  /\ links \subseteq Links
  /\ code \subseteq Nat \X Nat
  /\ cleared \in BOOLEAN

(***************************************************************************)
(* The tables of cache.c are C arrays: no operation, in no order of calls, *)
(* may leave a cursor beyond the array or a used slot outside it.  This is *)
(* what the four overflow checks of cache.c are there for.                 *)
(***************************************************************************)
TablesInBounds ==
  /\ InBounds(anchor)
  /\ Decoding => context.block \in DOMAIN anchor.blocks

(***************************************************************************)
(* Both binary searches of cache_search need sorted arrays: the blocks by  *)
(* their guest address, and the points of every block by their offset,     *)
(* without duplicates.                                                     *)
(***************************************************************************)
TablesOrdered ==
  /\ Sorted(anchor.blocks)
  /\ \A i \in DOMAIN anchor.blocks :
       LET b == anchor.blocks[i]
       IN  \A j, k \in b.offsets + 1 .. b.offsets + b.offsetssz :
             j < k => anchor.offsets[j].goff < anchor.offsets[k].goff

(***************************************************************************)
(* "get pointer to host instruction at guest pointer" (cache.h): whatever  *)
(* cache_search can answer for a guest address is the place where the      *)
(* translation of that very instruction stands.  Inside decode() the       *)
(* instruction that is translated next counts.                             *)
(***************************************************************************)
Translated ==
  code \cup (IF pc \in {"point", "instr"} THEN {<<context.gp, context.hp>>} ELSE {})

EntriesFaithful == Running(Machine) => Entries(anchor) \subseteq Translated

(***************************************************************************)
(* Every branch the translator writes into host code leads to a            *)
(* translation of the guest address that the guest branch names: a BRK is  *)
(* never replaced by a jump to some other block, whatever was translated,  *)
(* split or patched between the moment it was emitted and its first trap.  *)
(***************************************************************************)
LinksFaithful == \A l \in links : <<l.target, l.dest>> \in code

(***************************************************************************)
(* Patch ids: the record behind a live BRK word is its own - no two live   *)
(* words share an id, none uses a free one, none is overwritten - and no   *)
(* id is lost.  The word being patched has given its id back already.      *)
(***************************************************************************)
LiveSites == sites \ {site}

PatchIds ==
  /\ \A s \in LiveSites :
       /\ s.id \in DOMAIN anchor.jumps
       /\ anchor.jumps[s.id] = [kind |-> s.kind, target |-> s.target]
  /\ \A s, t \in LiveSites : s.id = t.id => s = t
  /\ \A s \in LiveSites : \A k \in DOMAIN anchor.reuse : anchor.reuse[k] # s.id
  /\ \A j, k \in DOMAIN anchor.reuse : anchor.reuse[j] = anchor.reuse[k] => j = k
  /\ \A id \in DOMAIN anchor.jumps :
       \/ \E s \in LiveSites : s.id = id
       \/ \E k \in DOMAIN anchor.reuse : anchor.reuse[k] = id

(***************************************************************************)
(* What is translated is found again, between handlers: decode() runs once *)
(* for an instruction.  Not so where cache_search takes a 0 for "none": a  *)
(* block whose points start at index 0, an instruction at host offset 0;   *)
(* and not where the guest jumps into the middle of an instruction, so     *)
(* that two readings of the same bytes share the address range (the case   *)
(* block_cache_search comments on).                                        *)
(***************************************************************************)
NoOverlap == \A g \in DOMAIN guest : \A h \in g + 1 .. g + guest[g].len - 1 : h \notin DOMAIN guest

TakenForNone(gp, hp) ==
  \/ hp = 0
  \/ \E i \in DOMAIN anchor.blocks :
       /\ anchor.blocks[i].offsets = 0
       /\ <<gp, hp>> \in PointsOf(anchor, anchor.blocks[i])

Findable ==
  pc = "idle" /\ NoOverlap =>
    \A e \in code : Found(anchor, e[1]) # {} \/ TakenForNone(e[1], e[2])

(***************************************************************************)
(* A published entry stays as it is: insertions, splits and block ends of  *)
(* later decodes neither move nor drop it.  Only cache_clear does.         *)
(***************************************************************************)
EntriesStable == [][cleared' = cleared => Entries(anchor) \subseteq Entries(anchor')]_vars

(***************************************************************************)
(* Every trap is answered: a handler returns to translated code or the     *)
(* process ends with a panic; decode() does not go on for ever.            *)
(***************************************************************************)
HandlerReturns == (pc = "resolve") ~> (pc \in {"idle", "exit"})

-----------------------------------------------------------------------------
(***************************************************************************)
(* What the program's comments and checks say and the code does not do.    *)
(***************************************************************************)

(* "host overflow" (cache_block_end): the host code never leaves its area. *)
(* The area holds HostSize bytes, and host_p counts words of four.         *)
HostInBounds == Running(Machine) => 4 * anchor.host_p <= HostSize
=============================================================================
