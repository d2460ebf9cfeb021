------------------------------ MODULE Startup -------------------------------
(***************************************************************************)
(* main() of ByteShatter (src/src/main.c), from the command line to the    *)
(* jump into the guest: the guest's stack (module GuestStack), the image   *)
(* (module Loader), the handlers, the guest's initialisers, argv.  One     *)
(* action is one turn of a loop of the code, or one call without a loop.   *)
(***************************************************************************)
EXTENDS GuestStack, Loader

CONSTANTS
  Scenarios,  (* argv without argv[0], envp, the file's contents, and where*)
              (* mmap puts the image                                       *)
  Options,    (* what follows the "-" of the strings that begin with one   *)
  Present,    (* the names of files that can be opened                     *)
  OS          (* what dlopen and dlsym find                                *)

ASSUME ScenarioAssumption ==
  \A s \in Scenarios :
    /\ s.argv \in Seq(Strings) /\ s.envp \in Seq(Strings) /\ s.map \in Nat
    /\ IsImage(s.img)

ASSUME LinkedAssumption == \A s \in Scenarios : WellLinked(s.img)

VARIABLES
  at,      (* where main is                                                *)
  n,       (* the loop counter there                                       *)
  argv, envp,
  end,     (* the index of the file name in argv                           *)
  debug,   (* -d was given                                                 *)
  k,       (* the guest's stack                                            *)
  img,     (* the file                                                     *)
  map,     (* where its mapping begins                                     *)
  elf,     (* base; the cache's gp_hi, host and host_c                     *)
  l,       (* the relocator: mem, where, got, allright                     *)
  libs,    (* the libraries opened                                         *)
  handlers,(* patcher_init was called                                      *)
  called   (* the guest's initialisers run so far                          *)

vars == <<at, n, argv, envp, end, debug, k, img, map, elf, l, libs, handlers, called>>

Init ==
  /\ \E s \in Scenarios : argv = s.argv /\ envp = s.envp /\ img = s.img /\ map = s.map
  /\ at = "start" /\ n = 0 /\ end = 0 /\ debug = FALSE
  /\ k = stack_init
  /\ elf = [base |-> 0, gp_hi |-> 0, host |-> 0, host_c |-> 0]
  /\ l = [mem |-> << >>, where |-> 0, got |-> OS.got, allright |-> TRUE]
  /\ libs = << >> /\ handlers = FALSE /\ called = << >>

Go(label, counter) == at' = label /\ n' = counter

-----------------------------------------------------------------------------
(* set_envp: the terminating null first, then the strings in their order,  *)
(* so that they lie in memory in the opposite one.                         *)
SetEnvpNull ==
  /\ at = "start"
  /\ k' = PushWord(k, 0)
  /\ Go("env", 1)
  /\ UNCHANGED <<argv, envp, end, debug, img, map, elf, l, libs, handlers, called>>

SetEnvp ==
  /\ at = "env"
  /\ IF n <= Len(envp) THEN k' = push_envp(k, envp[n]) /\ Go("env", n + 1)
     ELSE UNCHANGED k /\ Go("options", 1)
  /\ UNCHANGED <<argv, envp, end, debug, img, map, elf, l, libs, handlers, called>>

(* read_argv: options, up to the file; usage() ends the process, for every *)
(* letter but d and l (the log level -l sets is left out).                 *)
ReadArgv ==
  /\ at = "options"
  /\ IF n > Len(argv) THEN Go("usage", 0) /\ UNCHANGED <<debug, end>>
     ELSE IF argv[n] \notin DOMAIN Options THEN Go("load", 0) /\ end' = n /\ UNCHANGED debug
     ELSE /\ Go(IF Options[argv[n]] \in {"d", "l"} THEN "options" ELSE "usage", n + 1)
          /\ debug' = (debug \/ Options[argv[n]] = "d")
          /\ UNCHANGED end
  /\ UNCHANGED <<argv, envp, k, img, map, elf, l, libs, handlers, called>>

-----------------------------------------------------------------------------
(* elf_load, up to mmap_base.  Without the file elf is NULL, and reading   *)
(* its dynamic section faults; a mapping of no size fails (mmap_guest).    *)
MapImage ==
  /\ at = "load"
  /\ IF argv[end] \notin Present THEN Go("crash", 0) /\ UNCHANGED <<elf, l>>
     ELSE IF guest_size(img) = 0 THEN Go("panic", 0) /\ UNCHANGED <<elf, l>>
     ELSE /\ elf' = mmap_base(img, map)
          /\ l' = [l EXCEPT !.mem = [a \in map .. map + guest_size(img) - 1 |-> 0]]
          /\ Go("segments", 1)
  /\ UNCHANGED <<argv, envp, end, debug, k, img, map, libs, handlers, called>>

(* elf_load, one segment.                                                  *)
LoadImage ==
  /\ at = "segments"
  /\ IF n > Len(img.segs) THEN Go("dynamic", 0) /\ UNCHANGED l
     ELSE IF Strays(img, map, n) THEN Go("stray", 0) /\ UNCHANGED l
     ELSE l' = [l EXCEPT !.mem = LoadSegment(@, img, elf.base, n)] /\ Go("segments", n + 1)
  /\ UNCHANGED <<argv, envp, end, debug, k, img, map, elf, libs, handlers, called>>

(* elf_read_dynamic: the tags, in whatever order, then the libraries (their*)
(* names are in a table the tags told of), then the relocations.           *)
ReadDynamic ==
  /\ at = "dynamic"
  /\ IF img.dynamic THEN Go("needed", 1) ELSE Go("panic", 0)
  /\ UNCHANGED <<argv, envp, end, debug, k, img, map, elf, l, libs, handlers, called>>

OpenLibrary ==
  /\ at = "needed"
  /\ IF n > Len(img.needed) THEN Go("relr", 1) /\ UNCHANGED libs
     ELSE IF img.needed[n] \notin DOMAIN OS.wrappers THEN Go("panic", 0) /\ UNCHANGED libs
     ELSE libs' = open_library(libs, img.needed[n]) /\ Go("needed", n + 1)
  /\ UNCHANGED <<argv, envp, end, debug, k, img, map, elf, l, handlers, called>>

RelocateRelr ==
  /\ at = "relr"
  /\ IF n > Len(img.relr) THEN Go("rela", 1) /\ UNCHANGED l
     ELSE /\ LET done == reloc_relr([mem |-> l.mem, where |-> l.where], img.relr[n], elf.base)
             IN  l' = [l EXCEPT !.mem = done.mem, !.where = done.where]
          /\ Go("relr", n + 1)
  /\ UNCHANGED <<argv, envp, end, debug, k, img, map, elf, libs, handlers, called>>

(* Two tables, one call of reloc_rela for each; what cannot be resolved    *)
(* ends the process at the end of its table.                               *)
Table == IF at = "rela" THEN img.rela ELSE img.jmprel

RelocateRela ==
  /\ at \in {"rela", "jmprel"}
  /\ IF n <= Len(Table)
     THEN l' = reloc_rela(l, img, OS, libs, elf.base, Table[n]) /\ Go(at, n + 1)
     ELSE /\ UNCHANGED l
          /\ IF ~ l.allright THEN Go("panic", 0)
             ELSE IF at = "rela" THEN Go("jmprel", 1) ELSE Go("handlers", 0)
  /\ UNCHANGED <<argv, envp, end, debug, k, img, map, elf, libs, handlers, called>>

-----------------------------------------------------------------------------
(* patcher_init, elf_init: guest code runs from here on.  The functions of *)
(* the array are what the relocated memory says.  elf_init ends by clearing*)
(* the cache (Translator!Clear); finish_stack pushes the auxiliary vector, *)
(* and main the null behind argv.                                          *)
patcher_init ==
  /\ at = "handlers"
  /\ handlers' = TRUE
  /\ Go("init", 0)
  /\ UNCHANGED <<argv, envp, end, debug, k, img, map, elf, l, libs, called>>

(* The entries the loader computes; the others are constants of the system.*)
Auxv == << <<3, elf.base + img.phoff>>, <<9, elf.base + img.entry>>, <<0, 0>> >>

init_array_after(i) == l.mem[elf.base + img.init_array + i]
init_array(i) == l.mem[elf.base + img.init_array + i - 1]

RunInit ==
  /\ at = "init"
  /\ IF n = 0 THEN /\ called' = IF img.init = 0 THEN called ELSE Append(called, elf.base + img.init)
                   /\ Go("init", 1)
                   /\ UNCHANGED k
     ELSE IF n <= img.init_count
     THEN /\ called' = Append(called, init_array(n))
          /\ Go("init", n + 1)
          /\ UNCHANGED k
     ELSE /\ k' = PushWord(set_auxv(k, Auxv), 0)
          /\ Go("args", Len(argv))
          /\ UNCHANGED called
  /\ UNCHANGED <<argv, envp, end, debug, img, map, elf, l, libs, handlers>>

(* The arguments from the last to the file name, their number; the jump.   *)
PushArgs ==
  /\ at = "args"
  /\ IF n >= end THEN k' = push_arg(k, argv[n]) /\ Go("args", n - 1)
     ELSE k' = push_argc(k) /\ Go("entry", 0)
  /\ UNCHANGED <<argv, envp, end, debug, img, map, elf, l, libs, handlers, called>>

Next ==
  \/ SetEnvpNull \/ SetEnvp \/ ReadArgv
  \/ MapImage \/ LoadImage \/ ReadDynamic \/ OpenLibrary \/ RelocateRelr \/ RelocateRela
  \/ patcher_init \/ RunInit \/ PushArgs

Spec == Init /\ [][Next]_vars

-----------------------------------------------------------------------------
(***************************************************************************)
(* Types.                                                                  *)
(***************************************************************************)
Ends == {"usage", "crash", "panic", "stray", "entry"}

TypeOK ==
  /\ at \in {"start", "env", "options", "load", "segments", "dynamic", "needed", "relr",
             "rela", "jmprel", "handlers", "init", "args"} \cup Ends
  /\ n \in Nat /\ end \in Nat /\ debug \in BOOLEAN /\ handlers \in BOOLEAN
  /\ k.sp \in Int /\ k.sp <= StackSize /\ k.dp \in Nat /\ k.argc \in Nat

(***************************************************************************)
(* What the guest's entry finds: sp is a multiple of 16 bytes (two cells)  *)
(* whatever the number of arguments and environment strings was.           *)
(***************************************************************************)
EntryAligned == at = "entry" => k.sp % 2 = 0

(***************************************************************************)
(* Nothing that main put on the guest's stack is spoilt by what it put     *)
(* there later: at the entry every word is where its push left it, moved   *)
(* by the last shift, and every pointer leads to its whole string, which   *)
(* no later string, no pointer growing towards it and no shift has         *)
(* touched.  This needs a mapping that holds it all (Fits), to the last    *)
(* cell.  The order is the one main pushes in: "<file> [arguments]" behind *)
(* argc and a null behind them, as the System V ABI has it, but then the   *)
(* auxiliary vector, and the environment behind it and backwards, where    *)
(* the ABI wants the environment first and in its order.                   *)
(***************************************************************************)
Args == SubSeq(argv, end, Len(argv))

(* The cells of the strings s[i], for i in I.                              *)
Letters(s, I) == UNION {{i} \X (1 .. CellsOf[s[i]]) : i \in I}

Fits ==
  LET text == Cardinality(Letters(argv, end .. Len(argv)))
                + Cardinality(Letters(envp, 1 .. Len(envp)))
      words == 1 + Len(Args) + 1 + 2 * Len(Auxv) + Len(envp) + 1
  IN  text + words + (words % 2) <= StackSize

StackWhole ==
  at = "entry" /\ Fits =>
    LET vec == k.sp + Len(Args) + 2
        env == vec + 2 * Len(Auxv)
    IN  /\ k.mem[k.sp] = Word(Len(Args))
        /\ \A i \in 1 .. Len(Args) : PointsTo(k, k.sp + i, Args[i])
        /\ k.mem[vec - 1] = Word(0)
        /\ \A i \in 1 .. Len(Auxv) : /\ k.mem[vec + 2 * i - 2] = Word(Auxv[i][1])
                                     /\ k.mem[vec + 2 * i - 1] = Word(Auxv[i][2])
        /\ \A i \in 1 .. Len(envp) : PointsTo(k, env + Len(envp) - i, envp[i])
        /\ k.mem[env + Len(envp)] = Word(0)

(***************************************************************************)
(* The image in memory at the entry is what the formats say: the file, the *)
(* zeros, and every relocation applied once.  The slots a RELR table names *)
(* are given by its definition, not by the loop: a bitmap covers the slots *)
(* behind the last address entry and the bitmaps since.  R_X86_64_64 is    *)
(* left out: the code does not add the base to the symbol's value.         *)
(***************************************************************************)
Unrelocated(a) ==
  LET In == {i \in DOMAIN img.segs : a \in img.segs[i].vaddr .. img.segs[i].vaddr + img.segs[i].filesz - 1}
  IN  IF In = {} THEN 0 ELSE LET i == Max(In) IN img.file[i][a - img.segs[i].vaddr + 1]

Bound(r) == IF r.type = "RELATIVE" THEN elf.base + r.addend ELSE SymbolAddress(OS, libs, r.sym)

ImageRight ==
  at = "entry" =>
    \A a \in Lowest(img) .. Highest(img) - 1 :
      LET here == {r \in Rela(img) : a \in RelaCells(img, r)}
          slot == \E i \in DOMAIN img.relr : a \in RelrSlots(img, i)
      IN  IF here = {}
          THEN l.mem[elf.base + a] = Unrelocated(a) + (IF slot THEN elf.base ELSE 0)
          ELSE \A r \in here :
                 IF r.type = "COPY"
                 THEN l.mem[elf.base + a] = OS.data[r.sym][a - r.offset + 1]
                 ELSE r.type # "64" => l.mem[elf.base + a] = Bound(r)

(***************************************************************************)
(* A copied variable is one variable: every library that refers to it by   *)
(* an entry of its got refers to the guest's copy, and no other entry is   *)
(* touched.                                                                *)
(***************************************************************************)
CopiesShared ==
  at = "entry" =>
    \A lib \in DOMAIN OS.got : \A sym \in DOMAIN OS.got[lib] :
      LET copies == {r \in Rela(img) : r.type = "COPY" /\ r.sym = sym}
      IN  IF copies = {} \/ OS.got[lib][sym] = 0 THEN l.got[lib][sym] = OS.got[lib][sym]
          ELSE \E r \in copies : l.got[lib][sym] = elf.base + r.offset

(***************************************************************************)
(* The guest's initialisers run once each, in their order, at the addresses*)
(* the relocations gave them, when the handlers are there to catch their   *)
(* first instruction, and before argv is built.                            *)
(***************************************************************************)
Initialisers ==
  (IF img.init = 0 THEN << >> ELSE <<elf.base + img.init>>)
    \o [i \in 1 .. img.init_count |-> l.mem[elf.base + img.init_array + i - 1]]

InitOrder ==
  /\ called # << >> => handlers /\ IsPrefix(called, Initialisers)
  /\ at \in {"args", "entry"} => called = Initialisers

(***************************************************************************)
(* size + size is 32 bits wide (mmap_base): an image of less than 2 GiB,   *)
(* rounded to pages, lies inside its mapping, and the host code area       *)
(* behind it does too; the segments never meet it.                         *)
(***************************************************************************)
HostApart ==
  /\ 2 * Span(img) < UINT32 => at # "stray"
  /\ at = "entry" /\ 2 * Span(img) < UINT32 =>
       /\ elf.base + Highest(img) <= elf.host
       /\ elf.host + elf.host_c - 1 \in DOMAIN l.mem
=============================================================================
