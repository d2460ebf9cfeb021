--------------------------- MODULE StartupProofs ---------------------------
(***************************************************************************)
(* What main() has put together when the guest begins, for every command   *)
(* line, environment and image that a linker wrote.                        *)
(***************************************************************************)
EXTENDS Startup, FiniteSetTheorems, SequenceTheorems, WellFoundedInduction, TLAPS

(* Where main is once the handlers, the libraries, the image, the mapping  *)
(* are there.                                                              *)
Running == {"init", "args", "entry"}
Relocating == {"rela", "jmprel"} \cup {"handlers"} \cup Running
Loaded == {"dynamic", "needed", "relr"} \cup Relocating
Mapped == {"segments", "stray"} \cup Loaded

-----------------------------------------------------------------------------
(***************************************************************************)
(* The inductive invariant, in parts.  The counters are in their ranges    *)
(* and every record has its fields.                                        *)
(***************************************************************************)
StackShape(s) ==
  /\ s = [mem |-> s.mem, dp |-> s.dp, sp |-> s.sp, argc |-> s.argc]
  /\ s.sp \in Int /\ s.sp <= StackSize /\ s.dp \in Nat /\ s.argc \in Nat

ControlInv ==
  /\ TypeOK /\ StackShape(k) /\ EntryAligned
  /\ argv \in Seq(Strings) /\ envp \in Seq(Strings)
  /\ map \in Nat /\ IsImage(img) /\ WellLinked(img)
  /\ at \in {"env", "options", "segments", "relr", "rela", "jmprel"} => n >= 1
  /\ at \in Mapped \cup {"load"} => end \in 1 .. Len(argv)
  /\ at = "args" => n <= Len(argv)
  /\ at = "segments" => n <= Len(img.segs) + 1
  /\ at = "relr" => n <= Len(img.relr) + 1
  /\ at \in {"rela", "jmprel"} => n <= Len(Table) + 1
  /\ at = "init" => n <= img.init_count + 1

(* The mapping has its size, and no segment written so far left it.        *)
LoadShape(x) ==
  x = [mem |-> x.mem, where |-> x.where, got |-> x.got, allright |-> x.allright]

MappingInv ==
  /\ LoadShape(l)
  /\ at \in Mapped =>
       /\ elf = mmap_base(img, map) /\ guest_size(img) # 0
       /\ DOMAIN l.mem = map .. map + guest_size(img) - 1
  /\ at = "segments" => \A i \in 1 .. n - 1 : ~ Strays(img, map, i)
  /\ at \in Loaded => \A i \in 1 .. Len(img.segs) : ~ Strays(img, map, i)
  /\ at = "stray" => \E i \in 1 .. Len(img.segs) : Strays(img, map, i)

(* The initialisers called so far, by their number.                        *)
InitialisersTo(m) ==
  (IF img.init = 0 THEN << >> ELSE <<elf.base + img.init>>) \o [i \in 1 .. m |-> init_array(i)]

CallInv ==
  /\ at \in Running => handlers
  /\ at \notin Running => called = << >>
  /\ at = "init" => called = IF n = 0 THEN << >> ELSE InitialisersTo(n - 1)
  /\ at \in {"args", "entry"} => called = Initialisers

(* The relocations by symbol applied so far.                               *)
Applied ==
  IF at = "rela" THEN {img.rela[i] : i \in 1 .. n - 1}
  ELSE IF at = "jmprel" THEN ToSet(img.rela) \cup {img.jmprel[i] : i \in 1 .. n - 1}
  ELSE Rela(img)

(* Every library's references, so far: to the guest's copy, if there is one*)
(* and the library referred to the variable at all.                        *)
Refers(applied, got, b, lib, sym) ==
  LET copies == {r \in applied : r.type = "COPY" /\ r.sym = sym}
  IN  IF copies = {} \/ OS.got[lib][sym] = 0 THEN got[lib][sym] = OS.got[lib][sym]
      ELSE \E r \in copies : got[lib][sym] = b + r.offset

Shared ==
  \A lib \in DOMAIN OS.got : \A sym \in DOMAIN OS.got[lib] :
    Refers(Applied, l.got, elf.base, lib, sym)

GotInv ==
  /\ at \notin Relocating \cup {"panic"} => l.got = OS.got /\ l.allright
  /\ at \in Relocating =>
       /\ DOMAIN l.got = DOMAIN OS.got
       /\ \A lib \in DOMAIN OS.got : DOMAIN l.got[lib] = DOMAIN OS.got[lib]
       /\ l.allright => Shared
  /\ at \in {"handlers"} \cup Running => l.allright

-----------------------------------------------------------------------------
(* Memory: the file's part of the first m segments, zeros elsewhere; then  *)
(* the base in the slots of the first m RELR entries; then the relocations *)
(* by symbol over them.                                                    *)
FileCells(s) == s.vaddr .. s.vaddr + s.filesz - 1

Filled(m) ==
  \A a \in DOMAIN l.mem :
    /\ \A i \in 1 .. m : a - elf.base \in FileCells(img.segs[i])
                           => l.mem[a] = img.file[i][a - elf.base - img.segs[i].vaddr + 1]
    /\ (\A i \in 1 .. m : a - elf.base \notin FileCells(img.segs[i])) => l.mem[a] = 0

Slot(m, x) == \E i \in 1 .. m : x \in RelrSlots(img, i)

Based(m, x) == Unrelocated(x) + (IF Slot(m, x) THEN elf.base ELSE 0)

(* The last address entry, and the slot behind the entries up to m.        *)
Address(m) == Max({j \in 1 .. m : ~ img.relr[j].bitmap})

Behind(m) == img.relr[Address(m)].addr + 1 + RelrBits * (m - Address(m))

Resolved(r, x, v) ==
  IF r.type = "COPY" THEN v = OS.data[r.sym][x - r.offset + 1]
  ELSE r.type # "64" => v = Bound(r)

Relocated ==
  \A a \in DOMAIN l.mem :
    LET here == {r \in Applied : a - elf.base \in RelaCells(img, r)}
    IN  /\ here = {} => l.mem[a] = Based(Len(img.relr), a - elf.base)
        /\ \A r \in here : Resolved(r, a - elf.base, l.mem[a])

MemoryInv ==
  /\ at = "segments" => Filled(n - 1)
  /\ at \in {"dynamic", "needed"} => Filled(Len(img.segs))
  /\ at = "relr" => /\ \A a \in DOMAIN l.mem : l.mem[a] = Based(n - 1, a - elf.base)
                    /\ n > 1 => l.where = Behind(n - 1)
  /\ at \in Relocating /\ l.allright => Relocated

-----------------------------------------------------------------------------
(***************************************************************************)
(* Counters, records and the stack pointer.                                *)
(***************************************************************************)
LEMMA WordPushed ==
  ASSUME NEW s, StackShape(s), NEW v
  PROVE  /\ StackShape(PushWord(s, v)) /\ PushWord(s, v).sp = s.sp - 1
         /\ PushWord(s, v).dp = s.dp /\ PushWord(s, v).argc = s.argc
<1> DEFINE m == Store(s.mem, s.sp - 1, <<Word(v)>>)
<1>1. PushWord(s, v) = [s EXCEPT !.sp = @ - 1, !.mem = m]
  BY DEF PushWord
<1> HIDE DEF m
<1>2. PushWord(s, v) = [mem |-> m, dp |-> s.dp, sp |-> s.sp - 1, argc |-> s.argc]
  BY <1>1 DEF StackShape
<1> QED BY <1>2, StackAssumption DEF StackShape

LEMMA StringPushed ==
  ASSUME NEW s, StackShape(s), NEW t \in Strings
  PROVE  StackShape(push_envp(s, t)) /\ push_envp(s, t).argc = s.argc
<1> DEFINE p == PushWord(s, s.dp)
           m == Store(p.mem, s.dp, Text(t))
<1>1. StackShape(p) /\ p.dp = s.dp /\ p.argc = s.argc
  BY WordPushed
<1>2. CellsOf[t] \in Nat
  BY StackAssumption
<1>3. push_envp(s, t) = [p EXCEPT !.mem = m, !.dp = @ + CellsOf[t]]
  BY DEF push_envp
<1> HIDE DEF p, m
<1>4. push_envp(s, t) = [mem |-> m, dp |-> p.dp + CellsOf[t], sp |-> p.sp, argc |-> p.argc]
  BY <1>1, <1>3 DEF StackShape
<1> QED BY <1>1, <1>2, <1>4 DEF StackShape

LEMMA ArgPushed ==
  ASSUME NEW s, StackShape(s), NEW t \in Strings
  PROVE  StackShape(push_arg(s, t))
<1> DEFINE p == push_envp(s, t)
<1>1. StackShape(p)
  BY StringPushed
<1>2. push_arg(s, t) = [p EXCEPT !.argc = @ + 1]
  BY DEF push_arg
<1> HIDE DEF p
<1>3. push_arg(s, t) = [mem |-> p.mem, dp |-> p.dp, sp |-> p.sp, argc |-> p.argc + 1]
  BY <1>1, <1>2 DEF StackShape
<1> QED BY <1>1, <1>3 DEF StackShape

(* The number of arguments ends at an even cell, whatever was pushed.      *)
LEMMA ArgcPushed ==
  ASSUME NEW s, StackShape(s)
  PROVE  StackShape(push_argc(s)) /\ push_argc(s).sp % 2 = 0
<1> DEFINE m == Store(s.mem, s.sp - 1, [i \in 1 .. StackSize - s.sp |-> s.mem[s.sp + i - 1]])
           moved == [s EXCEPT !.mem = m, !.sp = @ - 1]
           t == IF s.sp % 2 = 0 THEN moved ELSE s
<1>1. push_argc(s) = PushWord(t, s.argc)
  BY DEF push_argc
<1> HIDE DEF m
<1>2. moved = [mem |-> m, dp |-> s.dp, sp |-> s.sp - 1, argc |-> s.argc]
  <2> DEFINE a == [s EXCEPT !.mem = m]
  <2>1. a = [mem |-> m, dp |-> s.dp, sp |-> s.sp, argc |-> s.argc]
    BY DEF StackShape
  <2>2. moved = [a EXCEPT !.sp = @ - 1]
    OBVIOUS
  <2> HIDE DEF a, moved
  <2> QED BY <2>1, <2>2
<1>3. StackShape(moved) /\ moved.sp = s.sp - 1
  BY <1>2, StackAssumption DEF StackShape
<1> HIDE DEF moved
<1>4. StackShape(t) /\ (t.sp - 1) % 2 = 0
  BY <1>3 DEF StackShape
<1> HIDE DEF t
<1> QED BY <1>1, <1>4, WordPushed

LEMMA AuxvPushed ==
  ASSUME NEW s, StackShape(s), NEW auxv, Len(auxv) \in Nat
  PROVE  StackShape(set_auxv(s, auxv))
<1> DEFINE c == [i \in 1 .. 2 * Len(auxv) |->
                   Word(auxv[(i + 1) \div 2][IF i % 2 = 1 THEN 1 ELSE 2])]
           m == Store(s.mem, s.sp - 2 * Len(auxv), c)
<1>1. set_auxv(s, auxv) = [s EXCEPT !.mem = m, !.sp = @ - 2 * Len(auxv)]
  BY DEF set_auxv
<1> HIDE DEF m
<1>2. set_auxv(s, auxv) = [mem |-> m, dp |-> s.dp, sp |-> s.sp - 2 * Len(auxv), argc |-> s.argc]
  BY <1>1 DEF StackShape
<1> QED BY <1>2, StackAssumption DEF StackShape

LEMMA BothMembers ==
  ASSUME NEW R, NEW s \in Seq(R), NEW t \in Seq(R)
  PROVE  ToSet(s \o t) = ToSet(s) \cup ToSet(t)
<1> DEFINE c == s \o t
<1>1. /\ c \in Seq(R) /\ Len(c) = Len(s) + Len(t)
      /\ \A i \in 1 .. Len(s) + Len(t) : c[i] = IF i <= Len(s) THEN s[i] ELSE t[i - Len(s)]
  BY ConcatProperties
<1> HIDE DEF c
<1>2. /\ DOMAIN c = 1 .. Len(s) + Len(t)
      /\ DOMAIN s = 1 .. Len(s) /\ Len(s) \in Nat
      /\ DOMAIN t = 1 .. Len(t) /\ Len(t) \in Nat
  BY <1>1, LenProperties
<1>3. ASSUME NEW i \in DOMAIN s PROVE s[i] \in ToSet(c)
  <2>1. i \in DOMAIN c /\ c[i] = s[i]
    BY <1>1, <1>2
  <2> QED BY <2>1 DEF ToSet
<1>4. ASSUME NEW i \in DOMAIN t PROVE t[i] \in ToSet(c)
  <2>1. /\ i + Len(s) \in DOMAIN c /\ ~ (i + Len(s) <= Len(s)) /\ i + Len(s) - Len(s) = i
    BY <1>2
  <2>2. c[i + Len(s)] = t[i]
    BY <1>1, <1>2, <2>1
  <2> QED BY <2>1, <2>2 DEF ToSet
<1>5. ASSUME NEW i \in DOMAIN c PROVE c[i] \in ToSet(s) \cup ToSet(t)
  <2>1. CASE i <= Len(s)
    BY <1>1, <1>2, <2>1 DEF ToSet
  <2>2. CASE ~ (i <= Len(s))
    <3>1. i - Len(s) \in DOMAIN t /\ c[i] = t[i - Len(s)]
      BY <1>1, <1>2, <2>2
    <3> QED BY <3>1 DEF ToSet
  <2> QED BY <2>1, <2>2
<1> QED BY <1>3, <1>4, <1>5 DEF ToSet, c

LEMMA ImageFields ==
  ASSUME IsImage(img)
  PROVE  /\ img.segs \in Seq(Segments) /\ img.relr \in Seq(RelrEntries)
         /\ img.rela \in Seq(Rela(img)) /\ img.jmprel \in Seq(Rela(img))
         /\ Len(img.segs) \in Nat /\ Len(img.relr) \in Nat
         /\ Len(img.rela) \in Nat /\ Len(img.jmprel) \in Nat
         /\ img.init_count \in Nat
         /\ Rela(img) = ToSet(img.rela) \cup ToSet(img.jmprel)
         /\ ToSet(img.rela) = {img.rela[i] : i \in 1 .. Len(img.rela)}
         /\ ToSet(img.jmprel) = {img.jmprel[i] : i \in 1 .. Len(img.jmprel)}
<1> DEFINE R == ToSet(img.rela) \cup ToSet(img.jmprel)
<1>1. img.rela \in Seq(ToSet(img.rela)) /\ img.jmprel \in Seq(ToSet(img.jmprel))
  BY DEF IsImage
<1>2. img.rela \in Seq(R) /\ img.jmprel \in Seq(R)
  BY <1>1, SeqMonotonic
<1>3. /\ Len(img.rela) \in Nat /\ DOMAIN img.rela = 1 .. Len(img.rela)
      /\ Len(img.jmprel) \in Nat /\ DOMAIN img.jmprel = 1 .. Len(img.jmprel)
  BY <1>2, LenProperties
<1>6. Rela(img) = R
  BY <1>2, BothMembers DEF Rela
<1>7. /\ img.segs \in Seq(Segments) /\ img.relr \in Seq(RelrEntries) /\ img.init_count \in Nat
      /\ Len(img.segs) \in Nat /\ Len(img.relr) \in Nat
  BY DEF IsImage
<1>8. /\ ToSet(img.rela) = {img.rela[i] : i \in 1 .. Len(img.rela)}
      /\ ToSet(img.jmprel) = {img.jmprel[i] : i \in 1 .. Len(img.jmprel)}
  BY <1>3 DEF ToSet
<1> QED BY <1>2, <1>3, <1>6, <1>7, <1>8

LEMMA InitControl ==
  ASSUME Init
  PROVE  ControlInv
<1>1. PICK s \in Scenarios : argv = s.argv /\ envp = s.envp /\ img = s.img /\ map = s.map
  BY DEF Init
<1>2. /\ argv \in Seq(Strings) /\ envp \in Seq(Strings) /\ map \in Nat
      /\ IsImage(img) /\ WellLinked(img)
  BY <1>1, ScenarioAssumption, LinkedAssumption
<1>3. StackShape(k)
  <2> DEFINE m == [a \in 0 .. StackSize - 1 |-> Word(0)]
  <2>1. k = [mem |-> m, dp |-> 0, sp |-> StackSize, argc |-> 0]
    BY DEF Init, stack_init
  <2> HIDE DEF m
  <2> QED BY <2>1, StackAssumption DEF StackShape
<1>4. at = "start" /\ n = 0 /\ end = 0 /\ debug = FALSE /\ handlers = FALSE
  BY DEF Init
<1>5. TypeOK
  BY <1>3, <1>4 DEF TypeOK, StackShape
<1> QED
  BY <1>2, <1>3, <1>4, <1>5 DEF ControlInv, EntryAligned, Mapped, Loaded, Relocating, Running

LEMMA ControlStep ==
  ASSUME ControlInv, Next
  PROVE  ControlInv'
<1>1. /\ TypeOK /\ StackShape(k) /\ EntryAligned /\ IsImage(img) /\ WellLinked(img)
      /\ argv \in Seq(Strings) /\ envp \in Seq(Strings) /\ map \in Nat
      /\ Len(argv) \in Nat /\ Len(envp) \in Nat
  BY DEF ControlInv
<1>2. /\ Len(img.segs) \in Nat /\ Len(img.relr) \in Nat
      /\ Len(img.rela) \in Nat /\ Len(img.jmprel) \in Nat /\ img.init_count \in Nat
  BY <1>1, ImageFields
<1> DEFINE Fixed == /\ argv' = argv /\ envp' = envp /\ img' = img /\ map' = map
<1>3. Fixed
  BY DEF Next, SetEnvpNull, SetEnvp, ReadArgv, MapImage, LoadImage, ReadDynamic, OpenLibrary,
         RelocateRelr, RelocateRela, patcher_init, RunInit, PushArgs
<1> USE DEF Go, Ends, Mapped, Loaded, Relocating, Running
<1> DEFINE Labels == {"start", "env", "options", "load", "segments", "dynamic", "needed", "relr",
                      "rela", "jmprel", "handlers", "init", "args"} \cup Ends
(* What is left to show of a step.                                         *)
<1> DEFINE Rest ==
             /\ at' \in Labels /\ n' \in Nat /\ end' \in Nat
             /\ debug' \in BOOLEAN /\ handlers' \in BOOLEAN
             /\ StackShape(k)' /\ EntryAligned'
             /\ at' \in {"env", "options", "segments", "relr", "rela", "jmprel"} => n' >= 1
             /\ at' \in Mapped \cup {"load"} => end' \in 1 .. Len(argv)
             /\ at' = "args" => n' <= Len(argv)
             /\ at' = "segments" => n' <= Len(img.segs) + 1
             /\ at' = "relr" => n' <= Len(img.relr) + 1
             /\ at' = "rela" => n' <= Len(img.rela) + 1
             /\ at' = "jmprel" => n' <= Len(img.jmprel) + 1
             /\ at' = "init" => n' <= img.init_count + 1
<1>4. SUFFICES Rest
  <2>1. ASSUME Rest PROVE TypeOK'
    BY <2>1 DEF TypeOK, StackShape
  <2> QED BY <1>1, <1>3, <2>1 DEF ControlInv, Table
<1>17. /\ at \in Labels /\ n \in Nat /\ end \in Nat /\ debug \in BOOLEAN /\ handlers \in BOOLEAN
       /\ at \in {"env", "options", "segments", "relr", "rela", "jmprel"} => n >= 1
       /\ at \in Mapped \cup {"load"} => end \in 1 .. Len(argv)
  BY DEF ControlInv, TypeOK
(* The steps that load and relocate move no stack and end elsewhere.       *)
<1>18. ASSUME at' \in Labels, at' \notin {"entry", "args", "init"}, n' \in Nat,
              at' \in {"env", "options", "segments", "relr", "rela", "jmprel"} => n' >= 1,
              at' = "segments" => n' <= Len(img.segs) + 1,
              at' = "relr" => n' <= Len(img.relr) + 1,
              at' = "rela" => n' <= Len(img.rela) + 1,
              at' = "jmprel" => n' <= Len(img.jmprel) + 1,
              StackShape(k)', end' \in 1 .. Len(argv), debug' = debug, handlers' = handlers
       PROVE  Rest
  BY <1>1, <1>17, <1>18 DEF EntryAligned
<1>5. CASE SetEnvpNull
  <2>1. StackShape(k)'
    BY <1>1, <1>17, <1>5, WordPushed DEF SetEnvpNull
  <2> QED BY <1>1, <1>17, <1>5, <2>1 DEF SetEnvpNull, EntryAligned
<1>6. CASE SetEnvp
  <2>1. StackShape(k)'
    <3>1. CASE n <= Len(envp)
      <4>1. envp[n] \in Strings
        BY <1>1, <1>17, <1>6, <3>1 DEF SetEnvp
      <4> QED BY <1>1, <1>17, <1>6, <3>1, <4>1, StringPushed DEF SetEnvp
    <3> QED BY <1>1, <1>17, <1>6, <3>1 DEF SetEnvp
  <2> QED BY <1>1, <1>17, <1>6, <2>1 DEF SetEnvp, EntryAligned, ControlInv
<1>7. CASE ReadArgv
  <2>1. StackShape(k)' /\ n >= 1 /\ n \in Nat /\ debug \in BOOLEAN
    BY <1>1, <1>17, <1>7 DEF ReadArgv
  <2>2. CASE n > Len(argv)
    BY <1>1, <1>17, <1>7, <2>1, <2>2 DEF ReadArgv, EntryAligned
  <2>3. CASE n <= Len(argv) /\ argv[n] \notin DOMAIN Options
    BY <1>1, <1>17, <1>7, <2>1, <2>3 DEF ReadArgv, EntryAligned
  <2>4. CASE n <= Len(argv) /\ argv[n] \in DOMAIN Options
    <3>1. at' \in {"usage", "options"} /\ n' = n + 1
      BY <1>7, <2>1, <2>4 DEF ReadArgv
    <3>2. debug' \in BOOLEAN
      BY <1>7, <2>1, <2>4 DEF ReadArgv
    <3> QED BY <1>1, <1>17, <1>7, <2>1, <2>4, <3>1, <3>2 DEF ReadArgv, EntryAligned
  <2> QED BY <1>1, <1>17, <2>1, <2>2, <2>3, <2>4
<1>8. CASE MapImage
  <2>1. \/ at' = "crash" /\ n' = 0
        \/ at' = "panic" /\ n' = 0
        \/ at' = "segments" /\ n' = 1
    BY Zenon, <1>8 DEF MapImage
  <2>2. /\ at = "load" /\ k' = k /\ end' = end /\ debug' = debug /\ handlers' = handlers
    BY <1>8 DEF MapImage
  <2>3. StackShape(k)' /\ end' \in 1 .. Len(argv)
    BY <1>1, <1>17, <2>2
  <2> HIDE DEF Rest
  <2> QED BY <1>1, <1>2, <1>18, <2>1, <2>2, <2>3
<1>9. CASE LoadImage
  <2>1. \/ at' \in {"dynamic", "stray"} /\ n' = 0
        \/ at' = "segments" /\ n' = n + 1 /\ n <= Len(img.segs)
    <3>1. n \in Nat /\ Len(img.segs) \in Nat
      BY <1>1, <1>17
    <3> QED BY <1>9, <3>1 DEF LoadImage
  <2>2. /\ StackShape(k)' /\ end' \in 1 .. Len(argv) /\ n \in Nat
        /\ k' = k /\ end' = end /\ debug' = debug /\ handlers' = handlers
    BY <1>1, <1>17, <1>9 DEF LoadImage
  <2> HIDE DEF Rest
  <2> QED BY <1>1, <1>2, <1>18, <2>1, <2>2
<1>10. CASE ReadDynamic
  BY <1>1, <1>17, <1>2, <1>10 DEF ReadDynamic, EntryAligned, ControlInv
<1>11. CASE OpenLibrary
  <2>1. \/ at' = "panic" /\ n' = 0
        \/ at' = "relr" /\ n' = 1
        \/ at' = "needed" /\ n' = n + 1
    BY <1>1, <1>17, <1>2, <1>11 DEF OpenLibrary
  <2>2. /\ StackShape(k)' /\ end' \in 1 .. Len(argv) /\ n \in Nat
        /\ k' = k /\ end' = end /\ debug' = debug /\ handlers' = handlers
    BY <1>1, <1>17, <1>11 DEF OpenLibrary
  <2> HIDE DEF Rest
  <2> QED BY <1>1, <1>2, <1>18, <2>1, <2>2
<1>12. CASE RelocateRelr
  <2>1. \/ at' = "rela" /\ n' = 1
        \/ at' = "relr" /\ n' = n + 1 /\ n <= Len(img.relr)
    BY <1>1, <1>17, <1>2, <1>12 DEF RelocateRelr
  <2>2. /\ StackShape(k)' /\ end' \in 1 .. Len(argv) /\ n \in Nat
        /\ k' = k /\ end' = end /\ debug' = debug /\ handlers' = handlers
    BY <1>1, <1>17, <1>12 DEF RelocateRelr
  <2> HIDE DEF Rest
  <2> QED BY <1>1, <1>2, <1>18, <2>1, <2>2
<1>13. CASE RelocateRela
  <2>1. \/ at' \in {"panic", "handlers"} /\ n' = 0
        \/ at' = "jmprel" /\ n' = 1
        \/ at' = at /\ at \in {"rela", "jmprel"} /\ n' = n + 1 /\ n <= Len(Table)
    BY <1>1, <1>17, <1>2, <1>13 DEF RelocateRela
  <2>2. /\ StackShape(k)' /\ end' \in 1 .. Len(argv) /\ n \in Nat
        /\ k' = k /\ end' = end /\ debug' = debug /\ handlers' = handlers
    BY <1>1, <1>17, <1>13 DEF RelocateRela
  <2> HIDE DEF Rest
  <2>3. CASE at' \in {"panic", "handlers"} /\ n' = 0
    BY <1>18, <2>2, <2>3
  <2>4. CASE at' = "jmprel" /\ n' = 1
    BY <1>1, <1>2, <1>18, <2>2, <2>4
  <2>5. CASE at' = at /\ at \in {"rela", "jmprel"} /\ n' = n + 1 /\ n <= Len(Table)
    <3>1. n' \in Nat /\ n' >= 1
      BY <2>2, <2>5
    <3>2. CASE at = "rela"
      <4>1. n' <= Len(img.rela) + 1
        BY <1>1, <1>2, <2>2, <2>5, <3>2 DEF Table
      <4> QED BY <1>18, <2>2, <2>5, <3>1, <3>2, <4>1
    <3>3. CASE at = "jmprel"
      <4>1. n' <= Len(img.jmprel) + 1
        BY <1>1, <1>2, <2>2, <2>5, <3>3 DEF Table
      <4> QED BY <1>18, <2>2, <2>5, <3>1, <3>3, <4>1
    <3> QED BY <2>5, <3>2, <3>3
  <2> QED BY <2>1, <2>3, <2>4, <2>5
<1>14. CASE patcher_init
  BY <1>1, <1>17, <1>2, <1>14 DEF patcher_init, EntryAligned, ControlInv
<1>15. CASE RunInit
  <2>1. StackShape(k)'
    <3>1. CASE k' = k
      BY <1>1, <1>17, <3>1
    <3>2. CASE k' = PushWord(set_auxv(k, Auxv), 0)
      <4>1. Len(Auxv) = 3
        BY DEF Auxv
      <4>2. StackShape(set_auxv(k, Auxv))
        BY <1>1, <1>17, <4>1, AuxvPushed
      <4> QED BY <3>2, <4>2, WordPushed
    <3> QED BY <1>15, <3>1, <3>2 DEF RunInit
  <2>2. \/ at' = "init" /\ n' = 1 /\ n = 0
        \/ at' = "init" /\ n' = n + 1 /\ n <= img.init_count
        \/ at' = "args" /\ n' = Len(argv)
    BY <1>15 DEF RunInit
  <2>3. /\ at = "init" /\ end' = end /\ debug' = debug /\ handlers' = handlers
    BY <1>15 DEF RunInit
  <2>4. end' \in 1 .. Len(argv)
    BY <1>17, <2>3
  <2>5. n' \in Nat /\ (at' = "args" => n' <= Len(argv)) /\ (at' = "init" => n' <= img.init_count + 1)
    BY <1>1, <1>2, <1>17, <2>2
  <2> QED BY <1>17, <2>1, <2>2, <2>3, <2>4, <2>5 DEF EntryAligned
<1>16. CASE PushArgs
  <2>1. end \in 1 .. Len(argv) /\ n <= Len(argv) /\ n \in Nat
    BY <1>1, <1>17, <1>16 DEF PushArgs, ControlInv
  <2>2. CASE n >= end
    <3>1. argv[n] \in Strings
      BY <1>1, <1>17, <2>1, <2>2
    <3>2. StackShape(k)' /\ at' = "args" /\ n' = n - 1
      BY <1>1, <1>17, <1>16, <2>2, <3>1, ArgPushed DEF PushArgs
    <3>3. n - 1 \in Nat /\ n - 1 <= Len(argv)
      BY <2>1, <2>2
    <3> QED
      BY <1>1, <1>17, <1>16, <2>1, <3>2, <3>3 DEF PushArgs, EntryAligned
  <2>3. CASE ~ (n >= end)
    <3>1. StackShape(k)' /\ EntryAligned' /\ at' = "entry" /\ n' = 0
      BY <1>1, <1>17, <1>16, <2>3, ArgcPushed DEF PushArgs, EntryAligned
    <3> QED BY <1>1, <1>17, <1>16, <2>1, <3>1 DEF PushArgs
  <2> QED BY <2>2, <2>3
<1> QED
  BY <1>5, <1>6, <1>7, <1>8, <1>9, <1>10, <1>11, <1>12, <1>13, <1>14, <1>15, <1>16 DEF Next

THEOREM ControlHolds == Spec => []ControlInv
<1>1. Init => ControlInv
  BY InitControl
<1>2. ControlInv /\ [Next]_vars => ControlInv'
  <2>1. ASSUME ControlInv, UNCHANGED vars PROVE ControlInv'
    <3>1. ControlInv' <=> ControlInv
      BY <2>1 DEF ControlInv, TypeOK, StackShape, EntryAligned, Table, vars
    <3> QED BY <2>1, <3>1
  <2> QED BY <2>1, ControlStep
<1> QED BY <1>1, <1>2, PTL DEF Spec

(***************************************************************************)
(* main is always at a place of its own, its counters in their ranges, and *)
(* sp never above the mapping.                                             *)
(***************************************************************************)
THEOREM TypeCorrect == Spec => []TypeOK
<1>1. ControlInv => TypeOK
  BY DEF ControlInv
<1> QED BY <1>1, ControlHolds, PTL

(***************************************************************************)
(* sp is a multiple of 16 bytes at the guest's entry, for every command    *)
(* line and every environment.                                             *)
(***************************************************************************)
THEOREM EntryIsAligned == Spec => []EntryAligned
<1>1. ControlInv => EntryAligned
  BY DEF ControlInv
<1> QED BY <1>1, ControlHolds, PTL

-----------------------------------------------------------------------------
(***************************************************************************)
(* The mapping.  The smallest and the largest number of a set; rounding to *)
(* pages.                                                                  *)
(***************************************************************************)
LEMMA MinOf ==
  ASSUME NEW S, S \subseteq Nat, S # {}
  PROVE  Min(S) \in S /\ \A y \in S : Min(S) <= y
<1> DEFINE R == {ss \in Nat \X Nat : ss[1] < ss[2]}
<1>1. IsWellFoundedOn(R, Nat)
  BY NatLessThanWellFounded DEF OpToRel
<1>2. PICK i \in S : TRUE
  OBVIOUS
<1>3. PICK p \in S : \A j \in S : ~ (<<j, p>> \in R)
  <2> HIDE DEF R
  <2> QED BY <1>1, <1>2, WFMin
<1>4. ASSUME NEW j \in S PROVE p <= j
  <2>1. j \in Nat /\ p \in Nat /\ ~ (<<j, p>> \in R)
    BY <1>3
  <2>2. j < p => <<j, p>> \in R
    BY <2>1
  <2> QED BY <2>1, <2>2
<1> QED BY <1>4 DEF Min

LEMMA MaxOf ==
  ASSUME NEW m \in Nat, NEW S, S \subseteq 0 .. m, S # {}
  PROVE  Max(S) \in S /\ \A y \in S : y <= Max(S)
<1> DEFINE T == {m - y : y \in S}
<1>1. T \subseteq Nat /\ T # {}
  <2>1. ASSUME NEW y \in S PROVE m - y \in Nat
    BY y \in 0 .. m
  <2>2. PICK y \in S : TRUE
    OBVIOUS
  <2>3. m - y \in T
    OBVIOUS
  <2> QED BY <2>1, <2>3
<1>2. Min(T) \in T /\ \A y \in T : Min(T) <= y
  <2> HIDE DEF T
  <2> QED BY <1>1, MinOf
<1>3. PICK z \in S : Min(T) = m - z
  BY <1>2
<1>4. ASSUME NEW y \in S PROVE y <= z
  <2>1. m - z <= m - y
    BY <1>2, <1>3
  <2> QED BY <2>1
<1> QED BY <1>3, <1>4 DEF Max

(* A sequence of numbers has a bound.                                      *)
LEMMA Bounded ==
  ASSUME NEW c \in Nat, NEW f, \A i \in 1 .. c : f[i] \in Nat
  PROVE  \E m \in Nat : \A i \in 1 .. c : f[i] <= m
<1> DEFINE B(j) == \E m \in Nat : \A i \in 1 .. j : f[i] <= m
           S == {j \in 0 .. c : ~ B(j)}
<1>1. SUFFICES ASSUME S # {} PROVE FALSE
  <2>1. c \in 0 .. c
    OBVIOUS
  <2> HIDE DEF B
  <2>2. B(c)
    BY <2>1
  <2> QED BY <2>2 DEF B
<1> DEFINE p == Min(S)
<1>2. p \in S /\ \A j \in S : p <= j
  <2>1. S \subseteq Nat
    OBVIOUS
  <2> HIDE DEF S
  <2> QED BY <1>1, <2>1, MinOf
<1>3. p \in 0 .. c /\ ~ B(p)
  BY <1>2
<1> HIDE DEF p
<1>4. B(0)
  OBVIOUS
<1>5. p # 0 /\ p - 1 \in 0 .. c
  BY <1>3, <1>4
<1>6. PICK m \in Nat : \A i \in 1 .. p - 1 : f[i] <= m
  <2> HIDE DEF B
  <2>1. ~ (p <= p - 1)
    BY <1>3
  <2>2. p - 1 \notin S
    <3> HIDE DEF S
    <3> QED BY <1>2, <2>1
  <2>3. B(p - 1)
    BY <1>5, <2>2
  <2> QED BY <2>3 DEF B
<1>7. CASE f[p] <= m
  <2>1. \A i \in 1 .. p : i \in 1 .. p - 1 \/ i = p
    BY <1>3, <1>5
  <2> QED BY <1>3, <1>6, <1>7, <2>1
<1>8. CASE ~ (f[p] <= m)
  <2>1. f[p] \in Nat
    BY <1>3, <1>5
  <2>2. \A i \in 1 .. p : f[i] <= f[p]
    <3> SUFFICES ASSUME NEW i \in 1 .. p PROVE f[i] <= f[p]
      OBVIOUS
    <3>1. CASE i = p
      BY <2>1, <3>1
    <3>2. CASE i # p
      <4>1. i \in 1 .. p - 1 /\ f[i] \in Nat
        BY <1>3, <1>5, <3>2
      <4> QED BY <1>6, <1>8, <2>1, <4>1
    <3> QED BY <3>1, <3>2
  <2> QED BY <1>3, <2>1, <2>2
<1> QED BY <1>7, <1>8

LEMMA PageBounds ==
  ASSUME NEW a \in Nat
  PROVE  /\ PageDown(a) \in Nat /\ PageDown(a) <= a
         /\ PageUp(a) \in Nat /\ a <= PageUp(a)
<1>1. PAGE_SIZE \in Nat \ {0}
  BY LoaderAssumption
<1>2. /\ a % PAGE_SIZE \in 0 .. PAGE_SIZE - 1
      /\ (a + PAGE_SIZE - 1) % PAGE_SIZE \in 0 .. PAGE_SIZE - 1
  BY <1>1
<1>3. a % PAGE_SIZE <= a
  BY <1>1
<1> QED BY <1>1, <1>2, <1>3 DEF PageDown, PageUp

LEMMA SegmentFields ==
  ASSUME IsImage(img), NEW i \in 1 .. Len(img.segs)
  PROVE  /\ img.segs[i].vaddr \in Nat /\ img.segs[i].memsz \in Nat /\ img.segs[i].filesz \in Nat
         /\ img.segs[i].filesz <= img.segs[i].memsz
         /\ img.file[i] \in [1 .. img.segs[i].filesz -> Nat]
<1>1. img.segs \in Seq(Segments) /\ DOMAIN img.segs = 1 .. Len(img.segs)
  <2>1. img.segs \in Seq(Segments)
    BY DEF IsImage
  <2> QED BY <2>1, LenProperties
<1>2. img.segs[i] \in Segments
  BY <1>1, ElementOfSeq
<1>3. \A s \in Segments : s.vaddr \in Nat /\ s.memsz \in Nat /\ s.filesz \in Nat
  BY DEF Segments
<1> QED BY <1>1, <1>2, <1>3 DEF IsImage

(* The image's ends are ends of segments.                                  *)
LEMMA ImageEnds ==
  ASSUME IsImage(img)
  PROVE  /\ Lowest(img) \in Nat /\ Highest(img) \in Nat
         /\ \A i \in 1 .. Len(img.segs) : /\ Lowest(img) <= img.segs[i].vaddr
                                           /\ img.segs[i].vaddr + img.segs[i].memsz <= Highest(img)
         /\ \E i \in 1 .. Len(img.segs) : Lowest(img) = img.segs[i].vaddr
         /\ \E i \in 1 .. Len(img.segs) : Highest(img) = img.segs[i].vaddr + img.segs[i].memsz
<1> DEFINE c == Len(img.segs)
           L == {s.vaddr : s \in ToSet(img.segs)}
           H == {s.vaddr + s.memsz : s \in ToSet(img.segs)}
           f == [i \in 1 .. c |-> img.segs[i].vaddr + img.segs[i].memsz]
<1>1. /\ c \in Nat /\ c >= 1 /\ DOMAIN img.segs = 1 .. c
      /\ \A i \in 1 .. c : img.segs[i].vaddr \in Nat /\ img.segs[i].memsz \in Nat
  <2>1. img.segs \in Seq(Segments) /\ img.segs # << >>
    BY DEF IsImage
  <2>2. c \in Nat /\ c >= 1 /\ DOMAIN img.segs = 1 .. c
    BY <2>1, EmptySeq, LenProperties
  <2> QED BY <2>2, SegmentFields
<1>2. ToSet(img.segs) = {img.segs[i] : i \in 1 .. c}
  BY <1>1 DEF ToSet
<1> HIDE DEF c
<1>3. Min(L) \in L /\ \A y \in L : Min(L) <= y
  <2>1. L \subseteq Nat /\ img.segs[1].vaddr \in L
    BY <1>1, <1>2
  <2> HIDE DEF L
  <2> QED BY <2>1, MinOf
<1>4. Max(H) \in H /\ \A y \in H : y <= Max(H)
  <2>1. PICK m \in Nat : \A i \in 1 .. c : f[i] <= m
    <3>1. \A i \in 1 .. c : f[i] \in Nat
      BY <1>1
    <3> HIDE DEF f
    <3> QED BY <1>1, <3>1, Bounded
  <2>2. H \subseteq 0 .. m /\ img.segs[1].vaddr + img.segs[1].memsz \in H
    BY <1>1, <1>2, <2>1
  <2> HIDE DEF H
  <2> QED BY <2>2, MaxOf
<1>5. L = {img.segs[i].vaddr : i \in 1 .. c}
  BY <1>2
<1>6. H = {f[i] : i \in 1 .. c} /\ \A i \in 1 .. c : f[i] \in Nat
  BY <1>1, <1>2
<1>7. Lowest(img) = Min(L) /\ Highest(img) = Max(H)
  BY DEF Lowest, Highest
<1> HIDE DEF L, H
<1>8. /\ Lowest(img) \in Nat
      /\ \A i \in 1 .. c : Lowest(img) <= img.segs[i].vaddr
      /\ \E i \in 1 .. c : Lowest(img) = img.segs[i].vaddr
  BY <1>1, <1>3, <1>5, <1>7
<1>9. /\ Highest(img) \in Nat
      /\ \A i \in 1 .. c : img.segs[i].vaddr + img.segs[i].memsz <= Highest(img)
      /\ \E i \in 1 .. c : Highest(img) = img.segs[i].vaddr + img.segs[i].memsz
  <2> SUFFICES /\ Highest(img) \in Nat
               /\ \A i \in 1 .. c : f[i] <= Highest(img)
               /\ \E i \in 1 .. c : Highest(img) = f[i]
    OBVIOUS
  <2> HIDE DEF f
  <2> QED BY <1>4, <1>6, <1>7
<1> QED BY <1>8, <1>9 DEF c

LEMMA ImageRange ==
  ASSUME IsImage(img)
  PROVE  Lowest(img) \in Nat /\ Highest(img) \in Nat
BY ImageEnds

LEMMA ImageAbove ==
  ASSUME IsImage(img), NEW i \in 1 .. Len(img.segs)
  PROVE  Lowest(img) <= img.segs[i].vaddr
BY ImageEnds

LEMMA Sizes ==
  ASSUME IsImage(img)
  PROVE  /\ Span(img) \in Nat /\ guest_size(img) \in Nat /\ PageDown(Lowest(img)) \in Nat
         /\ PageDown(Lowest(img)) <= Lowest(img)
         /\ Highest(img) - PageDown(Lowest(img)) <= Span(img)
         /\ 2 * Span(img) < UINT32 => size(img) = Span(img) /\ guest_size(img) = 2 * Span(img)
<1>1. UINT32 \in Nat \ {0}
  BY LoaderAssumption
<1>2. PICK i \in 1 .. Len(img.segs) : Highest(img) = img.segs[i].vaddr + img.segs[i].memsz
  BY ImageEnds
<1>3. img.segs[i].vaddr \in Nat /\ img.segs[i].memsz \in Nat
  BY SegmentFields
<1>4. Lowest(img) \in Nat /\ Highest(img) \in Nat /\ Lowest(img) <= Highest(img)
  <2> DEFINE v == img.segs[i].vaddr
             c == img.segs[i].memsz
  <2>1. v \in Nat /\ c \in Nat /\ Highest(img) = v + c
    BY <1>2, <1>3
  <2>2. Lowest(img) \in Nat /\ Lowest(img) <= v
    BY ImageRange, ImageAbove
  <2> HIDE DEF v, c
  <2> QED BY <2>1, <2>2
<1>5. /\ PageDown(Lowest(img)) \in Nat /\ PageDown(Lowest(img)) <= Lowest(img)
      /\ PageUp(Highest(img)) \in Nat /\ Highest(img) <= PageUp(Highest(img))
  BY <1>4, PageBounds
<1>6. Span(img) \in Nat /\ Highest(img) - PageDown(Lowest(img)) <= Span(img)
  BY <1>4, <1>5 DEF Span
<1>7. \A s \in Nat : s % UINT32 \in Nat /\ (2 * s < UINT32 => s % UINT32 = s /\ (s + s) % UINT32 = 2 * s)
  BY <1>1
<1>8. size(img) \in Nat /\ (2 * Span(img) < UINT32 => size(img) = Span(img))
  BY <1>6, <1>7 DEF size
<1>9. guest_size(img) \in Nat
  BY <1>1, <1>8 DEF guest_size
<1>10. 2 * Span(img) < UINT32 => guest_size(img) = 2 * Span(img)
  BY <1>6, <1>7, <1>8 DEF guest_size
<1> QED BY <1>5, <1>6, <1>8, <1>9, <1>10

(* An image of less than 2 GiB, rounded, is nowhere outside its mapping.   *)
LEMMA NeverStrays ==
  ASSUME IsImage(img), map \in Nat, 2 * Span(img) < UINT32, NEW i \in 1 .. Len(img.segs)
  PROVE  ~ Strays(img, map, i)
<1> DEFINE s == img.segs[i]
           b == map - PageDown(Lowest(img))
<1>1. s.vaddr \in Nat /\ s.memsz \in Nat
  BY SegmentFields
<1>2. /\ Lowest(img) \in Nat /\ Highest(img) \in Nat
      /\ Lowest(img) <= s.vaddr /\ s.vaddr + s.memsz <= Highest(img)
  BY ImageEnds
<1>3. /\ Span(img) \in Nat /\ guest_size(img) = 2 * Span(img) /\ PageDown(Lowest(img)) \in Nat
      /\ PageDown(Lowest(img)) <= Lowest(img)
      /\ Highest(img) - PageDown(Lowest(img)) <= Span(img)
  BY Sizes
<1> HIDE DEF s
<1>4. ASSUME s.memsz > 0, NEW a \in {s.vaddr, s.vaddr + s.memsz - 1}
      PROVE  b + a \in map .. map + guest_size(img) - 1
  <2>1. a \in Nat /\ s.vaddr <= a /\ a <= s.vaddr + s.memsz - 1
    BY <1>1, <1>4
  <2>2. a <= Highest(img) - 1 /\ Lowest(img) <= a
    BY <1>1, <1>2, <2>1
  <2>3. map <= b + a
    BY <1>2, <1>3, <2>1, <2>2
  <2>4. b + a <= map + guest_size(img) - 1
    BY <1>2, <1>3, <2>1, <2>2
  <2> QED BY <1>2, <1>3, <2>1, <2>3, <2>4
<1>5. mmap_base(img, map).base = b
  BY DEF mmap_base
<1> HIDE DEF b
<1> QED BY <1>4, <1>5 DEF Strays, s

(* When no segment strays, the whole image is inside.                      *)
LEMMA InsideMapping ==
  ASSUME IsImage(img), WellLinked(img), map \in Nat,
         \A i \in 1 .. Len(img.segs) : ~ Strays(img, map, i),
         NEW a \in Lowest(img) .. Highest(img) - 1
  PROVE  mmap_base(img, map).base + a \in map .. map + guest_size(img) - 1
<1> DEFINE b == mmap_base(img, map).base
           last == map + guest_size(img) - 1
<1>1. b \in Int /\ last \in Int /\ Lowest(img) \in Nat /\ Highest(img) \in Nat
  <2>1. b = map - PageDown(Lowest(img))
    BY DEF mmap_base
  <2>2. PageDown(Lowest(img)) \in Nat /\ guest_size(img) \in Nat
    BY Sizes
  <2> HIDE DEF b
  <2> QED BY <2>1, <2>2, ImageRange
<1>2. PICK i \in 1 .. Len(img.segs) : Lowest(img) = img.segs[i].vaddr
  BY ImageEnds
<1>3. PICK j \in 1 .. Len(img.segs) : Highest(img) = img.segs[j].vaddr + img.segs[j].memsz
  BY ImageEnds
<1>4. img.segs[i].memsz > 0 /\ img.segs[j].memsz > 0
  <2>1. DOMAIN img.segs = 1 .. Len(img.segs)
    BY ImageFields, LenProperties
  <2>2. img.segs[i] \in ToSet(img.segs) /\ img.segs[j] \in ToSet(img.segs)
    BY <2>1 DEF ToSet
  <2> QED BY <2>2 DEF WellLinked
<1>5. b + img.segs[i].vaddr \in map .. last
  BY <1>4 DEF Strays
<1>6. b + (img.segs[j].vaddr + img.segs[j].memsz - 1) \in map .. last
  BY <1>4 DEF Strays
<1> DEFINE e == img.segs[j].vaddr + img.segs[j].memsz
<1>10. b + (e - 1) \in map .. last
  <2> DEFINE v == img.segs[j].vaddr
             m == img.segs[j].memsz
  <2>1. v \in Nat /\ m \in Nat /\ e = v + m
    BY SegmentFields
  <2>2. b + (v + m - 1) \in map .. last
    BY <1>6
  <2> HIDE DEF b, last, v, m, e
  <2> QED BY <1>1, <2>1, <2>2
<1>9. Highest(img) = e
  BY <1>3
<1> HIDE DEF b, last, e
<1>7. b + Lowest(img) >= map /\ b + (Highest(img) - 1) <= last
  <2>1. b + (Highest(img) - 1) \in map .. last
    BY <1>9, <1>10
  <2> QED BY <1>1, <1>2, <1>5, <2>1
<1>8. b + a \in map .. last
  BY <1>1, <1>7
<1> QED BY <1>8 DEF b, last

-----------------------------------------------------------------------------
(***************************************************************************)
(* What one relocation does to the relocator's record x.                   *)
(***************************************************************************)
MemPut(x, m) == [x EXCEPT !.mem = m]
SlotsPut(x, m, w) == [x EXCEPT !.mem = m, !.where = w]
CellPut(x, p, v) == [x EXCEPT !.mem[p] = v]
FlagPut(x, f) == [x EXCEPT !.allright = f]
CopyPut(x, m, g) == [x EXCEPT !.mem = m, !.got = g]

LEMMA MemPutFields ==
  ASSUME NEW x, LoadShape(x), NEW m
  PROVE  /\ LoadShape(MemPut(x, m)) /\ MemPut(x, m).mem = m
         /\ MemPut(x, m).where = x.where /\ MemPut(x, m).got = x.got
         /\ MemPut(x, m).allright = x.allright
<1>1. MemPut(x, m) = [mem |-> m, where |-> x.where, got |-> x.got, allright |-> x.allright]
  BY DEF LoadShape, MemPut
<1> QED BY <1>1 DEF LoadShape

LEMMA SlotsPutFields ==
  ASSUME NEW x, LoadShape(x), NEW m, NEW w
  PROVE  /\ LoadShape(SlotsPut(x, m, w)) /\ SlotsPut(x, m, w).mem = m
         /\ SlotsPut(x, m, w).where = w /\ SlotsPut(x, m, w).got = x.got
         /\ SlotsPut(x, m, w).allright = x.allright
<1> DEFINE z == [x EXCEPT !.mem = m]
<1>1. z = [mem |-> m, where |-> x.where, got |-> x.got, allright |-> x.allright]
  BY DEF LoadShape
<1>2. SlotsPut(x, m, w) = [z EXCEPT !.where = w]
  BY DEF SlotsPut
<1> HIDE DEF z
<1>3. SlotsPut(x, m, w) = [mem |-> m, where |-> w, got |-> x.got, allright |-> x.allright]
  BY <1>1, <1>2
<1> QED BY <1>3 DEF LoadShape

LEMMA CellPutFields ==
  ASSUME NEW x, LoadShape(x), NEW p, NEW v
  PROVE  /\ LoadShape(CellPut(x, p, v)) /\ CellPut(x, p, v).mem = [x.mem EXCEPT ![p] = v]
         /\ CellPut(x, p, v).where = x.where /\ CellPut(x, p, v).got = x.got
         /\ CellPut(x, p, v).allright = x.allright
<1> DEFINE m == [x.mem EXCEPT ![p] = v]
<1>1. CellPut(x, p, v) = [x EXCEPT !.mem = m]
  BY DEF CellPut
<1> HIDE DEF m
<1>2. CellPut(x, p, v) = [mem |-> m, where |-> x.where, got |-> x.got, allright |-> x.allright]
  BY <1>1 DEF LoadShape
<1> QED BY <1>2 DEF LoadShape, m

LEMMA FlagPutFields ==
  ASSUME NEW x, LoadShape(x), NEW f
  PROVE  /\ LoadShape(FlagPut(x, f)) /\ FlagPut(x, f).mem = x.mem
         /\ FlagPut(x, f).where = x.where /\ FlagPut(x, f).got = x.got /\ FlagPut(x, f).allright = f
<1>1. FlagPut(x, f) = [mem |-> x.mem, where |-> x.where, got |-> x.got, allright |-> f]
  BY DEF LoadShape, FlagPut
<1> QED BY <1>1 DEF LoadShape

LEMMA CopyPutFields ==
  ASSUME NEW x, LoadShape(x), NEW m, NEW g
  PROVE  /\ LoadShape(CopyPut(x, m, g)) /\ CopyPut(x, m, g).mem = m
         /\ CopyPut(x, m, g).where = x.where /\ CopyPut(x, m, g).got = g
         /\ CopyPut(x, m, g).allright = x.allright
<1> DEFINE z == [x EXCEPT !.mem = m]
<1>1. z = [mem |-> m, where |-> x.where, got |-> x.got, allright |-> x.allright]
  BY DEF LoadShape
<1>2. CopyPut(x, m, g) = [z EXCEPT !.got = g]
  BY DEF CopyPut
<1> HIDE DEF z
<1>3. CopyPut(x, m, g) = [mem |-> m, where |-> x.where, got |-> g, allright |-> x.allright]
  BY <1>1, <1>2
<1> QED BY <1>3 DEF LoadShape

(* Everything the invariants need of reloc_rela: what cannot be resolved is*)
(* remembered, and otherwise the relocation's cells, no others, hold what  *)
(* it asks for.  The libraries are touched by a COPY only.                 *)
LEMMA Applying ==
  ASSUME NEW x, LoadShape(x), NEW image, NEW b \in Int, NEW r, r.offset \in Nat,
         DOMAIN x.mem \subseteq Int, image.symtab[r.sym].size \in Nat
  PROVE  LET y == reloc_rela(x, image, OS, libs, b, r)
         IN  /\ LoadShape(y) /\ DOMAIN y.mem = DOMAIN x.mem /\ y.where = x.where
             /\ y.allright => x.allright
             /\ y.got = x.got \/ y.got = patch_library_got(x.got, r.sym, b + r.offset)
             /\ r.type # "COPY" => y.got = x.got
             /\ r.type = "COPY" /\ y.allright => y.got = patch_library_got(x.got, r.sym, b + r.offset)
             /\ y.allright =>
                  \A a \in DOMAIN x.mem :
                    IF a - b \in RelaCells(image, r)
                    THEN IF r.type = "COPY" THEN y.mem[a] = OS.data[r.sym][a - b - r.offset + 1]
                         ELSE /\ r.type = "RELATIVE" => y.mem[a] = b + r.addend
                              /\ r.type \notin {"64", "RELATIVE"} => y.mem[a] = SymbolAddress(OS, libs, r.sym)
                    ELSE y.mem[a] = x.mem[a]
<1> DEFINE y == reloc_rela(x, image, OS, libs, b, r)
           p == b + r.offset
           sym == image.symtab[r.sym]
           to == SymbolAddress(OS, libs, r.sym)
           Put(v) == CellPut(x, p, v)
           Bad == FlagPut(x, FALSE)
           m == [a \in DOMAIN x.mem |-> IF a \in p .. p + sym.size - 1
                                         THEN OS.data[r.sym][a - p + 1] ELSE x.mem[a]]
           g == patch_library_got(x.got, r.sym, p)
           Copied == CopyPut(x, m, g)
           Good ==
             /\ LoadShape(y) /\ DOMAIN y.mem = DOMAIN x.mem /\ y.where = x.where
             /\ y.allright => x.allright
             /\ y.got = x.got \/ y.got = g
             /\ r.type # "COPY" => y.got = x.got
             /\ r.type = "COPY" /\ y.allright => y.got = g
             /\ y.allright =>
                  \A a \in DOMAIN x.mem :
                    IF a - b \in RelaCells(image, r)
                    THEN IF r.type = "COPY" THEN y.mem[a] = OS.data[r.sym][a - b - r.offset + 1]
                         ELSE /\ r.type = "RELATIVE" => y.mem[a] = b + r.addend
                              /\ r.type \notin {"64", "RELATIVE"} => y.mem[a] = to
                    ELSE y.mem[a] = x.mem[a]
<1>1. SUFFICES Good
  BY Zenon 
<1>2. /\ r.type = "NONE" => y = x
      /\ r.type = "64" => y = Put(sym.value + r.addend)
      /\ r.type = "RELATIVE" => y = Put(b + r.addend)
      /\ r.type \in {"JUMP_SLOT", "GLOB_DAT"} => y = Put(to) \/ (to = 0 /\ y = Put(0)) \/ y = Bad
      /\ r.type = "COPY" => y = Copied \/ y = Bad
      /\ r.type \notin {"NONE", "64", "RELATIVE", "JUMP_SLOT", "GLOB_DAT", "COPY"} => y = Bad
  <2> HIDE DEF m, g, to
  <2> QED BY Zenon DEF reloc_rela, m, g, to, CellPut, FlagPut, CopyPut
<1>3. p \in Int /\ sym.size \in Nat
  OBVIOUS
<1>4. ASSUME y = Bad PROVE Good
  <2> DEFINE f == FALSE
  <2>1. y = FlagPut(x, f)
    BY <1>4
  <2> HIDE DEF f, y, g, Bad
  <2>2. LoadShape(y) /\ y.mem = x.mem /\ y.where = x.where /\ y.got = x.got /\ y.allright = f
    BY <2>1, FlagPutFields
  <2> QED BY <2>2 DEF f
<1>5. ASSUME NEW v, y = Put(v), r.type \in {"64", "RELATIVE", "JUMP_SLOT", "GLOB_DAT"},
             r.type = "RELATIVE" => v = b + r.addend,
             r.type \in {"JUMP_SLOT", "GLOB_DAT"} => v = to
      PROVE  Good
  <2>a. p - b = r.offset
    OBVIOUS
  <2>b. y = CellPut(x, p, v) /\ LoadShape(x)
    BY <1>5
  <2> HIDE DEF y, g, to, p, Good
  <2>1. /\ LoadShape(y) /\ y.mem = [x.mem EXCEPT ![p] = v]
        /\ y.where = x.where /\ y.got = x.got /\ y.allright = x.allright
    <3> HIDE <1>5
    <3> QED BY <2>b, CellPutFields
  <2> USE DEF p, Good
  <2>2. RelaCells(image, r) = {r.offset}
    BY <1>5 DEF RelaCells
  <2>3. \A a \in DOMAIN x.mem : y.mem[a] = IF a = p THEN v ELSE x.mem[a]
    BY <2>1
  <2>4. \A a \in DOMAIN x.mem : (a - b \in RelaCells(image, r)) => a = p
    BY <2>2
  <2> QED BY <1>5, <2>1, <2>2, <2>3, <2>4, <2>a
<1>6. ASSUME y = Copied, r.type = "COPY" PROVE Good
  <2> HIDE DEF m, y, g, p
  <2>1. /\ LoadShape(y) /\ y.mem = m
        /\ y.where = x.where /\ y.got = g /\ y.allright = x.allright
    BY <1>6, CopyPutFields
  <2>2. RelaCells(image, r) = r.offset .. r.offset + sym.size - 1
    BY <1>6 DEF RelaCells
  <2>3. DOMAIN y.mem = DOMAIN x.mem
    BY <2>1 DEF m
  <2>4. \A a \in DOMAIN x.mem : a \in p .. p + sym.size - 1 <=> a - b \in RelaCells(image, r)
    <3> DEFINE z == sym.size
               o == r.offset
    <3> SUFFICES ASSUME NEW a \in Int
                 PROVE  a \in p .. p + z - 1 <=> a - b \in RelaCells(image, r)
      OBVIOUS
    <3>1. RelaCells(image, r) = o .. o + z - 1 /\ z \in Nat /\ o \in Nat /\ p = b + o
      BY <1>3, <2>2 DEF p
    <3> HIDE DEF z, o
    <3> QED BY <3>1
  <2>5. \A a \in DOMAIN x.mem : a - p = a - b - r.offset
    BY DEF p
  <2>6. \A a \in DOMAIN x.mem :
           y.mem[a] = IF a - b \in RelaCells(image, r)
                      THEN OS.data[r.sym][a - b - r.offset + 1] ELSE x.mem[a]
    <3> SUFFICES ASSUME NEW a \in DOMAIN x.mem
                 PROVE  y.mem[a] = IF a - b \in RelaCells(image, r)
                                   THEN OS.data[r.sym][a - b - r.offset + 1] ELSE x.mem[a]
      OBVIOUS
    <3>1. y.mem[a] = IF a \in p .. p + sym.size - 1
                     THEN OS.data[r.sym][a - p + 1] ELSE x.mem[a]
      BY <2>1 DEF m
    <3>2. a - p = a - b - r.offset
      BY <2>5
    <3> QED BY <2>4, <3>1, <3>2
  <2> QED BY <1>6, <2>1, <2>3, <2>6
<1>7. ASSUME y = x, r.type = "NONE" PROVE Good
  <2> HIDE DEF y, g
  <2> QED BY <1>7 DEF RelaCells
<1> HIDE DEF y, Good, to, Bad, Copied
<1> QED BY <1>2, <1>4, <1>5, <1>6, <1>7

-----------------------------------------------------------------------------
(***************************************************************************)
(* One step of the relocator, as the invariants see it.                    *)
(***************************************************************************)
LEMMA EntryFields ==
  ASSUME ControlInv, at \in {"rela", "jmprel"}, n <= Len(Table)
  PROVE  Table[n] \in Rela(img) /\ Table[n].offset \in Nat /\ img.symtab[Table[n].sym].size \in Nat
<1>1. n \in 1 .. Len(Table)
  BY ImageFields DEF ControlInv, TypeOK, Table
<1>2. Table \in Seq(Rela(img))
  BY ImageFields DEF ControlInv, Table
<1>3. Table[n] \in Rela(img)
  BY <1>1, <1>2, ElementOfSeq
<1> QED BY <1>3 DEF ControlInv, IsImage

(* The base is a number as soon as there is one.                           *)
LEMMA BaseFields ==
  ASSUME ControlInv, MappingInv, at \in Mapped
  PROVE  /\ elf.base = map - PageDown(Lowest(img)) /\ elf.base \in Int
         /\ map \in Nat /\ guest_size(img) \in Nat /\ DOMAIN l.mem \subseteq Int
<1>1. map \in Nat /\ guest_size(img) \in Nat /\ PageDown(Lowest(img)) \in Nat
  BY Sizes DEF ControlInv
<1>2. elf.base = map - PageDown(Lowest(img)) /\ DOMAIN l.mem = map .. map + guest_size(img) - 1
  BY DEF MappingInv, mmap_base
<1> QED BY <1>1, <1>2

LEMMA RelrResult ==
  ASSUME ControlInv, MappingInv, RelocateRelr, n <= Len(img.relr)
  PROVE  LET done == reloc_relr([mem |-> l.mem, where |-> l.where], img.relr[n], elf.base)
         IN  /\ LoadShape(l') /\ l'.mem = done.mem /\ DOMAIN l'.mem = DOMAIN l.mem
             /\ l'.where = done.where /\ l'.got = l.got /\ l'.allright = l.allright
<1> DEFINE x == [mem |-> l.mem, where |-> l.where]
           done == reloc_relr(x, img.relr[n], elf.base)
           m == done.mem
           w == done.where
<1>1. l' = SlotsPut(l, m, w)
  <2>1. ~ (n > Len(img.relr))
    BY ImageFields DEF ControlInv, TypeOK
  <2> QED BY <2>1 DEF RelocateRelr, SlotsPut
<1>2. DOMAIN m = DOMAIN l.mem
  <2>1. DOMAIN x.mem = DOMAIN l.mem
    OBVIOUS
  <2> HIDE DEF x
  <2> QED BY <2>1 DEF reloc_relr, AddBase
<1>3. LoadShape(l)
  BY DEF MappingInv
<1> HIDE DEF m, w
<1>4. /\ LoadShape(l') /\ l'.mem = m /\ l'.where = w /\ l'.got = l.got /\ l'.allright = l.allright
  BY <1>1, <1>3, SlotsPutFields
<1> QED BY <1>2, <1>4 DEF m, w

LEMMA RelaResult ==
  ASSUME ControlInv, MappingInv, RelocateRela, n <= Len(Table)
  PROVE  /\ LoadShape(l') /\ DOMAIN l'.mem = DOMAIN l.mem
         /\ l'.allright => l.allright
         /\ LET r == Table[n]
                g == patch_library_got(l.got, r.sym, elf.base + r.offset)
            IN  /\ l'.got = l.got \/ l'.got = g
                /\ r.type # "COPY" => l'.got = l.got
                /\ r.type = "COPY" /\ l'.allright => l'.got = g
                /\ l'.allright =>
                     \A a \in DOMAIN l.mem :
                       IF a - elf.base \in RelaCells(img, r)
                       THEN IF r.type = "COPY"
                            THEN l'.mem[a] = OS.data[r.sym][a - elf.base - r.offset + 1]
                            ELSE /\ r.type = "RELATIVE" => l'.mem[a] = elf.base + r.addend
                                 /\ r.type \notin {"64", "RELATIVE"}
                                      => l'.mem[a] = SymbolAddress(OS, libs, r.sym)
                       ELSE l'.mem[a] = l.mem[a]
<1> DEFINE r == Table[n]
           y == reloc_rela(l, img, OS, libs, elf.base, r)
<1>1. l' = y /\ at \in {"rela", "jmprel"}
  BY DEF RelocateRela
<1>2. r.offset \in Nat /\ img.symtab[r.sym].size \in Nat
  BY <1>1, EntryFields
<1>3. elf.base \in Int /\ DOMAIN l.mem \subseteq Int /\ LoadShape(l)
  BY <1>1, BaseFields DEF Mapped, Loaded, Relocating, MappingInv
<1> HIDE DEF r
<1>4. /\ LoadShape(y) /\ DOMAIN y.mem = DOMAIN l.mem /\ y.where = l.where
      /\ y.allright => l.allright
      /\ y.got = l.got \/ y.got = patch_library_got(l.got, r.sym, elf.base + r.offset)
      /\ r.type # "COPY" => y.got = l.got
      /\ r.type = "COPY" /\ y.allright => y.got = patch_library_got(l.got, r.sym, elf.base + r.offset)
      /\ y.allright =>
           \A a \in DOMAIN l.mem :
             IF a - elf.base \in RelaCells(img, r)
             THEN IF r.type = "COPY" THEN y.mem[a] = OS.data[r.sym][a - elf.base - r.offset + 1]
                  ELSE /\ r.type = "RELATIVE" => y.mem[a] = elf.base + r.addend
                       /\ r.type \notin {"64", "RELATIVE"} => y.mem[a] = SymbolAddress(OS, libs, r.sym)
             ELSE y.mem[a] = l.mem[a]
  BY <1>2, <1>3, Applying
<1> HIDE DEF y
<1> QED BY <1>1, <1>4 DEF r

LEMMA InitMapping ==
  ASSUME Init
  PROVE  MappingInv
<1>1. at = "start" /\ LoadShape(l)
  BY DEF Init, LoadShape
<1> QED BY <1>1 DEF MappingInv, Mapped, Loaded, Relocating, Running

LEMMA MappingStep ==
  ASSUME ControlInv, MappingInv, Next
  PROVE  MappingInv'
<1>1. LoadShape(l) /\ img' = img /\ map' = map
  BY DEF MappingInv, Next, SetEnvpNull, SetEnvp, ReadArgv, MapImage, LoadImage, ReadDynamic,
         OpenLibrary, RelocateRelr, RelocateRela, patcher_init, RunInit, PushArgs
<1>2. n \in Nat /\ Len(img.segs) \in Nat
  BY ImageFields DEF ControlInv, TypeOK
<1> USE DEF Go, Mapped, Loaded, Relocating, Running
<1>3. CASE MapImage
  <2>1. CASE l' = l /\ at' \notin Mapped
    BY <1>1, <2>1 DEF MappingInv
  <2>2. CASE ~ (l' = l /\ at' \notin Mapped)
    <3> DEFINE m == [a \in map .. map + guest_size(img) - 1 |-> 0]
    <3>1. /\ elf' = mmap_base(img, map) /\ l' = MemPut(l, m) /\ at' = "segments" /\ n' = 1
          /\ guest_size(img) # 0
      BY <1>3, <2>2 DEF MapImage, MemPut
    <3>2. DOMAIN m = map .. map + guest_size(img) - 1
      OBVIOUS
    <3> HIDE DEF m
    <3>3. LoadShape(l') /\ l'.mem = m
      BY <1>1, <3>1, MemPutFields
    <3>4. 1 .. n' - 1 = {}
      BY <3>1
    <3> QED BY <1>1, <3>1, <3>2, <3>3, <3>4 DEF MappingInv
  <2> QED BY <2>1, <2>2
<1>4. CASE LoadImage
  <2>1. elf' = elf /\ at = "segments"
    BY <1>4 DEF LoadImage
  <2>2. CASE n > Len(img.segs)
    <3>1. l' = l /\ at' = "dynamic" /\ 1 .. Len(img.segs) \subseteq 1 .. n - 1
      BY <1>2, <1>4, <2>2 DEF LoadImage
    <3> QED BY <1>1, <2>1, <3>1 DEF MappingInv
  <2>3. CASE n <= Len(img.segs) /\ Strays(img, map, n)
    <3>1. l' = l /\ at' = "stray" /\ n \in 1 .. Len(img.segs)
      BY <1>2, <1>4, <2>1, <2>3 DEF LoadImage, ControlInv
    <3> QED BY <1>1, <2>1, <2>3, <3>1 DEF MappingInv
  <2>4. CASE n <= Len(img.segs) /\ ~ Strays(img, map, n)
    <3> DEFINE m == LoadSegment(l.mem, img, elf.base, n)
    <3>1. l' = MemPut(l, m) /\ at' = "segments" /\ n' = n + 1
      BY <1>2, <1>4, <2>4 DEF LoadImage, MemPut
    <3>2. DOMAIN m = DOMAIN l.mem
      BY DEF LoadSegment
    <3> HIDE DEF m
    <3>3. LoadShape(l') /\ l'.mem = m
      BY <1>1, <3>1, MemPutFields
    <3>4. \A i \in 1 .. n' - 1 : i \in 1 .. n - 1 \/ i = n
      BY <1>2, <3>1
    <3> QED BY <1>1, <2>1, <2>4, <3>1, <3>2, <3>3, <3>4 DEF MappingInv
  <2> QED BY <1>2, <2>2, <2>3, <2>4
<1>5. CASE RelocateRelr
  <2>1. LoadShape(l') /\ DOMAIN l'.mem = DOMAIN l.mem
    <3>1. CASE n > Len(img.relr)
      BY <1>1, <1>5, <3>1 DEF RelocateRelr
    <3>2. CASE n <= Len(img.relr)
      BY <1>5, <3>2, RelrResult
    <3> QED BY <1>2, <3>1, <3>2, ImageFields DEF ControlInv
  <2>2. at \in Loaded /\ at' \in Loaded /\ elf' = elf
    BY <1>5 DEF RelocateRelr
  <2> QED BY <1>1, <2>1, <2>2 DEF MappingInv
<1>6. CASE RelocateRela
  <2>1. LoadShape(l') /\ DOMAIN l'.mem = DOMAIN l.mem
    <3>1. CASE n <= Len(Table)
      BY <1>6, <3>1, RelaResult
    <3>2. CASE ~ (n <= Len(Table))
      BY <1>1, <1>6, <3>2 DEF RelocateRela
    <3> QED BY <3>1, <3>2
  <2>2. at \in Loaded /\ at' \in Loaded \cup {"panic"} /\ elf' = elf
    BY <1>6 DEF RelocateRela
  <2> QED BY <1>1, <2>1, <2>2 DEF MappingInv
<1>7. CASE SetEnvpNull \/ SetEnvp \/ ReadArgv
  <2>1. at' \notin Mapped /\ l' = l
    BY <1>7 DEF SetEnvpNull, SetEnvp, ReadArgv
  <2> QED BY <1>1, <2>1 DEF MappingInv
<1>8. CASE ReadDynamic \/ OpenLibrary \/ patcher_init \/ RunInit \/ PushArgs
  <2>1. at \in Loaded /\ at' \in Loaded \cup {"panic"} /\ elf' = elf /\ l' = l
    BY <1>8 DEF ReadDynamic, OpenLibrary, patcher_init, RunInit, PushArgs
  <2> QED BY <1>1, <2>1 DEF MappingInv
<1> QED
  BY <1>3, <1>4, <1>5, <1>6, <1>7, <1>8 DEF Next

THEOREM MappingHolds == Spec => []MappingInv
<1>1. Init => MappingInv
  BY InitMapping
<1>2. ControlInv /\ MappingInv /\ [Next]_vars => MappingInv'
  <2>1. ASSUME MappingInv, UNCHANGED vars PROVE MappingInv'
    BY <2>1 DEF MappingInv, vars
  <2> QED BY <2>1, MappingStep
<1> QED BY <1>1, <1>2, ControlHolds, PTL DEF Spec

(***************************************************************************)
(* An image of less than 2 GiB, rounded to pages, is inside its mapping    *)
(* with the host code area behind it.                                      *)
(***************************************************************************)
THEOREM HostCodeApart == Spec => []HostApart
<1>1. ControlInv /\ MappingInv => HostApart
  <2> SUFFICES ASSUME ControlInv, MappingInv, 2 * Span(img) < UINT32
               PROVE  /\ at # "stray"
                      /\ at = "entry" => /\ elf.base + Highest(img) <= elf.host
                                         /\ elf.host + elf.host_c - 1 \in DOMAIN l.mem
    BY DEF HostApart
  <2>1. IsImage(img) /\ map \in Nat
    BY DEF ControlInv
  <2>2. at # "stray"
    BY <2>1, NeverStrays DEF MappingInv
  <2>3. ASSUME at = "entry"
        PROVE  /\ elf.base + Highest(img) <= elf.host
               /\ elf.host + elf.host_c - 1 \in DOMAIN l.mem
    <3>1. /\ elf = mmap_base(img, map) /\ guest_size(img) # 0
          /\ DOMAIN l.mem = map .. map + guest_size(img) - 1
      BY <2>3 DEF MappingInv, Mapped, Loaded, Relocating, Running
    <3> DEFINE p == PageDown(Lowest(img))
               z == Span(img)
               g == guest_size(img)
               h == Highest(img)
    <3>2. p \in Nat /\ z \in Nat /\ h \in Nat /\ h - p <= z /\ size(img) = z /\ g = 2 * z
      BY <2>1, Sizes, ImageEnds
    <3>3. elf.base = map - p /\ elf.host = map + z /\ elf.host_c = z
      BY <3>1, <3>2 DEF mmap_base
    <3>4. g # 0 /\ DOMAIN l.mem = map .. map + g - 1
      BY <3>1
    <3> HIDE DEF p, z, g, h
    <3>5. map - p + h <= map + z /\ map + z + z - 1 \in map .. map + g - 1
      BY <2>1, <3>2, <3>4
    <3> QED BY <3>3, <3>4, <3>5 DEF h
  <2> QED BY <2>2, <2>3
<1> QED BY <1>1, ControlHolds, MappingHolds, PTL

-----------------------------------------------------------------------------
(***************************************************************************)
(* The initialisers.                                                       *)
(***************************************************************************)
LEMMA CallStep ==
  ASSUME ControlInv, CallInv, Next
  PROVE  CallInv'
<1> USE DEF Go, Running, Ends
<1>1. n \in Nat /\ img.init_count \in Nat
  BY ImageFields DEF ControlInv, TypeOK
<1>2. CASE RunInit
  <2>1. /\ handlers /\ handlers' = handlers /\ at = "init" /\ at' \in {"init", "args"}
        /\ img' = img /\ elf' = elf /\ l' = l
    BY <1>2 DEF RunInit, CallInv
  <2>2. \A m : InitialisersTo(m)' = InitialisersTo(m')
    BY <2>1 DEF InitialisersTo, init_array
  <2>3. CASE n = 0
    <3>1. called = << >> /\ at' = "init" /\ n' = 1
      BY <1>2, <2>1, <2>3 DEF RunInit, CallInv
    <3>2. called' = IF img.init = 0 THEN << >> ELSE <<elf.base + img.init>>
      BY <1>2, <2>3, <3>1 DEF RunInit
    <3>3. [i \in 1 .. 0 |-> init_array(i)] = << >>
      OBVIOUS
    <3>4. InitialisersTo(0) = called'
      BY <3>2, <3>3 DEF InitialisersTo
    <3> QED BY <2>1, <2>2, <3>1, <3>4 DEF CallInv
  <2>4. CASE n # 0 /\ n <= img.init_count
    <3>1. called = InitialisersTo(n - 1) /\ called' = Append(called, init_array(n))
          /\ at' = "init" /\ n' = n + 1
      BY <1>2, <2>1, <2>4 DEF RunInit, CallInv
    <3>2. Append(InitialisersTo(n - 1), init_array(n)) = InitialisersTo(n)
      BY <1>1, <2>4 DEF InitialisersTo
    <3> QED BY <1>1, <2>1, <2>2, <3>1, <3>2 DEF CallInv
  <2>5. CASE n # 0 /\ ~ (n <= img.init_count)
    <3>1. called = InitialisersTo(img.init_count) /\ called' = called /\ at' = "args"
      BY <1>1, <1>2, <2>1, <2>5 DEF RunInit, CallInv, ControlInv
    <3> QED BY <2>1, <3>1 DEF CallInv, InitialisersTo, Initialisers, init_array
  <2> QED BY <2>3, <2>4, <2>5
<1>3. CASE PushArgs
  <2>1. UNCHANGED <<called, handlers, img, elf, l>> /\ at = "args" /\ at' \in {"args", "entry"}
    BY <1>3 DEF PushArgs
  <2> QED BY <2>1 DEF CallInv, Initialisers
<1>4. CASE patcher_init
  BY <1>4 DEF patcher_init, CallInv
<1>5. CASE SetEnvpNull \/ SetEnvp \/ ReadArgv \/ MapImage \/ LoadImage \/ ReadDynamic
           \/ OpenLibrary \/ RelocateRelr \/ RelocateRela
  <2>1. at \notin Running /\ at' \notin Running /\ called' = called
    BY <1>5 DEF SetEnvpNull, SetEnvp, ReadArgv, MapImage, LoadImage, ReadDynamic, OpenLibrary,
                RelocateRelr, RelocateRela
  <2> QED BY <2>1 DEF CallInv
<1> QED
  BY <1>2, <1>3, <1>4, <1>5 DEF Next

LEMMA PrefixOfInitialisers ==
  ASSUME NEW c \in Nat, NEW m \in 0 .. c
  PROVE  IsPrefix(InitialisersTo(m), InitialisersTo(c))
<1> DEFINE h == IF img.init = 0 THEN << >> ELSE <<elf.base + img.init>>
           S == {elf.base + img.init} \cup {init_array(i) : i \in 1 .. c}
           F(j) == [i \in 1 .. j |-> init_array(i)]
<1>1. h \in Seq(S) /\ Len(h) \in Nat
  <2>1. elf.base + img.init \in S
    OBVIOUS
  <2> HIDE DEF S
  <2> QED BY <2>1
<1>2. ASSUME NEW j \in 0 .. c
      PROVE  /\ InitialisersTo(j) \in Seq(S) /\ Len(InitialisersTo(j)) = Len(h) + j
             /\ \A i \in 1 .. Len(h) + j :
                  InitialisersTo(j)[i] = IF i <= Len(h) THEN h[i] ELSE init_array(i - Len(h))
  <2>1. F(j) \in Seq(S) /\ Len(F(j)) = j
    <3>1. \A i \in 1 .. j : init_array(i) \in S
      OBVIOUS
    <3> HIDE DEF S
    <3> QED BY <3>1
  <2>2. \A i \in 1 .. j : F(j)[i] = init_array(i)
    OBVIOUS
  <2>3. InitialisersTo(j) = h \o F(j)
    BY DEF InitialisersTo
  <2> HIDE DEF h, S, F
  <2>4. /\ h \o F(j) \in Seq(S) /\ Len(h \o F(j)) = Len(h) + j
        /\ \A i \in 1 .. Len(h) + j :
             (h \o F(j))[i] = IF i <= Len(h) THEN h[i] ELSE F(j)[i - Len(h)]
    BY Zenon, <1>1, <2>1, ConcatProperties
  <2>5. \A i \in 1 .. Len(h) + j : ~ (i <= Len(h)) => i - Len(h) \in 1 .. j
    BY <1>1
  <2> QED BY <2>2, <2>3, <2>4, <2>5
<1> DEFINE s == InitialisersTo(m)
           t == InitialisersTo(c)
           u == Len(h) + m
<1>3. /\ s \in Seq(S) /\ t \in Seq(S) /\ Len(s) = u /\ Len(t) = Len(h) + c
      /\ \A i \in 1 .. u : s[i] = t[i]
  <2>1. m \in 0 .. c /\ c \in 0 .. c
    OBVIOUS
  <2> HIDE DEF h, S
  <2>2. \A i \in 1 .. u : i \in 1 .. Len(h) + c
    BY <1>1
  <2> QED BY <1>2, <2>1, <2>2
<1> HIDE DEF s, t, S, h
<1>4. u \in Nat /\ u <= Len(t) /\ (\A i \in 1 .. u : s[i] \in S /\ t[i] \in S)
  <2>1. u \in Nat /\ u <= Len(t)
    BY <1>1, <1>3
  <2>2. \A i \in 1 .. u : s[i] \in S
    BY <1>3, ElementOfSeq
  <2> QED BY <1>3, <2>1, <2>2
<1> HIDE DEF u
<1>5. /\ SubSeq(s, 1, u) \in Seq(S) /\ Len(SubSeq(s, 1, u)) = u
      /\ \A i \in 1 .. u : SubSeq(s, 1, u)[i] = s[i]
  <2>1. /\ SubSeq(s, 1, u) \in Seq(S)
        /\ Len(SubSeq(s, 1, u)) = IF 1 <= u THEN u - 1 + 1 ELSE 0
        /\ \A i \in 1 .. u - 1 + 1 : SubSeq(s, 1, u)[i] = s[1 + i - 1]
    BY <1>4, SubSeqProperties
  <2> QED BY <1>4, <2>1
<1>6. /\ SubSeq(t, 1, u) \in Seq(S) /\ Len(SubSeq(t, 1, u)) = u
      /\ \A i \in 1 .. u : SubSeq(t, 1, u)[i] = t[i]
  <2>1. /\ SubSeq(t, 1, u) \in Seq(S)
        /\ Len(SubSeq(t, 1, u)) = IF 1 <= u THEN u - 1 + 1 ELSE 0
        /\ \A i \in 1 .. u - 1 + 1 : SubSeq(t, 1, u)[i] = t[1 + i - 1]
    BY <1>4, SubSeqProperties
  <2> QED BY <1>4, <2>1
<1>7. SubSeq(s, 1, u) = SubSeq(t, 1, u)
  BY <1>3, <1>5, <1>6, SeqEqual
<1> QED
  BY <1>3, <1>4, <1>7 DEF IsPrefix, s, t

(***************************************************************************)
(* The initialisers run once each, in their order, at the addresses the    *)
(* relocations gave them, behind the handlers and before argv is built.    *)
(***************************************************************************)
THEOREM InitialisersInOrder == Spec => []InitOrder
<1>1. Init => CallInv
  BY DEF Init, CallInv, Running
<1>2. ControlInv /\ CallInv /\ [Next]_vars => CallInv'
  <2>1. ASSUME CallInv, UNCHANGED vars PROVE CallInv'
    <3>1. \A m : InitialisersTo(m)' = InitialisersTo(m')
      BY <2>1 DEF InitialisersTo, init_array, vars
    <3>2. Initialisers' = Initialisers
      BY <2>1 DEF Initialisers, vars
    <3>3. UNCHANGED <<at, n, called, handlers>>
      BY <2>1 DEF vars
    <3> QED BY <2>1, <3>1, <3>2, <3>3 DEF CallInv
  <2> QED BY <2>1, CallStep
<1>3. ControlInv /\ CallInv => InitOrder
  <2> SUFFICES ASSUME ControlInv, CallInv PROVE InitOrder
    OBVIOUS
  <2> DEFINE c == img.init_count
  <2>1. c \in Nat /\ n \in Nat
    BY ImageFields DEF ControlInv, TypeOK
  <2>2. Initialisers = InitialisersTo(c)
    BY DEF Initialisers, InitialisersTo, init_array
  <2>3. called = << >> \/ \E m \in 0 .. c : called = InitialisersTo(m)
    <3>1. CASE at \notin Running
      BY <3>1 DEF CallInv
    <3>2. CASE at = "init"
      <4>1. n = 0 \/ n - 1 \in 0 .. c
        BY <2>1, <3>2 DEF ControlInv
      <4> QED BY <3>2, <4>1 DEF CallInv
    <3>3. CASE at \in {"args", "entry"}
      <4>1. c \in 0 .. c
        BY <2>1
      <4> QED BY <2>2, <3>3, <4>1 DEF CallInv
    <3> QED BY <3>1, <3>2, <3>3 DEF Running
  <2>4. called # << >> => at \in Running /\ handlers
    BY DEF CallInv
  <2>5. at \in {"args", "entry"} => called = Initialisers
    BY DEF CallInv
  <2> HIDE DEF c
  <2>6. called # << >> => IsPrefix(called, Initialisers)
    BY <2>1, <2>2, <2>3, PrefixOfInitialisers
  <2> QED BY <2>4, <2>5, <2>6 DEF InitOrder
<1> QED BY <1>1, <1>2, <1>3, ControlHolds, PTL DEF Spec

-----------------------------------------------------------------------------
(***************************************************************************)
(* The libraries' references.                                              *)
(***************************************************************************)

(* An entry is applied, or the end of a table is reached: then the process *)
(* stops, or everything was resolved.                                      *)
LEMMA AppliedStep ==
  ASSUME ControlInv, RelocateRela
  PROVE  /\ at \in Relocating /\ elf' = elf /\ img' = img /\ libs' = libs
         /\ n <= Len(Table) => at' = at /\ Applied' = Applied \cup {Table[n]}
         /\ ~ (n <= Len(Table)) => /\ l' = l
                                   /\ at' = "panic" \/ (at' \in Relocating /\ l.allright /\ Applied' = Applied)
<1> USE DEF Go, Relocating
<1>1. /\ at \in {"rela", "jmprel"} /\ n \in Nat /\ n >= 1 /\ n <= Len(Table) + 1
      /\ Len(img.rela) \in Nat /\ Len(img.jmprel) \in Nat
      /\ UNCHANGED <<elf, img, libs>>
  BY ImageFields DEF ControlInv, TypeOK, RelocateRela
<1>2. CASE n <= Len(Table)
  <2>1. at' = at /\ n' = n + 1
    BY <1>1, <1>2 DEF RelocateRela
  <2>2. \A i : i \in 1 .. n' - 1 <=> i \in 1 .. n - 1 \/ i = n
    BY <1>1, <2>1
  <2>3. CASE at = "rela"
    <3>1. Applied = {img.rela[i] : i \in 1 .. n - 1} /\ Table = img.rela
      BY <2>3 DEF Applied, Table
    <3>2. Applied' = {img.rela[i] : i \in 1 .. n' - 1}
      BY <1>1, <2>1, <2>3 DEF Applied
    <3> QED BY <1>1, <1>2, <2>1, <2>2, <3>1, <3>2
  <2>4. CASE at = "jmprel"
    <3>1. Applied = ToSet(img.rela) \cup {img.jmprel[i] : i \in 1 .. n - 1} /\ Table = img.jmprel
      BY <2>4 DEF Applied, Table
    <3>2. Applied' = ToSet(img.rela) \cup {img.jmprel[i] : i \in 1 .. n' - 1}
      BY <1>1, <2>1, <2>4 DEF Applied
    <3> QED BY <1>1, <1>2, <2>1, <2>2, <3>1, <3>2
  <2> QED BY <1>1, <2>3, <2>4
<1>3. CASE ~ (n <= Len(Table))
  <2>1. l' = l
    BY <1>3 DEF RelocateRela
  <2>2. CASE ~ l.allright
    BY <1>1, <1>3, <2>1, <2>2 DEF RelocateRela
  <2>3. CASE l.allright /\ at = "rela"
    <3>1. at' = "jmprel" /\ n' = 1
      BY <1>3, <2>3 DEF RelocateRela
    <3>2. Applied' = ToSet(img.rela) \cup {img.jmprel[i] : i \in 1 .. n' - 1}
      BY <1>1, <3>1 DEF Applied
    <3>3. Applied = {img.rela[i] : i \in 1 .. n - 1} /\ n - 1 = Len(img.rela)
      BY <1>1, <1>3, <2>3 DEF Applied, Table
    <3>4. ToSet(img.rela) = {img.rela[i] : i \in 1 .. Len(img.rela)}
      BY ImageFields DEF ControlInv
    <3>5. 1 .. n' - 1 = {}
      BY <3>1
    <3> QED BY <1>1, <1>3, <2>1, <2>3, <3>1, <3>2, <3>3, <3>4, <3>5
  <2>4. CASE l.allright /\ at = "jmprel"
    <3>1. at' = "handlers"
      BY <1>3, <2>4 DEF RelocateRela
    <3>2. Applied' = Rela(img)
      BY <1>1, <3>1 DEF Applied
    <3>3. Applied = ToSet(img.rela) \cup {img.jmprel[i] : i \in 1 .. n - 1} /\ n - 1 = Len(img.jmprel)
      BY <1>1, <1>3, <2>4 DEF Applied, Table
    <3>4. /\ ToSet(img.jmprel) = {img.jmprel[i] : i \in 1 .. Len(img.jmprel)}
          /\ Rela(img) = ToSet(img.rela) \cup ToSet(img.jmprel)
      BY ImageFields DEF ControlInv
    <3> QED BY <1>1, <1>3, <2>1, <2>4, <3>1, <3>2, <3>3, <3>4
  <2> QED BY <1>1, <2>2, <2>3, <2>4
<1> QED BY <1>1, <1>2, <1>3

LEMMA Patched ==
  ASSUME NEW got, NEW sym, NEW addr, NEW lib \in DOMAIN got
  PROVE  LET g == patch_library_got(got, sym, addr)
         IN  /\ DOMAIN g = DOMAIN got /\ DOMAIN g[lib] = DOMAIN got[lib]
             /\ \A s \in DOMAIN got[lib] :
                  g[lib][s] = IF s # sym THEN got[lib][s]
                              ELSE IF got[lib][s] = 0 THEN 0 ELSE addr
BY DEF patch_library_got

LEMMA SharedStep ==
  ASSUME NEW r, NEW before, NEW after, after = before \cup {r}, NEW b, NEW old, NEW new,
         NEW lib \in DOMAIN OS.got, DOMAIN old = DOMAIN OS.got, NEW sym \in DOMAIN OS.got[lib],
         DOMAIN old[lib] = DOMAIN OS.got[lib],
         new = IF r.type = "COPY" THEN patch_library_got(old, r.sym, b + r.offset) ELSE old,
         Refers(before, old, b, lib, sym)
  PROVE  Refers(after, new, b, lib, sym)
<1> DEFINE c == {q \in before : q.type = "COPY" /\ q.sym = sym}
           d == {q \in after : q.type = "COPY" /\ q.sym = sym}
<1>1. CASE r.type = "COPY" /\ r.sym = sym
  <2>1. new[lib][sym] = IF old[lib][sym] = 0 THEN 0 ELSE b + r.offset
    BY <1>1, Patched
  <2>2. d = c \cup {r}
    BY <1>1
  <2>3. IF c = {} \/ OS.got[lib][sym] = 0 THEN old[lib][sym] = OS.got[lib][sym]
        ELSE \E q \in c : old[lib][sym] = b + q.offset
    BY DEF Refers
  <2> SUFFICES IF d = {} \/ OS.got[lib][sym] = 0 THEN new[lib][sym] = OS.got[lib][sym]
               ELSE \E q \in d : new[lib][sym] = b + q.offset
    BY DEF Refers
  <2> HIDE DEF c, d
  <2>4. CASE OS.got[lib][sym] = 0
    BY <2>1, <2>3, <2>4
  <2>5. CASE OS.got[lib][sym] # 0 /\ old[lib][sym] # 0
    <3>1. r \in d /\ new[lib][sym] = b + r.offset
      BY <2>1, <2>2, <2>5
    <3> QED BY <2>5, <3>1
  <2>6. CASE OS.got[lib][sym] # 0 /\ old[lib][sym] = 0
    <3>1. PICK q \in c : old[lib][sym] = b + q.offset
      BY <2>3, <2>6
    <3>2. q \in d /\ new[lib][sym] = b + q.offset
      BY <2>1, <2>2, <2>6, <3>1
    <3> QED BY <2>6, <3>2
  <2> QED BY <2>4, <2>5, <2>6
<1>2. CASE ~ (r.type = "COPY" /\ r.sym = sym)
  <2>1. d = c
    BY <1>2
  <2>2. new[lib][sym] = old[lib][sym]
    <3>1. CASE r.type = "COPY"
      <4>1. sym # r.sym
        BY <1>2, <3>1
      <4> QED BY <3>1, <4>1, Patched
    <3> QED BY <3>1
  <2> QED BY <2>1, <2>2 DEF Refers
<1> QED BY <1>1, <1>2

LEMMA GotStep ==
  ASSUME ControlInv, MappingInv, GotInv, Next
  PROVE  GotInv'
<1>9. ASSUME RelocateRela, ~ (n <= Len(Table))
      PROVE  /\ elf' = elf /\ l' = l
             /\ at' = "panic" \/ (at' \in Relocating /\ l.allright /\ Applied' = Applied)
  BY <1>9, AppliedStep, Zenon
<1> USE DEF Go, Relocating, Running
<1>1. n \in Nat /\ Len(img.relr) \in Nat /\ (at = "relr" => n >= 1)
  BY ImageFields DEF ControlInv, TypeOK
<1>2. ASSUME at \notin Relocating \cup {"panic"}, at' \notin Relocating,
             l'.got = l.got, l'.allright = l.allright
      PROVE  GotInv'
  BY <1>2 DEF GotInv
<1>3. ASSUME at \in {"handlers"} \cup Running, at' \in Running,
             UNCHANGED <<elf, l, img>>
      PROVE  GotInv'
  <2>1. Applied' = Applied
    BY <1>3 DEF Applied
  <2> QED BY <1>3, <2>1 DEF GotInv, Shared
<1>4. CASE RelocateRela
  <2>1. at \in {"rela", "jmprel"} /\ elf' = elf
    BY <1>4 DEF RelocateRela
  <2>2. CASE n <= Len(Table)
    <3> DEFINE r == Table[n]
               g == patch_library_got(l.got, r.sym, elf.base + r.offset)
    <3>1. at' = at /\ Applied' = Applied \cup {r}
      BY <1>4, <2>2, AppliedStep
    <3>2. /\ l'.allright => l.allright
          /\ l'.got = l.got \/ l'.got = g
          /\ r.type # "COPY" => l'.got = l.got
          /\ r.type = "COPY" /\ l'.allright => l'.got = g
      BY <1>4, <2>2, RelaResult
    <3>3. /\ DOMAIN l.got = DOMAIN OS.got
          /\ \A lib \in DOMAIN OS.got : DOMAIN l.got[lib] = DOMAIN OS.got[lib]
          /\ l.allright => Shared
      BY <2>1 DEF GotInv
    <3> HIDE DEF r
    <3>4. /\ DOMAIN l'.got = DOMAIN OS.got
          /\ \A lib \in DOMAIN OS.got : DOMAIN l'.got[lib] = DOMAIN OS.got[lib]
      <4>1. DOMAIN g = DOMAIN l.got
        BY DEF patch_library_got
      <4>2. \A lib \in DOMAIN l.got : DOMAIN g[lib] = DOMAIN l.got[lib]
        BY Patched
      <4> HIDE DEF g
      <4> QED BY <3>2, <3>3, <4>1, <4>2
    <3>5. ASSUME l'.allright PROVE Shared'
      <4> DEFINE old == l.got
                 new == l'.got
                 b == elf.base
                 before == Applied
                 after == Applied'
      <4>1. new = IF r.type = "COPY" THEN patch_library_got(old, r.sym, b + r.offset) ELSE old
        BY <3>2, <3>5
      <4>2. after = before \cup {r} /\ DOMAIN old = DOMAIN OS.got
        BY <3>1, <3>3
      <4>3. ASSUME NEW lib \in DOMAIN OS.got, NEW sym \in DOMAIN OS.got[lib]
            PROVE  Refers(after, new, b, lib, sym)
        <5>1. Refers(before, old, b, lib, sym)
          BY <3>2, <3>3, <3>5, <4>3 DEF Shared
        <5>2. DOMAIN old[lib] = DOMAIN OS.got[lib]
          BY <3>3, <4>3
        <5> HIDE DEF old, new, b, before, after
        <5> QED BY <4>1, <4>2, <4>3, <5>1, <5>2, SharedStep
      <4> QED BY <2>1, <4>3 DEF Shared
    <3> QED BY <2>1, <3>1, <3>4, <3>5 DEF GotInv
  <2>3. CASE ~ (n <= Len(Table))
    <3>1. /\ l' = l /\ elf' = elf /\ at' \in Relocating \cup {"panic"}
          /\ at' = "panic" \/ (l.allright /\ Applied' = Applied)
      BY <1>4, <1>9, <2>3
    <3> QED BY <2>1, <3>1 DEF GotInv, Shared
  <2> QED BY <2>2, <2>3
<1>5. CASE RelocateRelr
  <2>1. l'.got = l.got /\ l'.allright = l.allright /\ elf' = elf /\ img' = img /\ at = "relr"
    <3>1. CASE n <= Len(img.relr)
      BY <1>5, <3>1, RelrResult DEF RelocateRelr
    <3> QED BY <1>1, <1>5, <3>1 DEF RelocateRelr
  <2>2. CASE at' = "relr"
    BY <1>2, <2>1, <2>2
  <2>3. CASE at' # "relr"
    <3>1. at' = "rela" /\ n' = 1
      BY <1>5, <2>3 DEF RelocateRelr
    <3>2. Applied' = {}
      <4>1. 1 .. n' - 1 = {}
        BY <3>1
      <4> QED BY <3>1, <4>1 DEF Applied
    <3>3. l.got = OS.got /\ l.allright
      BY <2>1 DEF GotInv
    <3>4. Shared'
      <4>1. l'.got = OS.got
        BY <2>1, <3>3
      <4> QED BY <3>2, <4>1 DEF Shared, Refers
    <3> QED BY <2>1, <3>1, <3>3, <3>4 DEF GotInv
  <2> QED BY <2>2, <2>3
<1>6. CASE MapImage \/ LoadImage
  <2>1. at \in {"load", "segments"} /\ at' \in {"crash", "panic", "segments", "dynamic", "stray"}
    BY <1>6 DEF MapImage, LoadImage
  <2>2. l' = l \/ \E m : l' = MemPut(l, m)
    <3>1. l' = l \/ l' = MemPut(l, [a \in map .. map + guest_size(img) - 1 |-> 0])
          \/ l' = MemPut(l, LoadSegment(l.mem, img, elf.base, n))
      BY <1>6 DEF MapImage, LoadImage, MemPut
    <3> QED BY <3>1
  <2>3. l'.got = l.got /\ l'.allright = l.allright
    BY <2>2, MemPutFields DEF MappingInv
  <2> QED BY <1>2, <2>1, <2>3
<1>7. CASE SetEnvpNull \/ SetEnvp \/ ReadArgv \/ ReadDynamic \/ OpenLibrary
  <2>1. at \notin Relocating \cup {"panic"} /\ at' \notin Relocating /\ l' = l
    BY <1>7 DEF SetEnvpNull, SetEnvp, ReadArgv, ReadDynamic, OpenLibrary
  <2> QED BY <1>2, <2>1
<1>8. CASE patcher_init \/ RunInit \/ PushArgs
  <2>1. at \in {"handlers"} \cup Running /\ at' \in Running /\ UNCHANGED <<elf, l, img>>
    BY <1>8 DEF patcher_init, RunInit, PushArgs
  <2> QED BY <1>3, <2>1
<1> QED
  BY <1>4, <1>5, <1>6, <1>7, <1>8 DEF Next

THEOREM GotHolds == Spec => []GotInv
<1>1. Init => GotInv
  <2>1. Init => l.got = OS.got /\ l.allright /\ at = "start"
    BY DEF Init
  <2> QED BY <2>1 DEF GotInv, Relocating, Running
<1>2. ControlInv /\ MappingInv /\ GotInv /\ [Next]_vars => GotInv'
  <2>1. ASSUME GotInv, UNCHANGED vars PROVE GotInv'
    <3>1. Applied' = Applied
      BY <2>1 DEF Applied, vars
    <3>2. Shared' <=> Shared
      BY <2>1, <3>1 DEF Shared, vars
    <3>3. at' = at /\ l' = l
      BY <2>1 DEF vars
    <3> QED BY <2>1, <3>2, <3>3 DEF GotInv
  <2> QED BY <2>1, GotStep
<1> QED BY <1>1, <1>2, ControlHolds, MappingHolds, PTL DEF Spec

(***************************************************************************)
(* A variable the guest copied is one variable: every library that refers  *)
(* to it refers to a copy of the guest's, and no other reference changes.  *)
(***************************************************************************)
THEOREM CopiesAreShared == Spec => []CopiesShared
<1>1. GotInv => CopiesShared
  <2> SUFFICES ASSUME GotInv, at = "entry" PROVE CopiesShared
    BY DEF CopiesShared
  <2>1. Shared /\ Applied = Rela(img)
    BY DEF GotInv, Applied, Relocating, Running
  <2> QED BY <2>1 DEF Shared, Refers, CopiesShared
<1> QED BY <1>1, GotHolds, PTL

-----------------------------------------------------------------------------
(***************************************************************************)
(* Memory.                                                                 *)
(***************************************************************************)
LEMMA SegmentsApart ==
  ASSUME ControlInv, NEW i \in 1 .. Len(img.segs), NEW j \in 1 .. Len(img.segs), i # j,
         NEW x \in SegmentCells(img.segs[i])
  PROVE  x \notin SegmentCells(img.segs[j])
<1>1. DOMAIN img.segs = 1 .. Len(img.segs)
  BY ImageFields, LenProperties DEF ControlInv
<1> QED BY <1>1 DEF ControlInv, WellLinked

LEMMA FilePart ==
  ASSUME ControlInv, NEW i \in 1 .. Len(img.segs), NEW x \in FileCells(img.segs[i])
  PROVE  x \in SegmentCells(img.segs[i])
<1> DEFINE v == img.segs[i].vaddr
           f == img.segs[i].filesz
           m == img.segs[i].memsz
<1>1. v \in Nat /\ f \in Nat /\ m \in Nat /\ f <= m
  BY SegmentFields DEF ControlInv
<1>2. x \in v .. v + f - 1
  BY DEF FileCells
<1> SUFFICES x \in v .. v + m - 1
  BY DEF SegmentCells
<1> HIDE DEF v, f, m
<1> QED BY <1>1, <1>2

(* What the file says of a cell: at most one segment has it.               *)
LEMMA UnrelocatedValue ==
  ASSUME ControlInv, NEW x \in Int
  PROVE  /\ \A i \in 1 .. Len(img.segs) :
              x \in FileCells(img.segs[i])
                => Unrelocated(x) = img.file[i][x - img.segs[i].vaddr + 1]
         /\ (\A i \in 1 .. Len(img.segs) : x \notin FileCells(img.segs[i])) => Unrelocated(x) = 0
         /\ Unrelocated(x) \in Nat
<1> DEFINE In == {i \in DOMAIN img.segs : x \in img.segs[i].vaddr .. img.segs[i].vaddr + img.segs[i].filesz - 1}
<1>1. DOMAIN img.segs = 1 .. Len(img.segs) /\ Len(img.segs) \in Nat
  BY ImageFields, LenProperties DEF ControlInv
<1>2. In = {i \in 1 .. Len(img.segs) : x \in FileCells(img.segs[i])}
  BY <1>1 DEF FileCells
<1>3. Unrelocated(x) = IF In = {} THEN 0 ELSE img.file[Max(In)][x - img.segs[Max(In)].vaddr + 1]
  BY DEF Unrelocated
<1> HIDE DEF In
<1>4. ASSUME NEW i \in 1 .. Len(img.segs), x \in FileCells(img.segs[i])
      PROVE  /\ Unrelocated(x) = img.file[i][x - img.segs[i].vaddr + 1]
             /\ Unrelocated(x) \in Nat
  <2>1. \A j \in In : j = i
    BY <1>2, <1>4, FilePart, SegmentsApart
  <2>2. i \in In /\ In \subseteq 0 .. Len(img.segs)
    BY <1>1, <1>2, <1>4
  <2>3. Max(In) = i
    BY <1>1, <2>1, <2>2, MaxOf
  <2>4. Unrelocated(x) = img.file[i][x - img.segs[i].vaddr + 1]
    BY <1>3, <2>2, <2>3
  <2> DEFINE v == img.segs[i].vaddr
             f == img.segs[i].filesz
  <2>5. v \in Nat /\ f \in Nat /\ img.file[i] \in [1 .. f -> Nat]
    BY SegmentFields DEF ControlInv
  <2>6. x \in v .. v + f - 1
    BY <1>4 DEF FileCells
  <2>7. x - v + 1 \in 1 .. f
    <3> HIDE DEF v, f
    <3> QED BY <2>5, <2>6
  <2>8. img.file[i][x - v + 1] \in Nat
    <3> HIDE DEF f
    <3> QED BY <2>5, <2>7
  <2> QED BY <2>4, <2>8
<1>5. ASSUME \A i \in 1 .. Len(img.segs) : x \notin FileCells(img.segs[i])
      PROVE  Unrelocated(x) = 0
  <2>1. In = {}
    BY <1>2, <1>5
  <2> QED BY <1>3, <2>1
<1> QED BY <1>4, <1>5

LEMMA SegmentLoaded ==
  ASSUME ControlInv, MappingInv, LoadImage, n <= Len(img.segs), ~ Strays(img, map, n), Filled(n - 1)
  PROVE  \A a \in DOMAIN l'.mem :
           /\ \A i \in 1 .. n : a - elf.base \in FileCells(img.segs[i])
                => l'.mem[a] = img.file[i][a - elf.base - img.segs[i].vaddr + 1]
           /\ (\A i \in 1 .. n : a - elf.base \notin FileCells(img.segs[i])) => l'.mem[a] = 0
<1> DEFINE m == LoadSegment(l.mem, img, elf.base, n)
           b == elf.base
<1>1. n \in Nat /\ n >= 1 /\ Len(img.segs) \in Nat /\ at = "segments"
  BY ImageFields DEF ControlInv, TypeOK, LoadImage
<1>2. l'.mem = m
  <2>1. l' = MemPut(l, m)
    BY <1>1 DEF LoadImage, MemPut
  <2> HIDE DEF m
  <2> QED BY <2>1, MemPutFields DEF MappingInv
<1>3. n \in 1 .. Len(img.segs) /\ 1 .. n - 1 \subseteq 1 .. Len(img.segs)
      /\ \A i : i \in 1 .. n <=> i \in 1 .. n - 1 \/ i = n
  BY <1>1
<1>4. DOMAIN m = DOMAIN l.mem
  BY DEF LoadSegment
<1> SUFFICES ASSUME NEW a \in DOMAIN l.mem
             PROVE  /\ \A i \in 1 .. n : a - b \in FileCells(img.segs[i])
                         => m[a] = img.file[i][a - b - img.segs[i].vaddr + 1]
                    /\ (\A i \in 1 .. n : a - b \notin FileCells(img.segs[i])) => m[a] = 0
  BY <1>2, <1>4
<1>5. m[a] = IF a - b \in FileCells(img.segs[n]) THEN img.file[n][a - b - img.segs[n].vaddr + 1]
             ELSE IF a - b \in SegmentCells(img.segs[n]) THEN 0 ELSE l.mem[a]
  BY DEF LoadSegment, FileCells, SegmentCells
<1> HIDE DEF m, b
<1>6. /\ \A i \in 1 .. n - 1 : a - b \in FileCells(img.segs[i])
           => l.mem[a] = img.file[i][a - b - img.segs[i].vaddr + 1]
      /\ (\A i \in 1 .. n - 1 : a - b \notin FileCells(img.segs[i])) => l.mem[a] = 0
  BY DEF Filled, b
<1>7. \A i \in 1 .. n - 1 : a - b \in FileCells(img.segs[i]) =>
        a - b \notin FileCells(img.segs[n]) /\ a - b \notin SegmentCells(img.segs[n])
  <2> SUFFICES ASSUME NEW i \in 1 .. n - 1, a - b \in FileCells(img.segs[i])
               PROVE  a - b \notin SegmentCells(img.segs[n])
    BY <1>3, FilePart
  <2>1. i \in 1 .. Len(img.segs) /\ i # n
    BY <1>1, <1>3
  <2>2. a - b \in SegmentCells(img.segs[i])
    BY <2>1, FilePart
  <2> QED BY <1>3, <2>1, <2>2, SegmentsApart
<1> QED BY Zenon, <1>3, <1>5, <1>6, <1>7

LEMMA FilledIsUnrelocated ==
  ASSUME ControlInv, MappingInv, at \in Mapped, Filled(Len(img.segs)), NEW a \in DOMAIN l.mem
  PROVE  l.mem[a] = Unrelocated(a - elf.base)
<1>1. a - elf.base \in Int
  BY BaseFields
<1>2. CASE \E i \in 1 .. Len(img.segs) : a - elf.base \in FileCells(img.segs[i])
  BY Zenon, <1>1, <1>2, UnrelocatedValue DEF Filled
<1>3. CASE ~ \E i \in 1 .. Len(img.segs) : a - elf.base \in FileCells(img.segs[i])
  BY <1>1, <1>3, UnrelocatedValue DEF Filled
<1> QED BY <1>2, <1>3

(* The RELR table: the slots of an entry lie behind its address entry.     *)
LEMMA RelrFields ==
  ASSUME ControlInv, NEW i \in 1 .. Len(img.relr)
  PROVE  /\ img.relr[i].bitmap \in BOOLEAN
         /\ ~ img.relr[i].bitmap => img.relr[i].addr \in Nat
         /\ img.relr[i].bitmap => img.relr[i].bits \subseteq 0 .. RelrBits - 1
         /\ ~ img.relr[1].bitmap
<1>1. img.relr \in Seq(RelrEntries)
  BY DEF ControlInv, IsImage
<1>2. img.relr[i] \in RelrEntries
  BY <1>1, ElementOfSeq
<1>3. img.relr # << >>
  BY <1>1
<1>4. ~ img.relr[1].bitmap
  BY <1>3 DEF ControlInv, WellLinked
<1> DEFINE e == img.relr[i]
<1>5. \/ e \in [bitmap : {FALSE}, addr : Nat]
      \/ e \in [bitmap : {TRUE}, bits : SUBSET (0 .. RelrBits - 1)]
  BY <1>2 DEF RelrEntries
<1> HIDE DEF e
<1>6. /\ e.bitmap \in BOOLEAN
      /\ ~ e.bitmap => e.addr \in Nat
      /\ e.bitmap => e.bits \subseteq 0 .. RelrBits - 1
  <2>1. CASE e \in [bitmap : {FALSE}, addr : Nat]
    <3>1. e.bitmap = FALSE /\ e.addr \in Nat
      BY <2>1
    <3> QED BY <3>1
  <2>2. CASE e \in [bitmap : {TRUE}, bits : SUBSET (0 .. RelrBits - 1)]
    <3>1. e.bitmap = TRUE /\ e.bits \in SUBSET (0 .. RelrBits - 1)
      BY <2>2
    <3> QED BY <3>1
  <2> QED BY <1>5, <2>1, <2>2
<1> QED BY <1>4, <1>6 DEF e

LEMMA LastAddress ==
  ASSUME ControlInv, NEW m \in 1 .. Len(img.relr)
  PROVE  /\ Address(m) \in 1 .. m /\ ~ img.relr[Address(m)].bitmap
         /\ ~ img.relr[m].bitmap => Address(m) = m
         /\ img.relr[m].bitmap => m > 1 /\ Address(m) = Address(m - 1)
<1> DEFINE S == {j \in 1 .. m : ~ img.relr[j].bitmap}
<1>1. m \in Nat /\ 1 \in S /\ S \subseteq 0 .. m
  BY RelrFields
<1>2. Max(S) \in S /\ \A j \in S : j <= Max(S)
  <2> HIDE DEF S
  <2> QED BY <1>1, MaxOf
<1>3. Address(m) = Max(S)
  BY DEF Address
<1>4. ASSUME ~ img.relr[m].bitmap PROVE Max(S) = m
  <2>1. m \in S
    BY <1>1, <1>4
  <2>2. Max(S) \in 1 .. m /\ m <= Max(S)
    BY <1>2, <2>1
  <2> HIDE DEF S
  <2> QED BY <2>2
<1>5. ASSUME img.relr[m].bitmap PROVE m > 1 /\ Address(m) = Address(m - 1)
  <2>1. m # 1
    BY <1>1, <1>5
  <2>2. \A j : j \in 1 .. m <=> j \in 1 .. m - 1 \/ j = m
    BY <1>1
  <2>3. S = {j \in 1 .. m - 1 : ~ img.relr[j].bitmap}
    BY <1>5, <2>2
  <2>4. Address(m - 1) = Max({j \in 1 .. m - 1 : ~ img.relr[j].bitmap})
    BY DEF Address
  <2>5. Address(m) = Address(m - 1)
    BY <1>3, <2>3, <2>4
  <2>6. m > 1
    BY <1>1, <2>1
  <2> QED BY <2>5, <2>6
<1>6. Max(S) \in 1 .. m /\ ~ img.relr[Max(S)].bitmap
  BY <1>2
<1> HIDE DEF S
<1> QED BY <1>3, <1>4, <1>5, <1>6

LEMMA RelrApplied ==
  ASSUME ControlInv, MappingInv, MemoryInv, RelocateRelr, n <= Len(img.relr)
  PROVE  /\ l'.where = Behind(n)
         /\ \A a \in DOMAIN l.mem : l'.mem[a] = Based(n, a - elf.base)
<1> DEFINE e == img.relr[n]
           b == elf.base
           x == [mem |-> l.mem, where |-> l.where]
           done == reloc_relr(x, e, b)
           T == RelrSlots(img, n)
           A == Address(n)
           q == img.relr[A].addr
<1>1. n \in 1 .. Len(img.relr) /\ at = "relr" /\ n \in Nat /\ n >= 1
  BY ImageFields DEF ControlInv, TypeOK, RelocateRelr
<1>2. l'.mem = done.mem /\ l'.where = done.where /\ DOMAIN done.mem = DOMAIN l.mem
  <2> HIDE DEF done, e
  <2> QED BY RelrResult DEF e, done
<1>3. A \in 1 .. n /\ ~ img.relr[A].bitmap /\ q \in Nat /\ e.bitmap \in BOOLEAN
  <2>1. A \in 1 .. n /\ ~ img.relr[A].bitmap
    BY <1>1, LastAddress
  <2>2. A \in 1 .. Len(img.relr)
    BY <1>1, <2>1, ImageFields DEF ControlInv
  <2> QED BY <1>1, <2>1, <2>2, RelrFields
<1>4. RelrBits \in Nat
  BY LoaderAssumption
<1>5. T = IF e.bitmap THEN {q + 1 + RelrBits * (n - A - 1) + s : s \in e.bits} ELSE {e.addr}
  BY DEF RelrSlots, Address
<1>6. b \in Int /\ DOMAIN l.mem \subseteq Int
  BY <1>1, BaseFields DEF Mapped, Loaded
<1>7. /\ \A a \in DOMAIN l.mem : l.mem[a] = Based(n - 1, a - b)
      /\ n > 1 => l.where = Behind(n - 1)
  BY <1>1 DEF MemoryInv
<1>8. /\ done.where = Behind(n)
      /\ done.mem = AddBase(l.mem, T, b)
  <2>1. CASE ~ e.bitmap
    <3>1. done = [mem |-> AddBase(l.mem, {e.addr}, b), where |-> e.addr + 1]
      BY <2>1 DEF reloc_relr
    <3>2. A = n
      BY <1>1, <2>1, LastAddress
    <3>3. Behind(n) = e.addr + 1
      <4>1. Behind(n) = q + 1 + RelrBits * (n - n)
        BY <3>2 DEF Behind
      <4>2. RelrBits * (n - n) = 0
        BY <1>1, <1>4
      <4> HIDE DEF A
      <4>3. q = e.addr
        BY <3>2
      <4> HIDE DEF q, e
      <4> QED BY <1>3, <4>1, <4>2, <4>3
    <3>4. T = {e.addr}
      BY <1>5, <2>1
    <3> HIDE DEF done, T, e
    <3> QED BY <3>1, <3>3, <3>4
  <2>2. CASE e.bitmap
    <3>1. done = [mem |-> AddBase(l.mem, {l.where + s : s \in e.bits}, b), where |-> l.where + RelrBits]
      BY <2>2 DEF reloc_relr
    <3>2. n > 1 /\ A = Address(n - 1)
      BY <1>1, <2>2, LastAddress
    <3>3. l.where = q + 1 + RelrBits * (n - 1 - A)
      BY <1>7, <3>2 DEF Behind
    <3>4. Behind(n) = q + 1 + RelrBits * (n - A)
      BY DEF Behind
    <3>5. A \in Nat
      BY <1>3
    <3> HIDE DEF A
    <3> HIDE DEF q
    <3>6. n - 1 - A = n - A - 1 /\ RelrBits * (n - A - 1) + RelrBits = RelrBits * (n - A)
      BY <1>1, <1>4, <3>5
    <3>7. RelrBits * (n - A - 1) \in Int /\ RelrBits * (n - A) \in Int
      BY <1>1, <1>4, <3>5
    <3>8. l.where + RelrBits = Behind(n)
      BY <1>3, <1>4, <3>3, <3>4, <3>6, <3>7
    <3>9. T = {l.where + s : s \in e.bits}
      BY <1>5, <2>2, <3>3, <3>6
    <3> HIDE DEF done, T, e
    <3> QED BY <3>1, <3>8, <3>9
  <2> QED BY <1>3, <2>1, <2>2
<1>9. ASSUME NEW a \in DOMAIN l.mem PROVE done.mem[a] = Based(n, a - b)
  <2> DEFINE c == a - b
  <2>1. c \in Int
    BY <1>6
  <2>2. done.mem[a] = IF c \in T THEN l.mem[a] + b ELSE l.mem[a]
    <3> HIDE DEF done, T, b
    <3> QED BY <1>8 DEF AddBase
  <2>3. l.mem[a] = Unrelocated(c) + (IF Slot(n - 1, c) THEN b ELSE 0)
    BY <1>7 DEF Based
  <2>4. Unrelocated(c) \in Nat
    BY <2>1, UnrelocatedValue
  <2>5. Slot(n, c) <=> Slot(n - 1, c) \/ c \in T
    <3>1. \A i : i \in 1 .. n <=> i \in 1 .. n - 1 \/ i = n
      BY <1>1
    <3> QED BY <3>1 DEF Slot
  <2>6. c \in T => ~ Slot(n - 1, c)
    <3> SUFFICES ASSUME NEW i \in 1 .. n - 1, c \in RelrSlots(img, i), c \in T PROVE FALSE
      BY DEF Slot
    <3>1. i \in DOMAIN img.relr /\ n \in DOMAIN img.relr /\ i # n
      <4>1. DOMAIN img.relr = 1 .. Len(img.relr) /\ Len(img.relr) \in Nat
        BY ImageFields, LenProperties DEF ControlInv
      <4> QED BY <1>1, <4>1
    <3> QED BY <3>1 DEF ControlInv, WellLinked
  <2> HIDE DEF T, done, c
  <2>7. Based(n, c) = Unrelocated(c) + (IF Slot(n, c) THEN b ELSE 0)
    BY DEF Based
  <2> HIDE DEF b
  <2>8. done.mem[a] = Based(n, c)
    BY <1>6, <2>2, <2>3, <2>4, <2>5, <2>6, <2>7
  <2> QED BY <2>8 DEF c, b
<1> HIDE DEF done
<1> QED BY <1>2, <1>8, <1>9

(* What is applied is in the tables.                                       *)
LEMMA AppliedInTables ==
  ASSUME ControlInv
  PROVE  Applied \subseteq Rela(img)
<1>1. /\ img.rela \in Seq(Rela(img)) /\ img.jmprel \in Seq(Rela(img))
      /\ Len(img.rela) \in Nat /\ Len(img.jmprel) \in Nat
      /\ Rela(img) = ToSet(img.rela) \cup ToSet(img.jmprel) /\ n \in Nat
  BY ImageFields DEF ControlInv, TypeOK
<1>2. CASE at = "rela"
  <2>1. n - 1 <= Len(img.rela) /\ Applied = {img.rela[i] : i \in 1 .. n - 1}
    BY <1>1, <1>2 DEF ControlInv, Table, Applied
  <2>2. \A i \in 1 .. n - 1 : img.rela[i] \in Rela(img)
    BY <1>1, <2>1, ElementOfSeq
  <2> QED BY <2>1, <2>2
<1>3. CASE at = "jmprel"
  <2>1. /\ n - 1 <= Len(img.jmprel)
        /\ Applied = ToSet(img.rela) \cup {img.jmprel[i] : i \in 1 .. n - 1}
    BY <1>1, <1>3 DEF ControlInv, Table, Applied
  <2>2. \A i \in 1 .. n - 1 : img.jmprel[i] \in Rela(img)
    BY <1>1, <2>1, ElementOfSeq
  <2> QED BY <1>1, <2>1, <2>2
<1> QED BY <1>2, <1>3 DEF Applied

(* An entry's relocation is right at its cells, and spoils no other one.   *)
LEMMA RelaApplied ==
  ASSUME ControlInv, MappingInv, MemoryInv, RelocateRela, n <= Len(Table), l'.allright
  PROVE  \A a \in DOMAIN l'.mem :
           LET here == {q \in Applied \cup {Table[n]} : a - elf.base \in RelaCells(img, q)}
           IN  /\ here = {} => l'.mem[a] = Based(Len(img.relr), a - elf.base)
               /\ \A q \in here : Resolved(q, a - elf.base, l'.mem[a])
<1> DEFINE r == Table[n]
<1>1. DOMAIN l'.mem = DOMAIN l.mem /\ l.allright
  BY RelaResult
<1>2. at \in {"rela", "jmprel"}
  BY DEF RelocateRela
<1>3. Relocated
  BY <1>1, <1>2 DEF MemoryInv, Relocating
<1>4. r \in Rela(img) /\ Applied \subseteq Rela(img)
  BY <1>2, EntryFields, AppliedInTables
<1>5. \A q \in Rela(img) : q # r => RelaCells(img, q) \cap RelaCells(img, r) = {}
  BY <1>4 DEF ControlInv, WellLinked
<1> SUFFICES ASSUME NEW a \in DOMAIN l.mem
             PROVE  LET here == {q \in Applied \cup {r} : a - elf.base \in RelaCells(img, q)}
                    IN  /\ here = {} => l'.mem[a] = Based(Len(img.relr), a - elf.base)
                        /\ \A q \in here : Resolved(q, a - elf.base, l'.mem[a])
  BY <1>1
<1> DEFINE c == a - elf.base
<1>6. IF c \in RelaCells(img, r)
      THEN IF r.type = "COPY" THEN l'.mem[a] = OS.data[r.sym][c - r.offset + 1]
           ELSE /\ r.type = "RELATIVE" => l'.mem[a] = elf.base + r.addend
                /\ r.type \notin {"64", "RELATIVE"} => l'.mem[a] = SymbolAddress(OS, libs, r.sym)
      ELSE l'.mem[a] = l.mem[a]
  BY RelaResult
<1>7. /\ (\A q \in Applied : c \notin RelaCells(img, q)) => l.mem[a] = Based(Len(img.relr), c)
      /\ \A q \in Applied : c \in RelaCells(img, q) => Resolved(q, c, l.mem[a])
  BY <1>3 DEF Relocated
<1> HIDE DEF r, c
<1>8. CASE c \in RelaCells(img, r)
  <2>1. Resolved(r, c, l'.mem[a])
    BY <1>6, <1>8 DEF Resolved, Bound
  <2>2. \A q \in Applied : c \in RelaCells(img, q) => q = r
    BY <1>4, <1>5, <1>8
  <2> QED BY <1>8, <2>1, <2>2 DEF c
<1>9. CASE c \notin RelaCells(img, r)
  <2>1. l'.mem[a] = l.mem[a]
    BY <1>6, <1>9
  <2> QED BY <1>7, <1>9, <2>1 DEF c
<1> QED BY <1>8, <1>9

-----------------------------------------------------------------------------
(* What the places of memory are compared with moves with the image and the*)
(* base only.                                                              *)
LEMMA SameImage ==
  ASSUME img' = img, elf' = elf
  PROVE  /\ \A m, x : Based(m, x)' = Based(m, x)
         /\ \A m : Behind(m)' = Behind(m)
BY DEF Based, Behind, Address, Slot, Unrelocated

LEMMA SameMemory ==
  ASSUME img' = img, elf' = elf, libs' = libs, l' = l, Applied' = Applied
  PROVE  /\ \A m : Filled(m)' = Filled(m)
         /\ Relocated' <=> Relocated
<1>1. \A m : Filled(m)' = Filled(m)
  BY DEF Filled
<1>2. \A r, x, v : Resolved(r, x, v)' = Resolved(r, x, v)
  BY DEF Resolved, Bound
<1>3. Relocated' <=> Relocated
  BY <1>2, SameImage DEF Relocated
<1> QED BY <1>1, <1>3

LEMMA MemoryStep ==
  ASSUME ControlInv, MappingInv, MemoryInv, Next
  PROVE  MemoryInv'
<1>1. ASSUME RelocateRela, ~ (n <= Len(Table))
      PROVE  /\ at \in Relocating /\ UNCHANGED <<elf, img, libs, l>>
             /\ at' = "panic" \/ (at' \in Relocating /\ l.allright /\ Applied' = Applied)
  BY <1>1, AppliedStep, Zenon
<1>2. ASSUME RelocateRela, n <= Len(Table)
      PROVE  /\ at \in Relocating /\ UNCHANGED <<elf, img, libs, at>>
             /\ Applied' = Applied \cup {Table[n]}
  BY <1>2, AppliedStep, Zenon
<1> USE DEF Go, Mapped, Loaded, Relocating, Running
<1>3. /\ n \in Nat /\ Len(img.segs) \in Nat /\ Len(img.relr) \in Nat
      /\ at \in {"segments", "relr"} => n >= 1
      /\ at = "segments" => n <= Len(img.segs) + 1
      /\ at = "relr" => n <= Len(img.relr) + 1
  BY ImageFields DEF ControlInv, TypeOK
<1>4. CASE MapImage
  <2>1. CASE at' \in {"crash", "panic"}
    BY <2>1 DEF MemoryInv
  <2>2. CASE at' \notin {"crash", "panic"}
    <3> DEFINE m == [a \in map .. map + guest_size(img) - 1 |-> 0]
    <3>1. l' = MemPut(l, m) /\ at' = "segments" /\ n' = 1
      BY <1>4, <2>2 DEF MapImage, MemPut
    <3>2. l'.mem = m
      <4> HIDE DEF m
      <4> QED BY <3>1, MemPutFields DEF MappingInv
    <3>3. \A a \in DOMAIN l'.mem : l'.mem[a] = 0
      BY <3>2
    <3>4. 1 .. n' - 1 = {} /\ n' - 1 = 0 /\ 1 .. 0 = {}
      BY <3>1
    <3>5. Filled(n - 1)'
      BY <3>3, <3>4 DEF Filled
    <3> QED BY <3>1, <3>5 DEF MemoryInv
  <2> QED BY <2>1, <2>2
<1>5. CASE LoadImage
  <2>1. elf' = elf /\ img' = img /\ at = "segments" /\ Filled(n - 1)
    BY <1>5 DEF LoadImage, MemoryInv
  <2>2. CASE n > Len(img.segs)
    <3>1. l' = l /\ at' = "dynamic" /\ n - 1 = Len(img.segs)
      BY <1>3, <1>5, <2>1, <2>2 DEF LoadImage
    <3>2. Filled(Len(img.segs))'
      BY <2>1, <3>1 DEF Filled
    <3> QED BY <3>1, <3>2 DEF MemoryInv
  <2>3. CASE n <= Len(img.segs) /\ Strays(img, map, n)
    <3>1. at' = "stray"
      BY <1>3, <1>5, <2>3 DEF LoadImage
    <3> QED BY <3>1 DEF MemoryInv
  <2>4. CASE n <= Len(img.segs) /\ ~ Strays(img, map, n)
    <3>1. at' = "segments" /\ n' - 1 = n
      BY <1>3, <1>5, <2>4 DEF LoadImage
    <3>2. \A a \in DOMAIN l'.mem :
            /\ \A i \in 1 .. n : a - elf.base \in FileCells(img.segs[i])
                 => l'.mem[a] = img.file[i][a - elf.base - img.segs[i].vaddr + 1]
            /\ (\A i \in 1 .. n : a - elf.base \notin FileCells(img.segs[i])) => l'.mem[a] = 0
      BY <1>5, <2>1, <2>4, SegmentLoaded
    <3>3. Filled(n - 1)'
      BY <2>1, <3>1, <3>2 DEF Filled
    <3> QED BY <3>1, <3>3 DEF MemoryInv
  <2> QED BY <1>3, <2>2, <2>3, <2>4
<1>6. CASE ReadDynamic
  <2>1. CASE at' = "needed"
    <3>1. UNCHANGED <<elf, img, l>> /\ Filled(Len(img.segs))
      BY <1>6 DEF ReadDynamic, MemoryInv
    <3>2. Filled(Len(img.segs))'
      BY <3>1 DEF Filled
    <3> QED BY <2>1, <3>2 DEF MemoryInv
  <2>2. CASE at' = "panic"
    BY <2>2 DEF MemoryInv
  <2> QED BY <1>6, <2>1, <2>2 DEF ReadDynamic
<1>7. CASE OpenLibrary
  <2>1. UNCHANGED <<elf, img, l>> /\ at = "needed" /\ Filled(Len(img.segs))
    BY <1>7 DEF OpenLibrary, MemoryInv
  <2>2. CASE at' = "needed"
    <3>1. Filled(Len(img.segs))'
      BY <2>1 DEF Filled
    <3> QED BY <2>2, <3>1 DEF MemoryInv
  <2>3. CASE at' = "relr" /\ n' = 1
    <3>1. \A a \in DOMAIN l.mem : l.mem[a] = Based(0, a - elf.base)
      <4> SUFFICES ASSUME NEW a \in DOMAIN l.mem PROVE l.mem[a] = Based(0, a - elf.base)
        OBVIOUS
      <4>1. a - elf.base \in Int
        BY <2>1, BaseFields
      <4>2. l.mem[a] = Unrelocated(a - elf.base) /\ Unrelocated(a - elf.base) \in Nat
        BY <2>1, <4>1, FilledIsUnrelocated, UnrelocatedValue
      <4>3. ~ Slot(0, a - elf.base)
        BY DEF Slot
      <4> QED BY <4>2, <4>3 DEF Based
    <3>2. n' - 1 = 0 /\ ~ (n' > 1)
      BY <2>3
    <3>3. \A a \in DOMAIN l'.mem : l'.mem[a] = Based(n - 1, a - elf.base)'
      BY <2>1, <3>1, <3>2, SameImage
    <3> QED BY <2>3, <3>2, <3>3 DEF MemoryInv
  <2>4. CASE at' = "panic"
    BY <2>4 DEF MemoryInv
  <2> QED BY <1>7, <2>2, <2>3, <2>4 DEF OpenLibrary
<1>8. CASE RelocateRelr
  <2>1. UNCHANGED <<elf, img, libs>> /\ at = "relr"
    BY <1>8 DEF RelocateRelr
  <2>2. CASE n <= Len(img.relr)
    <3>1. at' = "relr" /\ n' - 1 = n
      BY <1>3, <1>8, <2>2 DEF RelocateRelr
    <3>2. /\ l'.where = Behind(n) /\ DOMAIN l'.mem = DOMAIN l.mem
          /\ \A a \in DOMAIN l.mem : l'.mem[a] = Based(n, a - elf.base)
      BY <1>8, <2>2, RelrApplied, RelrResult
    <3>3. /\ \A a \in DOMAIN l'.mem : l'.mem[a] = Based(n - 1, a - elf.base)'
          /\ l'.where = Behind(n - 1)'
      BY <2>1, <3>1, <3>2, SameImage
    <3> QED BY <3>1, <3>3 DEF MemoryInv
  <2>3. CASE ~ (n <= Len(img.relr))
    <3>1. at' = "rela" /\ n' = 1 /\ l' = l /\ n - 1 = Len(img.relr)
      BY <1>3, <1>8, <2>1, <2>3 DEF RelocateRelr
    <3>2. Applied' = {}
      BY <3>1 DEF Applied
    <3>3. \A a \in DOMAIN l'.mem : l'.mem[a] = Based(Len(img.relr), a - elf.base)'
      BY <2>1, <3>1, SameImage DEF MemoryInv
    <3>4. Relocated'
      BY <3>2, <3>3 DEF Relocated
    <3> QED BY <3>1, <3>4 DEF MemoryInv
  <2> QED BY <2>2, <2>3
<1>9. CASE RelocateRela
  <2>1. CASE n <= Len(Table)
    <3>1. /\ at \in Relocating /\ UNCHANGED <<elf, img, libs, at>>
          /\ Applied' = Applied \cup {Table[n]}
      BY <1>2, <1>9, <2>1
    <3>2. ASSUME l'.allright PROVE Relocated'
      <4>1. \A a \in DOMAIN l'.mem :
              LET here == {q \in Applied' : a - elf.base \in RelaCells(img, q)}
              IN  /\ here = {} => l'.mem[a] = Based(Len(img.relr), a - elf.base)
                  /\ \A q \in here : Resolved(q, a - elf.base, l'.mem[a])
        BY <1>9, <2>1, <3>1, <3>2, RelaApplied
      <4>2. \A q, x, v : Resolved(q, x, v)' = Resolved(q, x, v)
        BY <3>1 DEF Resolved, Bound
      <4>3. \A x : Based(Len(img.relr), x)' = Based(Len(img.relr), x)
        BY <3>1, SameImage
      <4> QED BY <3>1, <4>1, <4>2, <4>3 DEF Relocated
    <3>3. at' \in {"rela", "jmprel"}
      BY <1>9, <3>1 DEF RelocateRela
    <3> QED BY <3>2, <3>3 DEF MemoryInv
  <2>2. CASE ~ (n <= Len(Table))
    <3>1. /\ at \in Relocating /\ UNCHANGED <<elf, img, libs, l>>
          /\ at' = "panic" \/ (at' \in Relocating /\ l.allright /\ Applied' = Applied)
      BY <1>1, <1>9, <2>2
    <3>2. CASE at' = "panic"
      BY <3>2 DEF MemoryInv
    <3>3. CASE at' \in Relocating /\ l.allright /\ Applied' = Applied
      <4>1. Relocated'
        BY <3>1, <3>3, SameMemory DEF MemoryInv
      <4> QED BY <3>3, <4>1 DEF MemoryInv
    <3> QED BY <3>1, <3>2, <3>3
  <2> QED BY <2>1, <2>2
<1>10. CASE patcher_init \/ RunInit \/ PushArgs
  <2>1. /\ at \in {"handlers"} \cup Running /\ at' \in Running
        /\ UNCHANGED <<elf, l, img, libs>>
    BY <1>10 DEF patcher_init, RunInit, PushArgs
  <2>2. Applied' = Applied
    BY <2>1 DEF Applied
  <2>3. Relocated' <=> Relocated
    BY <2>1, <2>2, SameMemory
  <2> QED BY <2>1, <2>3 DEF MemoryInv
<1>11. CASE SetEnvpNull \/ SetEnvp \/ ReadArgv
  <2>1. at' \in {"env", "options", "usage", "load"}
    BY <1>11 DEF SetEnvpNull, SetEnvp, ReadArgv
  <2> QED BY <2>1 DEF MemoryInv
<1> QED
  BY <1>4, <1>5, <1>6, <1>7, <1>8, <1>9, <1>10, <1>11 DEF Next

THEOREM MemoryHolds == Spec => []MemoryInv
<1>1. Init => MemoryInv
  <2>1. Init => at = "start"
    BY DEF Init
  <2> QED BY <2>1 DEF MemoryInv, Relocating, Running
<1>2. ControlInv /\ MappingInv /\ MemoryInv /\ [Next]_vars => MemoryInv'
  <2>1. ASSUME MemoryInv, UNCHANGED vars PROVE MemoryInv'
    <3>1. UNCHANGED <<at, n, img, elf, libs, l>>
      BY <2>1 DEF vars
    <3>2. Applied' = Applied
      BY <3>1 DEF Applied
    <3>3. /\ \A m : Filled(m)' = Filled(m)
          /\ Relocated' <=> Relocated
          /\ \A m, x : Based(m, x)' = Based(m, x)
          /\ \A m : Behind(m)' = Behind(m)
      BY <3>1, <3>2, SameMemory, SameImage
    <3>4. at = "segments" => Filled(n - 1)'
      BY <2>1, <3>1 DEF MemoryInv, Filled
    <3>5. at \in {"dynamic", "needed"} => Filled(Len(img.segs))'
      BY <2>1, <3>1 DEF MemoryInv, Filled
    <3>6. at = "relr" => /\ \A a \in DOMAIN l'.mem : l'.mem[a] = Based(n - 1, a - elf.base)'
                         /\ n' > 1 => l'.where = Behind(n - 1)'
      BY <2>1, <3>1, <3>3 DEF MemoryInv
    <3> QED BY <2>1, <3>1, <3>3, <3>4, <3>5, <3>6 DEF MemoryInv
  <2> QED BY <2>1, MemoryStep
<1> QED BY <1>1, <1>2, ControlHolds, MappingHolds, PTL DEF Spec

(***************************************************************************)
(* At the guest's entry the image in memory is what the formats say: the   *)
(* file, the zeros, and every relocation applied once.                     *)
(***************************************************************************)
THEOREM ImageIsRight == Spec => []ImageRight
<1>1. ControlInv /\ MappingInv /\ GotInv /\ MemoryInv => ImageRight
  <2> SUFFICES ASSUME ControlInv, MappingInv, GotInv, MemoryInv, at = "entry",
                      NEW a \in Lowest(img) .. Highest(img) - 1
               PROVE  LET here == {r \in Rela(img) : a \in RelaCells(img, r)}
                          slot == \E i \in DOMAIN img.relr : a \in RelrSlots(img, i)
                      IN  IF here = {}
                          THEN l.mem[elf.base + a] = Unrelocated(a) + (IF slot THEN elf.base ELSE 0)
                          ELSE \A r \in here :
                                 IF r.type = "COPY"
                                 THEN l.mem[elf.base + a] = OS.data[r.sym][a - r.offset + 1]
                                 ELSE r.type # "64" => l.mem[elf.base + a] = Bound(r)
    BY DEF ImageRight
  <2> DEFINE p == elf.base + a
  <2>1. Relocated /\ Applied = Rela(img)
    BY DEF MemoryInv, GotInv, Applied, Relocating, Running
  <2>2. p \in DOMAIN l.mem
    <3>1. elf = mmap_base(img, map) /\ DOMAIN l.mem = map .. map + guest_size(img) - 1
          /\ \A i \in 1 .. Len(img.segs) : ~ Strays(img, map, i)
      BY DEF MappingInv, Mapped, Loaded, Relocating, Running
    <3>2. mmap_base(img, map).base + a \in map .. map + guest_size(img) - 1
      BY <3>1, InsideMapping DEF ControlInv
    <3> QED BY <3>1, <3>2
  <2>3. p - elf.base = a
    <3>1. elf.base \in Int
      BY BaseFields DEF Mapped, Loaded, Relocating, Running
    <3>2. Lowest(img) \in Nat /\ Highest(img) \in Nat
      BY ImageEnds DEF ControlInv
    <3> QED BY <3>1, <3>2
  <2> HIDE DEF p
  <2>4. /\ {r \in Rela(img) : a \in RelaCells(img, r)} = {} => l.mem[p] = Based(Len(img.relr), a)
        /\ \A r \in Rela(img) : a \in RelaCells(img, r) => Resolved(r, a, l.mem[p])
    BY <2>1, <2>2, <2>3 DEF Relocated
  <2>5. Slot(Len(img.relr), a) <=> \E i \in DOMAIN img.relr : a \in RelrSlots(img, i)
    <3>1. DOMAIN img.relr = 1 .. Len(img.relr)
      BY ImageFields, LenProperties DEF ControlInv
    <3> QED BY <3>1 DEF Slot
  <2> QED BY <2>4, <2>5 DEF Based, Resolved, p
<1> QED BY <1>1, ControlHolds, MappingHolds, GotHolds, MemoryHolds, PTL

-----------------------------------------------------------------------------
(***************************************************************************)
(* The stack.  sp and dp at every place of main: dp counts the cells of    *)
(* the strings pushed so far.                                              *)
(***************************************************************************)
Between == {"options", "load", "segments"} \cup (Loaded \ {"args", "entry"})

Pushed(args, env) ==
  /\ IsFiniteSet(Letters(argv, args)) /\ IsFiniteSet(Letters(envp, env))
  /\ k.dp = Cardinality(Letters(argv, args)) + Cardinality(Letters(envp, env))

(* The cell of the null behind argv, before the last shift.                *)
ArgvEnd == StackSize - 8 - Len(envp)

CountInv ==
  /\ at = "start" => k = stack_init
  /\ at = "env" => /\ n <= Len(envp) + 1 /\ k.sp = StackSize - n
                   /\ Pushed({}, 1 .. n - 1)
  /\ at \in Between => k.sp = StackSize - 1 - Len(envp) /\ Pushed({}, 1 .. Len(envp))
  /\ at \notin {"args", "entry"} => k.argc = 0
  /\ at = "args" => /\ n >= end - 1
                    /\ k.sp = ArgvEnd - (Len(argv) - n) /\ k.argc = Len(argv) - n
                    /\ Pushed(n + 1 .. Len(argv), 1 .. Len(envp))
  /\ at = "entry" =>
       LET words == 10 + (Len(argv) - end) + Len(envp)
       IN  /\ k.sp = StackSize - words - (words % 2)
           /\ Pushed(end .. Len(argv), 1 .. Len(envp))

(***************************************************************************)
(* As long as the two ends have not met, what was pushed is there: a word  *)
(* at or above sp, a string below dp and its pointer at or above sp.       *)
(***************************************************************************)
Holds(s, a, v) == a \in s.sp .. StackSize - 1 /\ s.mem[a] = Word(v)

Spelled(s, p, t) == \A i \in 1 .. CellsOf[t] : s.mem[p + i - 1] = <<"text", t, i>>

Leads(s, a, t) ==
  \E p \in Nat : p + CellsOf[t] <= s.dp /\ Holds(s, a, p) /\ Spelled(s, p, t)

EnvPile(s, top, m) == Holds(s, top, 0) /\ \A i \in 1 .. m : Leads(s, top - i, envp[i])

AuxPile(s, vec) ==
  \A i \in 1 .. 3 : Holds(s, vec + 2 * i - 2, Auxv[i][1]) /\ Holds(s, vec + 2 * i - 1, Auxv[i][2])

ArgPile(s, top, first) ==
  Holds(s, top, 0) /\ \A i \in first .. Len(argv) : Leads(s, top - 1 - Len(argv) + i, argv[i])

Pile(s) ==
  /\ at = "env" => EnvPile(s, StackSize - 1, n - 1)
  /\ at \in Between => EnvPile(s, StackSize - 1, Len(envp))
  /\ at = "args" => /\ EnvPile(s, StackSize - 1, Len(envp))
                    /\ AuxPile(s, ArgvEnd + 1)
                    /\ ArgPile(s, ArgvEnd, n + 1)
  /\ at = "entry" => LET top == s.sp + (Len(argv) - end) + 2
                     IN  /\ Holds(s, s.sp, Len(argv) - end + 1)
                         /\ ArgPile(s, top, end)
                         /\ AuxPile(s, top + 1)
                         /\ EnvPile(s, top + 7 + Len(envp), Len(envp))

PileInv ==
  /\ DOMAIN k.mem = 0 .. StackSize - 1
  /\ k.dp <= k.sp => Pile(k)

(* A push keeps what is there; the last shift moves what is above sp.      *)
Cells(s) == DOMAIN s.mem = 0 .. StackSize - 1

Extends(s, t) ==
  /\ Cells(t) /\ s.dp <= t.dp /\ t.sp <= s.sp
  /\ \A a \in 0 .. StackSize - 1 : a < s.dp \/ a >= s.sp => t.mem[a] = s.mem[a]

Moved(s, t) ==
  /\ Cells(t) /\ t.dp = s.dp /\ t.sp = s.sp - 1
  /\ \A a \in 0 .. StackSize - 1 : a < s.dp => t.mem[a] = s.mem[a]
  /\ \A a \in s.sp .. StackSize - 1 : t.mem[a - 1] = s.mem[a]

LEMMA OneString ==
  ASSUME NEW i, NEW c \in Nat
  PROVE  IsFiniteSet({i} \X (1 .. c)) /\ Cardinality({i} \X (1 .. c)) = c
<1> DEFINE S == 1 .. c
           T == {i} \X (1 .. c)
           f == [x \in S |-> <<i, x>>]
<1>1. IsFiniteSet(S) /\ Cardinality(S) = c
  BY FS_Interval
<1>2. f \in [S -> T] /\ (\A t \in T : \E x \in S : f[x] = t) /\ (\A x, y \in S : f[x] = f[y] => x = y)
  OBVIOUS
<1> HIDE DEF S, T, f
<1>3. ExistsBijection(S, T)
  BY <1>2 DEF ExistsBijection, Bijection, Injection, Surjection, IsInjective
<1>4. IsFiniteSet(T) /\ Cardinality(T) = Cardinality(S)
  BY <1>1, <1>3, FS_Bijection
<1> QED BY <1>1, <1>4 DEF T

LEMMA LettersAdded ==
  ASSUME NEW s, NEW I, NEW i, i \notin I, CellsOf[s[i]] \in Nat, IsFiniteSet(Letters(s, I))
  PROVE  /\ IsFiniteSet(Letters(s, I \cup {i}))
         /\ Cardinality(Letters(s, I \cup {i})) = Cardinality(Letters(s, I)) + CellsOf[s[i]]
<1> DEFINE A == Letters(s, I)
           B == {i} \X (1 .. CellsOf[s[i]])
<1>1. IsFiniteSet(A) /\ Cardinality(A) \in Nat
  BY FS_CardinalityType
<1>2. IsFiniteSet(B) /\ Cardinality(B) = CellsOf[s[i]]
  BY OneString
<1>3. Letters(s, I \cup {i}) = A \cup B
  BY DEF Letters
<1>4. A \cap B = {}
  BY DEF Letters
<1> HIDE DEF A, B
<1>5. IsFiniteSet(A \cup B)
      /\ Cardinality(A \cup B) = Cardinality(A) + Cardinality(B) - Cardinality(A \cap B)
  BY <1>1, <1>2, FS_Union
<1>6. Cardinality(A \cap B) = 0
  BY <1>4, FS_EmptySet
<1>7. Cardinality(A \cup B) = Cardinality(A) + CellsOf[s[i]]
  BY <1>1, <1>2, <1>5, <1>6
<1> QED BY <1>3, <1>5, <1>7 DEF A

LEMMA NoLetters ==
  ASSUME NEW s
  PROVE  IsFiniteSet(Letters(s, {})) /\ Cardinality(Letters(s, {})) = 0
<1>1. Letters(s, {}) = {}
  BY DEF Letters
<1> QED BY <1>1, FS_EmptySet

(* m is mem with c cells written from from on.                             *)
Written(m, mem, from, cells, c) ==
  /\ DOMAIN m = 0 .. StackSize - 1
  /\ \A a \in 0 .. StackSize - 1 : a < from \/ a >= from + c => m[a] = mem[a]
  /\ \A i \in 1 .. c : m[from + i - 1] = cells[i]

LEMMA Stored ==
  ASSUME NEW mem, DOMAIN mem = 0 .. StackSize - 1,
         NEW from \in Nat, NEW cells, NEW c \in Nat, Len(cells) = c, from + c <= StackSize
  PROVE  Written(Store(mem, from, cells), mem, from, cells, c)
<1>1. DOMAIN Store(mem, from, cells) = 0 .. StackSize - 1
  BY DEF Store
<1>2. ASSUME NEW a \in 0 .. StackSize - 1, a < from \/ a >= from + c
      PROVE  Store(mem, from, cells)[a] = mem[a]
  BY <1>2 DEF Store
<1>3. ASSUME NEW i \in 1 .. c
      PROVE  Store(mem, from, cells)[from + i - 1] = cells[i]
  <2>1. /\ from + i - 1 \in 0 .. StackSize - 1 /\ from + i - 1 \in from .. from + c - 1
        /\ from + i - 1 - from + 1 = i
    BY StackAssumption
  <2> DEFINE a == from + i - 1
  <2> HIDE DEF a
  <2>2. a \in 0 .. StackSize - 1 /\ a \in from .. from + Len(cells) - 1 /\ a - from + 1 = i
    BY <2>1 DEF a
  <2>3. Store(mem, from, cells)[a] = cells[a - from + 1]
    BY <2>2 DEF Store
  <2> QED BY <2>2, <2>3 DEF a
<1> QED BY <1>1, <1>2, <1>3 DEF Written

LEMMA HoldsKept ==
  ASSUME NEW s, NEW t, StackShape(s), StackShape(t), Cells(s), s.dp <= s.sp, Extends(s, t),
         NEW a, NEW v, Holds(s, a, v)
  PROVE  Holds(t, a, v)
<1>1. a \in Int /\ s.sp <= a /\ a <= StackSize - 1 /\ s.sp \in Nat /\ t.sp \in Int /\ t.sp <= s.sp
  BY StackAssumption DEF Holds, StackShape, Extends
<1>2. a \in 0 .. StackSize - 1 /\ a >= s.sp /\ a \in t.sp .. StackSize - 1
  BY <1>1, StackAssumption
<1> QED BY <1>2 DEF Holds, Extends

LEMMA LeadsKept ==
  ASSUME NEW s, NEW t, StackShape(s), StackShape(t), Cells(s), s.dp <= s.sp, Extends(s, t),
         NEW a, NEW x \in Strings, Leads(s, a, x)
  PROVE  Leads(t, a, x)
<1>1. PICK p \in Nat : p + CellsOf[x] <= s.dp /\ Holds(s, a, p) /\ Spelled(s, p, x)
  BY DEF Leads
<1>2. Holds(t, a, p)
  BY <1>1, HoldsKept
<1>3. s.dp \in Nat /\ t.dp \in Nat /\ s.dp <= t.dp /\ s.dp <= StackSize /\ CellsOf[x] \in Nat
  BY StackAssumption DEF StackShape, Extends
<1>4. ASSUME NEW i \in 1 .. CellsOf[x] PROVE t.mem[p + i - 1] = <<"text", x, i>>
  <2>1. p + i - 1 \in 0 .. StackSize - 1 /\ p + i - 1 < s.dp
    BY <1>1, <1>3, StackAssumption
  <2> QED BY <1>1, <2>1 DEF Extends, Spelled
<1>5. p + CellsOf[x] <= t.dp
  BY <1>1, <1>3
<1> QED BY <1>2, <1>4, <1>5 DEF Leads, Spelled

LEMMA PilesKept ==
  ASSUME NEW s, NEW t, StackShape(s), StackShape(t), Cells(s), s.dp <= s.sp, Extends(s, t),
         argv \in Seq(Strings), envp \in Seq(Strings)
  PROVE  /\ \A top, m : m \in 0 .. Len(envp) /\ EnvPile(s, top, m) => EnvPile(t, top, m)
         /\ \A vec : AuxPile(s, vec) => AuxPile(t, vec)
         /\ \A top, first : first \in Nat \ {0} /\ ArgPile(s, top, first) => ArgPile(t, top, first)
<1>1. ASSUME NEW top, NEW m \in 0 .. Len(envp), EnvPile(s, top, m) PROVE EnvPile(t, top, m)
  <2>1. Holds(t, top, 0)
    BY <1>1, HoldsKept DEF EnvPile
  <2>2. ASSUME NEW i \in 1 .. m PROVE Leads(t, top - i, envp[i])
    <3>1. envp[i] \in Strings /\ Leads(s, top - i, envp[i])
      BY <1>1 DEF EnvPile
    <3> QED BY <3>1, LeadsKept
  <2> QED BY <2>1, <2>2 DEF EnvPile
<1>2. ASSUME NEW vec, AuxPile(s, vec) PROVE AuxPile(t, vec)
  <2>1. ASSUME NEW i \in 1 .. 3
        PROVE  Holds(t, vec + 2 * i - 2, Auxv[i][1]) /\ Holds(t, vec + 2 * i - 1, Auxv[i][2])
    <3>1. Holds(s, vec + 2 * i - 2, Auxv[i][1]) /\ Holds(s, vec + 2 * i - 1, Auxv[i][2])
      BY <1>2 DEF AuxPile
    <3> QED BY <3>1, HoldsKept
  <2> QED BY <2>1 DEF AuxPile
<1>3. ASSUME NEW top, NEW first \in Nat \ {0}, ArgPile(s, top, first) PROVE ArgPile(t, top, first)
  <2>1. Holds(t, top, 0)
    BY <1>3, HoldsKept DEF ArgPile
  <2>2. ASSUME NEW i \in first .. Len(argv) PROVE Leads(t, top - 1 - Len(argv) + i, argv[i])
    <3>1. argv[i] \in Strings /\ Leads(s, top - 1 - Len(argv) + i, argv[i])
      BY <1>3 DEF ArgPile
    <3> QED BY <3>1, LeadsKept
  <2> QED BY <2>1, <2>2 DEF ArgPile
<1> QED BY <1>1, <1>2, <1>3

LEMMA WordCells ==
  ASSUME NEW s, StackShape(s), Cells(s), NEW v
  PROVE  Cells(PushWord(s, v)) /\ PushWord(s, v).mem = Store(s.mem, s.sp - 1, <<Word(v)>>)
<1> DEFINE q == Store(s.mem, s.sp - 1, <<Word(v)>>)
           t == PushWord(s, v)
<1>1. t = [s EXCEPT !.sp = @ - 1, !.mem = q]
  BY DEF PushWord
<1>2. DOMAIN q = DOMAIN s.mem
  BY DEF Store
<1> HIDE DEF t, q
<1>3. t.mem = q
  BY <1>1 DEF StackShape
<1> QED BY <1>2, <1>3 DEF Cells, t, q

LEMMA WordPile ==
  ASSUME NEW s, StackShape(s), Cells(s), NEW v
  PROVE  LET t == PushWord(s, v)
         IN  s.dp <= s.sp - 1 => Extends(s, t) /\ Holds(t, s.sp - 1, v)
<1> DEFINE c == <<Word(v)>>
           m == Store(s.mem, s.sp - 1, c)
           t == PushWord(s, v)
<1> SUFFICES ASSUME s.dp <= s.sp - 1 PROVE Extends(s, t) /\ Holds(t, s.sp - 1, v)
  OBVIOUS
<1>1. StackShape(t) /\ t.sp = s.sp - 1 /\ t.dp = s.dp
  BY WordPushed
<1>2. t.mem = m
  BY WordCells
<1>3. s.sp - 1 \in Nat /\ s.sp - 1 + 1 <= StackSize /\ s.sp - 1 + 1 = s.sp /\ s.sp \in Int /\ StackSize \in Nat
  BY StackAssumption DEF StackShape
<1>4. Len(c) = 1 /\ c[1] = Word(v) /\ 1 \in Nat
  OBVIOUS
<1> DEFINE from == s.sp - 1
<1> HIDE DEF c, t, from
<1>5. /\ DOMAIN m = 0 .. StackSize - 1
      /\ \A a \in 0 .. StackSize - 1 : a < from \/ a >= from + 1 => m[a] = s.mem[a]
      /\ \A i \in 1 .. 1 : m[from + i - 1] = c[i]
  <2>1. from \in Nat /\ from + 1 <= StackSize
    BY <1>3 DEF from
  <2>2. Written(Store(s.mem, from, c), s.mem, from, c, 1)
    BY <1>4, <2>1, Stored DEF Cells
  <2> QED BY <2>2 DEF Written, from
<1> HIDE DEF m
<1>6. m[from + 1 - 1] = Word(v) /\ from + 1 - 1 = from
  BY <1>3, <1>4, <1>5 DEF from
<1>7. from \in t.sp .. StackSize - 1
  BY <1>1, <1>3 DEF from
<1>8. \A a \in 0 .. StackSize - 1 : a < s.dp \/ a >= s.sp => m[a] = s.mem[a]
  BY <1>3, <1>5 DEF from, StackShape
<1>9. s.dp <= t.dp /\ t.sp <= s.sp
  BY <1>1, <1>3 DEF StackShape
<1> QED BY <1>1, <1>2, <1>5, <1>6, <1>7, <1>8, <1>9 DEF Extends, Holds, Cells, from

LEMMA TextCells ==
  ASSUME NEW x \in Strings
  PROVE  /\ CellsOf[x] \in Nat \ {0} /\ Len(Text(x)) = CellsOf[x]
         /\ \A i \in 1 .. CellsOf[x] : Text(x)[i] = <<"text", x, i>>
<1>1. CellsOf[x] \in Nat \ {0}
  BY StackAssumption
<1> DEFINE c == CellsOf[x]
<1> HIDE DEF c
<1>2. Len([i \in 1 .. c |-> <<"text", x, i>>]) = c
  BY <1>1 DEF c
<1> QED BY <1>1, <1>2 DEF Text, c

LEMMA StringPile ==
  ASSUME NEW s, StackShape(s), Cells(s), NEW x \in Strings
  PROVE  LET t == push_envp(s, x)
         IN  /\ t.sp = s.sp - 1 /\ t.dp = s.dp + CellsOf[x] /\ Cells(t)
             /\ t.dp <= t.sp => Extends(s, t) /\ Leads(t, s.sp - 1, x)
<1> DEFINE p == PushWord(s, s.dp)
           c == CellsOf[x]
           m == Store(p.mem, s.dp, Text(x))
           t == push_envp(s, x)
<1>1. StackShape(p) /\ p.sp = s.sp - 1 /\ p.dp = s.dp /\ p.argc = s.argc
  BY WordPushed
<1>2. c \in Nat \ {0} /\ Len(Text(x)) = c /\ \A i \in 1 .. c : Text(x)[i] = <<"text", x, i>>
  BY TextCells
<1>3. t = [mem |-> m, dp |-> p.dp + c, sp |-> p.sp, argc |-> p.argc]
  <2>1. t = [p EXCEPT !.mem = m, !.dp = @ + c]
    BY DEF push_envp
  <2> HIDE DEF p, m, c, t
  <2> QED BY <1>1, <2>1 DEF StackShape
<1>4. t.sp = s.sp - 1 /\ t.dp = s.dp + c /\ t.mem = m /\ StackShape(t)
  BY <1>1, <1>3, StringPushed
<1>5. Cells(p)
  BY WordCells
<1>6. DOMAIN m = DOMAIN p.mem
  BY DEF Store
<1>7. Cells(t)
  BY <1>4, <1>5, <1>6 DEF Cells
<1>8. ASSUME t.dp <= t.sp PROVE Extends(s, t) /\ Leads(t, s.sp - 1, x)
  <2> HIDE DEF t, c, m, p
  <2>1. /\ s.dp \in Nat /\ s.sp \in Int /\ c \in Nat /\ s.sp <= StackSize /\ StackSize \in Nat
        /\ s.dp + c <= s.sp - 1 /\ s.dp <= s.sp - 1
    <3>1. t.dp = s.dp + c /\ t.sp = s.sp - 1 /\ t.dp <= t.sp /\ c \in Nat
      BY <1>2, <1>4, <1>8 DEF c
    <3> QED BY <3>1, StackAssumption DEF StackShape
  <2>2. Extends(s, p) /\ Holds(p, s.sp - 1, s.dp)
    BY <2>1, WordPile DEF p
  <2>3. s.dp + c <= StackSize
    BY <2>1, StackAssumption
  <2>4. /\ \A a \in 0 .. StackSize - 1 : a < s.dp \/ a >= s.dp + c => m[a] = p.mem[a]
        /\ \A i \in 1 .. c : m[s.dp + i - 1] = Text(x)[i]
    <3>1. Written(Store(p.mem, s.dp, Text(x)), p.mem, s.dp, Text(x), c)
      BY <1>2, <1>5, <2>1, <2>3, Stored DEF Cells
    <3> QED BY <3>1 DEF Written, m
  <2>5. \A a \in 0 .. StackSize - 1 : a < s.dp \/ a >= s.sp => m[a] = s.mem[a]
    BY <2>1, <2>2, <2>4 DEF Extends
  <2>6. Extends(s, t)
    BY <1>4, <1>7, <2>1, <2>5 DEF Extends
  <2>7. Spelled(t, s.dp, x)
    BY <1>2, <1>4, <2>4 DEF Spelled, c
  <2>8. Holds(t, s.sp - 1, s.dp)
    <3>1. s.sp - 1 \in 0 .. StackSize - 1 /\ s.sp - 1 >= s.dp + c
      BY <2>1
    <3>2. s.sp - 1 \in t.sp .. StackSize - 1
      BY <1>4, <2>1
    <3> QED BY <1>4, <2>2, <2>4, <3>1, <3>2 DEF Holds
  <2> QED BY <1>4, <2>1, <2>6, <2>7, <2>8 DEF Leads, c
<1> QED BY <1>4, <1>7, <1>8

LEMMA ArgumentPile ==
  ASSUME NEW s, StackShape(s), Cells(s), NEW x \in Strings
  PROVE  LET t == push_arg(s, x)
         IN  /\ t.sp = s.sp - 1 /\ t.dp = s.dp + CellsOf[x] /\ Cells(t) /\ t.argc = s.argc + 1
             /\ t.dp <= t.sp => Extends(s, t) /\ Leads(t, s.sp - 1, x)
<1> DEFINE p == push_envp(s, x)
           t == push_arg(s, x)
<1>1. /\ p.sp = s.sp - 1 /\ p.dp = s.dp + CellsOf[x] /\ Cells(p)
      /\ p.dp <= p.sp => Extends(s, p) /\ Leads(p, s.sp - 1, x)
      /\ StackShape(p) /\ p.argc = s.argc
  BY StringPile, StringPushed
<1>2. t = [p EXCEPT !.argc = @ + 1]
  BY DEF push_arg
<1> HIDE DEF p, t
<1>3. t = [mem |-> p.mem, dp |-> p.dp, sp |-> p.sp, argc |-> p.argc + 1]
  BY <1>1, <1>2 DEF StackShape
<1>4. t.mem = p.mem /\ t.dp = p.dp /\ t.sp = p.sp /\ t.argc = s.argc + 1
  BY <1>1, <1>3
<1>5. Extends(s, p) => Extends(s, t)
  BY <1>4 DEF Extends, Cells
<1>6. Leads(p, s.sp - 1, x) => Leads(t, s.sp - 1, x)
  BY <1>4 DEF Leads, Holds, Spelled
<1> QED BY <1>1, <1>4, <1>5, <1>6 DEF t, Cells

LEMMA VectorPile ==
  ASSUME NEW s, StackShape(s), Cells(s), NEW auxv, Len(auxv) = 3
  PROVE  LET t == set_auxv(s, auxv)
         IN  /\ t.sp = s.sp - 6 /\ t.dp = s.dp /\ Cells(t) /\ t.argc = s.argc
             /\ s.dp <= s.sp - 6 =>
                  /\ Extends(s, t)
                  /\ \A i \in 1 .. 3 : /\ Holds(t, s.sp - 6 + 2 * i - 2, auxv[i][1])
                                       /\ Holds(t, s.sp - 6 + 2 * i - 1, auxv[i][2])
<1> DEFINE c == [i \in 1 .. 6 |-> Word(auxv[(i + 1) \div 2][IF i % 2 = 1 THEN 1 ELSE 2])]
           from == s.sp - 6
           m == Store(s.mem, from, c)
           t == set_auxv(s, auxv)
<1>1. t = [s EXCEPT !.mem = m, !.sp = @ - 6]
  BY DEF set_auxv
<1>2. DOMAIN m = DOMAIN s.mem
  BY DEF Store
<1>3. Len(c) = 6
  OBVIOUS
<1>4. \A i \in 1 .. 3 : c[2 * i - 1] = Word(auxv[i][1]) /\ c[2 * i] = Word(auxv[i][2])
  <2> SUFFICES ASSUME NEW i \in 1 .. 3
               PROVE  c[2 * i - 1] = Word(auxv[i][1]) /\ c[2 * i] = Word(auxv[i][2])
    OBVIOUS
  <2>1. /\ 2 * i - 1 \in 1 .. 6 /\ (2 * i - 1 + 1) \div 2 = i /\ (2 * i - 1) % 2 = 1
        /\ 2 * i \in 1 .. 6 /\ (2 * i + 1) \div 2 = i /\ (2 * i) % 2 # 1
    OBVIOUS
  <2> QED BY <2>1
<1> HIDE DEF c, m, t
<1>5. t = [mem |-> m, dp |-> s.dp, sp |-> from, argc |-> s.argc]
  BY <1>1 DEF StackShape
<1>6. t.sp = from /\ t.dp = s.dp /\ t.mem = m /\ t.argc = s.argc
  BY <1>5
<1>7. ASSUME s.dp <= from
      PROVE  /\ Extends(s, t)
             /\ \A i \in 1 .. 3 : Holds(t, from + 2 * i - 2, auxv[i][1]) /\ Holds(t, from + 2 * i - 1, auxv[i][2])
  <2>1. /\ from \in Nat /\ from + 6 = s.sp /\ from + 6 <= StackSize /\ s.dp \in Nat
        /\ s.sp \in Int /\ StackSize \in Nat
    BY <1>7, StackAssumption DEF StackShape
  <2> HIDE DEF from
  <2>2. /\ \A a \in 0 .. StackSize - 1 : a < from \/ a >= from + 6 => m[a] = s.mem[a]
        /\ \A i \in 1 .. 6 : m[from + i - 1] = c[i]
    <3>1. Written(Store(s.mem, from, c), s.mem, from, c, 6)
      BY <1>3, <2>1, Stored DEF Cells
    <3> QED BY <3>1 DEF Written, m
  <2>3. Extends(s, t)
    <3>1. \A a \in 0 .. StackSize - 1 : a < s.dp \/ a >= s.sp => a < from \/ a >= from + 6
      BY <1>7, <2>1 DEF from
    <3>2. s.dp <= t.dp /\ t.sp <= s.sp
      BY <1>6, <2>1
    <3> QED BY <1>2, <1>6, <2>2, <3>1, <3>2 DEF Extends, Cells
  <2>4. ASSUME NEW i \in 1 .. 3
        PROVE  Holds(t, from + 2 * i - 2, auxv[i][1]) /\ Holds(t, from + 2 * i - 1, auxv[i][2])
    <3>1. /\ 2 * i - 1 \in 1 .. 6 /\ from + (2 * i - 1) - 1 = from + 2 * i - 2
          /\ 2 * i \in 1 .. 6 /\ from + (2 * i) - 1 = from + 2 * i - 1
          /\ from + 2 * i - 2 \in from .. StackSize - 1 /\ from + 2 * i - 1 \in from .. StackSize - 1
      BY <2>1
    <3>2. m[from + (2 * i - 1) - 1] = c[2 * i - 1] /\ m[from + (2 * i) - 1] = c[2 * i]
      BY <2>2, <3>1
    <3>3. m[from + 2 * i - 2] = Word(auxv[i][1]) /\ m[from + 2 * i - 1] = Word(auxv[i][2])
      BY <1>4, <3>1, <3>2
    <3> QED BY <1>6, <3>1, <3>3 DEF Holds
  <2> QED BY <2>3, <2>4
<1> QED BY <1>2, <1>6, <1>7 DEF Cells, t

LEMMA HoldsMoved ==
  ASSUME NEW s, NEW t, StackShape(s), Cells(s), s.dp <= s.sp - 1, Moved(s, t),
         NEW a, NEW v, Holds(s, a, v)
  PROVE  Holds(t, a - 1, v)
<1>1. s.sp \in Nat \ {0} /\ StackSize \in Nat /\ t.sp = s.sp - 1
  BY StackAssumption DEF StackShape, Moved
<1>2. a \in s.sp .. StackSize - 1 /\ s.mem[a] = Word(v)
  BY DEF Holds
<1>3. a - 1 \in t.sp .. StackSize - 1
  BY <1>1, <1>2
<1> QED BY <1>2, <1>3 DEF Holds, Moved

LEMMA LeadsMoved ==
  ASSUME NEW s, NEW t, StackShape(s), Cells(s), s.dp <= s.sp - 1, Moved(s, t),
         NEW a, NEW x \in Strings, Leads(s, a, x)
  PROVE  Leads(t, a - 1, x)
<1>1. PICK p \in Nat : p + CellsOf[x] <= s.dp /\ Holds(s, a, p) /\ Spelled(s, p, x)
  BY DEF Leads
<1>2. Holds(t, a - 1, p)
  BY <1>1, HoldsMoved
<1>3. s.dp \in Nat /\ t.dp = s.dp /\ s.dp <= StackSize /\ CellsOf[x] \in Nat /\ StackSize \in Nat
  BY StackAssumption DEF StackShape, Moved
<1>4. ASSUME NEW i \in 1 .. CellsOf[x] PROVE t.mem[p + i - 1] = <<"text", x, i>>
  <2>1. p + i - 1 \in 0 .. StackSize - 1 /\ p + i - 1 < s.dp
    BY <1>1, <1>3
  <2> QED BY <1>1, <2>1 DEF Moved, Spelled
<1> QED BY <1>1, <1>2, <1>3, <1>4 DEF Leads, Spelled

LEMMA PilesMoved ==
  ASSUME NEW s, NEW t, StackShape(s), Cells(s), s.dp <= s.sp - 1, Moved(s, t),
         argv \in Seq(Strings), envp \in Seq(Strings)
  PROVE  /\ \A top \in Int, m \in 0 .. Len(envp) : EnvPile(s, top, m) => EnvPile(t, top - 1, m)
         /\ \A vec \in Int : AuxPile(s, vec) => AuxPile(t, vec - 1)
         /\ \A top \in Int, first \in Nat \ {0} : ArgPile(s, top, first) =>
              ArgPile(t, top - 1, first)
<1>1. ASSUME NEW top \in Int, NEW m \in 0 .. Len(envp), EnvPile(s, top, m)
      PROVE  EnvPile(t, top - 1, m)
  <2>1. Holds(t, top - 1, 0)
    BY <1>1, HoldsMoved DEF EnvPile
  <2>2. ASSUME NEW i \in 1 .. m PROVE Leads(t, top - 1 - i, envp[i])
    <3>1. envp[i] \in Strings /\ Leads(s, top - i, envp[i])
      BY <1>1 DEF EnvPile
    <3>2. Leads(t, top - i - 1, envp[i])
      BY <3>1, LeadsMoved
    <3>3. top - i - 1 = top - 1 - i
      OBVIOUS
    <3> QED BY <3>2, <3>3
  <2> QED BY <2>1, <2>2 DEF EnvPile
<1>2. ASSUME NEW vec \in Int, AuxPile(s, vec) PROVE AuxPile(t, vec - 1)
  <2>1. ASSUME NEW i \in 1 .. 3
        PROVE  Holds(t, vec - 1 + 2 * i - 2, Auxv[i][1]) /\ Holds(t, vec - 1 + 2 * i - 1, Auxv[i][2])
    <3>1. Holds(s, vec + 2 * i - 2, Auxv[i][1]) /\ Holds(s, vec + 2 * i - 1, Auxv[i][2])
      BY <1>2 DEF AuxPile
    <3>2. Holds(t, vec + 2 * i - 2 - 1, Auxv[i][1]) /\ Holds(t, vec + 2 * i - 1 - 1, Auxv[i][2])
      BY <3>1, HoldsMoved
    <3>3. vec + 2 * i - 2 - 1 = vec - 1 + 2 * i - 2 /\ vec + 2 * i - 1 - 1 = vec - 1 + 2 * i - 1
      OBVIOUS
    <3> QED BY <3>2, <3>3
  <2> QED BY <2>1 DEF AuxPile
<1>3. ASSUME NEW top \in Int, NEW first \in Nat \ {0}, ArgPile(s, top, first)
      PROVE  ArgPile(t, top - 1, first)
  <2>1. Holds(t, top - 1, 0)
    BY <1>3, HoldsMoved DEF ArgPile
  <2>2. ASSUME NEW i \in first .. Len(argv) PROVE Leads(t, top - 1 - 1 - Len(argv) + i, argv[i])
    <3>1. argv[i] \in Strings /\ Leads(s, top - 1 - Len(argv) + i, argv[i])
      BY <1>3 DEF ArgPile
    <3>2. Leads(t, top - 1 - Len(argv) + i - 1, argv[i])
      BY <3>1, LeadsMoved
    <3>3. top - 1 - Len(argv) + i - 1 = top - 1 - 1 - Len(argv) + i
      BY <1>3
    <3> QED BY <3>2, <3>3
  <2> QED BY <2>1, <2>2 DEF ArgPile
<1> QED BY <1>1, <1>2, <1>3

(* argc, below everything or below everything moved by a cell.             *)
LEMMA ArgcPile ==
  ASSUME NEW s, StackShape(s), Cells(s)
  PROVE  LET t == push_argc(s)
         IN  /\ t.dp = s.dp /\ t.sp = s.sp - (IF s.sp % 2 = 0 THEN 2 ELSE 1) /\ Cells(t)
             /\ t.dp <= t.sp =>
                  /\ Holds(t, t.sp, s.argc)
                  /\ \E u : /\ StackShape(u) /\ Cells(u) /\ u.dp <= u.sp /\ Extends(u, t)
                            /\ IF s.sp % 2 = 0 THEN Moved(s, u) ELSE u = s
<1> DEFINE c == StackSize - s.sp
           z == [i \in 1 .. c |-> s.mem[s.sp + i - 1]]
           m == Store(s.mem, s.sp - 1, z)
           moved == [s EXCEPT !.mem = m, !.sp = @ - 1]
           u == IF s.sp % 2 = 0 THEN moved ELSE s
           t == push_argc(s)
<1>1. t = PushWord(u, s.argc)
  BY DEF push_argc
<1>2. c \in Nat /\ Len(z) = c /\ (\A i \in 1 .. c : z[i] = s.mem[s.sp + i - 1])
  <2>1. c \in Nat
    BY StackAssumption DEF StackShape
  <2> HIDE DEF c
  <2> QED BY <2>1
<1>3. DOMAIN m = DOMAIN s.mem
  BY DEF Store
<1> HIDE DEF m, z
<1>4. moved = [mem |-> m, dp |-> s.dp, sp |-> s.sp - 1, argc |-> s.argc]
  <2> DEFINE a == [s EXCEPT !.mem = m]
  <2>1. a = [mem |-> m, dp |-> s.dp, sp |-> s.sp, argc |-> s.argc]
    BY DEF StackShape
  <2>2. moved = [a EXCEPT !.sp = @ - 1]
    OBVIOUS
  <2> HIDE DEF a, moved
  <2> QED BY <2>1, <2>2
<1> HIDE DEF moved
<1>5. /\ StackShape(moved) /\ moved.sp = s.sp - 1 /\ moved.dp = s.dp /\ moved.argc = s.argc
      /\ moved.mem = m /\ Cells(moved)
  BY <1>3, <1>4, StackAssumption DEF StackShape, Cells
<1>6. /\ StackShape(u) /\ Cells(u) /\ u.dp = s.dp
      /\ u.sp = s.sp - (IF s.sp % 2 = 0 THEN 1 ELSE 0)
  BY <1>5 DEF StackShape
<1> HIDE DEF u, t
<1>7. t.dp = s.dp /\ t.sp = u.sp - 1 /\ Cells(t)
  <2>1. /\ PushWord(u, s.argc).sp = u.sp - 1 /\ PushWord(u, s.argc).dp = u.dp
    BY <1>6, WordPushed
  <2>2. Cells(PushWord(u, s.argc))
    BY <1>6, WordCells
  <2> QED BY <1>1, <1>6, <2>1, <2>2
<1>8. t.sp = s.sp - (IF s.sp % 2 = 0 THEN 2 ELSE 1)
  BY <1>6, <1>7 DEF StackShape
<1>9. ASSUME t.dp <= t.sp
      PROVE  /\ Holds(t, t.sp, s.argc) /\ u.dp <= u.sp /\ Extends(u, t)
             /\ IF s.sp % 2 = 0 THEN Moved(s, u) ELSE u = s
  <2>1. /\ u.dp <= u.sp - 1 /\ u.dp <= u.sp /\ s.dp <= s.sp - 1 /\ s.sp \in Int /\ s.dp \in Nat
    BY <1>6, <1>7, <1>9 DEF StackShape
  <2>2. Extends(u, t) /\ Holds(t, t.sp, s.argc)
    BY <1>1, <1>6, <1>7, <2>1, WordPile
  <2>3. Moved(s, moved)
    <3> DEFINE from == s.sp - 1
    <3>1. /\ from \in Nat /\ from + c <= StackSize /\ from + 1 = s.sp /\ c = StackSize - s.sp
          /\ StackSize \in Nat
      BY <2>1, StackAssumption
    <3>2. Written(m, s.mem, from, z, c)
      <4> HIDE DEF c, from
      <4>1. Written(Store(s.mem, from, z), s.mem, from, z, c)
        BY <1>2, <3>1, Stored DEF Cells
      <4> QED BY <4>1 DEF m, from
    <3>3. \A a \in 0 .. StackSize - 1 : a < s.dp => m[a] = s.mem[a]
      BY <2>1, <3>2 DEF Written
    <3>4. ASSUME NEW a \in s.sp .. StackSize - 1 PROVE m[a - 1] = s.mem[a]
      <4>1. a - s.sp + 1 \in 1 .. c /\ from + (a - s.sp + 1) - 1 = a - 1
            /\ s.sp + (a - s.sp + 1) - 1 = a
        BY <2>1, <3>1
      <4> DEFINE i == a - s.sp + 1
      <4> HIDE DEF i, from, c
      <4>2. i \in 1 .. c /\ from + i - 1 = a - 1 /\ s.sp + i - 1 = a
        BY <4>1 DEF i
      <4>3. m[from + i - 1] = z[i] /\ z[i] = s.mem[s.sp + i - 1]
        BY <1>2, <3>2, <4>2 DEF Written
      <4> QED BY <4>2, <4>3
    <3> QED BY <1>5, <3>3, <3>4 DEF Moved
  <2> QED BY <2>1, <2>2, <2>3 DEF u
<1> QED BY <1>6, <1>7, <1>8, <1>9 DEF t

-----------------------------------------------------------------------------
LEMMA InitCount ==
  ASSUME Init
  PROVE  CountInv /\ PileInv
<1>1. at = "start" /\ k = stack_init
  BY DEF Init
<1>2. k.argc = 0 /\ k.mem = [a \in 0 .. StackSize - 1 |-> Word(0)]
  BY <1>1 DEF stack_init
<1> QED BY <1>1, <1>2 DEF CountInv, PileInv, Pile, Between, Loaded, Relocating, Running

(* Steps that leave the stack alone.                                       *)
LEMMA OtherCount ==
  ASSUME ControlInv, CountInv, PileInv,
         \/ ReadArgv \/ MapImage \/ LoadImage \/ ReadDynamic \/ OpenLibrary
         \/ RelocateRelr \/ RelocateRela \/ patcher_init
  PROVE  CountInv' /\ PileInv'
<1>1. /\ k' = k /\ envp' = envp /\ argv' = argv
      /\ at \in Between \ {"init"} /\ at' \in Between \cup (Ends \ {"entry"})
  BY DEF ReadArgv, MapImage, LoadImage, ReadDynamic, OpenLibrary, RelocateRelr, RelocateRela,
         patcher_init, Go, Between, Loaded, Relocating, Running, Ends
<1>2. at' \notin {"start", "env", "args", "entry"} /\ at \notin {"start", "env", "args", "entry"}
  BY <1>1 DEF Between, Loaded, Relocating, Running, Ends
<1>3. CountInv'
  BY <1>1, <1>2 DEF CountInv, Pushed
<1>4. PileInv'
  BY <1>1, <1>2 DEF PileInv, Pile, EnvPile, Leads
<1> QED BY <1>3, <1>4

LEMMA NullCount ==
  ASSUME ControlInv, CountInv, PileInv, SetEnvpNull
  PROVE  CountInv' /\ PileInv'
<1>1. at = "start" /\ k' = PushWord(k, 0) /\ at' = "env" /\ n' = 1 /\ envp' = envp /\ argv' = argv
  BY DEF SetEnvpNull, Go
<1>2. StackShape(k) /\ Cells(k) /\ k.argc = 0 /\ Len(envp) \in Nat
  BY <1>1 DEF ControlInv, PileInv, CountInv, Cells
<1>3. k.dp = 0 /\ k.sp = StackSize
  BY <1>1 DEF CountInv, stack_init
<1>4. k'.sp = StackSize - 1 /\ k'.dp = 0 /\ k'.argc = 0 /\ StackShape(k')
  BY <1>1, <1>2, <1>3, WordPushed
<1>5. 1 .. 1 - 1 = {}
  OBVIOUS
<1>6. Pushed({}, 1 .. n - 1)'
  BY <1>1, <1>4, <1>5, NoLetters DEF Pushed
<1>7. CountInv'
  BY <1>1, <1>2, <1>4, <1>6 DEF CountInv, Between, Loaded, Relocating, Running
<1>8. DOMAIN k'.mem = 0 .. StackSize - 1
  BY <1>1, <1>2, WordCells DEF Cells
<1>9. k'.dp <= k'.sp => Holds(k', StackSize - 1, 0)
  BY <1>1, <1>2, <1>3, <1>4, WordPile
<1>10. \A i \in 1 .. n' - 1 : FALSE
  BY <1>1
<1>11. k'.dp <= k'.sp => EnvPile(k, StackSize - 1, n - 1)'
  BY <1>9, <1>10 DEF EnvPile
<1>12. PileInv'
  BY <1>1, <1>8, <1>11 DEF PileInv, Pile, Between, Loaded, Relocating, Running
<1> QED BY <1>7, <1>12

LEMMA EnvCount ==
  ASSUME ControlInv, CountInv, PileInv, SetEnvp
  PROVE  CountInv' /\ PileInv'
<1>1. /\ at = "env" /\ envp' = envp /\ argv' = argv /\ n \in Nat \ {0} /\ Len(envp) \in Nat
      /\ n <= Len(envp) + 1 /\ k.sp = StackSize - n /\ Pushed({}, 1 .. n - 1) /\ k.argc = 0
      /\ StackShape(k) /\ Cells(k) /\ envp \in Seq(Strings) /\ argv \in Seq(Strings)
  BY DEF SetEnvp, ControlInv, TypeOK, CountInv, PileInv, Cells
<1>2. CASE n <= Len(envp)
  <2>1. k' = push_envp(k, envp[n]) /\ at' = "env" /\ n' = n + 1 /\ envp[n] \in Strings
    BY <1>1, <1>2 DEF SetEnvp, Go
  <2>2. /\ k'.sp = k.sp - 1 /\ k'.dp = k.dp + CellsOf[envp[n]] /\ Cells(k') /\ k'.argc = 0
        /\ k'.dp <= k'.sp => Extends(k, k') /\ Leads(k', k.sp - 1, envp[n])
        /\ StackShape(k') /\ CellsOf[envp[n]] \in Nat
    BY Zenon, <1>1, <2>1, StringPile, StringPushed, TextCells
  <2>3. Pushed({}, 1 .. n - 1)'
    <3>1. n \notin 1 .. n - 1 /\ (1 .. n - 1) \cup {n} = 1 .. n /\ n' - 1 = n
      BY <1>1, <2>1
    <3> DEFINE I == 1 .. n - 1
    <3>2. IsFiniteSet(Letters(envp, I)) /\ IsFiniteSet(Letters(argv, {})) /\ n \notin I
      BY <1>1, <3>1 DEF Pushed
    <3> HIDE DEF I
    <3>3. /\ IsFiniteSet(Letters(envp, I \cup {n}))
          /\ Cardinality(Letters(envp, I \cup {n})) = Cardinality(Letters(envp, I)) + CellsOf[envp[n]]
      BY <2>2, <3>2, LettersAdded
    <3>4. Cardinality(Letters(envp, I)) \in Nat /\ Cardinality(Letters(argv, {})) \in Nat
      BY <3>2, FS_CardinalityType
    <3>5. k.dp = Cardinality(Letters(argv, {})) + Cardinality(Letters(envp, I))
      BY <1>1 DEF Pushed, I
    <3>6. k'.dp = Cardinality(Letters(argv, {})) + Cardinality(Letters(envp, I \cup {n}))
      BY <2>2, <3>3, <3>4, <3>5
    <3>7. I \cup {n} = 1 .. n' - 1
      BY <3>1 DEF I
    <3> QED BY <1>1, <3>2, <3>3, <3>6, <3>7 DEF Pushed
  <2>4. CountInv'
    <3>1. k'.sp = StackSize - n' /\ n' <= Len(envp') + 1
      BY <1>1, <1>2, <2>1, <2>2, StackAssumption
    <3> QED BY <2>1, <2>2, <2>3, <3>1 DEF CountInv, Between, Loaded, Relocating, Running
  <2>5. ASSUME k'.dp <= k'.sp PROVE EnvPile(k', StackSize - 1, n)
    <3>1. k.dp <= k.sp
      <4>1. k.dp \in Nat /\ k.sp \in Int
        BY <1>1 DEF StackShape
      <4> QED BY <2>2, <2>5, <4>1
    <3>2. EnvPile(k, StackSize - 1, n - 1) /\ n - 1 \in 0 .. Len(envp)
      BY <1>1, <3>1 DEF PileInv, Pile
    <3>3. EnvPile(k', StackSize - 1, n - 1)
      BY <1>1, <2>2, <2>5, <3>1, <3>2, PilesKept
    <3>4. Leads(k', StackSize - 1 - n, envp[n])
      <4>1. k.sp - 1 = StackSize - 1 - n
        BY <1>1, StackAssumption
      <4> QED BY <2>2, <2>5, <4>1
    <3>5. \A i \in 1 .. n : i \in 1 .. n - 1 \/ i = n
      BY <1>1
    <3> QED BY <3>3, <3>4, <3>5 DEF EnvPile
  <2>6. n' - 1 = n
    BY <1>1, <2>1
  <2>7. k'.dp <= k'.sp => EnvPile(k, StackSize - 1, n - 1)'
    BY <1>1, <2>5, <2>6 DEF EnvPile
  <2>8. PileInv'
    BY <2>1, <2>2, <2>7 DEF PileInv, Pile, Cells, Between, Loaded, Relocating, Running
  <2> QED BY <2>4, <2>8
<1>3. CASE ~ (n <= Len(envp))
  <2>1. k' = k /\ at' = "options" /\ n = Len(envp) + 1 /\ n - 1 = Len(envp)
    BY <1>1, <1>3 DEF SetEnvp, Go
  <2>2. k.sp = StackSize - 1 - Len(envp)
    BY <1>1, <2>1, StackAssumption
  <2>3. CountInv'
    BY <1>1, <2>1, <2>2 DEF CountInv, Pushed, Between, Loaded, Relocating, Running
  <2>4. k.dp <= k.sp => EnvPile(k, StackSize - 1, Len(envp))
    BY <1>1, <2>1 DEF PileInv, Pile
  <2>5. k'.dp <= k'.sp => EnvPile(k, StackSize - 1, Len(envp))'
    BY <1>1, <2>1, <2>4 DEF EnvPile
  <2>6. PileInv'
    BY <1>1, <2>1, <2>5 DEF PileInv, Pile, Cells
  <2> QED BY <2>3, <2>6
<1> QED BY <1>2, <1>3

LEMMA VectorCount ==
  ASSUME ControlInv, CountInv, PileInv, RunInit
  PROVE  CountInv' /\ PileInv'
<1>1. /\ at = "init" /\ envp' = envp /\ argv' = argv /\ elf' = elf /\ img' = img
      /\ Len(envp) \in Nat /\ Len(argv) \in Nat /\ end' = end /\ end \in 1 .. Len(argv)
      /\ k.sp = StackSize - 1 - Len(envp) /\ Pushed({}, 1 .. Len(envp)) /\ k.argc = 0
      /\ StackShape(k) /\ Cells(k) /\ envp \in Seq(Strings) /\ argv \in Seq(Strings)
      /\ StackSize \in Nat /\ k.dp \in Nat
  BY StackAssumption
     DEF RunInit, ControlInv, StackShape, CountInv, PileInv, Cells, Between, Mapped, Loaded,
         Relocating, Running
<1>2. CASE k' = k /\ at' = "init"
  <2>1. CountInv'
    BY <1>1, <1>2 DEF CountInv, Pushed, Between, Loaded, Relocating, Running
  <2>2. PileInv'
    BY <1>1, <1>2 DEF PileInv, Pile, EnvPile, Between, Loaded, Relocating, Running
  <2> QED BY <2>1, <2>2
<1>3. CASE k' = PushWord(set_auxv(k, Auxv), 0) /\ at' = "args" /\ n' = Len(argv)
  <2> DEFINE v == set_auxv(k, Auxv)
  <2>1. Len(Auxv) = 3 /\ Auxv' = Auxv
    BY <1>1 DEF Auxv
  <2>2. /\ v.sp = k.sp - 6 /\ v.dp = k.dp /\ Cells(v) /\ v.argc = 0 /\ StackShape(v)
        /\ k.dp <= k.sp - 6 =>
             /\ Extends(k, v)
             /\ \A i \in 1 .. 3 : /\ Holds(v, k.sp - 6 + 2 * i - 2, Auxv[i][1])
                                  /\ Holds(v, k.sp - 6 + 2 * i - 1, Auxv[i][2])
    <3> DEFINE aux == Auxv
               w == set_auxv(k, aux)
    <3>1. Len(aux) = 3
      BY <2>1
    <3> HIDE DEF aux
    <3>2. /\ w.sp = k.sp - 6 /\ w.dp = k.dp /\ Cells(w) /\ w.argc = k.argc
          /\ k.dp <= k.sp - 6 =>
               /\ Extends(k, w)
               /\ \A i \in 1 .. 3 : /\ Holds(w, k.sp - 6 + 2 * i - 2, aux[i][1])
                                    /\ Holds(w, k.sp - 6 + 2 * i - 1, aux[i][2])
      BY <1>1, <3>1, VectorPile
    <3>3. StackShape(w)
      BY <1>1, <3>1, AuxvPushed
    <3> QED BY <1>1, <3>2, <3>3 DEF aux
  <2> HIDE DEF v
  <2>3. k' = PushWord(v, 0)
    BY <1>3 DEF v
  <2>4. /\ k'.sp = v.sp - 1 /\ k'.dp = v.dp /\ k'.argc = 0 /\ StackShape(k') /\ Cells(k')
        /\ v.dp <= v.sp - 1 => Extends(v, k') /\ Holds(k', v.sp - 1, 0)
    BY <2>2, <2>3, WordPushed, WordCells, WordPile
  <2>5. k'.sp = StackSize - 8 - Len(envp) /\ k'.dp = k.dp /\ v.sp - 1 = StackSize - 8 - Len(envp)
        /\ k.sp - 6 = StackSize - 8 - Len(envp) + 1
    BY <1>1, <2>2, <2>4
  <2>6. CountInv'
    <3>1. n' + 1 .. Len(argv) = {} /\ Len(argv) - n' = 0 /\ n' >= end - 1
      BY <1>1, <1>3
    <3>2. Pushed(n + 1 .. Len(argv), 1 .. Len(envp))'
      BY <1>1, <2>5, <3>1, NoLetters DEF Pushed
    <3>3. k'.sp = StackSize - 8 - Len(envp) - (Len(argv) - n') /\ k'.argc = Len(argv) - n'
      BY <1>1, <2>4, <2>5, <3>1
    <3> QED BY <1>1, <1>3, <3>1, <3>2, <3>3
            DEF CountInv, ArgvEnd, Between, Loaded, Relocating, Running
  <2>7. ASSUME k'.dp <= k'.sp
        PROVE  /\ EnvPile(k', StackSize - 1, Len(envp))
               /\ AuxPile(k', ArgvEnd + 1) /\ ArgPile(k', ArgvEnd, n' + 1)
    <3>1. k.dp <= k.sp /\ k.dp <= k.sp - 6 /\ v.dp <= v.sp /\ v.dp <= v.sp - 1
      BY <1>1, <2>2, <2>4, <2>7
    <3>2. EnvPile(k, StackSize - 1, Len(envp)) /\ Len(envp) \in 0 .. Len(envp)
      BY <1>1, <3>1 DEF PileInv, Pile, Between, Loaded, Relocating, Running
    <3>3. EnvPile(v, StackSize - 1, Len(envp))
      BY <1>1, <2>2, <3>1, <3>2, PilesKept
    <3>4. AuxPile(v, ArgvEnd + 1)
      <4> DEFINE w == k.sp - 6
      <4>1. w = ArgvEnd + 1 /\ \A i \in 1 .. 3 : /\ Holds(v, w + 2 * i - 2, Auxv[i][1])
                                                 /\ Holds(v, w + 2 * i - 1, Auxv[i][2])
        BY <2>2, <2>5, <3>1 DEF ArgvEnd
      <4> HIDE DEF w
      <4> QED BY <4>1 DEF AuxPile
    <3>5. EnvPile(k', StackSize - 1, Len(envp)) /\ AuxPile(k', ArgvEnd + 1)
      BY <1>1, <2>2, <2>4, <3>1, <3>2, <3>3, <3>4, PilesKept
    <3>6. Holds(k', ArgvEnd, 0)
      BY <2>4, <2>5, <3>1 DEF ArgvEnd
    <3>7. \A i \in n' + 1 .. Len(argv) : FALSE
      BY <1>1, <1>3
    <3> QED BY <3>5, <3>6, <3>7 DEF ArgPile
  <2>8. k'.dp <= k'.sp => /\ EnvPile(k, StackSize - 1, Len(envp))'
                          /\ AuxPile(k, ArgvEnd + 1)' /\ ArgPile(k, ArgvEnd, n + 1)'
    BY <1>1, <2>1, <2>7 DEF EnvPile, AuxPile, ArgPile, ArgvEnd
  <2>9. PileInv'
    BY <1>3, <2>4, <2>8 DEF PileInv, Pile, Cells, Between, Loaded, Relocating, Running
  <2> QED BY <2>6, <2>9
<1>4. \/ k' = k /\ at' = "init"
      \/ k' = PushWord(set_auxv(k, Auxv), 0) /\ at' = "args" /\ n' = Len(argv)
  BY DEF RunInit, Go
<1> QED BY <1>2, <1>3, <1>4

(* Between the pushes of argv and the last shift, words are counted.       *)
LEMMA ArgsCount ==
  ASSUME ControlInv, CountInv, PileInv, PushArgs
  PROVE  CountInv' /\ PileInv'
<1>1. /\ at = "args" /\ envp' = envp /\ argv' = argv /\ elf' = elf /\ img' = img /\ end' = end
      /\ StackShape(k) /\ Cells(k) /\ envp \in Seq(Strings) /\ argv \in Seq(Strings)
      /\ Pushed(n + 1 .. Len(argv), 1 .. Len(envp))
  BY DEF PushArgs, ControlInv, CountInv, PileInv, Cells
<1>10. end \in 1 .. Len(argv) /\ n <= Len(argv) /\ n \in Nat
  BY <1>1 DEF ControlInv, TypeOK, Mapped, Loaded, Relocating, Running
<1>11. /\ n >= end - 1 /\ k.sp = ArgvEnd - (Len(argv) - n) /\ k.argc = Len(argv) - n
       /\ ArgvEnd = StackSize - 8 - Len(envp)
  BY <1>1 DEF CountInv, ArgvEnd
<1>12. /\ Len(envp) \in Nat /\ Len(argv) \in Nat /\ end \in Nat \ {0} /\ end <= Len(argv)
       /\ StackSize \in Nat /\ k.dp \in Nat /\ k.sp \in Int
  <2>1. Len(argv) \in Nat /\ Len(envp) \in Nat
    BY <1>1
  <2>2. k.dp \in Nat /\ k.sp \in Int
    BY <1>1 DEF StackShape
  <2> QED BY <1>10, <2>1, <2>2, StackAssumption
<1>13. StackSize % 2 = 0
  BY StackAssumption
<1>2. Auxv' = Auxv /\ ArgvEnd' = ArgvEnd
  BY <1>1 DEF Auxv, ArgvEnd
<1>3. k.dp <= k.sp => /\ EnvPile(k, StackSize - 1, Len(envp))
                      /\ AuxPile(k, ArgvEnd + 1) /\ ArgPile(k, ArgvEnd, n + 1)
  BY <1>1 DEF PileInv, Pile, Between, Loaded, Relocating, Running
<1>4. CASE n >= end
  <2>1. k' = push_arg(k, argv[n]) /\ at' = "args" /\ n' = n - 1 /\ argv[n] \in Strings
    <3>1. n \in 1 .. Len(argv)
      BY <1>4, <1>10, <1>12
    <3> QED BY <1>1, <1>4, <3>1 DEF PushArgs, Go
  <2>2. k'.sp = k.sp - 1 /\ k'.dp = k.dp + CellsOf[argv[n]] /\ k'.argc = k.argc + 1
    BY <1>1, <2>1, ArgumentPile
  <2>10. /\ Cells(k')
         /\ k'.dp <= k'.sp => Extends(k, k') /\ Leads(k', k.sp - 1, argv[n])
    BY <1>1, <2>1, ArgumentPile
  <2>3. StackShape(k') /\ CellsOf[argv[n]] \in Nat
    BY <1>1, <2>1, ArgPushed, TextCells
  <2>4. Pushed(n + 1 .. Len(argv), 1 .. Len(envp))'
    <3> DEFINE I == n + 1 .. Len(argv)
               J == 1 .. Len(envp)
    <3>1. n \notin I /\ I \cup {n} = n' + 1 .. Len(argv)
      BY <1>10, <1>12, <2>1
    <3>2. /\ IsFiniteSet(Letters(argv, I)) /\ IsFiniteSet(Letters(envp, J))
          /\ k.dp = Cardinality(Letters(argv, I)) + Cardinality(Letters(envp, J))
      BY <1>1 DEF Pushed
    <3> HIDE DEF I
    <3>3. /\ IsFiniteSet(Letters(argv, I \cup {n}))
          /\ Cardinality(Letters(argv, I \cup {n})) = Cardinality(Letters(argv, I)) + CellsOf[argv[n]]
      BY <2>3, <3>1, <3>2, LettersAdded
    <3>4. Cardinality(Letters(argv, I)) \in Nat /\ Cardinality(Letters(envp, J)) \in Nat
      BY <3>2, FS_CardinalityType
    <3>5. k'.dp = Cardinality(Letters(argv, I \cup {n})) + Cardinality(Letters(envp, J))
      BY <2>2, <2>3, <3>2, <3>3, <3>4
    <3> QED BY <1>1, <3>1, <3>2, <3>3, <3>5 DEF Pushed
  <2>5. CountInv'
    <3>1. n' >= end' - 1 /\ k'.sp = ArgvEnd - (Len(argv) - n') /\ k'.argc = Len(argv) - n'
      <4>1. n' = n - 1 /\ end' = end /\ argv' = argv
        BY <1>1, <2>1
      <4> QED BY SMTT(60), <1>4, <1>10, <1>11, <1>12, <2>2, <4>1
    <3> QED BY <1>1, <1>2, <2>1, <2>4, <3>1 DEF CountInv, Between, Loaded, Relocating, Running
  <2>6. ASSUME k'.dp <= k'.sp
        PROVE  /\ EnvPile(k', StackSize - 1, Len(envp))
               /\ AuxPile(k', ArgvEnd + 1) /\ ArgPile(k', ArgvEnd, n)
    <3>1. k.dp <= k.sp
      BY <1>12, <2>2, <2>3, <2>6
    <3>2. Len(envp) \in 0 .. Len(envp) /\ n + 1 \in Nat \ {0}
      BY <1>10, <1>12
    <3>3. /\ EnvPile(k', StackSize - 1, Len(envp))
          /\ AuxPile(k', ArgvEnd + 1) /\ ArgPile(k', ArgvEnd, n + 1)
      BY <1>1, <1>3, <2>3, <2>6, <2>10, <3>1, <3>2, PilesKept
    <3>4. Leads(k', ArgvEnd - 1 - Len(argv) + n, argv[n])
      <4>1. k.sp - 1 = ArgvEnd - 1 - Len(argv) + n
        BY <1>10, <1>11, <1>12
      <4> QED BY <2>6, <2>10, <4>1
    <3>5. \A i \in n .. Len(argv) : i \in n + 1 .. Len(argv) \/ i = n
      BY <1>10, <1>12
    <3> QED BY <3>3, <3>4, <3>5 DEF ArgPile
  <2>7. n' + 1 = n
    BY <1>10, <2>1
  <2>8. k'.dp <= k'.sp => /\ EnvPile(k, StackSize - 1, Len(envp))'
                          /\ AuxPile(k, ArgvEnd + 1)' /\ ArgPile(k, ArgvEnd, n + 1)'
    BY <1>1, <1>2, <2>6, <2>7 DEF EnvPile, AuxPile, ArgPile
  <2>9. PileInv'
    BY <2>1, <2>8, <2>10 DEF PileInv, Pile, Cells, Between, Loaded, Relocating, Running
  <2> QED BY <2>5, <2>9
<1>5. CASE ~ (n >= end)
  <2>1. k' = push_argc(k) /\ at' = "entry" /\ n = end - 1 /\ n + 1 = end
    BY <1>1, <1>5, <1>10, <1>11, <1>12 DEF PushArgs, Go
  <2> DEFINE N == Len(argv) - end
             q == k.sp % 2
  <2>2. k'.dp = k.dp /\ k'.sp = k.sp - (IF q = 0 THEN 2 ELSE 1)
    BY <1>1, <2>1, ArgcPile
  <2>10. /\ Cells(k')
         /\ k'.dp <= k'.sp =>
             /\ Holds(k', k'.sp, k.argc)
             /\ \E u : /\ StackShape(u) /\ Cells(u) /\ u.dp <= u.sp /\ Extends(u, k')
                       /\ IF q = 0 THEN Moved(k, u) ELSE u = k
    BY <1>1, <2>1, ArgcPile
  <2>3. N \in Nat /\ k.argc = N + 1 /\ k.sp = StackSize - 9 - Len(envp) - N
    BY <1>10, <1>11, <1>12, <2>1
  <2>4. StackShape(k')
    BY <1>1, <2>1, ArgcPushed
  <2>5. CountInv'
    <3>1. k'.sp = StackSize - (10 + N + Len(envp)) - ((10 + N + Len(envp)) % 2)
      <4> DEFINE E == Len(envp)
      <4>1. E \in Nat /\ k.sp = StackSize - 9 - E - N
        BY <1>12, <2>3
      <4>2. (10 + N + E) % 2 = IF k.sp % 2 = 0 THEN 1 ELSE 0
        <5> HIDE DEF N, E
        <5>1. \A S, x, y \in Int : S % 2 = 0 /\ x = S - 9 - y => (10 + y) % 2 = IF x % 2 = 0 THEN 1 ELSE 0
          OBVIOUS
        <5>2. E + N \in Int /\ k.sp = StackSize - 9 - (E + N) /\ 10 + N + E = 10 + (E + N)
          BY <1>12, <2>3, <4>1
        <5>3. StackSize \in Int /\ StackSize % 2 = 0 /\ k.sp \in Int
          BY <1>12, <1>13, <5>2
        <5>4. (10 + (E + N)) % 2 = IF k.sp % 2 = 0 THEN 1 ELSE 0
          BY Zenon, <5>1, <5>2, <5>3
        <5> QED BY Zenon, <5>2, <5>4
      <4> HIDE DEF N, E
      <4> QED BY <1>12, <2>2, <2>3, <4>1, <4>2 DEF E
    <3>2. Pushed(end .. Len(argv), 1 .. Len(envp))'
      BY <1>1, <2>1, <2>2 DEF Pushed
    <3> QED BY <1>1, <2>1, <3>1, <3>2 DEF CountInv, Between, Loaded, Relocating, Running
  <2>6. ASSUME k'.dp <= k'.sp
        PROVE  LET top == k'.sp + N + 2
               IN  /\ Holds(k', k'.sp, N + 1)
                   /\ ArgPile(k', top, end)
                   /\ AuxPile(k', top + 1)
                   /\ EnvPile(k', top + 7 + Len(envp), Len(envp))
    <3> DEFINE top == k'.sp + N + 2
    <3>1. PICK u : /\ StackShape(u) /\ Cells(u) /\ u.dp <= u.sp /\ Extends(u, k')
                   /\ IF q = 0 THEN Moved(k, u) ELSE u = k
      BY <2>6, <2>10
    <3>2. k.dp <= k.sp - 1 /\ k.dp <= k.sp
      BY <1>12, <2>2, <2>6
    <3>3. /\ EnvPile(k, StackSize - 1, Len(envp))
          /\ AuxPile(k, ArgvEnd + 1) /\ ArgPile(k, ArgvEnd, end)
      BY <1>3, <2>1, <3>2
    <3>4. Len(envp) \in 0 .. Len(envp) /\ end \in Nat \ {0}
      BY <1>12
    <3>5. ArgPile(u, top, end) /\ AuxPile(u, top + 1) /\ EnvPile(u, top + 7 + Len(envp), Len(envp))
      <4>1. CASE q = 0
        <5>1. /\ top = ArgvEnd - 1 /\ top + 1 = (ArgvEnd + 1) - 1
              /\ top + 7 + Len(envp) = StackSize - 1 - 1
              /\ ArgvEnd \in Int /\ ArgvEnd + 1 \in Int /\ StackSize - 1 \in Int
          <6>1. k'.sp = k.sp - 2
            BY <2>2, <4>1
          <6> HIDE DEF N, q
          <6> QED BY <1>11, <1>12, <2>3, <6>1
        <5>2. Moved(k, u)
          BY <3>1, <4>1
        <5>3. /\ EnvPile(u, StackSize - 1 - 1, Len(envp))
              /\ AuxPile(u, (ArgvEnd + 1) - 1) /\ ArgPile(u, ArgvEnd - 1, end)
          <6> DEFINE x == StackSize - 1
                     y == ArgvEnd
                     z == ArgvEnd + 1
          <6>1. x \in Int /\ y \in Int /\ z \in Int
            BY <5>1
          <6>2. EnvPile(k, x, Len(envp)) /\ AuxPile(k, z) /\ ArgPile(k, y, end)
            BY <3>3
          <6> HIDE DEF top, q, N, x, y, z
          <6>3. EnvPile(u, x - 1, Len(envp))
            BY <1>1, <3>2, <3>4, <5>2, <6>1, <6>2, PilesMoved
          <6>4. AuxPile(u, z - 1)
            BY <1>1, <3>2, <5>2, <6>1, <6>2, PilesMoved
          <6>5. ArgPile(u, y - 1, end)
            BY <1>1, <3>2, <3>4, <5>2, <6>1, <6>2, PilesMoved
          <6>6. EnvPile(u, StackSize - 1 - 1, Len(envp))
            BY <6>3 DEF x
          <6>7. AuxPile(u, (ArgvEnd + 1) - 1)
            BY <6>4 DEF z
          <6>8. ArgPile(u, ArgvEnd - 1, end)
            BY <6>5 DEF y
          <6> QED BY <6>6, <6>7, <6>8
        <5> HIDE DEF top, q, N
        <5> QED BY <5>1, <5>3
      <4>2. CASE q # 0
        <5>1. top = ArgvEnd /\ top + 1 = ArgvEnd + 1 /\ top + 7 + Len(envp) = StackSize - 1
          <6>1. k'.sp = k.sp - 1
            BY <2>2, <4>2
          <6> HIDE DEF N, q
          <6> QED BY <1>11, <1>12, <2>3, <6>1
        <5> HIDE DEF top, q, N
        <5> QED BY <3>1, <3>3, <4>2, <5>1
      <4> HIDE DEF top, q, N
      <4> QED BY <4>1, <4>2
    <3> HIDE DEF top, q
    <3>6. ArgPile(k', top, end) /\ AuxPile(k', top + 1) /\ EnvPile(k', top + 7 + Len(envp), Len(envp))
      BY <1>1, <2>4, <3>1, <3>4, <3>5, PilesKept
    <3>7. Holds(k', k'.sp, N + 1)
      BY <2>3, <2>6, <2>10
    <3> QED BY <3>6, <3>7 DEF top
  <2>7. k'.dp <= k'.sp => Pile(k)'
    <3>1. /\ Holds(k, k.sp, N + 1)' <=> Holds(k', k'.sp, N + 1)
          /\ N' = N /\ Len(envp)' = Len(envp)
      BY <1>1
    <3> HIDE DEF q
    <3> QED BY <1>1, <1>2, <2>1, <2>6
            DEF Pile, EnvPile, AuxPile, ArgPile, Between, Loaded, Relocating, Running
  <2>8. PileInv'
    BY <2>7, <2>10 DEF PileInv, Cells
  <2> QED BY <2>5, <2>8
<1> QED BY <1>4, <1>5

THEOREM StackHolds == Spec => [](CountInv /\ PileInv)
<1>1. Init => CountInv /\ PileInv
  BY InitCount
<1>2. ControlInv /\ CountInv /\ PileInv /\ [Next]_vars => CountInv' /\ PileInv'
  <2>1. ASSUME CountInv, PileInv, UNCHANGED vars PROVE CountInv' /\ PileInv'
    <3>1. (CountInv' <=> CountInv) /\ (PileInv' <=> PileInv)
      BY <2>1 DEF CountInv, PileInv, Pushed, Pile, EnvPile, AuxPile, ArgPile, ArgvEnd, Auxv, vars
    <3> QED BY <2>1, <3>1
  <2> QED BY <2>1, NullCount, EnvCount, OtherCount, VectorCount, ArgsCount DEF Next
<1> QED BY <1>1, <1>2, ControlHolds, PTL DEF Spec

(* A pointer that leads to a string is one in the mapping.                 *)
LEMMA LeadsPoints ==
  ASSUME StackShape(k), Cells(k), NEW a, NEW x \in Strings, Leads(k, a, x), k.dp <= k.sp, k.sp \in Nat
  PROVE  PointsTo(k, a, x)
<1>1. PICK p \in Nat : p + CellsOf[x] <= k.dp /\ Holds(k, a, p) /\ Spelled(k, p, x)
  BY DEF Leads
<1>2. /\ CellsOf[x] \in Nat /\ StackSize \in Nat /\ k.dp \in Nat /\ k.sp <= StackSize
  BY StackAssumption DEF StackShape
<1>3. p \in 0 .. StackSize - CellsOf[x]
  BY <1>1, <1>2
<1>4. a \in 0 .. StackSize - 1 /\ k.mem[a] = Word(p)
  BY <1>1, <1>2 DEF Holds
<1> QED BY <1>1, <1>3, <1>4 DEF PointsTo, Cells, Spelled

(***************************************************************************)
(* At the entry nothing main put on the stack is spoilt: argc, the         *)
(* arguments in their order, a null, the auxiliary vector, then the        *)
(* environment backwards (main's order, not the ABI's), every pointer to   *)
(* its whole string, for every command line and environment that fits.     *)
(***************************************************************************)
THEOREM StackStaysWhole == Spec => []StackWhole
<1>1. ControlInv /\ CountInv /\ PileInv => StackWhole
  <2> SUFFICES ASSUME ControlInv, CountInv, PileInv, at = "entry", Fits
               PROVE  LET vec == k.sp + Len(Args) + 2
                          env == vec + 2 * Len(Auxv)
                      IN  /\ k.mem[k.sp] = Word(Len(Args))
                          /\ \A i \in 1 .. Len(Args) : PointsTo(k, k.sp + i, Args[i])
                          /\ k.mem[vec - 1] = Word(0)
                          /\ \A i \in 1 .. Len(Auxv) : /\ k.mem[vec + 2 * i - 2] = Word(Auxv[i][1])
                                                       /\ k.mem[vec + 2 * i - 1] = Word(Auxv[i][2])
                          /\ \A i \in 1 .. Len(envp) : PointsTo(k, env + Len(envp) - i, envp[i])
                          /\ k.mem[env + Len(envp)] = Word(0)
    BY DEF StackWhole
  <2> DEFINE N == Len(argv) - end
             letters == Cardinality(Letters(argv, end .. Len(argv)))
                          + Cardinality(Letters(envp, 1 .. Len(envp)))
             words == 10 + N + Len(envp)
             top == k.sp + N + 2
  <2>1. /\ StackShape(k) /\ Cells(k) /\ argv \in Seq(Strings) /\ envp \in Seq(Strings)
        /\ end \in 1 .. Len(argv) /\ Pushed(end .. Len(argv), 1 .. Len(envp))
        /\ k.sp = StackSize - words - (words % 2)
    BY DEF ControlInv, CountInv, PileInv, Cells, Mapped, Loaded, Relocating, Running
  <2>2. /\ N \in Nat /\ Len(envp) \in Nat /\ Len(argv) \in Nat /\ end \in Nat \ {0} /\ StackSize \in Nat
        /\ k.dp \in Nat /\ k.sp \in Int /\ words \in Nat
    <3>1. Len(argv) \in Nat /\ Len(envp) \in Nat
      BY <2>1
    <3>2. k.dp \in Nat /\ k.sp \in Int
      BY <2>1 DEF StackShape
    <3>3. N \in Nat /\ end \in Nat \ {0}
      BY <2>1, <3>1
    <3> HIDE DEF N
    <3>4. words \in Nat
      BY <3>1, <3>3
    <3> QED BY <3>1, <3>2, <3>3, <3>4, StackAssumption
  <2>3. Len(Auxv) = 3
    BY DEF Auxv
  <2>4. Len(Args) = N + 1 /\ \A i \in 1 .. N + 1 : Args[i] = argv[end + i - 1]
    <3>1. end \in 1 .. Len(argv) /\ Len(argv) \in 1 .. Len(argv)
      BY <2>1, <2>2
    <3>2. /\ Len(Args) = IF end <= Len(argv) THEN Len(argv) - end + 1 ELSE 0
          /\ \A i \in 1 .. Len(argv) - end + 1 : Args[i] = argv[end + i - 1]
      BY <2>1, <3>1, SubSeqProperties DEF Args
    <3> QED BY <2>1, <3>2
  <2>5. k.dp <= k.sp
    <3>1. k.dp = letters
      BY <2>1 DEF Pushed
    <3>2. letters + words + (words % 2) <= StackSize
      <4> DEFINE w == 1 + Len(Args) + 1 + 2 * Len(Auxv) + Len(envp) + 1
      <4>1. letters + w + (w % 2) <= StackSize
        BY DEF Fits
      <4>2. w = words
        BY <2>2, <2>3, <2>4
      <4> HIDE DEF w, letters, words
      <4> QED BY <4>1, <4>2
    <3> HIDE DEF letters, words
    <3> QED BY <2>1, <2>2, <3>1, <3>2
  <2>6. /\ Holds(k, k.sp, N + 1) /\ ArgPile(k, top, end) /\ AuxPile(k, top + 1)
        /\ EnvPile(k, top + 7 + Len(envp), Len(envp))
    BY <2>5 DEF PileInv, Pile, Between, Loaded, Relocating, Running
  <2> HIDE DEF N, top, letters, words
  <2>7. k.sp \in Nat /\ top \in Int /\ top = k.sp + N + 2
    BY <2>2, <2>5 DEF top
  <2>8. k.mem[k.sp] = Word(Len(Args)) /\ k.mem[top] = Word(0) /\ k.mem[top + 7 + Len(envp)] = Word(0)
    BY <2>4, <2>6 DEF Holds, ArgPile, EnvPile
  <2>9. ASSUME NEW i \in 1 .. N + 1 PROVE PointsTo(k, k.sp + i, Args[i])
    <3> DEFINE j == end + i - 1
    <3>1. j \in end .. Len(argv) /\ top - 1 - Len(argv) + j = k.sp + i /\ Args[i] = argv[j]
      <4>1. Args[i] = argv[j]
        BY <2>4
      <4>2. N = Len(argv) - end
        BY DEF N
      <4>3. j \in end .. Len(argv) /\ top - 1 - Len(argv) + j = k.sp + i
        <5> DEFINE m == Len(argv)
        <5>1. m \in Nat /\ N = m - end /\ end \in Nat /\ j = end + i - 1 /\ k.sp \in Nat
          BY <2>2, <2>7, <4>2
        <5>2. i \in Nat /\ 1 <= i /\ i <= m - end + 1
          BY <5>1
        <5> HIDE DEF m, j
        <5>3. j \in end .. m /\ top - 1 - m + j = k.sp + i
          BY <2>7, <5>1, <5>2
        <5> QED BY <5>3 DEF m
      <4> QED BY <4>1, <4>3
    <3> HIDE DEF j
    <3>2. Leads(k, k.sp + i, argv[j])
      BY <2>6, <3>1 DEF ArgPile
    <3>3. argv[j] \in Strings
      BY <2>1, <2>2, <3>1
    <3> QED BY <2>1, <2>5, <2>7, <3>1, <3>2, <3>3, LeadsPoints
  <2>10. ASSUME NEW i \in 1 .. 3
         PROVE  /\ k.mem[top + 1 + 2 * i - 2] = Word(Auxv[i][1])
                /\ k.mem[top + 1 + 2 * i - 1] = Word(Auxv[i][2])
    BY <2>6 DEF AuxPile, Holds
  <2>11. ASSUME NEW i \in 1 .. Len(envp) PROVE PointsTo(k, top + 7 + Len(envp) - i, envp[i])
    <3>1. Leads(k, (top + 7 + Len(envp)) - i, envp[i]) /\ envp[i] \in Strings
      BY <2>1, <2>6 DEF EnvPile
    <3>2. (top + 7 + Len(envp)) - i = top + 7 + Len(envp) - i
      BY <2>2, <2>7
    <3> QED BY <2>1, <2>5, <2>7, <3>1, <3>2, LeadsPoints
  <2> DEFINE a == Args
             x == Auxv
             vec == k.sp + Len(a) + 2
             env == vec + 2 * Len(x)
  <2>14. Len(a) = N + 1 /\ Len(x) = 3
    BY <2>3, <2>4
  <2>13. vec = top + 1 /\ env = top + 7 /\ vec - 1 = top
    <3> HIDE DEF a, x
    <3>1. k.sp \in Nat /\ top = k.sp + N + 2 /\ N \in Nat
      BY <2>2, <2>7
    <3>2. vec = k.sp + (N + 1) + 2 /\ env = vec + 2 * 3
      BY Zenon, <2>14 DEF vec, env
    <3> HIDE DEF vec, env
    <3> QED BY <3>1, <3>2
  <2>15. /\ \A i \in 1 .. Len(a) : PointsTo(k, k.sp + i, a[i])
         /\ k.mem[k.sp] = Word(Len(a)) /\ k.mem[vec - 1] = Word(0)
    BY <2>8, <2>9, <2>13, <2>14
  <2>16. \A i \in 1 .. Len(x) : /\ k.mem[vec + 2 * i - 2] = Word(x[i][1])
                                /\ k.mem[vec + 2 * i - 1] = Word(x[i][2])
    <3> HIDE DEF x, vec
    <3>1. \A i \in 1 .. 3 : /\ k.mem[top + 1 + 2 * i - 2] = Word(x[i][1])
                            /\ k.mem[top + 1 + 2 * i - 1] = Word(x[i][2])
      BY <2>10 DEF x
    <3> QED BY <2>13, <2>14, <3>1
  <2>17. /\ \A i \in 1 .. Len(envp) : PointsTo(k, env + Len(envp) - i, envp[i])
         /\ k.mem[env + Len(envp)] = Word(0)
    <3> HIDE DEF env
    <3> QED BY <2>8, <2>11, <2>13
  <2> HIDE DEF N, top
  <2> QED BY <2>15, <2>16, <2>17
<1> QED BY <1>1, ControlHolds, StackHolds, PTL
=============================================================================
