----------------------------- MODULE MCStartup ------------------------------
(***************************************************************************)
(* Command lines, environments and images for TLC.  A page is two cells, a *)
(* uint32_t counts to 32 and a RELR bitmap covers three slots, so that     *)
(* images reach the limits of the sizes and bitmaps follow each other.     *)
(***************************************************************************)
EXTENDS Startup

Names == {"-d", "-l", "-h", "-x", "img", "none", "a", "long"}
Cells == [s \in Names |-> IF s = "long" THEN 3 ELSE 1]
Opts == [s \in {"-d", "-l", "-h", "-x"} |->
           CASE s = "-d" -> "d" [] s = "-l" -> "l" [] s = "-h" -> "h" [] s = "-x" -> "x"]

(* The last command line and the larger environment fill a stack of 26     *)
(* cells to the last one.                                                  *)
Lines == {<<>>, <<"-d", "-h", "img">>, <<"-x", "img">>, <<"-l", "-d", "img", "a">>, <<"none">>,
          <<"img">>, <<"img", "long", "a", "-d">>}
Envs == {<<>>, <<"a", "long">>}

(***************************************************************************)
(* Symbols: wrapped, native, both, neither (weak or not), and a variable of*)
(* two cells that two libraries refer to.                                  *)
(***************************************************************************)
Symbols == {"puts", "gl", "weak", "lost", "syscall", "stdout"}
Sym(v, s, w) == [value |-> v, size |-> s, weak |-> w]
Symtab == [s \in Symbols |->
             IF s = "stdout" THEN Sym(4, 2, FALSE) ELSE Sym(0, 0, s = "weak")]

System ==
  [wrappers |-> [f \in {"libc", "libm"} |->
                   [s \in Symbols |-> CASE s = "puts" -> IF f = "libc" THEN 901 ELSE 902
                                      []   s = "stdout" -> IF f = "libm" THEN 903 ELSE 0
                                      []   OTHER -> 0]],
   native |-> [s \in Symbols |-> CASE s = "puts" -> 801 [] s = "gl" -> 802
                                 []   s = "stdout" -> 803 [] s = "syscall" -> 804
                                 []   OTHER -> 0],
   data |-> [s \in Symbols |-> <<701, 702>>],
   my_syscall |-> 805,
   got |-> [lib \in {"c", "m", "x"} |->
              [s \in {"stdout", "gl"} |-> IF lib = "x" THEN 0 ELSE IF s = "gl" THEN 802 ELSE 803]]]

Seg(a, f, m) == [vaddr |-> a, filesz |-> f, memsz |-> m]
Rel(t, o, s, a) == [type |-> t, offset |-> o, sym |-> s, addend |-> a]
Addr(a) == [bitmap |-> FALSE, addr |-> a]
Bits(b) == [bitmap |-> TRUE, bits |-> b]

Simple ==
  [segs |-> <<Seg(0, 4, 6)>>, file |-> << <<11, 12, 13, 14>> >>, dynamic |-> TRUE,
   needed |-> << >>, relr |-> << >>, rela |-> << >>, jmprel |-> << >>, symtab |-> Symtab,
   init |-> 0, init_array |-> 0, init_count |-> 0, phoff |-> 1, entry |-> 2]

(* Two segments anywhere, with and without zeros behind the file's part;   *)
(* the second may share a page with the first, or lie far behind it.       *)
Content(a, f) == [i \in 1 .. f |-> 10 * a + i]

Layouts ==
  {[Simple EXCEPT !.segs = <<Seg(a, f, f + z), Seg(b, 1, 2)>>,
                  !.file = <<Content(a, f), Content(b, 1)>>] :
     a \in {0, 2, 3}, f \in 1 .. 2, z \in 0 .. 1, b \in {6, 9, 14, 15, 16, 17, 31, 32}}

(* RELR tables: addresses and bitmaps in any order a linker writes them.   *)
Tables ==
  {[Simple EXCEPT !.segs = <<Seg(0, 4, 12)>>, !.relr = <<Addr(a)>> \o t] :
     a \in 0 .. 1, t \in {<< >>} \cup {<<Bits(x)>> : x \in SUBSET (0 .. 2)}
                          \cup {<<Bits(x), Bits(y)>> : x, y \in SUBSET (0 .. 2)}
                          \cup {<<Bits({1}), Addr(b), Bits({0, 2})>> : b \in {7, 8}}}

(* Relocations by symbol, libraries twice and in both orders, initialisers *)
(* found through relocated pointers, one in a RELR slot.                   *)
Linked ==
  {[Simple EXCEPT !.segs = <<Seg(0, 4, 12)>>, !.needed = libs0, !.rela = r, !.jmprel = j,
                  !.relr = <<Addr(2)>>, !.init = i, !.init_array = 1, !.init_count = 2] :
     libs0 \in {<<"libc", "libm", "libc">>, <<"libm", "libc">>, <<"libx">>},
     r \in {<<Rel("RELATIVE", 1, "gl", 5), Rel("COPY", 4, "stdout", 0)>>,
            <<Rel("RELATIVE", 1, "gl", 6), Rel("64", 3, "stdout", 1), Rel("NONE", 0, "gl", 0)>>,
            <<Rel("TPOFF", 3, "gl", 0)>>, <<Rel("COPY", 4, "lost", 0)>>},
     j \in {<<Rel("JUMP_SLOT", 7, "puts", 0), Rel("GLOB_DAT", 8, "gl", 0),
              Rel("JUMP_SLOT", 9, "weak", 0), Rel("JUMP_SLOT", 10, "syscall", 0)>>,
            <<Rel("GLOB_DAT", 8, "stdout", 0)>>, <<Rel("JUMP_SLOT", 7, "lost", 0)>>},
     i \in {0, 3}}

Images == Layouts \cup Tables \cup Linked \cup {[Simple EXCEPT !.dynamic = FALSE]}

(* Every image with one command line, every command line with one image.   *)
Runs(lines, envs, images, maps) ==
  {[argv |-> a, envp |-> e, img |-> i, map |-> m] : a \in lines, e \in envs, i \in images, m \in maps}

AllScenarios ==
  Runs(Lines, Envs, {Simple}, {64})
    \cup Runs({<<"img">>}, {<<"a">>}, Images, {64, 84})
=============================================================================
