------------------------------- MODULE Loader -------------------------------
(***************************************************************************)
(* The ELF loader (src/src/elf_loader.c) and the library manager it asks   *)
(* for symbols (src/src/elf_manager.c), as operators on guest memory.      *)
(*                                                                         *)
(* Memory is counted in cells of eight bytes, a relocation's unit.  A cell *)
(* holds a number.  An image has segments (PT_LOAD), the cells of its file *)
(* (segment by segment), and its dynamic section: relocations, symbols,    *)
(* libraries, initialisers.                                                *)
(***************************************************************************)
EXTENDS Integers, Sequences, SequencesExt, FiniteSetsExt

CONSTANTS
  PAGE_SIZE,  (* in cells                                                  *)
  UINT32,     (* how many values a uint32_t has (bytes count cells here)   *)
  RelrBits    (* slots one RELR bitmap covers: 63 in the format            *)

ASSUME LoaderAssumption ==
  /\ PAGE_SIZE \in Nat \ {0}
  /\ UINT32 \in Nat \ {0} /\ UINT32 % (2 * PAGE_SIZE) = 0
  /\ RelrBits \in Nat \ {0}

-----------------------------------------------------------------------------
(***************************************************************************)
(* IsImage: what is read of a file that is not damaged.  WellLinked: what  *)
(* a linker writes: segments apart from each other and none empty, no RELR *)
(* bitmap before the first address, no slot twice, no place with two       *)
(* different relocations.                                                  *)
(***************************************************************************)
Segments == [vaddr : Nat, filesz : Nat, memsz : Nat]
RelrEntries == [bitmap : {FALSE}, addr : Nat]
                 \cup [bitmap : {TRUE}, bits : SUBSET (0 .. RelrBits - 1)]

Rela(img) == ToSet(img.rela \o img.jmprel)

IsImage(img) ==
  /\ img.segs \in Seq(Segments) /\ img.segs # << >>
  /\ \A i \in DOMAIN img.segs : /\ img.segs[i].filesz <= img.segs[i].memsz
                                /\ img.file[i] \in [1 .. img.segs[i].filesz -> Nat]
  /\ img.relr \in Seq(RelrEntries)
  /\ img.rela \in Seq(ToSet(img.rela)) /\ img.jmprel \in Seq(ToSet(img.jmprel))
  /\ \A r \in Rela(img) : r.offset \in Nat /\ img.symtab[r.sym].size \in Nat
  /\ img.init \in Nat /\ img.init_array \in Nat /\ img.init_count \in Nat

SegmentCells(s) == s.vaddr .. s.vaddr + s.memsz - 1

(* The slots of a RELR entry as the format has them, not as the loop does. *)
RelrSlots(img, i) ==
  LET Address == Max({j \in 1 .. i : ~ img.relr[j].bitmap})
      from == img.relr[Address].addr + 1 + RelrBits * (i - Address - 1)
  IN  IF img.relr[i].bitmap THEN {from + b : b \in img.relr[i].bits}
      ELSE {img.relr[i].addr}

RelaCells(img, r) ==
  IF r.type = "NONE" THEN {}
  ELSE r.offset .. r.offset + (IF r.type = "COPY" THEN img.symtab[r.sym].size - 1 ELSE 0)

WellLinked(img) ==
  /\ \A s \in ToSet(img.segs) : s.memsz > 0
  /\ \A i, j \in DOMAIN img.segs :
       i # j => SegmentCells(img.segs[i]) \cap SegmentCells(img.segs[j]) = {}
  /\ img.relr # << >> => ~ img.relr[1].bitmap
  /\ \A i, j \in DOMAIN img.relr : i # j => RelrSlots(img, i) \cap RelrSlots(img, j) = {}
  /\ \A r, t \in Rela(img) : r # t => RelaCells(img, r) \cap RelaCells(img, t) = {}

-----------------------------------------------------------------------------
(***************************************************************************)
(* mmap_base: one mapping for the image and, behind it, as much host code. *)
(* The sizes are 32 bits wide; elf->base is where guest address 0 would be.*)
(***************************************************************************)
Lowest(img) == Min({s.vaddr : s \in ToSet(img.segs)})
Highest(img) == Max({s.vaddr + s.memsz : s \in ToSet(img.segs)})

PageDown(a) == a - (a % PAGE_SIZE)

PageUp(a) == PageDown(a + PAGE_SIZE - 1)

Span(img) == PageUp(Highest(img)) - PageDown(Lowest(img))

size(img) == Span(img) % UINT32
guest_size_once(img) == size(img)
guest_size(img) == (size(img) + size(img)) % UINT32

(* The Elf record after mmap_base with the mapping at address map, and what*)
(* cahce_init keeps of it: the high half of a guest address, for all.      *)
High(a) == a \div UINT32

mmap_base(img, map) ==
  LET base == map - PageDown(Lowest(img))
  IN  [base |-> base, gp_hi |-> High(base), host |-> map + size(img), host_c |-> size(img)]

(* elf_load: the file's part of every segment, zeros for the rest, in the  *)
(* order of the headers.                                                   *)
LoadSegment(mem, img, base, i) ==
  LET s == img.segs[i]
  IN  [a \in DOMAIN mem |->
         IF a - base \in s.vaddr .. s.vaddr + s.filesz - 1
         THEN img.file[i][a - base - s.vaddr + 1]
         ELSE IF a - base \in s.vaddr .. s.vaddr + s.memsz - 1 THEN 0
         ELSE mem[a]]

(* A segment that is not wholly inside the mapping is written over what    *)
(* lies behind it.                                                         *)
Strays(img, map, i) ==
  /\ img.segs[i].memsz > 0
  /\ \E a \in {img.segs[i].vaddr, img.segs[i].vaddr + img.segs[i].memsz - 1} :
       mmap_base(img, map).base + a \notin map .. map + guest_size(img) - 1

-----------------------------------------------------------------------------
(***************************************************************************)
(* reloc_relr.  An entry is an address, or a bitmap of the slots behind    *)
(* the last address (and behind those of the bitmaps since).  where is the *)
(* loop's variable, relative to base.                                      *)
(***************************************************************************)
AddBase(mem, slots, base) ==
  [a \in DOMAIN mem |-> IF a - base \in slots THEN mem[a] + base ELSE mem[a]]

reloc_relr_stay(l, entry, base) ==
  IF entry.bitmap
  THEN [l EXCEPT !.mem = AddBase(@, {l.where + i : i \in entry.bits}, base)]
  ELSE [mem |-> AddBase(l.mem, {entry.addr}, base), where |-> entry.addr + 1]

reloc_relr(l, entry, base) ==
  IF entry.bitmap
  THEN [mem |-> AddBase(l.mem, {l.where + i : i \in entry.bits}, base),
        where |-> l.where + RelrBits]
  ELSE [mem |-> AddBase(l.mem, {entry.addr}, base), where |-> entry.addr + 1]

-----------------------------------------------------------------------------
(***************************************************************************)
(* Symbols.  A wrapper library defines some of the names my_<symbol>; the  *)
(* native ones are those dlsym finds.  0 is NULL.                          *)
(***************************************************************************)

(* open_library: each name once; without a wrapper the process panics.     *)
open_library(libs, name) == IF name \in ToSet(libs) THEN libs ELSE Append(libs, name)

(* get_symbol_wrapped: the first library opened that defines the name.     *)
get_symbol_wrapped(wrappers, libs, sym) ==
  LET Has == {i \in DOMAIN libs : wrappers[libs[i]][sym] # 0}
  IN  IF Has = {} THEN 0 ELSE wrappers[libs[Min(Has)]][sym]

(* reloc_rela, the symbol of a JUMP_SLOT or GLOB_DAT: wrapper, override    *)
(* (sym_override knows "syscall"), native.                                 *)
SymbolAddress(os, libs, sym) ==
  LET wrapped == get_symbol_wrapped(os.wrappers, libs, sym)
  IN  IF wrapped # 0 THEN wrapped
      ELSE IF sym = "syscall" THEN os.my_syscall
      ELSE os.native[sym]

(* patch_library_got, with patch_library for every loaded library: its     *)
(* references to the name go to the guest's copy.  got holds only those    *)
(* patch_library looks at, the GLOB_DAT and JUMP_SLOT entries of DT_RELA;  *)
(* references of other types, and those of DT_JMPREL, are no part of it.   *)
patch_library_got_any(got, sym, addr) ==
  [lib \in DOMAIN got |-> [got[lib] EXCEPT ![sym] = addr]]

patch_library_got(got, sym, addr) ==
  [lib \in DOMAIN got |-> [got[lib] EXCEPT ![sym] = IF @ = 0 THEN 0 ELSE addr]]

(***************************************************************************)
(* reloc_rela: one entry.  l is [mem, got, allright]; a COPY moves the     *)
(* symbol's size (native data) and redirects the libraries.                *)
(***************************************************************************)
reloc_rela(l, img, os, libs, base, r) ==
  LET at == base + r.offset
      sym == img.symtab[r.sym]
      to == SymbolAddress(os, libs, r.sym)
      Put(v) == [l EXCEPT !.mem[at] = v]
      Bad == [l EXCEPT !.allright = FALSE]
  IN  CASE r.type = "NONE" -> l
      []   r.type = "64" -> Put(sym.value + r.addend)
      []   r.type = "RELATIVE" -> Put(base + r.addend)
      []   r.type \in {"JUMP_SLOT", "GLOB_DAT"} ->
             IF to # 0 THEN Put(to) ELSE IF sym.weak THEN Put(0) ELSE Bad
      []   r.type = "COPY" ->
             IF os.native[r.sym] # 0 /\ sym.size > 0
             THEN [l EXCEPT !.mem = [a \in DOMAIN l.mem |->
                                       IF a \in at .. at + sym.size - 1
                                       THEN os.data[r.sym][a - at + 1] ELSE l.mem[a]],
                            !.got = patch_library_got(@, r.sym, at)]
             ELSE Bad
      []   OTHER -> Bad
=============================================================================
