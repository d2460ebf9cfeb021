# A TLA+ development of ByteShatter

ByteShatter runs x86-64 Linux programs on ARM64: it maps an ELF image, leaves
the guest pages non-executable, and translates guest code block by block into a
host area behind the image whenever the program counter falls into the guest or
a `BRK` word of translated code traps. Everything happens in signal handlers of
the one process. This directory models that machinery, checks it with TLC and
proves part of it with TLAPS.

## 1. The system

| Component | Source | State | Operations | Right when |
|---|---|---|---|---|
| translation cache | `cache.c/.h` | `Anchor`: sorted block table, instruction points, patch records, reuse stack, cursors | block start/point/end, patch point, get patch, searches, clear | tables sorted and in bounds; an answer is a translation of the address asked for; a patch record belongs to one word |
| decode loop | `decoder.c` `decode` | its `Context` | one iteration: point, decode + encode one instruction, look up the next | what it publishes is what it emitted, and stays |
| x86 decoder | `decoder.c`, `decoder_0F.c` | none, but fills a leftover `Instruction` | bytes to `Instruction` | it consumes the bytes of the instruction; nothing of the leftover shows |
| ARM64 encoder | `encoder.c`, `arm64emitter.h` | `prev_instruction`, `prev_register`, `prev_mov_rax_instr`, `prev_rax` (static) | one `Instruction` to host words; fuses PUSH/PUSH and POP/POP | the words do what the instruction does, from wherever they are entered |
| patcher | `patcher.c` | static `sc`, `memory_check` | SIGTRAP: resolve a branch and patch it; SIGSEGV/ILL/BUS: resume at a translation; SIGINT: debugger | a branch leads to a translation of its target; every trap is answered |
| context pool | `memory.c/.h` | `contexts[].in_use` | claim with compare-and-swap, free | one owner per context; no needless failure |
| ELF loader | `elf_loader.c` | the `Elf` record, guest memory | map, relocate, run initialisers, `cache_clear` | the image is the file, relocated once; host code lies apart from it |
| library manager | `elf_manager.c` | list of wrapper libraries | open, resolve, patch GOTs | a copied variable is one variable |
| guest stack | `stack.c` | `sp`, `dp`, `argc` | build argv, auxv, envp | aligned, nothing on it spoilt, every pointer leads to its string |
| debugger | `debugger.c` | one saved word, pending `break_block`/`break_pc` | stop, step, set and restore words | the program does not change under it |
| main | `main.c` | argv, envp | start-up order | initialisers run with handlers, before argv |
| overrides, logging, printers, wrappers | `overrides.c`, `core.c`, `printer_*.c`, `wrapper/` | log level | tables, text, argument shims | |

How they interact: `main` builds the guest's environment, loads the image
(`mmap_base` creates the cache), relocates it with the help of the library
manager, installs the handlers, runs the guest's initialisers, clears the cache
and jumps to the guest's entry, which faults. `segv_handler` and
`brk_handler` search the cache and call `decode`, which pulls a context, calls
the decoder and the encoder for each instruction, and writes the cache's tables.
The encoder asks the cache for patch ids; `brk_handler` gives them back. The
debugger runs inside the handlers and overwrites host words. All of it shares
the one `Anchor`, without a lock.

What is hard: patch ids that change hands while the word that carries them is
still in place; tables that are searched while `decode` is changing them; fixed
arrays, 8-bit offsets and sentinels (`offsets == 0`, host offset 0); static state
in the encoder that outlives the block it belongs to; an `Instruction` whose
unassigned fields come from the one before; sizes and addresses cut to 32 bits;
several threads in the handlers; the debugger's saved words. `PROJECT.json`
lists each hazard at its line.

## 2. The modules

| Module | Models | Extends |
|---|---|---|
| `Cache` | `cache.c` (and `context_pull`): each operation is an operator from one record `[a: Anchor, c: Context]` to the next | Integers, Sequences |
| `Translator` | `decode`, `brk_handler`, `segv_handler`, `elf_init`'s clearing: one action per step between two look-ups or table operations | `Cache` |
| `Debugger` | `debugger.c`, `segi_handler`, the debugger's parts of the other handlers and of `decode`, composed with the translator | `Translator` |
| `CacheSearch` | the two loops of `cache_search`, turn by turn | `Cache` |
| `ContextPool` | `context_init`, `context_search`, `context_pull`, `context_free` under any interleaving of threads | Integers, FiniteSets |
| `StackFusion` | `encode` for PUSH and POP, with its static memory, beside the guest and the host that execute the code | Integers, Sequences |
| `GuestStack` | `stack.c`, as operators on a stack | Integers, Sequences |
| `Loader` | `elf_loader.c` and `elf_manager.c`, as operators on guest memory | SequencesExt, FiniteSetsExt |
| `Startup` | `main`, `read_argv` and the loops of the loader: one action per turn of a loop, or per call without one | `GuestStack`, `Loader` |
| `Values`, `X86` | numbers that stand for register contents; what the processor manual says of length and effect of an instruction | Integers, Sequences |
| `Decoder` | `decode_instr`, `decode_0F` and their helpers, as a function from bytes and a leftover to an `Instruction` | Integers, Sequences |
| `Encoder` | `encode`, `encode8bit` and the emitters, as a function from an `Instruction` to host words | `Decoder` |
| `Codec` | one instruction decoded, encoded, and its words executed one by one | `Encoder`, `X86` |
| `MCTranslator`, `MCDebugger`, `MCCacheSearch`, `MCStackFusion`, `MCStartup`, `MCCodec` | the programs, caches, machine states, images and instructions TLC explores | the module each is named for |
| `FaithfulProofs` | what each table operation keeps; bounds and ids; faithfulness and order, and that translations are found | `Translator`, TLAPS |
| `DebuggerProofs` | the debugger's own invariants, and the translator's under it | `Debugger`, `FaithfulProofs` (of its own words by EXTENDS, of the words without the breakpoint by INSTANCE) |
| `CodecProofs` | lengths, types and bystanders; then what running lists of words leaves in the host | `Codec`, TLAPS |
| `ComputesProofs` | that the words compute what the instruction computes | `CodecProofs` |
| `StartupProofs`, `CacheSearchProofs`, `ContextPoolProofs`, `StackFusionProofs` | lemmas, inductive invariants and theorems | the module each is named for, TLAPS |

A definition whose name ends in a word for a mistake (`Claim_stored`,
`Pass_retry`) is the definition before or after it with that mistake; it takes
no part in any specification and serves to try whether a property notices.

### The translator

`anchor` is the `Anchor` the C code points to, without the
pointers: a guest address is the low half of the pointer, a host address counts
words from `anchor->host`; blocks, points and ids count from 1. `context` is the
`Context` of the one running `decode`. `pc` is the label of the handler; `site`,
`goal`, `dest` are its locals (`pc`, `patch.guest_off`, `block`/`target`).
`sites` is what the host memory holds of BRK words; `links` and `code` are
history: the branches written, and where each instruction's translation stands.
A guest program maps addresses to instructions, abstracted to length, number of
host words, branch kind and target. Which trap comes next is up to the
environment: any live BRK word, any guest address. `panic()` ends the process:
`pc = "exit"`. An instruction becomes a fixed number of words; that the
encoder takes words back is only in `StackFusion`, and what the words are is
`Codec`.

`cache_search` appears twice. The translator uses what it promises on a sorted
table (`Found`; the tables are checked to be sorted, `TablesOrdered`). Where
several blocks start at the same address the midpoint of the search decides, so
`Found` is a set. `CacheSearch` is the loop, with the C variables `left`,
`right` and `mid`; that it keeps the promise (`KeepsPromise`) is checked and
proved, so the abstraction costs nothing.

### The debugger

`traps` is the set of host words that hold BRK 0, `prev_instrp` and
`prev_instr` the place and content of the saved word. Of a word only that is
kept which the translator looks at: whether it is a BRK word with a patch id,
or BRK 0 itself (`WordAt`). `spoilt` is history: the words of code
that hold an older value than the translator wrote. The end of `decode` is
replaced by `EndAndCheck`, which has the call of `debug_check_break` behind it;
every other step that writes words overwrites what the debugger left there
(`Overwrite`). Between the stop and the command that ends it nothing else runs.
`sc` is "dead" once `print` has faulted: `segv_handler` has left the static
pointer on the frame of that fault, and `si` reads its program counter through
it. A SIGINT may come at any word of translated code and outside of it, but not
inside a handler.

`Careful` is the user who names existing blocks (which excludes `sb` in the newest
one) and does not step behind the last word. The abstract specification is `Translator`: with
`sites <- Undone` (the saved word put back) each step of the debugger is a step of the
translator or none (`Transparent`).

### The context pool

A thread walks over the slots one compare-and-swap at a time.
A failed search is `panic("CONTEXT::NO_FREE")`. `in_use` comes from `malloc` and
is set by nobody, so it starts with any value; `Leaked` are the slots that are
marked although nobody owns them.

### PUSH and POP

In `StackFusion` the words of a PUSH or POP are what they make of the host:
`states` is the host after each word of the running decode, so rewinding the
host pointer is taking elements off the end. `guests` is the guest after each
instruction, `points` what `cache_block_point` recorded for it. A guest
instruction other than PUSH and POP is one that sets a register, through
`encode` (`Other`) or through `encode8bit` (`Byte`). `Tame` names the programs
the optimizer is right about; `Wild` lets the others in. PUSH rbp pushes x29 and
x30 as the encoder means it: the link register is where the guest's return
address is. POP rsp (which loads the scratch register) and code that uses memory
below rsp are left out.

### Start-up

Memory is counted in cells of eight bytes, the unit of pushes and of most
relocations; a string takes whole cells (in the code it takes bytes, and only
whether the two ends meet depends on that). Three auxiliary entries stand for the
nineteen: the two the loader computes and the terminator. A page has 2
cells, a `uint32_t` 32 values, a RELR bitmap 3 slots, so that sizes wrap and
bitmaps follow each other. A segment that is written outside the mapping ends
the behaviour in "stray"; what it destroys there is not modelled. `open`,
`dlopen`, `dlsym` and the kernel's choice of an address are constants.
`Translator` starts where `Startup` ends, and models the clearing in between.

### Decoder and encoder

The bytes of an instruction come as fields (prefix, REX bits, opcode, ModRM,
SIB, displacement, immediate). `decode_instr` starts from any leftover
`Instruction`, because `decode` declares one per call and the decoder does not
assign every field. A host word is its mnemonic and its fields, with the
register numbers that `x64_regs` and the emitter macros put there and the number
of bits of its operands it works on; where a field overflows, the word is
"garbled". `Codec` runs the words on a host (`Exec`, external) and compares with
the manual's effect on the guest (`X86`, external). Both sides know widths: a
32-bit result clears the upper half of its register, an 8-bit or 16-bit one keeps the
rest, AH to BH are bits 8 to 15, UXTB, SXTW and the loads of bytes and halfwords cut
and extend as the processor does, and a store and a comparison have a width as well as
values. Register contents are numbers modulo `P`, which is 2^64 in the
machines and 2^20 in the runs, with a lower half modulo `Half` (2^32 there, 2^17 in the
runs); bytes and halfwords have their true sizes. Addition, subtraction, short shifts to the
left and every extension compute; any other operation is some function of its
width and of that many bits of its arguments, so two results agree when they were computed
alike and differ when they were not (`Hash` scatters them). What memory holds is a function of
the address. The guest's registers, the base of FS and the address behind the
instruction are constants; the runs give most registers values above `Half` and
with different low bytes, so that a lost or a stray upper half shows. `CodecAssumption` says of
the bytes that they are an instruction's: fields within their widths, none of the one-byte
opcodes that 64-bit mode has taken away, and FE with one of its two operations. It says
nothing of displacements and immediates but that they are integers, and nothing of
the leftover but that it has the fields of an `Instruction`.

`Mistranslated` lists what the code does not translate rightly, one predicate for each cause:

| Predicate | Forms |
|---|---|
| `LongNop` | 0F 1E, 0F 1F with SIB or displacement: only ModRM is fetched |
| `ShortImmediate`, `LongMove` | the operand-size prefix shortens the immediate of C7 only, even against REX.W |
| `StackPointer`, `ScaledOnStack` | register 31 is the zero register in most words |
| `Absolute` | a 32-bit address becomes relative to the instruction, with FS only in branches and COMISS |
| `R12Index` | R12 as an index is taken for none |
| `Segment`, `SegmentRelative` | with FS only a displacement is added to the base of the segment |
| `WideOffset`, `WideImmediate` | more than 12 bits of displacement or immediate |
| `LeaOverlap` | LEA builds the sum in the register it still needs |
| `ShiftRight` | SHR by an immediate: the opcode of the word has a wrong bit, and SHR by CL panics |
| `Multiply`, `Divide` | IMUL from memory, one-operand IMUL, IDIV |
| `StrayRex` | REX.R extends an operand ModRM does not name |
| `OperandSize` | no instruction has 16 bits; REX.W makes 64 bits of 8; a comparison of bytes subtracts zero-extended bytes in 32 bits, compares registers with a leftover immediate, and its TEST leaves N and V of 32 bits |
| `HighByte` | AH to BH are taken for RSP to RDI |
| `Unnarrowed` | a 32-bit instruction is one of 64 bits: ADD and SUB of an immediate, OR, shifts by an immediate, LEA, MOV of a negative immediate |
| `Widenings` | MOVZX and MOVSX of a register copy it without extending (`encoder.c:290`, 300, 310, 320); MOVSX of memory, MOVSXD and CWDE extend up to bit 63 whatever the width; CLTD's SXTW overwrites RAX, so that CQO truncates it and CDQ extends it (`encoder.c:473`) |
| `SetByte` | SETcc clears the rest of the register |
| `Packed` | an instruction on the lanes of a vector becomes one on a scalar |
| `Conversions` | CVTSI2SD and CVTSI2SS, MOVD and MOVQ, CVTTSD2SI take an integer of one size only |
| `Vectors` | MOVAPD of memory or with REX.W, COMISS in some forms |

The run has 77,292 forms, each from two leftovers: 154,584 translations. Of these 96,324 panic and
58,260 run to their end: 16,996 are of no form on the list, and right; 37,915 are of one and
wrong; 3,349 are of one and happen to come out right (long NOPs, which compute nothing
however they are read, and forms that are right for the chosen values). So the list hides little that is in order. Most
of the wrong ones come from the heads, which give every opcode each prefix and REX bit: a
16-bit operand size, or a 32-bit form of a word that works on 64 bits.

## 3. The runs

The constants are scaled down so that everything happens early: `U8Max` (255 in
the build) is 2, so a block is full after two points and splits when it grows
beyond two addresses or words; the tables hold 3 to 9 entries; `MaxJumps` is 2
or 3, so the reuse stack fills and the record array doubles.

| Run | Shows |
|---|---|
| `small_programs` | all 256 programs of three instructions that end in a branch or exit; each of the four overflow checks fires. Array bounds and the bookkeeping of patch ids |
| `long_programs` | five programs with full blocks, far points, loops, calls and an overlapping reading: tables sorted, every answer and every written branch leads to a translation of the right address, translations are found again, published entries never move; with `WF(Handler)` every trap is answered or panics |
| `cache_search` | every cache of up to four blocks at five addresses, with shared, adjacent and empty point ranges, and every address: the loop returns, and returns what it promises |
| `pool` | three threads on four slots, any of them marked from the start: one owner per context; no search fails while a slot that is not leaked exists for every thread; a search ends however long the owners keep their slots |
| `fusion_tame` | every tame program of five instructions with all six operands, over several decodes: the fused code means what the program means |
| `debugger` | a careful user with every command in every order, on two programs with a loop, a patched branch and an inserted block: one saved word, always the right one, and the translator underneath implemented step for step |
| `startup` | command lines with options, without a file, with -h or an unknown option; environments; 96 layouts of segments; RELR tables; relocations with wrapped, native, overridden, weak and missing symbols; two mapping addresses: what the guest finds at its entry |
| `codec` | every opcode the decoder knows in 14 addressing forms with 12 prefix and REX combinations, two leftovers: lengths, effects in all bits of the registers, and registers that must not change |
| `host_area_overrun`, `fusion_frame`, `debugger_step`, `codec_idiv` | places where the code does not do what its comments, names and checks say (section 5) |

Five instructions are enough for `fusion_tame`: the encoder remembers one
instruction, so two pairs with something between them show every transition of
its memory; the theorem has no bound. Four blocks are enough for the searches:
their intervals then have every parity and every way to end. The debugger keeps
one word, and its interference with the translator needs one patch, one
insertion and one translation beside it; both programs have them. The stack of
`startup` is filled to its last cell by the longest command line. In `codec` an
instruction is translated alone, as the code does except for what `StackFusion`
models and for SYSCALL.

Deadlock is not checked, because in each of these models something really
stops: the process in `exit`, after a panic or by the user's command, the search when it returns,
the program at its end, main at the jump into the guest.

**Fairness.** `HandlerReturns`, `Returns` and `SearchEnds` need weak fairness of
the handler's (the search's, each thread's) own steps. A signal handler runs on the
thread that trapped, nothing else runs on it
until the handler returns, and the kernel schedules it. Nothing is assumed of
the guest, the user or the owners of slots.

## 4. The proofs

For every set of programs, every table size and every width of the 8-bit
fields, from `CacheAssumption` (sizes are naturals, three of them positive),
`ProgramsAssumption` (control does not run off a program, a branch becomes at
least one word) and `NullAssumption`:

- `TypeCorrect`, `TablesStayInBounds`: `Spec => []TypeOK`, `[]TablesInBounds`.
  They rest on `SafeInv`: whenever the process has not panicked there is room
  for one more point and one more free id (the checks fire one step before the
  array is full), while `decode` runs its block is open with room for a point
  (`Open`), and otherwise no points are pending (`Closed`). The first part of
  `FaithfulProofs` shows what each table operation makes of that.
- `PatchIdsUnique`: `Spec => []PatchIds`. `PatchIds` is not inductive: the id of
  the word being served is free while the word still exists, and the same
  handler may give it to a new word; `SiteOrder` (new words lie above all
  others) tells the two apart.
- `EntriesAreFaithful`, `LinksAreFaithful`, `EntriesAreStable`: whatever the
  cache can answer is a translation of the address asked for; so is the target
  of every branch written; an entry once published stays until the clearing.
  `FaithInv` adds to `SafeInv` what the block under construction will claim when
  it ends (`Pending`), that every claim is in the history `code` (`Claims`), and
  that `dest` is one of the entries; `Grows` says what each operation adds.
- `TablesStayOrdered`: `Spec => []TablesOrdered`, the premise of both binary
  searches. `OrderInv` adds that the points the open block has not taken over yet
  rise too (`Neat`), and that they lie below the instruction that comes next
  (`Behind`; `Reached` between its point and its decoding): `decode` only goes
  up, so a point is never out of order, and no block writes into another's.
- `TranslatedIsFound`: `Spec => []Findable`, for `U8Max > 1`: an instruction once
  translated is found by the search of the next trap, so `decode` runs once for
  it. (With `U8Max = 1` every point is in a block of its own, which would need another
  argument; the build has 255.) A block has points only as far as control runs
  straight on from its start (`Straight`). `FindInv` says that a finished block
  has a point at every instruction of its straight run that it covers
  (`Mature`) and that all code lies in the straight run of some block, hence
  also of the last block below it (`Rooted`). While `decode` runs, its open block is
  complete up to the instruction that comes next (`Front`), and a block it was
  split from may lack only what the new one covers (`Ready`). `Sole` follows the
  first block, whose points a zero hides: then what the block covers has its
  very words there, or none. The premise `NoOverlap` of `Findable` is that of
  the run: no instruction of the program starts within another.

For every well-formed cache and every address (`SearchAssumption`):

- `ProbesInTables`, `SearchKeepsPromise`, `SearchNarrows`. The invariant of each
  loop: what lies left of `left` is smaller, what lies right of `right` is
  larger. At the end the element at `right` is the last one below.

For every finite set of threads, every pool and every initial marking
(`PoolAssumption`):

- `TypeCorrect`, `ContextHasOneOwner`; and `PoolSuffices`: with a slot per
  thread besides the leaked ones no search fails. A walk misses freed slots, so "some slot is free" is
  no invariant. The one that is: the threads that stand at slot `i` or further,
  as searchers or as owners (`Beyond`), leave, if there is any, at least `i` threads or leaked slots elsewhere
  (`Crowd`), so none can stand behind the last slot of a large enough pool.

For every tame program of any length, any registers, stack and start states
(`FusionAssumption`, `~ Wild`):

- `FusionTyped`, `FusionKeepsMeaning`, `FusionKeepsPoints`. The invariant is
  `Remembered`: while the instruction the encoder remembers is the latest, the
  host stood three words ago where the guest stood one instruction ago,
  `prev_register` held what was pushed, and no point lies within those words.
  A lemma for each group of words says what it does to a host that agrees with
  the guest. That the points ascend (`PointsAscend`) needs it too: a rewinding of more than
  these words would leave a point behind the end of the code.

For every program, every table size and every user, careful or not:

- `DebuggerTyped`, `OneSavedWord`, `TablesStayUnderDebugger`: `DebugSpec =>
  []DebugTypeOK`, `[]OneBreakpoint`, `[]TablesInBounds`. Their invariant is
  `SavedInv`: the translator's `SafeInv`; the word the debugger keeps is never a
  BRK 0, and the patch record of a saved BRK word still exists (`SavedValid`), so that
  it may be written back; nothing is kept before `debug_enable` (`Disabled`); and no
  BRK 0 stands while the user is asked. Words come and go under the translator
  (`WordsMove`), but only the clearing takes records away (`RecordsStay`), and it
  comes before `debug_enable`. `EndStep` of `FaithfulProofs` is stated so that
  the debugger may take a word away in the very step that ends `decode`.

For every program, every table size and a user who is careful (`Careful`):

- `CodeStaysIntact`, `DebuggerTransparent`, `TranslatorUnderDebugger`: `DebugSpec =>
  []CodeIntact`, `DebugSpec => Transparent` (the refinement), and the
  translator's `LinksFaithful`, `EntriesFaithful` and `PatchIds` of the words as they are
  without the breakpoint. `View` is `FaithfulProofs` with `sites <- Undone`, so
  the translator's invariants and step lemmas are cited, not proved again
  (`ViewInv`); a lemma per action says that it is the same action of `View`. What
  the debugger adds is `StandInv`: the word under the breakpoint lies below
  the edge of the host code and is not the one being patched (`InPlace`), so
  nothing the translator writes meets it; the block asked for exists
  (`BlockComes`); the address asked for is not translated yet, or only just now,
  above `dest` (`AddressComes`), because `debug_check_break` sets the word in the
  very step that ends its translation. Host code only grows upward (`PlaceInv`), so
  what lies below the edge stays below it.

For every command line, environment, file and mapping address, from `LoaderAssumption`
(sizes of pages and widths), `StackAssumption`, `ScenarioAssumption` (the file is
not damaged) and `LinkedAssumption` (it is one that a linker writes: segments
apart and none empty, no RELR bitmap before the first address, no slot relocated twice):

- `TypeCorrect`, `EntryIsAligned`: the counters and records of `ControlInv`.
- `StackStaysWhole`: `Spec => []StackWhole`, in the order in which main pushes (section 5
  says where that is not the ABI's). `CountInv` says what `sp` and `dp` are at
  every place of main: `dp` is the cardinality of the set of all cells of the
  strings pushed so far. `PileInv`, under the condition that the two ends have
  not met, says what lies above `sp` and below `dp`. Each push leaves that part of
  the memory alone (`Extends`), save the last shift, which moves it by one cell as a whole (`Moved`).
- `HostCodeApart`: arithmetic of 32-bit sizes over `MappingInv` (the mapping has its size, no segment so far left it).
- `InitialisersInOrder`: `CallInv`, the calls so far are the first entries of the array.
- `CopiesAreShared`: `GotInv`, which follows the references of every library
  through the relocations applied so far (`Applied`).
- `ImageIsRight`: `MemoryInv`. After each segment the cells below are the file's or
  zero (`Filled`); after each RELR entry `where` is the slot behind it (`Behind`)
  and the slots of the entries so far have the base added (`Based`); after each
  relocation by symbol its cells are resolved and all others are based
  (`Relocated`). That none is applied twice is what `WellLinked` is for.

For every instruction (its bytes as in `CodecAssumption`, any displacement and
immediate), every leftover `Instruction`, every guest state, every `Half` above 65535 and every `P`
that is a multiple of it (`ValuesAssumption`):

- `LengthsHold`: `Spec => []Lengths`, by one lemma for each group of opcodes of
  `decode_instr`'s switch. `Translated` is the invariant: once words run, `instr` is
  what `decode_instr` made of the bytes and the leftover, and `words` what
  `encode` made of it (`AlwaysTranslated`).
- `TypesHold`: `Spec => []TypeOK`. What `decode_instr` returns has one of the forms of
  `Shaped` (or panics); a lemma for each arm of `encode` shows that its words then name
  registers the host has, and the host keeps register contents (`HostKept`).
  `Unassigned` is the exception the proof brought to light: MOVQ and
  MOVAPD of memory take a register number out of the leftover, and nothing bounds it.
- `BystandersHold`: `Spec => []Bystanders`, wrongly translated forms included. For
  each arm of `encode` a lemma says which registers its words may write (`Reach`: the
  scratch registers and those of the instruction's own operands); the words run so far
  have left all others alone.
- `ComputesHold`: `Spec => []Computes`, for every instruction that `Mistranslated`
  does not name. The argument goes down from the manual and up from the words.
  Down: the fields of the decoded `Instruction` are the operands that `X86` names
  (`Denotes`; an addressing form is `Reachable` if the emitters can reach it), so reading
  or writing them is reading or writing what the manual says. Up: `Runs` is a
  run of a list of words, and lists run one after the other; an emitter leaves a value in
  one register of the host and the rest alone (`Gives`), and the words of an arm of
  `encode` lead the guest in the host to a state (`Reaches`; `Yields` where
  the flags do not count). The two meet in `Follows`, one lemma for each group of
  opcodes; `AllFollow` is their sum. Sums of addresses agree only modulo
  `P`, which is why displacements and immediates of either sign need the `Numbers modulo P`
  section, and the lower half of such a sum is the sum of the lower halves because `Half` divides `P`. `Followed` is the invariant of the specification: before its next
  word the host is where the words before have led it.

Every invariant of a passing run is a theorem now. Only model-checked are `HandlerReturns`,
`Returns` and `SearchEnds`, which are liveness and out of the prover's reach. The properties of the
runs that end in a violation are false of the code, so there is nothing to prove of them.
An induction over data would be out of reach too. No module a theorem is about declares a RECURSIVE operator.

## 5. Where the code and its own words differ

- `HostInBounds`: the overflow check compares words with bytes (`cache.c:113`).
- `FallsThrough`: the optimizer loses a PUSH before PUSH rbp (`encoder.c:445`),
  an 8-bit instruction between two PUSHes (`encoder.c:214`), and the first of
  two immediates (`encoder.c:440`).
- `CodeIntact` with a user who is not careful: `si` at the last word saves a
  word that has not been emitted yet (`debugger.c:161`).
- `Divides`: IDIV maps its registers twice (`encoder.c:478`).

Other places are in the models as the code has them, and the properties are
stated around them:

- the end of a block is kept in 8 bits (`cache.c:102`; only the debugger reads
  it, and `current_block` is computed with the cut length);
- `offsets == 0` hides the points of the first finished block (`cache.c:170`;
  `TakenForNone` in `Findable`);
- the reuse stack does not grow with the records, and its check is a panic
  (`cache.c:188`);
- `in_use` comes from `malloc` and is never set (`memory.c:21`; `Leaked` in
  `NeverExhausted`);
- the optimizer rewinds into the block before, and a jump to the second of a
  pair skips it (`encoder.c:437`, `encoder.c:422`; `Tame` leaves such programs
  out, and `SameMeaning` the points inside a pair);
- R_X86_64_64 does not add the base (`elf_loader.c`; left out of `ImageRight`);
- `size + size` has 32 bits (`elf_loader.c:30`; the premise of `HostApart`);
- the high half of guest addresses is that of the base for all of them (`cache.c:20`), so an
  image that straddles 4 GiB gets wrong addresses; no property says more of it than the
  definition of `gp_hi` does;
- the stack's two ends may meet (`Fits` in `StackWhole`);
- main pushes the environment before the arguments and the auxiliary vector in between
  (`main.c:39`, `main.c:48`), each new string above the one before (`stack.c:65`). From `sp`
  upwards lie argc, argv, a null, the auxiliary vector, the environment in reverse and a null; the
  System V ABI has the environment, in its order, directly behind argv's null and the auxiliary
  vector last. A guest that looks for its environment there finds auxiliary entries.
  `StackWhole` holds of the layout the code makes;
- library references that are not GLOB_DAT or JUMP_SLOT entries of DT_RELA keep the library's own
  copy of a copied variable (`elf_manager.c:99`; they are no part of `got`);
- a block number that `sb` or `brb` asks for and that does not exist yet stays pending over
  decodes (`debugger.c:128`). Insertions shift the numbers meanwhile, so that another block is
  stopped in; and the breakpoint is then set at the end of a `decode` that `brk_handler`
  called: if the block's first word is the branch that `brk_handler` is about to patch, the word
  saved is the old BRK word, the patch destroys the breakpoint, and the next stop puts the old
  word back over the patch. TLC finds this, 19 steps, when `Careful` leaves only
  `si` alone (`CodeIntact`);
- MOVQ and MOVAPD of memory put a register number into the word that the decoder has not
  assigned (`decoder_0F.c`; `Unassigned` in `TypeOK`);
- register forms of MOVZX and MOVSX are `ADD rd, rn, #0` (`encoder.c:290`, 300, 310, 320) where the
  memory forms load and extend, and CQO truncates RAX (`encoder.c:473`); with them everything else
  `Mistranslated` names, most of it about operand widths, which the first lines of `encoder.c`
  have as a TODO.

## 6. Not modelled

- Two threads in the handlers. `decode` and the tables are written without a lock or an
  atomic operation, so their interleavings are data races throughout: no unit larger than a
  memory access is atomic. The hazards name the lines.
- A signal inside a handler, but for the debugger's own read of memory.
- The width of a patched branch's offset: host areas of more than 1 MiB.
- Flags of other instructions than comparisons, and the conditions that read them: `X86` and `Exec`
  leave out whether a conditional jump jumps, and a CSET or CSEL is a function of nothing but its name and operands.
- The return address of CALL and what RET takes off the stack; the lanes of a vector register
  above its low 64 bits (its low 32 behind a single-precision result); the MMX forms without
  a prefix of what is decoded as SSE; the upper half of IDIV's dividend, which the code never reads.
- The MOV to rax that SYSCALL rewrites; POP rsp.
- The sequence of MOVZ and MOVK that `emit_imm` emits.
- Damaged ELF files; `elf_close`, `cahce_fini` and `stack_fini`, which nobody
  calls; the walk over a library's dynamic section, of which only the result is
  modelled.
- Logging, the printers and the wrapper libraries: text, and one call each.

What would come next: the flags of arithmetic, once `encoder.c` has them; two
threads in the handlers, once there is a lock to say what is atomic.
