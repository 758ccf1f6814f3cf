# TLA+ models of the KLAW core

KLAW (`src/`) is a small RV32I core in SystemVerilog with machine and user mode: four
stages, an AND-OR datapath, operand forwards, precise traps. `core_tb.cpp` runs it under
Verilator: it loads an ELF file with the ELFIO library, which the repository carries, serves
memory accesses in the same cycle, logs what instructions write and decides when a test is
over. This directory holds TLA+ models of the core, of its testbench and of the library; the
TLC runs that check them on small instances; and theorems about them that TLAPS proves for
every word width, register set, program, symbol table and object.

Paths in this file are relative to `src/`, which has the RTL in a directory `src/` of its own.

## 1. The system

```
              redirection (pc_data_q, branch_v_q, exception_q)
      +---------------------------------------------------------------+
      v                                                               |
   ifetch --instr,pc--> dec --operands,flags--> exe --+--results--> rf, csr
      |                  ^ ^                     |  ^ |               | |
   icache                | +-----forwards--------+  | +--adr,data--> memory
   (memory)              +-------------read ports---+-----------------+
```

Every flop moves at the rising edge of `core_clk`; `reset_n` is asynchronous and active low.

| Component | State | Operations | What makes it correct |
|---|---|---|---|
| `riscv_pkg.sv` | none | sizes, one-hot positions, csr addresses | - |
| `src/decoder.sv` | none | one table, some twenty ports | at most one unit and one reason to trap for each word; ports agree with the instruction |
| `src/alu.sv`, `src/shifter.sv`, `src/bu.sv`, `src/lsu.sv` | none | add, compare, gates; shifts; conditions and targets; addresses, lanes, extensions | equal to the arithmetic of the instruction set, on the XLEN+1-bit operands decode prepares |
| `src/ifetch.sv` | `pc_q`, `instr_q`, `reset_n_q` | next address, redirection, start after reset | the word delivered is the one at the address delivered; starts at the reset vector once |
| `src/dec.sv` | the flops handed to execute | read, forward, format, hand over | the operands are those of program order |
| `src/exe.sv` | write back, csr write back, redirection, trap and mode flops | execute, trap, redirect, flush, write back | a squashed instruction does nothing; a trap is precise; at most one redirection at a time |
| `src/rf.sv` | x1 to x31 | one write, two reads | x0 is zero |
| `src/csr.sv` | twelve csrs | csr write, trap write, read | a trap and a csr write do not mix |
| `src/core.sv` | none of its own | wiring | the whole is one sequential machine |
| memory, `core_tb.cpp` | words | same-cycle read, lanes of a store | a store is seen by the next load |
| testbench, `core_tb.cpp` | phase, labels, cycle count, countdown, log, signature | read options, load, run a cycle, detect the end, log | ends, at the right instruction; the log tells what completed |
| ELFIO `elfio.hpp`, `elfio_section.hpp`, `elfio_segment.hpp` | sections with growing buffers, segments, file | add, append, lay out, save, load, validate | nothing overwritten; addresses and offsets agree; what is saved is loaded |
| ELFIO `elfio_symbols.hpp`, `elfio_relocation.hpp` | symbols, relocations, strings, a hash section | add, look up, arrange the local symbols, swap in the relocations | a relocation keeps its symbol; a name is found |
| ELFIO `elfio_dynamic.hpp`, `elfio_array.hpp`, `elfio_versym.hpp`, `elfio_note.hpp`, `elfio_modinfo.hpp` | entries, and what an accessor remembers of them | add, modify, read, count | what is added is read, in either class and byte order |
| `checker.py`, `run.py` | none | compare logs; launch | a difference is reported |
| `sw/` | - | kernel, tests | keeps the distances the core needs (below) |

Not part of the logic: a fifo and an adder nothing instantiates (`include/fifo.sv`,
`include/csa.sv`), ELFIO's dump, constants, examples and C wrapper, `implementation/` (synthesis
scripts and results), `riscof/` (plugins of a compliance framework), `docs/`, `doc/`.

The testbench and the core meet at the ports of `core.sv`: fetch and data addresses out,
instruction and data in, and under `VALIDATION` the flops the log is made of. The testbench
calls ELFIO to load a file, walks its sections and symbols, and never writes one; the rest of
the library is for tools that build files.

**What is hard.** Nothing here runs in threads, yet three instructions are in flight at once
and each reads what the others are still writing. The hard cases are orders of two or three
neighbouring instructions at a given distance, across a redirection:

* *Stale operands.* A register is read in decode while its newest value is in execute, in the
  write-back flops, or in the register file. The forwards (`dec.sv:167-200`) must pick the
  youngest and must not pick the result of an instruction that is being squashed.
* *Squashed instructions.* A redirection is decided in execute when two younger instructions
  are already in the pipeline. They execute, with their stores, branches, traps and csr writes
  masked one by one (`flush_v` and `~exception_nxt` in `exe.sv`).
* *Csrs.* They are read in decode, written two edges later, and the trap vector and the return
  address are also read, directly from their flops, in execute (`exe.sv:301`).
* *ORed selections.* Results, causes, trap values, csr data and next addresses are ORs of
  masked terms: two terms at once give a value that nothing computed.
* *Reset.* It may fall between any two edges, and not every flop is in its branch
  (`exception_dly1_q`, `exe.sv:343`).
* *Arithmetic.* Comparisons subtract by adding a complement on XLEN+1 bits that decode prepares.
* *The end of a test* is decided on a fetch address, which is speculative, while stores of
  older instructions, code that is stored to included, are still on their way.
* *ELFIO.* The same section may be in several segments added in any order; addresses that must
  stay and offsets that must not live in one object through load, extension and save; indices
  held by one section change under a loop over another; accessors keep counts of sections that
  others extend.

`PROJECT.json` lists these hazards at their lines, each with the properties aimed at it.

## 2. Modules

```
KlawPkg <- Decoder <- Program <--------- Isa        the machine software sees
   ^                     ^                 |
   +---- Datapath        |                 | INSTANCE (refinement mapping)
            ^            |                 v
            +------- Registers <- Exe <- Dec, Banks ; Ifetch <- Core <- CoreIsa <- Claims <- MCBase <- MC*
                                                                           ^   ^
                                                                           |   +-- Testbench <- MCBench
                                                                           |           |
                                                              KlawPkg <- Loader <------+

DatapathProofs <- CoreProofs <- CommitProofs <- BenchProofs
                  (of CoreIsa)                  (of Testbench)

ElfSection <- ElfObject <- ElfFile <- MCElf
   ^  ^  ^
   |  |  +------ ElfSymbols <--+
   |  +--------- ElfEntries <--+- MCTables
   |
ElfSectionProofs <- ElfSymbolsProofs  (of ElfSymbols)
                 <- ElfEntriesProofs  (of ElfEntries)
                 <- ElfFileProofs     (of ElfFile)
```

| Module | Source | Content |
|---|---|---|
| `KlawPkg` | `riscv_pkg.sv` | word sizes, one-hot positions, csr names; the gates as parameters |
| `Decoder` | `decoder.sv` | the names of the table and each output port as an operator on an instruction |
| `Datapath` | `alu.sv`, `shifter.sv`, `bu.sv`, `lsu.sv`, `core_tb.cpp` | the units as operators on operands; the store lanes of the memory |
| `Program` | reset values, `reset_adr_i`, `core_tb.cpp` | the words memory may hold, initial contents |
| `Registers` | flop declarations | every flop as a variable, the type invariant |
| `Ifetch`, `Dec`, `Exe`, `Banks` | the stage of that name; `rf.sv`, `csr.sv`, memory | the wires as operators, `...Edge` for what the flops take at a rising edge, `...Reset` for what the reset puts in them |
| `Core` | `core.sv` | `Posedge`, `AssertReset`, `ReleaseReset`, the specification |
| `Isa` | - | the abstract sequential machine: `Retire`, `Trap`, `Reset` |
| `CoreIsa` | - | the refinement mapping and the properties |
| `Claims` | comments, docs and tests | statements of the repository that the code does not keep |
| `Loader` | `core_tb.cpp` | command line, sections to memory, symbols to labels, as operators |
| `Testbench` | `core_tb.cpp`, `VALIDATION` flops of `core.sv` | `ReadArguments`, `LoadElf`, `EndReset`, `Iterate` (one pass of the loop and the edge at its end), `Finish` |
| `ElfSection` | `elfio_section.hpp`, `elfio_strings.hpp` | a section, its buffer, the strings of a string table, as operators |
| `ElfObject` | `elfio.hpp`, headers of sections and segments | an object, the layout, the writes a save makes |
| `ElfFile` | `elfio.hpp` | `create`, `sections_add`, `segments_add`, `append_to_section`, `save`, `load`; `validate` |
| `ElfSymbols` | `elfio_symbols.hpp`, `elfio_relocation.hpp` | `add_symbol`, `add_entry`, the lookups, the arrangement as five steps |
| `ElfEntries` | the other accessors, `elfio_utils.hpp` | one action per addition, `modify_entry`, `get_entries_num`, `reopen` |
| `MCBase`, `MC*` | - | the instances TLC checks |
| `DatapathProofs` | - | lemmas on the units: ranges, remainders, the shifter, the lanes |
| `CoreProofs` | - | theorems on types, control and operands |
| `CommitProofs` | - | effects, then the whole together: the core implements `Isa` |
| `BenchProofs` | - | theorems on the core under its testbench, and on the testbench |
| `ElfSectionProofs` | - | lemmas on buffers, on the strings of a string table, and on walks and lists |
| `ElfSymbolsProofs` | - | theorems on the arrangement and on the lookups |
| `ElfFileProofs` | - | what the user's calls and each pass of the layout do to an object; theorems on the files |
| `ElfEntriesProofs` | - | the trails of notes and attributes, digits, and the theorems on the other tables |

A wire of the RTL is an operator with the name of the wire, a flop a variable with its name
(prefixed by its stage where two stages use one name). All stages share one action, `Posedge`,
since the clock moves them together; there is no order between them to choose.

**Abstractions.**

* *Words.* A word is a number below `WORD = BYTE^4 = 2^XLEN`. `XLEN = 32` and `BYTE = 256` is the
  32-bit core; `XLEN = 4` and `BYTE = 2` is a core with four-bit words that still has four byte lanes, two half-words, a sign bit, a
  carry out and an address space that wraps. Operands carry one more bit, as in the RTL.
* *Instructions.* An instruction is a record: the opcode class, the name of the line of the
  table that matches, `rd`, `rs1`, `rs2`, the decoded immediate, and the csr. The bit patterns
  of the table and the scattering of the immediate bits are left out. `rs1` doubles as the
  immediate of csr instructions, as the bits do. `WellFormed` says which records the decoder
  can produce; `ZeroInstr` is the zero word the fetch flop holds in reset, an illegal one.
* *Decode-to-execute flops.* Those that only carry a port of the decoder (unit, operation,
  access size, csr address, `mret`, ...) are functions of the word, so the word itself is kept,
  in `dec_instr_q`. Flags that decode masks or data it computes have variables: `dec_wbk_v_q`,
  `dec_illegal_inst_q`, `dec_pc_q`, `dec_rs1_data_q`, `dec_rs2_data_q`. In reset `dec_instr_q`
  is `ZeroInstr`, whose ports are all zero. One flop differs: the immediate, which the reset
  branch (`dec.sv:217-236`) does not clear. While every unit is off the immediate reaches
  nothing.
* *Flops without readers* (`flush_v_q`) are left out. The `VALIDATION` flops are in
  `Testbench`, next to the log they feed.
* *Gates.* `and`, `or` and `xor` are parameters with the little the proofs need: closed on
  words, zero neutral for OR, the word of ones neutral for AND (a `csrrc` that clears nothing).
  The adder, the borrow and every comparison are computed, and so are the stages of the shifter,
  one for each bit of the amount. `Isa` shifts by one multiplication or division by
  2^(amount mod `XLEN`), and `signed` decides how the division rounds.
* *ELF sections in memory.* The testbench copies sections one by one and lets each symbol
  overwrite the label of its name. `Loader` says what is left: of the sections that cover an
  address, and of the symbols of a name, the last one counts (`Latest`).
* *Program.* Memory answers a fetch with any word of `Text[address]`. `Text` is a relation:
  two fetches of one address may return different words. One run thus covers every program
  made of the allowed words, including those a store rewrites.
* *Reset.* `AssertReset` can happen between any two edges. A store may already have reached
  the memory (`core_tb.cpp` writes it in the middle of the cycle) or not: `BanksReset` allows
  both. `exception_dly1_q` starts with any value and survives the reset.
* *Memory* has no bounds: every aligned word of the address space is there.
* *Testbench.* `CodeOf` says which instruction a word of memory encodes, so a store to code
  changes the program. `sc_main` looks at the core between two edges: one pass of its loop is
  one action, in the order of the source: ends, store, load, fetch, log line, edge. An edge at
  the very instant the reset rises is an edge in reset. After a verdict the core still runs for
  3 ns which memory does not serve and nothing logs: `Finish` is one step. Labels without an
  initial value start with any value of `Garbage`. `ResetAdr` is a constant, so `LoadElf` takes
  the files whose entry label has that value.
* *ELF files.* A file is the sequence of the writes that made it; reading a place gives what was
  last written there if it is still whole. A cell stands for a unit of contents: a byte, a
  string with its end, a symbol, a relocation. Sizes and offsets count cells, entry sizes are
  parameters. Names are model strings.
* *Arrangement.* `arrange_local_symbols` calls back into user code in the middle of its loop, so
  its scans, the callback and the swap are separate actions; other calls wait for its end, as
  in the source. The callback is the one the library's documentation gives: `swap_symbols`.
* *Numbers in tables* have digits of base `BASE` and the width of their field (a half one
  digit, a word two, an xword four); the other byte order reverses them, as `elfio_utils.hpp` does
  by exchanging halves. The tag of a 32-bit dynamic entry is signed and extended when it is read. What an accessor promises to read back is the value at the width of its
  field: the type of a note is a word, the value of a dynamic entry a word or an xword.
* *Hash sections* are not written by the library: `link_hash` stands for the linker and is
  external.

`mtvec` is jumped through as it stands: the source does not mask its two low bits
(`exe.sv:301`). `sret` goes to address 0. `ecall` reports cause 11 in every mode (`exe.sv:244`). `mul`, `div`, `ld`, `sd` and `fence` are accepted as
legal and executed as a write of zero or as nothing. `mret` reads `mstatus` into its `rd` like a
csr instruction, where its encoding has an `rd` other than 0 (`decoder.sv:314,326`). `Isa` says the
same, because it is what software sees of this core.

## 3. What the core promises

### The sequential machine

`Isa` executes one instruction at a time, with no pipeline: it reads registers and csrs,
computes with plain signed and unsigned arithmetic (`Signed(a) < Signed(b)`, not a borrow),
writes, and moves to the next address; or it traps, with the cause, value and return address
of the instruction. The two descriptions share only the word types and the gates.

The mapping of `CoreIsa` takes the core to that machine:

| `Isa` | core |
|---|---|
| `pc` | `ArchPc`: the reset vector before the first edge; `pc_data_q` while a redirection waits for fetch; the fetch address while execute holds a squashed instruction or nothing; else the address in execute |
| `x` | `rf_nxt`: the register file with the pending write applied |
| `csrs` | `csr_nxt`: the same for the csr bank, with the pending trap |
| `mem` | `ram` (stores happen in execute) |
| `mode` | `core_mode_q` |

An edge is a step of the machine when execute holds an instruction that is not squashed
(`Commit`), and a stutter otherwise.

* `ImplementsIsa`: every behaviour of the core is one of the machine.
* `ExecutesFetched`: the step is that of *the word in execute*. `ImplementsIsa` alone only asks
  that some word of `Text[pc]` explain the step; where `Text` allows several, a wrong result of
  one might pass for the right result of another.

### The windows

The machine above is what the core implements *for some programs*. The forwards of decode are
wrong in four situations, and execute is wrong in three. Each is an operator of `CoreIsa`, and
the properties on all programs exclude these and nothing else:

| Window | Situation | Line |
|---|---|---|
| `PhantomRd` | decode takes a register value from an instruction that a trap is squashing | `dec.sv:172-173` |
| `PhantomCsr` | the same for a csr, and also in the second cycle behind a branch | `dec.sv:174` |
| `LateCsr` | a csr is read two instructions behind its write: there is no second forward | `dec.sv:199` |
| `RawCsr` | the csr forwarded will not keep the value written (constant `mstatus`, read-only or absent csrs) | `dec.sv:200` |
| `LateVector` | a trap or `mret` right behind a write of `mtvec` or `mepc` | `exe.sv:301` |
| `LateByte` | a signed byte that is not the first of its word | `lsu.sv:31` |
| `ShadowReturn` | an `mret` or `sret` that is being squashed moves the mode | `exe.sv:268` |

A reader of the code may want the list to be as short as possible; that it suffices is what
`OperandsInOrder` and `CommitsInstruction` say, and the `claim_` runs show that `LateCsr`,
`LateVector` and `LateByte` really lose the value and `ShadowReturn` the mode. `InWindow` is
their disjunction, at the edge where each bites, and `KeepsDistances` says of a behaviour that it
never goes through one: the hypothesis of the refinement, which the run `forwards` checks on its
programs. The kernel of `sw/` keeps out of the
windows: its handlers start with code that does not read what the trapping code was writing, and
its csr writes are followed by other work. One test does not (`claim_vector` below).

### Properties

| Property | Says |
|---|---|
| `TypeOK` | every flop keeps its width: the complement of decode never overflows its XLEN+1 bits, the ORs stay within words |
| `PipelineInv` | a reset at any instant leaves the stages in step with nothing in flight; a squashed instruction does not redirect; masked flags belong to their instruction |
| `StreamInv` | every stage holds a word of the program at the address beside it, and fetch is one word ahead of decode, whatever redirections and resets came before |
| `KeepsDistances` | the programs of the run stay out of the windows, so that the theorems below speak of them |
| `OperandsInOrder` | outside the windows, an instruction that will execute has the operands of program order, whatever is in flight |
| `CommitsInstruction` | given its operands, an instruction does in execute and write back what the machine does, traps included |
| `SquashLeavesNothing` | an edge that completes nothing changes no register, csr or memory word and does not divert the program |
| `BranchShadowForwardsNothing` | no forward takes the result of an instruction squashed by a branch, in either cycle of the flush |
| `TrapBusIsQuiet` | when the csr bank records a trap, the data bus it ORs with the trap values is zero |
| `OneHot` | one unit at most, one reason to trap at most |
| `KeepsCommitting` | once the reset stays high, instructions complete for ever |

`OperandsInOrder` and `CommitsInstruction` together are `ExecutesFetched` for all programs,
cut where decode hands over to execute, so that a failure says on which side it is.

Of the testbench:

| Property | Says |
|---|---|
| `BenchTypeOK` | the cycle count and the countdown stay in bounds, an ending is reported once the loop is left and only then |
| `ExecutesMemory` | what completes is the word memory holds at that moment, although it was fetched two cycles earlier; of the stores in flight only that of the instruction directly ahead is missed (`StaleFetch`) |
| `LogTellsCommit` | the next line of the log is what the sequential machine reads and writes in the instruction that completes, and there is none for one that is squashed or traps; `sd` and `mstatus` are logged otherwise |
| `VerdictIsNear` | a test that ends at the fetch of a label ends where the program stands at the label or one or two words ahead of it, whatever the program does: never in the shadow of a jump or a trap that has been taken, nor before the first instruction |
| `VerdictIsFinal` | of a program that keeps off the labels (next row): at a verdict it has arrived, or what the pipeline holds between takes it there; the one word that was stored to as it executes is excepted (`StaleFetch`) |
| `RunsItsMemory` | from operands in program order, a cycle outside the windows is one of the sequential machine running what the memory holds at that moment, stores into the code included, or changes nothing, and leaves operands in program order; so a test that keeps its distances runs its memory from start to end |
| `KeepsOffLabels` | a hypothesis about the program: it does not stand one or two words before a label that ends a test, unless it runs straight from there into that label or another such one |
| `SignatureAfterCodeEnd` | the signature is taken when the program stands at its end label, so with its stores done |
| `EveryTestEnds` | every test ends, whatever its program does and whatever labels it lacks |

Of ELFIO:

| Property | Says |
|---|---|
| `ElfTypeOK` | whatever was done to an object, its sections hold their contents, each is found by its name in the table of names, which may be growing under it, and its segments are of sections that exist |
| `SavesUpwards` | no save is asked for a place below a segment: what the user adds and what a load gives back keep to the addresses of the segments |
| `FileIsDisjoint` | no two writes of a save overlap |
| `SegmentsMapSections` | in a file `validate()` accepts, a loader that maps a segment puts each of its sections at the section's address, whatever segments share it, in whatever order they were added |
| `LoadRestores` | a load gives back the sections saved, names and contents included |
| `LoadFindsSections` | a load finds again the sections of each segment, which the file does not list |
| `SaveAgainKeeps` | what was loaded can be saved again, with the same addresses and contents at new offsets |
| `ArrangementInv` | the invariant of the loop: local symbols before its first index, others between its two |
| `LocalsComeFirst` | when an arrangement ends the local symbols are exactly those before the index it writes to the header |
| `RelocationsKeepSymbols` | a relocation refers to the symbol it was added for, and computes the same value, also between the callback and the swap |
| `SymbolsAreFound` | a name is found when it is in the table, with any hash section, up to date or not, and what is found has that name |
| `ArrangementEnds` | an arrangement ends |
| `ReadsBack` | an accessor opened on a section reads the entries that were there and those added since, in order |
| `ViewIsCurrent` | the accessor that added them reads the same, although it never looks at the section again |

### Fairness

`FairSpec` adds `WF_vars(Posedge)`: the clock of the testbench runs until the test is over, and
the source has no clock gating. Nothing is asked of the reset; a reset that never rises, or
keeps falling, satisfies `KeepsCommitting` through its hypothesis `<>[]reset_n`. `BenchSpec` adds
`WF_allVars(BenchNext)`: `sc_main` is one sequential program. `TablesSpec` adds `WF` of
`Arrange`: a call that has started runs to its end; nothing obliges a user to call anything.

## 4. Runs

The runs of the core start in reset and let it fall and rise at any time (`bench` releases it
once, as the testbench does). Registers are x0 to x2: one source, one destination, the constant.

| Run | States | Instance | Shows |
|---|---|---|---|
| `forwards` | 169,152 | words of 4 bits; programs with the spacing of `sw/kernel`: a handler at 0, arithmetic, branches, traps, returns, indirect jumps, csrs, byte stores | outside any window the core is the sequential machine, resets included |
| `traps` | 239,614 | words of 4 bits; `addi`, `csrrw mepc`, `ecall`, `mret`, illegal, any at any address | operands and effects are right outside the windows; trap values are not mixed with csr data |
| `words` | 80,202 | words of 8 bits; three programs, chosen by the word at 72: loads and stores of every size at every offset; pairs of boundary values through comparisons, adder and shifter; any line of the table | every instruction, legal or not; lanes, extensions, misaligned traps; the XLEN+1-bit subtraction; the shifter against a division |
| `progress` | 28,317 | words of 4 bits; traps, returns, jumps, a moving trap vector, any of four or five words at each address | `PipelineInv`, nothing left by squashed csr writes, and liveness under `FairSpec` |
| `bench` | 30,446 | words of 8 bits; 672 files, five command lines; the labels side by side behind empty words, as in `sw/user/exit.s`; programs that store to their own code one to three words ahead, set the vector, trap, run into the empty words, and reach a label by a jump, by running into it or never | the composition of core, memory, loader, log and ends |
| `elf` | 35,531 | up to four sections and two segments from lists of four and five kinds, and a linked file whose first segment holds the headers | layout, save, load in any order |
| `tables` | 959,221 | a null symbol and three others of three names in two buckets, a relocation, a hash section of either kind, or any other table empty or not, with up to three entries added | arrangement, lookups, accessors |

**Why the bounds are enough.** There is no bound on time in the runs of the core: each explores
all reachable states of its instance. An interaction involves the instruction in decode, the one
in execute and the one writing back, and a flush covers two more, so windows of five consecutive
instructions matter; runs whose `Text` allows every word everywhere contain all of them. The
four-bit address space has four words of program, and each fetch chooses its word anew, so a
sequence of any length is covered. Values: `words` takes 0, the largest and the smallest number
and -1 in all pairs, both sides of the sign bit and of the wrap, and shifts by every stage; it
needs two-bit bytes, so that a byte has a sign bit distinct from its value, and the four lanes of
the stored words differ. Every trap cause up to 11 fits four bits. In `bench`, `MAX_CYCLES` is 30
and `COUNTDOWN` 6: a program that reaches a label does so in some fifteen cycles, one that waits
for ever meets the bound, and the countdown outlasts the flush behind the label. A label of value 0
(a symbol the file lacks) is run into from the end of the address space. In `elf`,
`EHSIZE` 10, `PHENTSIZE` 6 and `SHENTSIZE` 8 are no multiples of the alignments 4 and 8, so every
padding case occurs; two segments are what one needs to share a section, nest, or conflict; four
sections leave one outside the segments; `MAX_SIZE` 2 lets a buffer be appended to in place and
by growing. In `tables`, three symbols take both swaps of an arrangement, the one after the scans
moved and the one where they did not; two of the three names share a bucket, and a hash but for its bit 0, which a GNU run uses as its end mark; its filter
lets through the names of the table only, or every name; a type of 5 against
`BYTE` 4 is cut; the hash section and relocations with addends, which do not touch, are not
combined (`HashOrAddends`). `Numbers` 1 and 23 fit a field and overflow it (`BASE` is 4, a word less
than 16); the sections `Existing` begin with entries of their own: notes with and without padding,
attributes between empty strings, dynamic entries with a null one last.

Two windows bound the inputs: `BELOW_SEGMENTS` FALSE leaves out of `elf` sections at addresses
below their segment (`claim_layout` has them), and `FOREIGN_DYNAMIC` FALSE leaves out of `tables`
dynamic entries added to a 32-bit file of the other byte order, which are converted as 64 bits and
then cut (`elfio_dynamic.hpp:238`). `SegmentsMapSections`, `LoadFindsSections` and `SaveAgainKeeps` are
about files `validate()` accepts, and about loaded segments whose sections are all in memory.

Each property of each run has a mutant in `PROJECT.json`: a definition of the model changed as
a plausible error would change the code (a dropped mask, the wrong forward first, a lane off by
one, a carry kept), under which TLC finds that property violated in that run. The operators
marked `Mutant:` in the modules are those changed forms; no other definition uses them.

### Statements the code does not keep

Each `claim_` run checks one property, of `Claims` or of `ElfFile`, which says what the repository
says, and TLC finds it violated.

| Run | Statement | What happens |
|---|---|---|
| `claim_operands` | decode has "collected the correct value for both source operands" (`docs/source/uarch/dec.rst:76`) | a csr read two instructions behind its write executes with the old value (`dec.sv:199`); `PhantomRd` and `PhantomCsr` are other ways to the same |
| `claim_vector` | `test_env_call_u_mode.s` writes `mtvec` and traps in the next instruction, expecting the new handler | the trap jumps through the flop, one edge early |
| `claim_mode` | the two instructions behind a redirection "must be flushed" (`docs/source/uarch/exe.rst:24`) | an `mret` or `sret` in the shadow changes the privilege mode (`exe.sv:268`) |
| `claim_byte` | "The core is a RV32I" (`README.md:4`) | `lb` from offset 1, 2 or 3 takes the sign of the first byte of the word (`lsu.sv:31`) |
| `claim_layout` | "abort! section_align would turn out negative, seeking backwards and overwriting previous data" (`include/ELFIO/elfio/elfio.hpp:803`) | the difference of a section's address and a higher one of its segment is unsigned, wraps, and passes the test: the save succeeds and overwrites |

## 5. Proofs

`tlapm` proves the theorems from the named assumptions of the modules they are about, and from
nothing else. Every run of the core evaluates those of `KlawPkg` and `Program`, and `bench` those of
the testbench too; all hold of the 32-bit core.

* `KlawPkg`: `XLEN` is 4, 8, 16 or 32 and `BYTE^4 = 2^XLEN`, `BYTE` even; register addresses are
  words and include 0; the gates are closed on words, with zero neutral for OR and the word of ones
  for AND; the csr constants are in range.
* `Program`: instructions are well formed, `Text` is non-empty at every address, the reset vector is
  a word, memory is initially full of words.
* `Loader`, `Testbench`: `Garbage` is a non-empty set of words; a file is a sequence of sections of
  words and symbols (`FilesAssumption`); every word encodes an instruction and the word 0 the illegal
  one; `MAX_CYCLES >= 2` (the source has 100000), since the count is 3 when the reset ends.
* `ElfSymbols`: hashes are numbers, `BYTE` is positive.
* `ElfObject`, `ElfFile`: the header and the entries of the tables take some room; what a user adds has a
  name, alignments and addresses that are numbers, and lists of cells and of indices (`KindsAssumption`).
  A file of another tool has a name for each of its sections and no part of it is in another
  (`LinkedAssumption`).
* `ElfEntries`: `BASE` is at least 3, so that the tags used are positive in a word (the source has 256), `ALIGN` positive; what is added fits the widest field, and the
  length of a name or description a word; a field has no equals sign, which is what separates it
  from its value; a section holds the cells of its kind; a string table has data. `EntriesInit` takes
  the sections the accessor's documentation is about: of note sections those whose notes are whole, and
  of dynamic ones those whose needed entries name a string of the table; a number of an entry fits the class of the file.

| Theorem | Module | Statement |
|---|---|---|
| `TypesHold` | `CoreProofs` | `Spec => []TypeOK` |
| `PipelineConsistent` | | `Spec => []PipelineInv` |
| `BranchShadowIsNeverForwarded` | | `Spec => []BranchShadowForwardsNothing` |
| `SelectionsAreOneHot` | | `Spec => []OneHot` |
| `TrapBusStaysQuiet` | | `Spec => []TrapBusIsQuiet` |
| `SquashedLeaveNothing` | | `Spec => SquashLeavesNothing` |
| `OperandsAreInOrder` | | `Spec => OperandsInOrder` |
| `StreamInOrder` | `CommitProofs` | `Spec => []StreamInv` |
| `CommitsInstructions` | | `Spec => CommitsInstruction` |
| `WordsFetchedExecute` | | `Spec /\ KeepsDistances => ExecutesFetched` |
| `CoreImplementsIsa` | | `Spec /\ KeepsDistances => ImplementsIsa` |
| `BenchTypesHold` | `BenchProofs` | `BenchSpec => []BenchTypeOK` |
| `TestOperandsInOrder` | | `BenchSpec => OperandsInOrder` |
| `MemoryIsExecuted` | | `BenchSpec => ExecutesMemory` |
| `TestsRunTheirMemory` | | `BenchSpec => RunsItsMemory` |
| `TestsAreSequential` | | with `TestKeepsDistances`, every cycle is a step of `Isa` on the memory, or a stutter |
| `LogIsOfCommits` | | `BenchSpec => LogTellsCommit` |
| `VerdictsAreNear` | | `BenchSpec => VerdictIsNear` |
| `VerdictsAreFinal` | | `BenchSpec /\ []KeepsOffLabels => VerdictIsFinal` |
| `LeftShift`, `RightShift` | `DatapathProofs` | the stages of the shifter multiply, or divide rounding down, by 2^(amount mod `XLEN`) |
| `StoreMergeType` | | replacing the lanes of a store in a word leaves a word |
| `SymbolsArranged` | `ElfSymbolsProofs` | `SymbolsSpec => []ArrangementInv` |
| `SymbolsSplit` | | `SymbolsSpec => LocalsComeFirst` |
| `RelocationsKept` | | `SymbolsSpec => []RelocationsKeepSymbols` |
| `SymbolsFound` | | `SymbolsSpec => []SymbolsAreFound` |
| `ElfTypeIsOK` | `ElfFileProofs` | `ElfSpec /\ SavesUpwards => []ElfTypeOK` |
| `FileHasNoOverlap` | | `ElfSpec /\ SavesUpwards => []FileIsDisjoint` |
| `LoadGivesBack` | | `ElfSpec /\ SavesUpwards => LoadRestores` |
| `EntriesReadBack` | `ElfEntriesProofs` | `EntriesSpec /\ ~FOREIGN_DYNAMIC => []ReadsBack` |
| `ViewsAreCurrent` | | `EntriesSpec /\ ~FOREIGN_DYNAMIC => []ViewIsCurrent` |

`FOREIGN_DYNAMIC` is a constant of the model, FALSE in the run too. Four theorems on the core and its testbench have a
hypothesis about the program, and those on files one about the user. `KeepsDistances` is what the windows of section 3
ask for; it is a property of the run `forwards`, so its programs, with branches, traps, returns,
stores and resets anywhere, satisfy it. `TestKeepsDistances` is the same for a test.
`KeepsOffLabels` says where a program stands and not what lies in front of the labels. In
`sw/user/exit.s` zero words lie there, which trap: a test jumps to its labels, so it keeps the
hypothesis by never standing on those words, and one that falls towards them traps at the first of
them, eight words ahead of `_bad`. It is an invariant of the run `bench`, whose programs store to their
own code, run into the labels and into the empty words. Without it `VerdictIsFinal` is false: a jump
in the word just before a label ends the test although it is about to be taken; `VerdictsAreNear` is what
remains then. `SavesUpwards` is a property of the
run `elf`, where it holds of every object built from its lists, loaded and built upon again; without it
the theorems are false, as the counterexample of `claim_layout` shows.

*Types.* `DatapathProofs` bounds each unit's result from the ranges of its operands;
`PortTypes` does it for the decoder ports, and `ExeTypes`, `TrapTypes`, `DecTypes` and
`BanksTypes` lift this through the wires of each stage. `TypeOK` is inductive.

*Control.* `SquashLeavesNothing` is not inductive, and does not follow from types: that an edge
which completes nothing leaves `ArchPc` alone needs to know that the branch and the trap flags
are not both set, that no redirection starts inside a flush, that an empty execute stage cannot
branch or write, and that the flags decode masks are those of the word beside them.
`PipelineInv` is exactly that strengthening, in three parts: `ResetDrains` relates the two
delayed copies of the reset and empties the stages until the first edge, `RedirectsOnce`
orders the four redirection flags, and `FlagsAreDecoded` ties the masked flags to the word. It
is inductive given `TypeOK`; `ZeroInstrIsIdle` and `IdleUnits` show that the zero word of the
reset drives nothing.

*One-hot.* `OneUnit` follows from the shape of the table; `ReasonTellsName` shows that each
reason to trap determines the class of the instruction, so two reasons cannot meet. A masked
unit returns address 0, which is aligned: misalignment needs the unit enabled.

*Trap bus.* An instruction that traps either has no unit enabled, or the branch or
load-store unit, and none of them drives the csr bus: `TrapsDriveNothing`.

*Operands.* The value program order asks for, `rf_nxt` and `csr_nxt` after the edge, is the one the
instruction in execute or the one writing back leaves (`RegistersNext`, `CsrsNext`);
`RegisterForwarded` and `CsrForwarded` show that the forwards choose it in the same order, outside
the windows. `OneSource` and `OneTerm` say that of the ORed terms of decode one at most is not zero;
`SignBitExtends`, `Complements` and `ClearComplements` that the extra bit and the complement are
those of the value. The two operands then meet in `OperandsHandedOver`.

*Effects.* `StreamInv` says that execute holds a word of the program at its own address, and that its
flags are those of the word while it is not squashed. `CommitsInstructions` then splits by class:
`Compares` derives every comparison, signed or not, from the borrow of a subtraction on XLEN+1 bits
(`ComplementIsZero` for the operand 0, whose complement leaves no carry); `BranchAgrees`,
`AluAgrees`, `ShifterAgrees` (by `LeftShift` and `RightShift`, each stage a halving or a doubling),
`LoadAgrees`, `StoreAgrees` (lanes as quotients and remainders, `LaneOf`, `LineRead`), `CsrAgrees`;
`TrapAgrees` and `CauseAgrees` show that the chain of priorities finds the cause of the machine.
`RegistersCommit`, `CsrsCommit`, `MemoryCommits`, `ModeCommits` and `PcCommits` are the five
variables of `Isa`.

*Refinement.* With `KeepsDistances`, `OperandsInv`, operands in program order for whoever is about to
complete, becomes an invariant: `OperandsInOrder` gives each step. `CoreInv` joins it to types,
control and stream. An edge that completes is then a step of `Isa` for the word fetched, one that does
not is a stutter (`SquashedStutters`), and `ResetMaps` maps a reset at any instant to the `Reset` of
the machine, with the store it may interrupt already in memory or not (`InterruptedStore`).

*Testbench.* Each step of `BenchNext` is one of the core, or loads the file while the core is in
reset, so the invariants of the core carry over (`BenchControl`). `BenchTypeOK` needs `LoopInv`: the
core is in reset until the loop starts and not after, and a countdown that runs has not reached zero.
`LoadRamType` and `LoadLabelsType` show that what a file leaves are words. `MemoryIsExecuted` and
`TestsRunTheirMemory` rest on `FetchInv`: fetch holds the word the memory holds *now*, and execute
too unless the instruction directly ahead stored to it; it is inductive because the loop stores before
it fetches, and breaks when the two are swapped. `LogIsOfCommits` ties the `VALIDATION` flops, which
are one edge behind execute, to what the instruction did (`LineOfCommit`, `NothingToLog`).

*Verdicts.* The test ends on a fetch address. `FetchIsNear` places the program by it: it stands
at the address fetched, or one or two words before it, at the words in fetch and decode that are still
to be executed (`WordsBefore`, `TwoWordsBefore` find the address back through the wrap of the address
space). That is `VerdictsAreNear`. For `VerdictsAreFinal` those words must be straight ones.
`KeepsOffLabels` says so of the memory, unless they are themselves at a label; `NotAtLabel` excludes
that, since the test would have ended when they were fetched, and `FetchInv` says that what fetch
and decode hold is what the memory holds. `StraightGoesOn` shows what the name `Straight` claims: the
sequential machine does not trap on such a word, whatever the registers hold, and goes on to the next.

*Symbols.* `ArrangementInv` is inductive together with two facts, in `IInv`: `NullFirst`, the
first symbol is the null symbol, without which the scans, which start at index 1, would say
nothing of index 0; and `StringsOK`, the string table has a size, which types the names. With
`IInv`, `LocalsComeFirst` is a matter of one step, `Scanned`. `RelocationsKeepSymbols` is inductive
given `IInv` at both ends of a step: between the callback and the swap a relocation points where
its symbol is about to be (`Target`), so the callback must map both indices at once and the swap
must be of two different symbols of the table, which is what `IInv` knows. That the value stays
the same rests on `SwappedKeepsMeaning`: an entry read and written back with another symbol
loses upper bits of its type once (`ModTwice`), and an addend only where the section has none.

*Lookups.* A hash chain is followed by a recursive function. That this function is defined, and
what it ends with, is proved by least counterexample: a set of numbers that is not empty has a
least member (`LeastNat`, from the library's theorem that `<` is well-founded on `Nat`), so a walk
on which a bounded rank decreases exists (`WalkExists`) and stops inside any part of the table it
does not leave (`WalkStops`). `HashInv` gives the ranks: a chain of the SysV section goes down
(`Descent`), a run of the GNU section goes up to an entry marked last (`Ascent`), and neither leaves
the table it was written for, of which the present one is an extension. So a stale section may
miss a name, but what it gives is a symbol whose name the code has compared, and what it misses is
found one by one (`NamesAreFound`). `ValuesInv` says that values are distinct, since each is the
length of the table at the time, but for the null symbol and the first one.

*Objects.* `FileInv` says that `obj`, if there is one, is an object (`IsObject`), and that the file, if there
is one, is that of the object in `saved`, in writes that do not overlap. Of the user's calls,
`SectionAdded` is the hard one: the name is put in the table of names, which may be the very section that is
added, and the names that were there must be found where they were (`ObjectAdded`); `FilledIs`,
`SegmentAdded` and `DataAdded` are the others.

*Layout.* Each of its passes over a list (the order of the segments, the segments, the sections of one,
the sections of none) is a recursive function. That it exists is shown by induction on how far it has got
(`FrontPassExists`, `WorkPassExists`, `PlacingPassExists`, `SegmentsPassExists`, `LoosePassExists`), and what it
keeps in the same way. The invariant has two parts. `LaidOut`: the object is the one the layout started from,
but for places and for the addresses that were not given. `Placed`: what is already placed lies between the
tables at the head of the file and the position, each section apart from the others. A step of the layout
leaves both as they were or puts one more section behind the position (`PlaceSectionIs`, `PlaceOne`). That needs
the alignment not to be negative: if no place is given it is a remainder, and if one is, `Passed`
ends the layout, but only where the section is not below its segment. Hence `SavesUpwards`, which the proof
carries from the object before the save to the state in which the section's turn comes (`UpwardsIs`). A section
with a segment must not be forgotten: the worklist that orders the segments always has an outermost one, since
the longest is inside none (`OutermostIs`), and puts each in the order once (`RestIs`, `OrderIs`), so all those
that are left for the last pass are the sections of no segment (`LayoutAllLooseIs`). `ArrangedIs` puts the passes
together: header, segment table, contents, section table, in this order.

*Files.* `FileIs` says that the writes of a file are those of `FileWrites`, in a list that does not overlap if no
two of them do; `WritesAre` derives this from `Arranged`. When nothing overlaps, what is read at the place of a
write is what was written (`ReadBack`), so the header gives the tables, their entries the sections (`SectionRead`)
and the segments (`SegmentRead`), and the table of names, read first as a section without a name, the names
(`LoadedIs`). The one condition of the code under which contents are not read, `size < FileLength`, is met since
the contents lie behind the header (`HeadApart`).

*Entries.* `ReadsBack` is about a reader that starts anew on the section, so an addition has to be shown
harmless to all that is read before it. `EntriesInv` says for each kind what the cells of the section
are and that `added` is what a reader finds in them. Notes and attributes are found by going through
the section: a *trail*, of which `TrailExists` says that the recursive function which walks it is defined
(by least counterexample, as for hash chains), and `TrailGrows` that cells added behind its end leave it
and make it longer by one. For notes the trail is that of `NoteBounds`, the places where notes
start and end; `NoteLaid` and `NoteOf` read the three lengths and the padded strings of a note back from
the bytes it was put together from, `NoteKept` that later notes leave them. Attributes are cut at the
first equals sign, which is the one `AttributeAdded` put there since a field has none. A number is
read back because digits reversed twice are the digits (`ReversedTwice`, from two levels of exchanged
halves, and `ConvertedTwice`). Dynamic entries end at the first null entry, which hides those added
behind it: `NumWhole` and `NumGrows` say how the count moves, and `StringAdded` that a string table only
grows. For a view that has been kept open, `DynamicInv` and `NoteInv` say what it remembers: a
count that may be behind, so its entries are a prefix, or the very starts of the trail.

**Only model-checked:**

* `KeepsCommitting`, `EveryTestEnds`, `ArrangementEnds`: liveness under fairness is beyond the prover.
* `SignatureAfterCodeEnd` depends on what the program does behind its end label (the runs wait there
  in a loop); no condition of the testbench forces it.
* `SegmentsMapSections`, `LoadFindsSections`, `SaveAgainKeeps`: they hold of segments that share sections
  only because `validate()` accepts the file, and would need the distances between all the sections of a
  segment, not only that these are apart.
* `SavesUpwards` and `KeepsOffLabels` are hypotheses about what a user or a program does.
* What becomes of dynamic entries added to a 32-bit file of the other byte order (`FOREIGN_DYNAMIC`):
  they are cut after the conversion, so `ReadsBack` is not to be had of them.
* The bit-level behaviour of the gates, which `MCBase` gives to TLC, is a parameter of the proofs.

## 6. Not modelled

* The bit patterns of the decoder table and the scattering of immediates: instructions are records.
* The testbench's messages, waveform and statistics file. A file is given by the sections ELFIO
  finds in it; the two models do not share a file format.
* `checker.py` and `run.py`: regular expressions over two text files, launching of processes.
* ELFIO: address translators, the encoding of headers, the data a segment keeps for itself, the
  reader of version requirements (`versym_r`), setters that store one header field, dump,
  constants, the C wrapper and the examples.
* What a save that fails does to the object beyond the layout so far; memory that runs out.
* Software, compliance plugins, the synthesis flow.
* Timing: edges are atomic, and the reset is either before or after an edge.

## 7. Plan

1. Package, decoder, datapath, stages, `Core`; types; the windows; the sequential machine and
   the refinement; claims; the theorems on types and control. *Done.*
2. The stages of the shifter; `Loader` and `Testbench` composed with `Core`. *Done.*
3. ELFIO: sections, objects, files, symbols, entries; the theorems on the arrangement. *Done.*
4. Proofs: operands, effects of an instruction, the refinement; the testbench: types, memory,
   log, verdicts, and a test as a sequential machine; the entries of the other tables; objects,
   their layout, and what is loaded from a file. *Done.*
5. Proofs that are left: `SegmentsMapSections`, from an invariant of `PlaceSections` that keeps the distance of a
   section to its segment; the address that `SignatureAfterCodeEnd` waits at, for programs that
   keep the like of `KeepsOffLabels` at `rvtest_code_end` too.
6. The sixteen-bit patterns of the table against the RV32I encodings, as sets of words; the
   comparison of two logs, the truncation of `zip` included.

## 8. Reproducing

```
tlc -workers 2 -config MCForwards.cfg MCForwards.tla     # likewise for each MC*.cfg
tlc -workers 2 -config ClaimByte.cfg MCClaims.tla        # likewise for each Claim*.cfg of the core
tlc -workers 2 -config ClaimLayout.cfg MCElf.tla
tlapm DatapathProofs.tla                                 # likewise for CoreProofs, CommitProofs,
                                                         # BenchProofs, ElfSectionProofs,
                                                         # ElfSymbolsProofs, ElfEntriesProofs
                                                         # and ElfFileProofs
```

Each run takes at most two minutes, the proofs some minutes.
