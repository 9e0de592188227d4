# TPDE in TLA+

A verification project for TPDE, a framework for fast single-pass compiler
back-ends, and for the LLVM back-end built on it. TPDE compiles one function
after the other. For each it analyses the control-flow graph, then walks over
the instructions once; registers are allocated, values spilled and code is
emitted in the same pass, and the parts of the code that depend on later
decisions are patched at the end.

Everything is sequential. What makes it hard is state that many small
operations share (register file, value assignments, reference counts, stack
slots), whose users are free to call them in any order, and decisions that are
taken before the facts they depend on are known (saved registers, frame size,
the order in which blocks are compiled against the order in which they are
executed).

## Inventory

| Component | State | Operations | What makes it correct |
|---|---|---|---|
| Register and value bookkeeping (`CompilerBase.hpp`, `ValuePartRef.hpp`, `ValueRef.hpp`, `ScratchReg.hpp`, `RegisterFile.hpp`, `AssignmentPartRef.hpp`) | owner and lock count of each register; register, modified bit, spill slot, reference count of each value; handles held by the instruction compiler | create, lock, load, allocate, salvage, move and drop handles; evict, spill, calls, returns | a register belongs to at most one part and both agree; no value is lost or read from a stale place; nobody loses a register in use; assignments are freed exactly once |
| Eviction heuristic (`select_reg_evict`) | none | choose a victim by score | never fails while some register can be evicted |
| Stack slots (`allocate_stack_slot`, `free_stack_slot`) | frame size, free lists | allocate, free | live slots are disjoint, aligned, inside the frame |
| Phi moves (`move_to_phi_nodes_impl`) | nodes, ready list, waiting set, temporaries | order the moves of an edge, break cycles | the moves are a parallel copy and leave no trace on the path around them |
| Liveness analysis (`Analyzer::compute_liveness`) | interval, reference count, common loop per value | visit definitions, uses, phi edges | the interval covers every block in which the value is needed |
| Block order and loops (rest of `Analyzer.hpp`) | layout, loop tree | reverse post-order, loop identification, layout | loops are contiguous, dominance respected |
| Branches and block boundaries (`spill_before_branch`, `compile_block`) | as the bookkeeping, per block | spill before branches, release after, free at the end of a value's last block | every edge brings values where the target expects them |
| Function frame (`gen_func_prolog_and_args`, `gen_func_epilog`, `finish_func` of both targets) | reserved room, return offsets, clobbered registers, frame size | reserve, patch, cut off | the caller's registers are restored; unwinding works |
| Calling conventions (`CCAssigner`) | next registers, stack offset | assign arguments and results | no two arguments share a place |
| Assignment allocation (`ValueAssignment.hpp/.cpp`) | slabs, free lists | allocate, free, reset | no assignment is handed out twice |
| Function writer (`FunctionWriter*.hpp`) | labels, fixups, veneers | place labels, branch, patch | each branch reaches its label |
| Object file assembler (`Assembler`, `AssemblerElf`) | sections, symbols, relocations, unwind tables | create sections and groups, define symbols, relocate, write exception tables, build the file | the file defines what the module says; the unwinder finds each landing pad |
| JIT mapping (`ElfMapper`, `JITMapper`) | mapping, symbol addresses, registered frames | map, look up, reset | references lead where they should; mapped once, unmapped and deregistered once, also after failures |
| Utilities (`util/`) | vectors, bit sets, slabs | | containers keep what was put in |
| LLVM front end (`tpde-llvm/src`) | value numbering, symbols of globals, fused instructions | adapt IR, lower instructions, emit globals | references are taken as often as the analyzer counted them; emitted code computes what LLVM defines |
| Snippet encoder generator (`tpde-encodegen`) | none at run time | | |

Components call each other as follows. `compile_func` runs the analyzer, opens
the frame, compiles the blocks in layout order and closes the frame.
Instruction compilers (the LLVM front end has one handler per instruction) use
handles, which use the register file; evictions need stack slots; branches use
the phi moves; the analyzer's reference counts and intervals decide when handles
and blocks free values; the registers marked as clobbered decide what the frame
saves. Handlers and the frame hand symbols, relocations and call sites to the
assembler, whose sections become an object file or are mapped into memory.

## Modules

| Module | Models |
|---|---|
| `RegAlloc` | register and value bookkeeping |
| `StackFrame` | stack slots |
| `PhiMove` | phi moves, with `ScratchWrapper` and `SmallBitSet::first_set` |
| `BlockOrder` | reverse post-order, loop identification, loop tree, layout: operators on a control-flow graph |
| `Liveness` | `compute_liveness` for one value, on the result of `BlockOrder` |
| `BlockFlow` | composes both with the compilation of blocks and branches, and runs the result |
| `FuncFrame` | function frame of x86-64 and AArch64 |
| `FuncWriter` | text writer of AArch64 functions: labels, fixups, veneers |
| `IntOps` | what the emitted code of integer instructions computes on whole registers, and what LLVM defines |
| `LLVMLower` | the instruction and intrinsic handlers of the LLVM back-end, with fusing |
| `ModuleIR` | the part of an LLVM module that its object file is about |
| `ElfObject` | sections, symbols, relocations, object file |
| `EhTables` | `.eh_frame`, `.gcc_except_table`, LEB128, and their readers |
| `ElfMap` | `ElfMapper`: layout, PLT and GOT slots, relocation, protection, registration |
| `JitModule` | composes these with the parts of `CompilerBase` and `LLVMCompilerBase` that emit globals and references; `compile_to_elf`, `compile_and_map`, life of the `JITMapper`s |
| `UnwindSpec` | abstract specification: what a JIT promises of exceptions; `JitModule` refines it |
| `MCRegAlloc`, `MCStackFrame`, `MCPhiMove`, `MCBlockFlow`, `MCFuncFrame`, `MCLLVMLower`, `MCJitModule` | instances for TLC |
| `RegAllocProofs`, `RegAllocContent` | theorems about `RegAlloc`: references, ownership and locks; contents |
| `StackFrameProofs`, `FuncFrameProofs`, `FuncWriterProofs` | theorems about `StackFrame`, `FuncFrame` and `FuncWriter` |
| `PhiMoveProofs`, `PhiMovePlaces`, `PhiMoveCopy` | theorems about `PhiMove`: order and references; places; contents |

An operator named `Op_fault`, or `Op_` with another ending, is a faulty variant
of `Op`. No action uses it; the
mutants of `PROJECT.json` put it in place of `Op` to see that the properties
notice.

### RegAlloc

Every public operation of `ValueRef`, `ValuePart`, `ScratchReg` and
`CallBuilder` is an action that may happen whenever the asserts of the code
allow it, so an instruction compiler is any sequence of them. Next to the
bookkeeping the module tracks what the *generated* code has put into registers
(`regHas`) and spill slots (`memHas`): `ContentSound` says that a part is where
the bookkeeping says it is. `own[r] = Free` stands for an unused register,
`reg[p] = NoReg` for a clear register-valid bit; the code never reads the
owner or the number in these cases. `lock` are the lock counts, `st`, `refs`
and `delay` the life of an assignment, `vref`/`pref`/`hreg`/`scratch` the
handles. Which unlocked register `select_reg` evicts is left open, so the
properties hold whatever the eviction score prefers. A fixed register is the one
that `select_fixed_assignment_reg` takes (`FixedCandidates`): callee-saved in a function
that makes calls, preferably another one in a function without (`may_emit_calls`).
`MayEmitCalls` are the kinds of functions of an instance, `FixedMask` the registers
never handed out as fixed ones. `release_spilled_regs` and
`compile_func` are there so that several blocks and functions follow each other.

Handles are used correctly: no handle outlives its `ValueRef`, and
`alloc_specific` is called for a part without a register (see Observations).

### StackFrame

`free` is the union of the free lists, `live` the slots handed out. Padding for
alignment is a closed form (`Pad`); an assumption of `MCStackFrame` (`PadIsLoop`)
compares it with the loop of the code, written recursively there. A request of 0 bytes changes
nothing in the code and is left out.

### PhiMove

One behaviour is one call of `move_to_phi_nodes_impl`: `Init` chooses the edge
(back edge or first edge into a block), the incoming values and where all values
are. `Collect`, `Break`, `SavePart`... are the steps of the function, `reset` and
`alloc_from_bank` those of `ScratchWrapper`. `Read`, `Store` and `rc`/`mem` are the
code that is emitted. On a back edge the phis are freed at the end of the block
only (`Pending`), which is what `last_full` is for. Phis have the same number of
parts, and no incoming value is a variable reference.

### BlockOrder, Liveness, BlockFlow

`BlockOrder` and `Liveness` are operators. `build_block_layout(g)` takes a graph to
the layout, the loops and their tree; walks with an explicit stack in the code
are recursions with a state record. `compute_liveness(an, v)` folds `visit` over
the visits of a value in the order in which the analyzer makes them: phi edges
when the block of the phi is reached, its uses when theirs are.

`BlockFlow` goes through four phases for one value, which is enough because values
meet only in registers and slots: whatever the compiler has not given to the
value is overwritten by other code (`takereg`, `takemem`). *layout* chooses a graph,
*liveness* a value: an instruction result or a phi, its uses and the phi edges it
flows along. *compile* goes over the blocks in layout order with one assignment,
as `compile_block` does: definition, use, an eviction or none (that choice, and
that of a fixed register, is left open), `spill_before_branch`, the moves of each
edge in the order `generate_conditional_branch` emits them, `release_spilled_regs`,
delayed frees. *run* takes the branches: `mach` says whether register and slot hold
the latest definition. `FreedEarly` marks the values of the early free described
under Findings; `AllowEarly` says whether they are chosen.

### LLVMLower

A program is built instruction by instruction and then compiled by one action
per handler (`compile_load`, `compile_icmp`, `compile_br`, `compile_call`, `intrin_fsh`,
...). The list `use` of what a handler emits are its calls of `val_ref`, each of
which counts `refs` down; `val` is what the emitted code has in registers, including arbitrary bits above a value's width. Instructions that
are compiled together (a comparison and its branch, an extension and its load,
a `gep` and its load or store, ...)
are marked in `fused` as the code does, with its conditions. Values that are not
integers of at most 64 bits are opaque: for them only references and control are
modelled. `compile_switch` emits the real search: linear, jump table or bisection.
`Deviates` lists what the code is known to get wrong (see Findings); `LowBits` and
`EffectsRight` do not speak about the values behind such an instruction.

### ElfObject, EhTables, ElfMap, JitModule

The assembler, a mapper and the operating system are records, methods are
operators on them. `JitModule` compiles modules, one after another, with one
compiler: `compile` declares symbols, `hook_post_func_sym_init` initialises data,
`compile_func` emits a function or fails, `compile_end` finalises; constructors of
equal priority come in any order, as the `std::sort` of the code is not stable; then
`compile_to_elf` or `compile_and_map`. `compile_and_map` fails where `mmap`, `mprotect` or
a relocation out of reach does; the resolver is any of `Resolvers`, with answers
near, far and null. `destroy` ends a `JITMapper` at any time. `os` has the mapped
ranges, memory and registered frames.

`Unwinds` is the refinement `INSTANCE UnwindSpec WITH loaded <- ..., catches <- ...`:
`loaded` is computed from the live mappers, `catches` is what the modelled unwinder
reads from registered frames, byte for byte, for a throw through each call. It is
a variable that every step recomputes where `os` or `mappers` change, which only
saves TLC time.

### FuncFrame

The compiler's actions (`EmitBody`, `mark_clobbered`, `allocate_stack_slot`,
`gen_func_epilog`, `finish_func`) build `text`, a map from offsets to abstract
instructions with their sizes, and the frame description `cfi`. The loops of
`finish_func` over the saved registers are maps, in which the registers before
one (`Below`, `Above`, `Lower`) say where its instruction is and which slot it
uses. Then the function is called: `ExecPush`... execute it on registers and stack. The body
overwrites every register it was said to clobber, all bytes of its stack slots
and everything below the stack pointer, and jumps to any later instruction or
return. Offsets without an instruction are padding, zeros or the inside of an
instruction; running into one violates `CodeIntact`.

### FuncWriter

The parameters are how far branches reach (`TestReach` and `CondReach`, 4 << 13 and
4 << 18 in the code) and the sizes that decide when memory is reserved, so that small
instances have far branches. `wr` holds the
section's storage (`size`, `cap`) and the writer (`off`, `growth`, unresolved
counts, `veneers`); the actions pass it, together with `text`, through
`ensure_space` as often as the code does. `text` has only branches and veneer
slots, with the label they are meant for. `finish_func` starts the loop of
`handle_fixups`, `handle_fixup` is one turn of it and `handled` counts the turns;
the assertion that fails there, if any, is kept in `failed`. `wr.chunk` is a history
variable, the largest reservation of the function. It serves to state
`NearSuffices`: below a branch's range all is well, and the findings show that above it is not.

## Runs

| Run | Instance | Properties |
|---|---|---|
| `regalloc_sharing` | functions with calls; two values, two registers, two handles of each kind, up to two references | owners agree (`OwnerConsistent`), locks are accounted for (`LockAccounting`), a handle keeps its register (`HandleStable`, `LockedStays`), reference counts (`RefsAccounted`), `NoValueLost`, `FixedBounded` |
| `regalloc_calls` | functions with and without calls; a value of two parts, a variable reference, a scratch register, a callee-saved register, calls | `ContentSound`, `TempSound`, `ArgsIntact`, `SavedIfUsed` |
| `stack_slots` | six request sizes, frames up to 72 bytes, three live slots | `SlotsDisjoint`, `InFrame`, `Aligned` |
| `phi_moves` | three phis of one part, two of two or three parts, another value, a constant; two banks, one fixed register | `ParallelCopy`, `PlacesKept`, `RefsUsed`, `Asserts`, `Terminates` |
| `block_flow` | all graphs of four blocks with up to two successors, some of five; every value with up to two uses | `LayoutRight`, `IntervalRight`, `AssertsHold`, `UsesRead` |
| `func_frame` | three callee-saved registers on x86-64, three of each bank on AArch64, frame sizes around 4095, three instructions or returns | `CalleeRestored`, `CodeIntact`, `FrameRight`, `UnwindX64` |
| `func_writer` | branches that reach 32 and 64 bytes, sections that grow to about 80 bytes, two branches of any kind, two function starts | `WithinReserve`, `BranchesLead`, `NearSuffices`, `OverwritesOnlyBehind` |
| `llvm_lower` | both targets; registers of 8 bits (4, 3 and 2 for the narrower types); every instruction alone, programs of up to four that may fuse | `RefsPending`, `NeededDefined`, `DefInBlock`, `LowBits`, `EffectsRight` |
| `object` | two of fourteen modules, pages of 64 bytes, 16 section indices before the reserved ones, scaled relocation ranges | `ObjectRight`, `ImageRight`, `FramesLive`, `Unwinds` |
| `unwind_a64` | AArch64 functions, as in `func_frame` | `UnwindSound` is violated |
| `icmp128_a64` | one unsigned comparison of 128 bits | `Compares128` is violated |
| `lsda_sleb` | a module with a landing pad of 33 clauses | `CleanupsRun` is violated |

Known faults that the passing runs leave out have configurations that show them; the
property in the last column is violated within seconds:

| Configuration | Instance | Violated |
|---|---|---|
| `BlockFlow_early.cfg` of `MCBlockFlow` | a loop of one block, values with the early free included (`AllowEarly`) | `UsesRead` |
| `PhiMove_long.cfg` of `MCPhiMove` | 66 phis, words of 64 bits, one exchange | `Asserts` |
| `FuncWriter_large.cfg` | as `func_writer`, with reservations larger than the reach of a test branch | `VeneerFound` |
| `FuncWriter_behind.cfg` | the instance of `func_writer` | `NothingOverwritten` |
| `FuncWriter_far.cfg` | the instance of `func_writer` | `FarBranchesLead` |
| `JitModule_again.cfg` of `MCJitModule` | the instance of `object` | `NoLargeIndexLeft` |

The violated properties are statements of the code's own comments, assertions and
documents. `FixedMask` is empty in both instances of `RegAlloc`: with two
or three registers a mask leaves nothing to hand out.

Why the bounds are enough. Two values that want the same register, two handles
to one value, and one register more than is needed are what the interleavings of
`RegAlloc` depend on; calls add one argument, one result and one callee-saved
register. Three phis have chains, a two-cycle with a third reader, and
three-cycles; three registers are fewer than the temporaries and values need.
Four blocks hold nested, disjoint and irreducible loops, critical edges and
unreachable blocks; the five graphs of five blocks add nests of three levels,
loops behind loops and larger irreducible ones. Two uses are a use and a later one on another path. Three registers
per bank give odd and even numbers of saved registers in both banks. The frame
sizes lie below, between and above the points at which instruction sizes and
rounding change. In `FuncWriter` a region is used up by one branch and the other
lies behind it, or both share a region, and reservations are smaller and larger
than the range of a test branch. In `LLVMLower` the widths keep their order, with
one that is no power of two and one of a single bit, so each extension is needed
by some case; four instructions are the longest chain that fuses. In `JitModule`
the second module finds what the first left behind, in the compiler, in memory
and among the registered frames; the modules have landing pads of every shape,
all kinds of data and comdats, more sections than ordinary indices, and
references in and out of reach.

Fairness is assumed only in `PhiMove` (`WF_vars(Next)`): the function is
sequential code that keeps running. `block_flow` (with
`BlockFlow_early.cfg`), `llvm_lower` and `icmp128_a64` do not check for deadlock: their
behaviours end when the function has been compiled and run. All other runs do.

## Findings

- `unwind_a64`: entries of the frame description name the wrong registers, and
  every second saved register has none.
- `icmp128_a64`: comparisons of 128-bit integers on AArch64 compare the low halves,
  subtract the high ones with borrow, and then test conditions that use the zero
  flag, which speaks of the high halves only; x86-64 swaps the operands instead.
- `lsda_sleb`: `sleb_write` looks for the sign in the value that is left instead of
  the byte it writes, so that 64 to 127 read as negative. With 33 clauses the
  cleanup of a landing pad is not found.

The remaining ones are shown by the configurations without a run:

- `BlockFlow_early.cfg`: `update_for_loop` (`Analyzer.hpp:801`) sets `last_full` only if the end
  of the interval moves. If the first visit of a value is already in the last block
  of a loop it is live around (a phi whose first slot is the back edge; a result that
  flows into phis of two headers from their common latch), it stays false: the value
  is freed between the moves of the back edge, and a later move of the same branch may
  take its place. `block_flow` leaves these values out (`FreedEarly`).
- `PhiMove_long.cfg`: `SmallBitSet::first_set` returns `i + cnt_tz` for word `i`, so with more
  than 64 phis a cycle is broken at a node that is not waiting. `phi_moves` and the theorems
  have `N <= WordBits`.
- `FuncWriter_large.cfg`: a test branch emitted into a reservation larger than its range
  may end up without a veneer (`FunctionWriterA64.hpp:69`). A reservation is as large as
  the expected size of the function or the free capacity of the section, hence often
  larger. `NearSuffices` of `func_writer` is about smaller ones.
- `FuncWriter_behind.cfg`: a branch directly behind a region whose slots are all used takes
  the end of the region, which is the branch itself, for a slot (`lower_bound` in
  `FunctionWriterA64.hpp:104` compares with `>=`). `OverwritesOnlyBehind` of `func_writer`
  shows that this is the only such case.
- `FuncWriter_far.cfg`: a far backward branch computes its distance before
  `ensure_space(2 * 4)`, which may insert veneers, so that it misses its label
  (`CompilerA64.hpp:1722`, `1769`, `1865`). `BranchesLead` excepts these branches
  (`FarBehindRegion`).
- `JitModule_again.cfg`: `AssemblerElf::reset` keeps `local_shndx` and `global_shndx`; the module
  after one with more sections than ordinary indices ends in an assert of
  `build_object_file` (phase `assert` of `JitModule`). `ObjectRight` says nothing of it.

`Deviates` of `LLVMLower` lists lowerings whose results depend on the upper bits of a
register: shift amounts narrower than five bits, and the index of
`extractelement` and `insertelement` with a number of elements that is no power of
two; and the comparisons of `icmp128_a64`.

What the models rely on or show in passing:

- The test for a use in a nested loop (`Analyzer.hpp:820`) also holds for a deeper
  loop *before* the loop of the interval. The interval of a phi may then be smaller
  than the loops around it; `IntervalRight` shows that it still has every block in
  which the value is needed.
- `alloc_specific` on a part that already has a register would leave that register
  marked as used, although its comment says the register is discarded.
- `cur_fixed_assignment_count` is not decremented when an owning handle gives up a
  fixed register (`FixedBounded` is an inequality for this reason).
- The eviction score prefers the nearer last use, where the comment above it says
  the farther one.
- `ElfMapper::reset` keeps `registered_frame_off`; `FramesLive` holds because it is read
  only while something is mapped. Symbols the resolver answers with null are
  accepted and called. An alias to an alias that the module lists before it stays
  undefined; the modules of `MCJitModule` have none.
- An integer of 64 bits passed with an extension attribute has `ext_bits` 0
  (`CompilerBase.hpp:483`) and runs into the assert at `CompilerBase.hpp:572`.

## Proofs

Theorems hold for every value of the constants that satisfies the named assumptions
of the modules (`RegAssumption`, `ValueAssumption`, `HandleAssumption`,
`RequestAssumption`, `PhiAssumption`, those of `FuncFrame` and `FuncWriter`), which TLC evaluates
for the instances. Each inductive invariant was an invariant of a TLC run on the
instance of the module before it was proved.

**Register and value bookkeeping.** `RegAllocProofs` shows `RefsAccounted`. The
inductive invariant `RefInv` adds the types of the life-cycle variables only. One
lemma per operation says what it does to the references of a value; most do not
touch them.

It also shows `OwnerConsistent`, `LockAccounting`, `HandleStable` and the
action property `LockedStays`. None of them is inductive: that an eviction takes
nothing away from anybody depends on who may have locked a register, this on which
part a handle is for, and this on the life of the assignment. `CoreInv` therefore
has two halves. `LinkInv` says that a handle is empty, a temporary, or refers to a
part of the value of its `ValueRef`, and that this value is live. `RegInv` says of
each register that it is free, held by one temporary, or owned by one part; in the
last case the part knows the register, and its lock count is the number of handles
that locked it, plus one if it is fixed. The operations differ in what they change
and agree in how: a step empties the registers `D`, does something of its own to `T`
and changes the handle `h` (`Moves`); `MovesOK` shows once that such a step keeps
`RegInv` if it does right on `T`, and every operation is an instance of it.

`RegAllocContent` shows `ContentSound`, `NoValueLost`, `TempSound`, `ArgsIntact`,
`SavedIfUsed` and `FixedBounded`. `ContentInv` gives each register a condition
(`RegContent`: it holds what its owner believes) and each part one (`PartContent`:
it is in its spill slot unless modified, and nowhere only if it is undefined or the
one handle that owns the value gives it up). `PartsMove` is the counterpart of
`Moves` for contents, `ContentStep` the lemma behind all operations. `FixedInv`
counts the fixed parts of a bank: only a result with a fixed register, freeing an
assignment and the start of a function change counter and parts together; all other
operations at most give up a fixed part without telling the counter
(`FixedShrinks`).

**Stack slots.** `StackFrameProofs` shows `TypeOK`, `SlotsDisjoint`, `InFrame` and
`Aligned` for frames and requests of any size and both directions of frame offsets.
They are proved together: a new slot is disjoint from the old ones as these lie
below `frame_size`, a reused one because it was on a free list and in no other
place. The lemmas compute with `align_up` and show that the pieces of the padding
are disjoint and lie between the old and the aligned frame size. `AlignEnoughAlways`
shows that a slot is as large and aligned as requested.

**Function frame.** `FuncFrameProofs` shows `CalleeRestored`, `CodeIntact`,
`FrameRight` and `UnwindX64` for any sets of callee-saved registers, frame sizes up
to what the assertion of `finish_func` admits (`FrameSizeAssumption`), and bodies of
any length, on both targets. The proof has three parts. While the body is emitted
(`EmitInv`), its instructions and the rooms of the epilogues lie behind the room of
the prologue and apart from each other. From this `finish_func` makes `CodeX64` or
`CodeA64` (`StartX64Code`, `StartA64Code`): the pushes, pops, pairs and padding are
where their sizes put them, and nothing overlaps or is cut off; on AArch64 this needs
that each row of pairs has one register that opens it (`RowOwn`) and that padding
ends where the body starts (`SkipIs`). Then the code runs, and `FrameInv` says that it
is at one of the stages of `StageX64` or `StageA64`. A stage such as `AtPush(D)` says
that the registers `D` have been saved, which slots hold them, and that the others
are untouched; the next instruction is that of the first register not in `D`
(`NextUp`, `NextDown`, `NextRow`), so no induction over the loop is needed. There is a
lemma for each stage. That the body cannot destroy a saved register is `BodyStepX64`
and `BodyStepA64`: the slots it writes lie beyond `Base`, calls write below the stack
pointer.

**Function writer.** `FuncWriterProofs` shows `WithinReserve`: the position of the
writer never passes the section, nor the section its storage, whatever the
reaches, the capacity and the growth. `WriterInv` says so between the steps; the
lemma on `ensure_space` shows that the room it makes includes the veneers it may
insert first, so that whoever calls it may write what it asked for.

It also shows `BranchesLead`, `OverwritesOnlyBehind` and `NearSuffices`. What they
say of a complete function depends on every region that was inserted on the way, so
`LayoutInv` describes the text as a whole: region `k` begins at some `B[k]` and has
`N[k]` slots, and `veneers[k]` points at the first of them that is unused. `Layout`
says where regions, branches and references lie, that a region has a slot for each
reference between it and the region before that is still to be handled, and, if
reservations are small, that a region is within reach of the branches it serves;
`B` and `N` are bound, as the code does not store them. The lemmas show in turn:
`more_space` inserts a region for exactly the branches it counted or was right not
to (`EnsureLaid`, with the arithmetic of `Reachable`); the region that `lower_bound`
finds is the one meant for a branch and has a slot left, or the branch lies directly
behind a region that is used up (`Serving`, `FreeSlot`); a turn of `handle_fixups`
keeps the layout for the references that are left (`FixTurn`). The last two give the
exception of `OverwritesOnlyBehind`: no hypothesis rules it out, as it happens.

**Phi moves.** `PhiMoveProofs` is about the order. The nodes left form a graph in
which each has one edge, to the phi it reads, and `ref_count` is the in-degree, but
for the phi in the temporary. If no node is ready every one is read by another;
there are as many edges as nodes, so each has exactly one reader: only cycles are
left, and the temporary is free (`OnlyCycles`, `CyclesLeft`). This gives the
assertion before a cycle is broken (`CycleRight`), that a phi is written after its
readers have read it (`ReadFirst`), and, counting references along, `RefsUsed`. The
theorems assume `N <= WordBits`, since `first_set` finds a waiting node in its first
word only (see Findings).

`PhiMovePlaces` shows `Asserts`. `PlaceInv` is the bookkeeping of `RegAlloc` as the
moves use it, with what a `ScratchWrapper` took away: that part has no register, is
on the stack and is known to no other wrapper. On a forward edge the phis have no
place until they are moved, and no wrapper displaces them; on a back edge they keep
theirs.

`PhiMoveCopy` shows `ParallelCopy` and `PlacesKept`, the two promises of the
function. `CopyInv` says of every point during the moves where contents are: a value
that may still be read has its old one, wherever the bookkeeping says it is
(`ContentInv`); the phi that broke a cycle is in the temporary (`SavedInv`); a phi
that has been moved has its new one (`PlacedInv`), at the place the code behind the
edge expects (`HomeInv`). `ReadFirst` is why no phi needs both. `RoleInv` says that
places are not shared: a slot has one owner among values, the temporary and the free
ones; a fixed value never leaves its register; a wrapper knows the place and state
to give back (`AroundInv`, which at the end is the claim about the path around the
moves). No wrapper that is reset on the way holds a part of the phi in the temporary
(`Unused`).

Only model-checked, and why:

- `Terminates`: liveness.
- `BlockOrder`, `Liveness`, `BlockFlow`, `EhTables`, `ElfMap` and `JitModule` (with
  the refinement `Unwinds`) rest on recursive operators and `LLVMLower` on bitwise
  ones, which the prover cannot use.
- The violated properties are refuted by their runs (see Findings) and have no theorem.

## Not modelled

- Encodings of single instructions and the snippets generated by
  `tpde-encodegen`: bit patterns without state. `LLVMLower` takes a snippet for what
  its C function computes.
- The snippet generator itself: it runs at build time over LLVM's machine code.
- Names and string tables, ELF constants, CFA instructions except those of
  `FuncFrame`, debug values, logging, command line tools.
- The eviction score: any evictable register may be chosen in `RegAlloc`.
- `CCAssigner`, jump tables of the writer, floating-point results, the adaptor's
  value numbering.
- Containers, the bump allocator and the free lists of `ValueAssignment`: their
  state is memory addressed by pointers.
- In `BlockFlow`: switches, which make the same calls as branches, and the forced
  spill of `invoke`. Variable references as incoming values of phis.

`PROJECT.json` lists every component with its status.

## Plan

1. Proofs: a measure that every step of the phi moves decreases (what `Terminates`
   rests on, as an action property).
2. `CCAssigner` of both targets against a reference definition.
3. `FuncWriter`: jump tables and the x86-64 writer.
