# Symphony C compiler: a TLA+ model

This directory specifies parts of the Symphony C compiler in TLA+, checks them
with TLC on small instances, and proves some of what TLC checks with TLAPS. The
repository holds two compilers for the same machine: the Python compiler under
`symphony/`, and the self-hosted one under `selfhost/`, written in the C it
compiles, which boots on the machine itself and talks to its host through
persistent storage. `gcc-backend/` ports GCC and a small binutils to the target.

To run: `tlc -workers 2 -config X.cfg M` for a row of the table of runs below,
`tlapm` on `DestructProofs.tla`, `SelfHostedProofs.tla`,
`ProjectReaderProofs.tla`, `LinkerProofs.tla`, `HeapProofs.tla`,
`DominanceProofs.tla`, `NativeEmulatorProofs.tla` and `Lemmas.tla` for the proofs.

## Inventory

| Component | State it keeps | Operations | What is hard about it | What makes it correct |
|---|---|---|---|---|
| `middle/analysis/cfg.py` | successor and predecessor lists of blocks, rebuilt from terminators and block order | `build_cfg`, `reachable`, pruning | fallthrough is a matter of position: moving a block changes the program | edges agree with what the backend will execute |
| `middle/analysis/dominance.py` | visiting order, `idom`, frontiers | postorder, the idom iteration, frontiers, natural loops | a fixed point over a half-built tree, irreducible graphs | immediate dominators, frontiers, single-entry loops |
| `middle/ssa/construct.py`, `module.py` | phis, name stacks | phi placement, renaming | undefined paths, unreachable blocks | every use sees the reaching definition |
| `middle/ssa/destruct.py` | pending copies, edge copies, trampolines | coalescing, sequentialization, edge splitting | lost copies, swaps, displaced fallthroughs | the rewritten function computes what the SSA function does |
| `middle/ssa/sccp.py` | lattice values, executable edges, worklist | visiting blocks, rewriting | order of the worklist, values that become constant again, undefined operands | same observable behaviour, for every order; ends |
| `middle/ssa/simplify_cfg.py` | - | pruning, threading, erasing branches, jumps, labels, to a fixed point | decisions taken on a CFG that is being changed, phis whose edges go | same observable behaviour, well-formed SSA, ends |
| loop passes (`hoist`, `evaluate`, `unroll`, `induction`, `loop_memory`) | loops, skipped headers, traces, names of copies, `function.values` | code motion, evaluation, cloning, strength reduction | order of what is moved, register pressure, trip counts, ways out of a loop, renaming of what is read behind it, aliasing | same observable behaviour; each ends |
| `strength.py`, `divmod.py` | constants known so far, `function.values` | shifts and masks for powers of two, paired divisions | zero, one, operands exchanged | same observable behaviour |
| scalar passes (`copies`, `dce`, `value_numbering`, `algebra`, `fuse_branches`) | value maps, use counts, required sets | rewriting | uses by phis, availability across blocks | same observable behaviour |
| `inline`, `tail`, `calls`, `parameters` | call graph | splicing bodies, loops for self calls | recursion, argument overlap | same observable behaviour |
| `compiler.py`, `optimizations.py` | function under optimization, toggles | the pass pipeline, its fixed point | what one pass leaves to the next, with any pass off; passes that undo each other | `verify` accepts every output; ends, within its limit |
| `allocate.py`, `prepare_frame` of `backend.py` | live ranges, interference, webs of copies, homes | liveness, merging of webs, colouring, spilling | live across calls and back edges, parameters that are written again, webs merged one after the other | no value is lost to another that shares its register |
| the rest of `targets/symphony/backend.py` | registers and slots | prologue, argument moves, instructions into their homes | permutations of registers, argument registers that are homes, the scratch registers | every instruction finds its operands |
| `targets/symphony/assembler.py`, `isa.py` | code bytes, fixups, relaxed sizes | encoding, branch relaxation | size feedback | branches in range, relaxation ends |
| `runtime/helpers.py` | heap: block headers, address-ordered free list, end | `malloc`, `free`, `calloc`, `realloc` | wraparound, splitting, coalescing, the stack as the other user of RAM | disjoint allocations that keep their contents |
| `selfhost/src/main.c`, `compiler.c` | DCC1 control block and output record (persistent), tables and buffers (RAM) | validate, read, preprocess, compile, write, report, run | resets, out of memory anywhere, hosts that poll | a reported result is whole, everything is freed, every request is answered |
| project reader (`compiler.c`, `project.py`) | position, error | reading DCP1 | hostile lengths, arithmetic that wraps | stays inside, agrees with the packer |
| `selfhost/src/target/.../backend.c` | code buffer, fixup tables | bytes, constants, patches, layout of globals | two encodings, patches that borrow the position | patches land where they belong, full buffers are noticed |
| selfhost lexer, parser, sema | tokens, node tables | recursive descent | tables at their limit | - |
| `selfhost/src/frontend/preprocessor.c` | conditional stack, macros, active files | directives, includes | nesting, skipped groups | conditionals balance |
| `frontends/c/preprocessor.py` | macros, active groups, files read | the same directives, on the host | a second implementation of one language | agrees with the self-hosted one |
| `emulator/machine.py` | registers, RAM, screen, keyboard, clock | one instruction at a time | wrapping, writes to `zr`, the several ways to stop | the instruction set |
| `emulator/native.py`, `native_emulator.c` | a table of decoded instructions, a copy of the registers, the limit of a chunk | decode once, execute in chunks | code that stores over itself, chunks that end inside an access | takes the steps of `machine.py` |
| `symphony_as.py` | sections, symbols, relocations | two passes over the statements | sizes decided twice | both passes agree |
| `symphony_ld.py` | included objects, wanted symbols, stubs, the image | archive search, layout, stubs, relocation | two nested fixed points, addresses that move when a stub is added | the image runs as the source says, everything named is there |

How they interact: the Python pipeline hands one IR module from the frontend
through SSA construction, the passes (each of which reads a freshly built CFG
and dominator tree), and destruction, to the backend and the assembler, all in
one thread. Hazards there are of order and staleness inside an algorithm, not of
concurrency. The self-hosted compiler is a concurrent system of two parties, the
machine and its host, that share persistent storage, and the machine can be
reset at any time. The heap is linked into every compiled program and into the
self-hosted compiler.

`PROJECT.json` lists every component with its status, and the hazards at their
lines.

## Modules

**`ParallelAssign`, `ParallelCopy`** - `_sequentialize`.
`pending` is the dictionary, `ready` the list a round computes, `store` the
values of the registers the emitted copies run over (a copy is executed when it
is emitted, so that `store` at the end is the effect of the sequence). Dictionary
order is left open: `EmitReady` takes any ready pair and `BreakCycle` any
pending one, so the results hold for every insertion order. `ParallelAssign` is
the abstract specification: one step that does all assignments at once.

**`Cfg`** - operators only: `build_cfg`, `reachable`, dominance by paths,
`Verified`, what `verify.py` accepts, and `Reconciled`, the dropping of phi
operands whose edge is gone. Other modules choose their input programs with it.

**`Destruct`, `MCDestruct`, `DestructProofs`** - `destruct`. The rewrite is an operator, `Output`;
the behaviours run the SSA function and `Output` of it side by side, with any
result for an instruction and any outcome for a branch (the same on both sides),
each side with its own storage and its own place. An edge's copies are one
simultaneous assignment, which is what `DestructProofs` proves of the
emitted sequence. `phase = "edge"` is the moment between leaving a block and
entering the next, where a trampoline may run.

**`Allocate`, `Registers`** - what becomes of the rewritten function in the
backend. `Allocate` has operators for `interference_graph`,
`copy_coalescing_groups` and the homes `prepare_frame` gives out (a register, or
the negative of the value's number for a slot). `Registers` adds a third side to
the two of `Destruct`: `homes`, and `machine`, the contents of the homes. Its
actions are those of `Destruct` with what the emitted moves do to the registers
in between: `Prologue` brings parameters in, `AtBinary` and `AtCall` put operands
and arguments in place, `Executed` loses the caller-saved registers at a call.
Here the copies of an edge are in the order `_sequentialize` emits them. The
registers are scaled down: five for arguments (seven in `abi.py`), of which
two are homes and the last serves for addresses, and one callee-saved home, so
that values are spilled, and arguments passed on the stack, in small functions.

**`Execution`** - operators only: what an SSA function does on an input, in
words of two bits. `Outcome` is what is observed of it (calls with their
arguments, the result, and whether it ended), `Allows` when one observation is
acceptable in place of another: an undefined value may become any value.

**`SimplifyCfg`, `Sccp`, `Passes`** - the scalar passes as functions from
programs to programs: `simplify_cfg.py` loop by loop, `sccp.py` with one
operator for a visited block (`Visited`) and one for the rewrite, and `copies`,
`algebra`, `strength`, `value_numbering`, `fuse_branches` and `dce`, each of which
is one walk.

**`Loops`, `Evaluate`, `Unroll`** - the loop passes, one on top of the other.
`Loops` has natural loops as `find_natural_loops` gives them and `hoist.py`
(`Invariants`, `Hoisted`), with the liveness of `profitability.py` behind its
register budget (`PeakLive`). `Evaluate` runs a loop at compile time
(`EvaluateBlock` is a turn of `_run_loop_region`) and writes what it leaves as
constants. `Unroll` copies a loop along its trace (`Traced`, `UnrolledTrace`) or
as a graph (`Plan`, `ClonedLoop`), as `unroll.py` decides (`Unrolling`). A label of a copy,
a name with a suffix in the code, is a number with a digit appended.

**`Optimizer`, `MCOptimizer`** - the part of `Compiler.finish` that calls these
passes, with `verify` where the code has it, the toggles of `optimizations.py`, and
the laps of `_optimize_loops_to_fixed_point`. `fn` is the function now, `values`
its next SSA value, `expected` what it did before the first pass, `enabled` the
toggles, `lap` and `changed` the loop fixed point. An action is one pass, except
that SCCP takes its blocks one at a time in any order (the code has a stack; the
results then hold for a queue too), `simplify_control_flow` is one action for each
of its loops, the hoister is one action for each loop, and evaluating and
unrolling are two, one that finds out what becomes of a loop and one that rewrites. A pass that is off
is passed over (`Upcoming`), as `_optional_optimization` does. An exception of the
code (`verify`, SCCP's lookup of a label, the unroller) ends in phase `"raised"`.
The code unrolls a copy of the module and may go back to the original when
the image has grown; the model goes on with the copy.

**`Dominance`, `DominanceProofs`** - one action for each step of the depth-first visit (`Descend`,
`Retreat`), one for each block processed by the idom iteration (`Process`), and
`EndPass`. Frontiers, `dominates` and loops are operators over the result. The
properties define the same notions by paths.

**`Allocator`, `Heap`, `HeapProofs`** - the C heap. `size` has every header, `free` is the
list, `end` the break, `sp` the stack pointer, `memory` the contents of words and
`live` what the program holds. Actions are calls of a program that uses the heap
properly. `Allocator` is the abstract specification.

**`Lemmas`** - facts about numbers, recursive functions and sequences the proofs share.

**`ProjectReader`, `MCProjectReader`** - the reader of DCP1 in `compiler.c`, and
`decode_project` of `project.py` over the same words. One action is one word of
the header or one record of a loop, and `AllocateTables` is between the two. A
ghost, `touched`, has the addresses loaded, and `skipped` whether an oversized
length was passed over.

**`BootCompiler`** - `main.c` and the driver, the host and resets. `pc` walks
through `main`, `dyn_compile_project`, `dyn_compile_buffer` and back; `blocks`
has the state of every allocation; `record`, `outLen` and `status` are persistent
and survive `Reset`. One persistent store is one action. What is compiled is a
number of words that carry the name of their request, so that stale words show.

**`Emitter`, `MCEmitter`** - the code buffer of `backend.c`. `todo` is the stack
of helper calls still to be made for the current piece, so that a patch nests in
emission the way the C calls do; `output` marks every byte with its owner, and
`stage` is the part of `dyn_emit_image` that runs.

**`Macros`, `Preprocessor`, `HostPreprocessor`, `MCPreprocessor`** - the two
preprocessors. `Macros` has the macro table of `preprocessor.c`, the expansion of
a line and the value of a condition; `Preprocessor` is the machine around it: one
action starts a translation unit, one processes a line, one ends a file, and
`stack` has the files being processed, each with its conditional groups.
`HostPreprocessor` is `preprocessor.py` as a function of the project. The code has
one error flag; `phase` tells what is not allowed (`"refused"`) from what does not
fit (`"exhausted"`), because the two have to agree on the first only. A token
is one character, so that a buffer's room is a number of tokens.

**`Isa`, `Machine`, `Emulator`, `NativeEmulator`, `NativeEmulatorProofs`, `MCNativeEmulator`** - `isa.py`
as operators from instructions to bytes; what one instruction does (`Stepped` of
`Machine`, from `machine.py`); the loop of `Machine.run` around it (`Emulator`, one
action); and the native emulator. There `table` has what was decoded at each
position, a store clears the entries it may have changed, and the actions follow
`run_chunk`: `fetch` and its tests, then `dispatch`. `Emulator` is the abstract
specification, over the same memory, queues, steps and reasons to stop; what one
instruction does is a parameter of it (`Stepped`, `Raises`, `StopRequested`,
`AtHead`), for which `NativeEmulator` puts in the operators of `Machine`.

**`Assembler`** - the assembler of the compiler, with `build` of `backend.py` around
it. `asm` is the object: code, labels, fixups and the controls (branches and calls
whose size is open). `Emit` lays everything out with the long forms, one action
looks at one control, one ends a round, and `Rebuild` and `Finish` move and patch.

**`GccAssembler`, `Linker`, `LinkerProofs`, `MCLinker`** - the binutils of the GCC port. The
assembler is a function from statements to an object (pass 1 lays out, pass 2
encodes); the linker is a machine: one action looks at one member of an archive,
one adds a round of stubs, one applies a relocation. `MCLinker` has the programs,
what they say in so many words (`Meaning`), builds those without archives `Assembler` too, once linking has ended, and runs every image on `Machine`.
`StubsAsNeeded` and `SizesMirrorCode` are about any objects and any statements, so
that they stand in `Linker`; `Registers` and `Literals` are what the instructions of
GCC's output may have for operands.

## Runs

| Run | Question | Bounds and why they are enough |
|---|---|---|
| `parallel_copy` | is the emitted sequence the simultaneous assignment, finite | 4 values, every map: cycles of 2 and 3, two cycles, chains into and out of cycles; the proofs cover every size |
| `destruct` | are copies on their edges, blocks in place, values kept, in storage and in registers | every graph of 4 blocks whose blocks are all reachable, with phis that swap two variables on every edge: a critical edge needs 2 blocks with 2 successors or predecessors, a displaced fallthrough one more. Functions that read a value nothing writes, of which `backend.py:424` makes a `KeyError`, are left out. All operands of a self loop and of a diamond, undefined included, and of a while loop that keeps the precondition of coalescing. And straight code: direct calls of five and six arguments, one more than there are argument registers, indirect calls, and chains of binary instructions |
| `indirect_call` | does an indirect call reach its target | finding, below |
| `optimizer` | do the passes keep what a function does, for which reasons does the driver raise, do the passes and the laps end | with all passes on, about 100 diamonds and 130 loops with a computed branch condition, constant, parametric or undefined operands; 50 repeated products; 100 products, quotients and remainders by 0 to 3; 40 loops that only count, with the test in front or behind; 40 whose invariants are in the order of the text or not, or raise the number of live values; 8 nested loops; 46 loops to unroll, of one block or with a branch in it that skips a call or leaves the loop (also with only SCCP or copy propagation beside the unroller). Seven of these under every single pass and every omission of one. And verified graphs of 4 blocks (entry ending in a branch, blocks that are empty, of which none, one or all call, a distinct operand for every phi edge) under `cfg_simplification` alone: chains of two empty blocks, both ways of a branch through different chains, loops, unreachable blocks. Inputs are three pairs of two-bit words; runs are compared for 10 blocks, which is three rounds of the loops. IterationLimit is 2 (8), InstructionLimit 16 (1024), UnrollLimit 2 (4), RegisterBudget 3 (8): small enough for loops on both sides of each. LapLimit is 64 as in the code; no lap after the second changes anything. Values stay below NV = 24 |
| `dominance` | is the iteration right and finite | every graph of 4 blocks with up to 2 successors; irreducible loops need 3 |
| `heap` | tiling, coalescing, sizes, contents; does it implement the abstract allocator | 64 addresses (integers wrap there), a heap from 8 up to a stack at 44 or 60, sizes that split, fill exactly, do not fit and wrap; enough room for three blocks, so that a free one has free neighbours on both sides |
| `project_reader` | bounds, agreement with the host, allocation failures | up to one root or definition and two files, every word corrupted by every interesting value, eight truncations, headers with nothing after them, and for packed projects memory that runs out; integers wrap at 128, so that a length near the top is a length the corruptions write |
| `boot` | safety of the protocol, and is every request answered | two requests, one reset, images of up to 2 words, output regions of 3, 4, 6, 8, 10 and 12 bytes: whole words and not, smaller than the length word, than the failure record, than the image, exact, larger. `Answered` excepts the two places where the code may stay for ever: where it walks through a null table (`pc` is `"wild"` or `"wild_emit"`), and where it pads an image in a buffer that ends inside a word (`"padding"`), which takes a region whose capacity is not a multiple of 4 |
| `emitter` | layout, does emission end | two pieces of code, up to two globals (a byte, an aligned double word, a pointer), buffers of 20 and 60 bytes: does not hold, and holds, in both encodings |
| `native_emulator` | does the native emulator take the reference's steps, is its table fresh, does it stop | programs of up to 4 instructions in 16 bytes of RAM, in both encodings, so that an instruction can store over the next one or over itself and wrap around the end; words of 16 bits, the least an immediate fits; a load address inside and beyond RAM; chunks of 2 and 3 steps and none; limits of steps that fall in a chunk, at its end and behind it |
| `linker` | do the images of the linker and of the compiler's assembler run as written, is everything named and nothing stubbed without need, do the passes agree, does it end | four units with calls, jumps, address constants, data, pointers and `.bss`, as objects or as members of one or two archives in either order, in both encodings; Reach is 90 where the tool has 0xFFFF, so that targets lie on both sides, a stub pushes one across and a round of relaxation brings one back. Jumps have addends that keep them near, push them beyond Reach or below zero. The assembler builds at addresses 0 and 44, and position-independent code that is loaded at 20. The images run for up to 160 steps in 512 bytes of RAM. The sizes are compared for every mnemonic and form with two registers and with literals at both ends of a word and below it |
| `preprocessor` | do the two preprocessors agree, do groups nest | 6,340 projects: every sequence of conditional directives up to a length, every pair of operators in a condition, object macros with cycles, macros with parameters, definitions only the host has something against (`LooseDefinitions`, the exception in `SameTokens`), headers found in two places, included twice and in a circle. WordBits is 8, MaxDepth 4 (64), MaxParameters 2 (8), OutputSlack 10 (4096), MaxSource 100 (1048576), MacrosPerFile 2 (4), MacroSlack 2 (16): small enough for each of the limits to be hit |

`CHECK_DEADLOCK FALSE` is set where the modelled thing ends (a compilation, an
emission, a rewritten function that returns) or where nobody has to call (heap).

Fairness. `_sequentialize`, the dominance iteration, the optimizer and the
emitter are sequential code that runs until it returns: weak fairness on their
step, and none on what they are given; so are the linker and the native
emulator. `Optimizer` and `MCLinker` write it out as
`[]<>(~ Running) \/ []<><<TRUE>>_vars`, with `Running` for `ENABLED <<Next>>_vars`,
which TLC would have to compute from the passes themselves; under `[][Next]_vars`
the two say the same. Which block SCCP visits next stays open. The boot compiler runs while the machine is on
(`WF(Machine)`), and a machine that was reset is started again (`WF(PowerOn)`):
step 5 and 6 of the boot sequence in PROJECT-FORMAT.md. Nothing is assumed of the
host, and nothing of code that went through a null pointer (`WildReturns`,
`WildEmitReturns` are unfair).

## Findings

One has a run of its own:

1. An indirect call keeps what it calls in `flags` while its arguments are moved
   (`backend.py:1141`), and a cycle of moves among the argument registers is broken
   through `flags` too (`backend.py:562`): run `indirect_call`. In
   `f(x, y, p) { return p(y, x, ...) + 1; }` the target is lost. `SafeCalls` keeps
   such calls out of `destruct`.

Four were met in the run `optimizer`, whose properties name them as the only
exceptions. The passes of the repository, called on the same functions, behave so.

2. SCCP looks the destination of a branch up by its label instruction
   (`sccp.py:219`). Control-flow simplification erases a label that nobody
   mentions, `evaluate_constant_loops` (`evaluate.py:197`) jumps to the block by its
   canonical label all the same, a later jump threading makes a branch name it,
   and the next SCCP ends in a `KeyError` (`LabelLost`):
   `if (x) h(); else { unsigned i = 0; do i++; while (i < 3); g(); }`.
3. What `hoist.py` moves out of a loop comes in the order of the blocks in the text
   (`hoist.py:138`), so that a value may come before the one it reads; `verify`
   refuses the function (`HoistedOutOfOrder`).
4. Unrolling a loop of one block is an `IndexError` (`unroll.py:119`), because the
   trace of an iteration leaves the header out (`UnrollerFails`).
5. The unroller renames too little. Along a trace the header's own items are not
   copied, and the phis of a block are renamed one after the other (a swap is
   lost); of a graph everything behind the loop sees what the last iteration
   leaves, also past a `break`, and the first block of the text is fallen into; on
   either way a phi behind the loop with an operand from another block that reads a
   value of the loop keeps it. `verify` refuses some of these functions and
   accepts others that compute something else. `IsCopied` is the condition, and
   `miscopied` remembers that a loop without it was unrolled.

Others follow from the modules without a run of their own.

In the Python compiler:

- Coalescing in `destruct` (`destruct.py:89`) gives a parameter's storage to a
  phi without asking whether the parameter is still read, and the comment at
  `destruct.py:72-74` says that it is not. `CoalescingIsSafe` is the condition;
  functions without it, which `verify` accepts, violate `SameOperands`.
- The first block of a function that is jumped back to is not treated as a
  join (`dominance.py:92`). `FrontiersExact` says so in its premise.
- An erased branch leaves its operand in the phis of its destination
  (`simplify_cfg.py:183`), and the next `verify` raises. It takes a destination
  that is also the branch's own target. `StaleOperands` of `RaisesForKnownReasonsOnly`
  is this case; a loop unrolled as a graph with SCCP off is another.
- A branch whose target is the very next block has one successor (`ir.py:49-51`),
  and looking for the other one raises a `TypeError` (`simplify_cfg.py:179-180`)
  where the phis of the two ways are compared. `Erase` of `Optimizer` raises too;
  the lowering makes no such branch, and no function of the run has one there.
- `_thread_jumps` (`simplify_cfg.py:71`) never ends on a ring of two or more
  empty blocks that jump to each other (`a: goto b; b: goto a;`) entered by an
  explicit jump: every round redirects the entering edge once more.
  `HasRing` keeps such functions out of the run.
- Globals are aligned before branches shrink (`backend.py:1281, 1286`). In the
  variable-width encoding a branch or a call shrinks by 11 bytes, so that an `int`
  may lie at any address, where README.md:155 has natural alignment. Memory
  accesses need none, and `RunsAsWritten` holds.
- The preprocessor of the host refuses every condition that begins with `!`
  (`preprocessor.py:186, 192`), joins numbers that stand side by side, evaluates
  conditions with Python's precedence, chained comparisons and unlimited signed
  integers, and expands the arguments of a macro twice.

In the self-hosted compiler:

- A project table that cannot be allocated is walked all the same
  (`compiler.c:86-100`), and a table of the emitter is written all the same
  (`backend.c:857, 892`): the points `"wild"` and `"wild_emit"` of `BootCompiler`.
- A length above 0xfffffffc is skipped silently (`compiler.c:46`), where
  PROJECT-FORMAT.md:60-61 has an error; `AcceptsOnlyProjects` excludes it by
  `skipped`.
- Padding loops never end in a full buffer whose capacity is not a multiple of
  4 (`backend.c:59, 975`): `PutByte` and `PutAlign` put bytes that do not move the
  position. Nothing in `main.c:39-51` asks for whole words,
  so that a request may bring this about and is then never answered: the point
  `"padding"` of `BootCompiler`, which `Answered` excepts by name. The run
  `emitter` has buffers of whole words.
- `#define (x) y` defines nothing, and writes in front of the
  macro table (`preprocessor.c:418-419`): phase `"wild"` of `Preprocessor`.
- Two files of one path are accepted (`ReadFile` compares no paths;
  PROJECT-FORMAT.md:60 calls them an error).
- `output_byte_length` is 8 for every failure, also when the output region is
  too small (`FailPosition`; PROJECT-FORMAT.md:95-96 promises the required size).
- Where its preprocessor differs from the host's: both operands of `&&` and `||`
  are always evaluated; a macro that names itself is bounded by depth in a
  condition, not left alone (C-SUPPORT.md:36-37 says it is); a macro with
  parameters is not expanded in the replacement or the argument of another; the
  scan of arguments ignores quotation marks; the suffix of a number is looked up
  as a macro; a definition without a value is empty; a lone `#` is refused; a
  header is also found by its bare project path; what follows the name behind
  `#ifdef` is not stripped; the names of `-D` are not checked, nor what stands
  behind the name of an `#include`. The projects of the run stay clear of these.
- It accepts definitions the host refuses (`preprocessor.py:293-295, 304,
  308-309`): without a name, with a name or a parameter that is no identifier,
  with a comma behind the last parameter, with `#` or `##` in the replacement.
  `LooseDefinitions` has one of each kind, and `SameTokens` excepts them by name.

In the tools:

- The native emulator and `machine.py` disagree on one instruction: a jump in the
  fixed-width encoding that is taken into its own four bytes. `_step_symphony`
  moves on to the next instruction, the native one goes to the target.
  `Comparable` leaves such programs out.
- The linker computes what is wanted once per round through an archive, so that
  two members that define one wanted symbol are both included and the link fails
  with a duplicate symbol; symphony_ld.py:6-9 says that a member is included
  if something still undefined needs it. Of two members of one archive whose
  units have one name (the stem of the source's path) only the first is ever
  included (`symphony_ld.py:96`), although the second is needed too:
  `JobsAssumption` of `Linker` excludes such archives. Local names of two objects
  collide if the units have one name. A second `.zero` behind a named one in `.bss`
  overlaps the symbol that follows. Objects of different encodings are noticed only
  if their units have different names (`symphony_ld.py:125`; `LastOfUnits`).

## Proofs

`DestructProofs` proves of `ParallelCopy`, for every number of values `Count` and
every set of `Contents`:

- `Invariance`: `CopySpec => []IInv`;
- `Correctness`: `CopySpec => []ParallelResult`, that the emitted sequence computes
  the simultaneous assignment when the loop is done;
- `Refinement`: `CopySpec => RefinesParallelAssign`.

`ParallelResult` alone is not inductive: it speaks of the end. `IInv` says what
holds on the way. `PairsServed`: a pair that is pending can still be served, its
(possibly replaced) source holding what the pair's source held at the start, and
a pair that is not has its final value. `OthersKept`: a value of the function
that is no destination has not changed. `BatchIsFree`: a destination in the
batch being emitted is read by no pending pair but its own, which is what the
comment at `destruct.py:39-41` is about and what makes the next copy harmless.
The proof has one lemma for each action; `BreakCycle` needs the most care,
because it introduces a value that is not among the function's own. The
assumption `CountAssumption` says only that `Count` is a natural number.

Of `Destruct` it proves `PlaceTheorem`, `Spec => []SamePlace`, for every function
that satisfies `WellFormed`: blocks with names of their own, jumps into the
function, and an end that control does not run past (`ProgramsAssumption`, which TLC
evaluates for the programs of both runs). `PlaceInv` adds what holds on an edge: the
place is the block the edge leads to or the trampoline of an edge to it. Jumping
or falling along an edge lands there because of what `Output` is, whatever sets of
edges are critical (`OutputIs`): at every place there is a block of the function,
with its fallthrough successor or the trampoline to it behind, or a trampoline;
each block and each explicit edge's trampoline is somewhere; and no trampoline has
the label of anything else. The concatenations `Output` is made of are
opened up by `FlattenParts` of `Lemmas`. The run checks `SamePlace` under `RSpec`,
whose steps are those of `Spec` with the moves of the backend added; a theorem
cannot be stated of it, because the fixed point of `Allocate` is recursive.

`SelfHostedProofs` proves four properties of the run `boot` for every number of
requests and resets, every size of image and region and every choice of
allocations that may fail: `SuccessTheorem` (`SuccessIsComplete`), `ProgramTheorem`
(`RunsWhatWasCompiled`), `FreedTheorem` (`EverythingFreed`) and `RegionTheorem`
(`RegionKept`). None of them is inductive, because each speaks of what a reader
sees at some point, and what is there was put there in many steps and survives
resets. `IInv` has three parts. `Answering` is about storage: success is seen only
while nothing is being written, the record is complete from the moment its last
word is stored (`Complete`) and begun up to `index` before (`Begun`), and the
program that runs is a copy of it. `Holding` says of each point of the program
which blocks are held and which were given back, which is what makes each `free`
a free of something live. `Typed` has the sizes the other two rest on. The
assumption `BootAssumption` says that the bounds are natural numbers, that the
capacities are too (in bytes, whole words or not, below one word more than
`MaxOutput`) and that what is left in a status word by chance is not `"ok"`.

The same module proves `LayoutTheorem` (`LayoutKept`) of the image emitter: for all
code and all globals it may be given, in both encodings and in a buffer of any size,
the image that comes out has every piece whole and in its place, and every constant
and pointer patched with its own target. The property speaks of the finished image;
on the way a patch goes back over code that is written, sets the position and the
count of pending bytes, and returns to where the emitter was, perhaps in the middle
of a piece. `EmitInv` therefore gives `todo` its shape, and says for each shape what
is in the buffer: nothing is left to do (`Still`), a constant is asked for
(`Asking`), turned to (`Lending`) or n bytes of it are written (`Patching`),
n instructions of a piece and j bytes of the next are there (`Writing`), a global is
being aligned (`Aligning`) or filled (`Filling`). In each of them the pieces before
the current one are whole (`WholeUpTo`), all other constants are as they were last
patched (`ConstantsBut`), nothing is written beyond the front (`Blank`), and no byte
is marked with a piece that is not begun (`Owned`). `Patching` keeps the position to
return to in the shape of `todo` itself, which is what `Restore` needs; in the
wide encoding it has a constant start at a multiple of four (`Placed`), without which
the padding behind each of its instructions would be written over what
follows. Where a piece ends is a sum over the pieces before; that it does not
change while pieces are added behind comes from the recursion lemmas of `Lemmas`
(`EndsAre`, `EndsKept`). `EmitterAssumption` says that sizes are natural numbers,
that alignments are 1, 2, 4 or 8 and that a pointer has four bytes;
`OpcodesAssumption` that the backend emits no instruction which is longer or shorter
than `dyn_instruction_size` says, which holds of all the instructions its helpers
write and not of every opcode.

`ProjectReaderProofs` proves `StaysInsideTheorem`: the reader loads nothing beyond
the length it was given, whatever that length is, whatever the words are and
wherever integers wrap. `IInv` says that the position is a whole word within the
length. It needs no bound on the lengths in the stream: a length is padded to
words and compared with what is left before the position moves, and the padding
does not wrap because a length above `Limit` is skipped before. The assumption
`ReaderAssumption` says that `Modulus` is a multiple of 4 with `Limit` its largest
multiple of 4 below, and that storage holds words.

The same module proves `AcceptsOnlyProjectsTheorem` and
`ReadsWhatThePackerWroteTheorem`, the two halves of what the reader is for: it
accepts what `decode_project` accepts, nothing else, and reads the same project.
Both speak of the end, so `Agreement` says what holds on the way. After every
record the decoder, run over the same words, is at the cursor the reader is at and
has read what the reader has, as long as the reader is `Clean`; a reader that
failed or passed over a length is one for which memory ran out or whose decoder
has failed as well. Each action is one step of this lockstep: `WordAgrees`, `TextAgrees`
(where the two ways to pad a length meet, one with wrapping, one without:
`SamePadding`), `BlobRead` and `FileRead`. A loop of the reader that stops at its
first error is matched with a decoder that goes on by `CursorsAdvance`: a failed
cursor stays failed and a record takes at least a word, which is also why more
records than words never decode. The decoder is a recursive function; that it has
the recursion it is written with comes from `RecursionExists` of `Lemmas`, and that it
stays as it is while storage does from `SameByInduction`. The hypotheses of the two
properties are those of the code: a length too large to be padded is passed over
without an error, and malloc may return null.

`DominanceProofs` proves, for every number of blocks and every graph, that the
iteration of Cooper, Harvey and Kennedy computes what it is used for:
`IdomIsImmediate` (`ImmediateDominators`), `FrontiersAreExact` (`FrontiersExact`)
and `LoopsAreNaturalLoops` (`LoopsAreNatural`). The definitions to compare with speak
of paths, and induction over paths is out of the provers' reach; sets take their
place. What is reached while a block is avoided is the least set that has the
entry and is closed under the other successors (`ReachIs`), and the chain of a block
is the least set that has it and is closed under `idom` (`ChainLeast`), so that an
induction is the choice of the right closed set. `IInv` follows the code.
`Visiting`: the visits in progress are a path, and each block was first seen from one
that ends later. From it comes `DepthFirst`, the order the iteration rests on: the
entry first, and every other block behind one that jumps to it. `Upwards`: however
far the iteration is, `idom` is a tree that climbs in that order, so that
`_intersect` ends, at the lowest common ancestor (`MeetingIs`). `NonePassed`: no chain
ever passes by a dominator of its block. `Processed`: as long as a pass has changed
nothing, the blocks it has been to are at their fixed point. At the end all blocks
are (`Fixed`), hence a chain has nothing but dominators (`IdomDominates`). Frontiers
and loops are walks over the finished tree. `FrontiersExact` has the premise that
nothing reachable jumps to the entry, which the theorem needs (see Findings). The
assumption `DominanceAssumption` says that there is at least one block.

`LinkerProofs` proves `NothingLeftOutTheorem` of `LinkSpec`, the linker by itself,
whose steps are the link part of `BuildSpec`: for all objects and archives, in
every order, what an archive defines and an included object wants is there when
the search has ended, unless the object came out of a later archive. The
property speaks of the end of the search, so `IInv` says what holds on the way.
`Closed`: the archives behind have nothing more to give. `Taken`: what the
included members define is there. `Passed`: in a round that has taken nothing so
far, `needed` is still what is wanted and not there, and no member it has looked
at has any of it, which is what `EndRound` needs to leave the archive. The
assumption `JobsAssumption` says that objects and archives are sequences and
that the members of one archive come from units of different names; without it
the theorem is false (see Findings).

The same module proves `StubsAsNeededTheorem`. A stub is 16 bytes in front of
everything it does not replace, so the rounds that add stubs move what they measured.
`Stubbed` says why that is sound: a jump that is too far stays too far, because every
address moves by exactly what the stub area grows by (`StubsFar`), and a round that
adds nothing leaves no far jump without a stub. That a stub is near itself follows
from the test of the last one in `LayOut`, as no stub lies behind it (`StubsNear`). The assumptions `ReachAssumption`
and `ObjectsAssumption` say that a jump reaches some natural number and that an
object is what the assembler makes: finite, with offsets in its sections, and
with addends of either sign. The property says when a jump of the fixed-width
encoding is refused all the same: when it goes to the heap's anchor, which the
linker resolves behind the search for stubs, or when a negative addend takes it
below zero, which no stub can help (`symphony_ld.py:296`). In the variable-width
encoding there are no stubs, and every jump out of reach is refused.

`SizesMirrorCodeTheorem` is the third: what pass 2 writes is as long as pass 1 said,
for every mnemonic, every register and literal (`OperandsAssumption`: what fits its
field) and both encodings. In the fixed-width encoding this is about the loop that
pads: `Cuts` describes the instructions in a sequence of bytes, `PaddedLength` shows
that the loop makes four bytes of each of them, and each encoder is shown to
write one, two or three instructions of the length their opcodes announce
(`Single`, `ThreePadded`).

`HeapProofs` proves, for every size of memory, every place of heap and stack and
every set of requests, that the C heap is right: `TilingTheorem`,
`CoalescedTheorem`, `LargeEnoughTheorem`, `ContentsKeptTheorem`, and `Refinement`,
that it implements `Allocator`. Two things make the properties hard to carry
through a step. Blocks are split and merged while the list is walked, so what
holds of the list must be said of intermediate lists too, with one position
excepted (`ApartBut`); and `end` moves only as far as the stack lets it, in
arithmetic that wraps. `IInv` says what a heap is between calls, and none of it
can be left out. `Blocks`: each block ends where another begins or the heap ends,
and none begins inside another (this has `Tiling`, whose statement is about
neighbours only and follows by taking the least block behind an address, by
`LeastExists`). `Sorted` and `ApartBut`: the list is in the order of addresses and
no free block touches the next one, which is what lets `free` merge on two sides
only. `Holdings`: every pointer the program has is to a block that is not in the
list, its own. `EndStays` and `EndGrows` say that the heap ends below the stack
pointer, wherever a program moves it (`BelowTheStack`): the part of `Tiling` that is
about the growth check of `helpers.py`. From these, each helper of `helpers.py` is shown to take a good heap
to a good heap and to take its block from nobody; `Effect` lemmas say so for each
call of the program, and `NextInv` and `StepRefines` use nothing else. The
refinement maps an allocation to the set of its payload's words, so that
disjointness of live allocations, contents that survive other calls and `realloc`
that keeps the common prefix are what the abstract steps demand. `HeapAssumption`
says that unsigned integers and the base are whole words, that more than a block
fits, that the stack is above the heap to begin with, and that requests are
unsigned integers.

`NativeEmulatorProofs` proves, for every width of a word from 16 bits on, every
size of memory and every set of jobs (a machine and its settings):

- `TableIsFreshTheorem`: a decoded instruction is the one that memory holds now;
- `Refinement`: `NativeSpec /\ []~ ShortJump => ImplementsReference`, that the
  native emulator takes the steps of `machine.py` and stops where and why it does;
- `DynphonyRefinement`: the same without a condition on the program, when every
  job is in the variable-width encoding.

`IInv` says that machine and settings are well-formed (`IsMachine`, `IsSettings`),
that a valid entry of the table lies at the position of its address and is what
`Decoded` makes of the memory there (`Fresh`), and where in a chunk the emulator is
(`Phases`: below the limit of the chunk, not at the address to halt at, and with
an entry for the PC before `dispatch`). `Fresh` needs that the eight positions
cleared for a store cover every instruction that reads what was stored, at
both ends of memory, which is arithmetic modulo its size and not modulo the word;
and it needs the tag, because two addresses a memory's size apart share a position.
The refinement says of every kind of instruction that the handler, from its decoded
fields and with writes to `zr` going to a seventeenth register, does what
`Machine.step` does from the bytes: results, flags, loads and stores of each width,
the stack, the devices, persistent storage, the clock, the next PC, and the tests
between two instructions. `Power` and `WithOnes` (the bits of `and` and `or`) are
recursive functions; that they are functions and stay in range is had from
`RecursionExists` and `RecursionTyped` of `Lemmas`.

`ShortJump` is the one hypothesis: a branch of a fixed-width program, taken into
bytes 1 to 3 of itself. There the two emulators differ (see Findings): the comment
at `machine.py:225` takes a PC that is still inside the instruction's four bytes
for one that fell through. Addresses of instructions are multiples of 4 in what
either assembler builds, and no job of the run `native_emulator` branches so.
`MachineAssumption` says that a word has 16 bits or more and that the seconds
of the clock are a natural number, `JobsAssumption` that a job starts in a
well-formed machine with natural numbers for settings.

Only model-checked: everything else. In particular liveness (`Terminates`,
`Converges`, `PipelineEnds`, `Answered`, `Returns`, `RunEnds`, `LinkEnds`); and the
properties that compare with what a recursive definition computes
(`SameBehaviour`, `RaisesForKnownReasonsOnly`, `SameTokens`,
`RefusesWhatTheHostRefuses`, `GroupsAsNested`, `RunsAsWritten`, `SameOperands`,
`SameInRegisters`), which are induction over programs or texts.

## Plan

What is left, in this order, each module on top of what is there:

1. The rest of the optimizer, as passes of `Optimizer`: the renaming of
   `construct.py`, `identify_direct_calls`, `induction.py`, `loop_memory.py`,
   `tail.py`, `inline.py`, `divmod.py`, `parameters.py` and
   `evaluate_constant_calls`; then the laps with `induction.py` in them.
2. Tail calls and straight leaves of `backend.py`.
3. The arithmetic helpers of `helpers.py` against their mathematical definitions.
4. The limits of the tables of the self-hosted parser.
5. Proofs: `SameOperands` of `Destruct`, with the coalesced classes
   as the invariant of a step, and `GroupsAsNested`.

## Not modelled

Types, characters, names and payloads; what an expression becomes; the pycparser
front end; the self-hosted lexer, parser and lowering; argument parsing and files;
the GCC machine description. They are data or input and output, with control
that a model checker would only repeat. The passes over induction variables, over
memory and over several functions and the string and division helpers have
control worth a model; they are in the plan and not modelled yet. In `Assembler` the start of the heap, the
check of stack frames, and the loops that clear `.bss` and end a stack overflow
are left out.
In `Registers` constants and addresses, which the backend computes again wherever
they are read, results pinned to r1, straight leaves, tail calls, loads, stores
and multiplications, which are calls of helpers, are left out.
Of the operators of the IR the model of the passes has twelve, on unsigned words
of two bits: signed and narrow types, casts, `|` and `^` are data of the same
passes, as are loads and stores, which the modelled passes treat like calls or
like copies (so that hoisting a load, and evaluating one from a constant table,
are left out).

Three kinds of statement stay with TLC whatever the plan: liveness under
fairness, statements that need an induction over data with an operator as
parameter, and anything about a definition that is declared RECURSIVE. What an
induction over the natural numbers with a fixed statement would show can be had
from `LeastExists` of `Lemmas`, by a least counterexample.
