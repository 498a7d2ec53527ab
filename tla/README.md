# Verification of BCC, the blitzy C compiler

TLA+ models of the parts of the compiler whose correctness depends on order: the
preprocessor's stacks, the scopes and labels of semantic analysis, the lowering of
statements to blocks, SSA construction, passes
that rewrite a control-flow graph while they read it, the register allocator, and symbol
resolution of the built-in linker. They are model-checked with TLC on small instances.
The safety properties of the allocator, of live intervals, of SSA construction and the
dominator tree it builds, of phi elimination and the sequentialisation of copies, of
semantic analysis and of symbol resolution are also proved with TLAPS for every value of
their constants, and so is the refinement from the allocator's lists to its sets.

Paths below are relative to `src/src/` of the repository. Every definition that stands
for code is listed with its lines in `PROJECT.json` under "map".

## 1. The system

BCC is a single program, one thread per compilation, with no shared state between
processes except files. `main.rs` drives each input file through the stages below and
links the results.

| Component | State it keeps | Operations | Hard about it | What makes it correct |
|---|---|---|---|---|
| Driver (`main.rs`), temporary files | arguments, objects made so far | compile each file, link, remove temporaries | one file of several fails | nothing is left behind, user files are never removed |
| Preprocessor (`frontend/preprocessor`) | macros, include stack, conditional stack, paint markers | `#include`, `#if`/`#endif`, expansion and rescanning | nested files share stacks; re-inclusion; self-reference | each file's conditionals balance, guards and `#pragma once` hold, expansion ends |
| Lexer, parser | position, lookahead, typedef names | recursive descent | text, not control | accepts the grammar |
| Semantic analysis (`frontend/sema`) | scope stack, symbol table, tags, labels | declare, define, look up, enter and leave scopes, statement handlers | names live in two structures, pushed and popped by separate calls; early returns on errors; labels found by what is open | both structures find the same declaration, labels are judged in their own function or block, nested switches give back what they replaced |
| IR and lowering (`ir/`, `ir/lowering`) | module, functions, blocks with stored edges | build blocks and instructions | stored edges and terminators can disagree | terminators and edges agree |
| SSA construction (`ir/mem2reg`) | dominator tree, definition stacks, replacement map | place phis, rename | stacks across siblings of the tree | each load gets the definition that reaches it |
| Optimisation (`passes/`) | the function being rewritten | passes in rounds until nothing changes | each pass reads what another left; renumbering; termination | same behaviour, consistent edges and phis, the rounds end |
| Phi elimination (`ir/mem2reg/phi_eliminate.rs`) | blocks, pending copies, fresh values | split edges, order copies, insert, remove phis | lost copies, swaps, critical edges | same values on every path |
| Live intervals (`backend/register_allocator.rs`, `ir/function.rs`) | linear positions, starts and ends | number, scan, extend over loops | linear order is not path order | an interval covers every point of liveness |
| Register allocation (`backend/register_allocator.rs`) | free pools, active list, assignment, spill slots | expire, assign, evict, spill | long sequences of evictions; pools at their limit | no two overlapping values share a register; calls preserve values |
| Code generation, assemblers, ABIs (`backend/<arch>`) | emitted bytes, fixups | select, encode | tables and bit patterns | encodes what was selected |
| Symbol resolution (`backend/linker_common`) | occurrences of each name, resolved table, included members | collect, scan archives, resolve, check, define | results computed in one phase and misread in another | one definition per name, fixpoint over archives, errors reported |
| Section layout, relocation, ELF and DWARF output | output sections, addresses, tables | merge, assign, patch, write | alignment, sections without data, relaxation | no overlap, addresses congruent with offsets |
| Common services (`common/`) | interner, source map, diagnostics | look up, record | | |

The components run one after the other; the interaction is what each hands to the next:

    text -> preprocessor (Preprocessor) -> lexer -> parser -> sema (Sema)
         -> lowering (Lowering, CStatements) -> mem2reg (Mem2Reg, Dominators)
         -> optimisation rounds (CfgCleanup; from -O1 on also ScalarPasses)
         -> phi elimination (PhiElim, ParallelCopy)
         -> live intervals (LiveIntervals) -> allocation (LinearScan, RegAlloc)
         -> code generation -> assembler -> object files -> linker (SymbolResolver)

There is no concurrency between threads to model. What is hard here is sequential:
stale maps, snapshots used after the graph they describe has changed, fixpoints that
must be reached, limits, and orders that come from hash maps. Those orders are modelled
as nondeterministic choice. `PROJECT.json` lists the hazards at their lines, with the
properties that would notice them going wrong, or the reason none does yet.

## 2. Modules

**LinearScan** - `allocate_registers`. State: the intervals, the index `cur` of the
loop, `free` registers per class, `active`, `assigned`, spill `slot`s with their
records, `frame` size, `calleeUsed`. One action per outcome of an iteration, each with
the expiry at its head: `AssignFree`, `EvictFarthest`, `SpillCurrent`. The free lists
and the sorted active list are sets here, so any register of a pool may be taken and any
of the farthest-ending intervals evicted.

**RegAlloc** - the same loop with the lists as the code keeps them: stacks popped at the
end, an active list sorted by end, expired positions removed back to front.
`RefinesLinearScan` states that it implements LinearScan.

**Lists** has what `retain` and `filter` keep of a vector, written so that it can be
reasoned about; **Lemmas** has the facts about it, about stacks, about numbers and about
dominance that several proofs cite.

**LinearScanProofs**, **RegAllocProofs** - theorems about LinearScan and RegAlloc.

**LiveIntervals** - `reverse_postorder` and `compute_live_intervals`, for one value at a
time (the code's maps have one independent entry per value). `Descend` and `Finish` are
the depth-first search with its explicit stack, `Linearise` the numbering, `Scan` the
pass over instructions, `ExtendPhi` and `ExtendLoops` the two extensions. `Populate`
chooses which instructions mention the value once the search, which does not look at
them, is over. **LiveIntervalsProofs** has the theorems.

**ParallelCopy** - `sequentialize_copies`: `EmitSafe` and `BreakCycle`, with `holds`,
what each value contains once the list so far has been executed.

**PhiElim** - `eliminate_phi_nodes`: trivial phis, critical edges, copies per
predecessor (ordered by the steps of ParallelCopy, which it extends), removal of
the phis. Afterwards `Step` runs the given function and the result side by side.
**PhiElimProofs** has the theorems about both.

**CfgCleanup** - `optimize_function_at_level` for level 0, that is, the passes every
function gets: `EliminateUnreachable`, `EliminateDeadInstructions`, `RecomputeCfg`,
`SimplifyTrivialPhis`, `MergeBlock`, `EliminateEmpty`, `SimplifyBranchChain`, with the
scan cursor, the set of blocks marked for removal and the compaction with renumbering
that ends a scan, in rounds (`RoundEnd`) until nothing changes. Then `Begin`, `Continue`
and `Decide` run both functions side by side from one decision to the next.

**SymbolResolver** - the resolver as its two callers drive it: `CollectObject`,
`BeginPass`, `IncludeMember`, `SkipMember` and `EndPass` for archives, `Resolve`,
`CheckUndefined`, `DefineLinkerSymbols`. **SymbolResolverProofs** has the theorems.

**Cfg** - what the graph modules share: predecessors, reachability, dominance by its
definition.

**Dominators** - the Lengauer-Tarjan construction of `ir/mem2reg/dominator_tree.rs`:
the search with its stack (`Descend`), path compression (`Compress`), semidominators
and the two passes over them, and the frontiers of `dominance_frontier.rs`. `ImmediateDominators` compares the tree
with dominance as Cfg defines it.

**Mem2Reg** - `promote_allocas_to_ssa`: which variables are promoted, the single-block
path, phi placement at iterated frontiers, and the renaming walk with its stack per
variable. `RenameEntry`, `RenameChild` and `RestoreStacks` are the walk's calls and
returns; `ReplaceAndRemove` applies the replacement map. It is composed with Dominators,
and ends with a run of both functions, one with its variables in memory. `FromLowering`
says what functions it is given. **Mem2RegProofs** has the theorems.

**ScalarPasses** - what `optimize_function_at_level` adds from -O1 on: `CopyPropagation`,
`GlobalValueNumbering`, `InstructionCombining`, `LoopInvariantCodeMotion`,
`AggressiveDeadCodeElimination`, `TailCallOptimization`, `Peephole`,
`RegisterCoalescing`, one action per pass, and `RoundEnd`. Hash-set order in
loop-invariant motion is nondeterministic choice. `Enter` and `Leave` run the function as
given and as made, block by block. Values are terms, compared as terms. Conversions say what
type they convert from and to, stores and loads what type they access; a bitcast is the
identity only between equal types, and memory is what was stored since the last call, by
place and type, where a store forgets what it overlaps (`Written`, `Read`). What must agree
is tests, calls, volatile loads and results.

**Preprocessor** - `preprocess_file` line by line: the include stack, the one stack of
conditionals, macro definitions with `push_macro`/`pop_macro`, the search of quoted, angle
and `#include_next` headers, the depth limit. The reference reading is recursive over
files and groups, as the standard has it (`AsTheStandardReads`).

**Sema** - the symbol table, the scope stack and the handlers of
`analyze_statement_inner` that open and close scopes, declare, use, label and jump.
`Declared` is `SymbolTable::declare` with its redeclaration rules, `Register` what every
caller does with the id it returns, in both structures; `LeaveScope` is `leave_scope` and
`pop_scope`. `open` is the stack of handlers with what each keeps in local variables, and
`Fail(k)` an error that returns through `?` out of the `k` innermost of them, leaving
their scopes open. A program is whatever the actions make of the items in its menu; `gotos`,
`targets` and `seen` remember it for the properties. **SemaProofs** has the theorems.

**Lowering** - `lower_statement` and all it calls, as a machine with an explicit list of
what is still to be lowered (the calls' stack): blocks, stored edges beside terminators,
break and continue stacks, switch dispatch with wide and enumerated case ranges and the type
of the switch value, labels, scopes and the allocas of locals. **CStatements** is what statements mean in C, an
abstract machine over the same trees, written without blocks. **LoweredRun** composes the
two: after lowering, the blocks and the statements run side by side, stopping where a
variable is read; `ObjectsApart` compares which alloca each used for which object. A switch
value there is what x86-64 has in the register: zeros above the bits of an int, the sign
above those of a short (`Held`). Range tests subtract and compare at full width, and the
comparisons with single cases at the width of the type, as code generation does.

**MCLinearScan, MCRegAlloc, MCLiveIntervals, MCPhiElim, MCCfgCleanup, MCSymbolResolver,
MCMem2Reg, MCScalarPasses, MCPreprocessor, MCSema, MCLowering** give these modules their
constants for TLC; ParallelCopy has one number, which its configuration gives it.

Six properties of behaviour (`Agreement` of Mem2Reg, Lowering, CfgCleanup, ScalarPasses
and PhiElim, ParallelCopy's `ParallelEffect`) compare the program before and after a stage
by executing both. Contents are abstract tokens or terms, so agreement means that the same
definitions reach the same uses, not that some numbers happen to be equal. Together they
follow a function from its statements to the allocator's input; each stage is given inputs
of the form the one before leaves (`WellFormed`, `FromLowering`, `InSSAForm`, `IsCfg`).

## 3. Runs

| Run | Configuration | Question | States |
|---|---|---|---|
| `linear_scan` | MCLinearScan, LinearScan.cfg | Is every allocation sound: no interference, values preserved over calls, registers saved, one home per value, disjoint slots, no register lost, no spill without pressure? | 241 k |
| `reg_alloc` | MCRegAlloc, RegAlloc.cfg | Does the loop with its real lists implement LinearScan, with the active list sorted and nothing twice in a list? | 81 k |
| `live_intervals` | MCLiveIntervals, LiveIntervals.cfg | Does the interval cover all liveness, are calls noticed, is one visit per back edge enough, does the order go back only around cycles? | 2.1 M |
| `parallel_copy` | ParallelCopy, ParallelCopy.cfg | Does the list have the parallel effect, with at most one temporary for two copies, and does the loop end? | 7.5 k |
| `phi_elim` | MCPhiElim, PhiElim.cfg | Do phis and predecessors match between splits, and does the function behave the same? | 195 k |
| `cfg_cleanup` | MCCfgCleanup, CfgCleanup.cfg | Do the cleanup rounds keep every use defined, one value per predecessor, fresh edges and the behaviour, and end? | 436 k |
| `mem2reg` | MCMem2Reg, Mem2Reg.cfg | Is the dominator tree right, are phis complete, does the promoted function behave as with memory? | 158 k |
| `scalar_passes` | MCScalarPasses, ScalarPasses.cfg | Do the -O1 passes keep behaviour and dominance, and do their rounds end by themselves? | 31 k |
| `preprocessor` | MCPreprocessor, Preprocessor.cfg | Does the line-by-line reading with one stack of conditionals give the text of the recursive reading? | 8.9 k |
| `sema` | MCSema, Sema.cfg | Do symbol table and scope stack agree, also after errors; is exactly what nothing defines reported as an undeclared label; is loop and switch state that of the statement? | 2.5 M |
| `lowering` | MCLowering, Lowering.cfg | Do the blocks read what the statements read, is there one alloca per object, are stored edges those of the terminators? | 191 k |
| `symbol_resolver` | MCSymbolResolver, SymbolResolver.cfg | One definition per name, the most restrictive visibility, the archive fixpoint, an end | 275 k |

### Bounds

- `linear_scan`, `reg_alloc`: four intervals of three lengths over indices 0 to 6, two
  general registers of which one is callee-saved, one float register that no call
  preserves, and two or three sets of call positions. Two registers and four intervals
  reach every combination of expiry, eviction, second eviction and spilling; the theorems
  cover the rest.
- `live_intervals`: every graph of four blocks with at most two successors per block, in
  both orders, up to renaming; this includes irreducible loops, nested loops and self
  loops. Blocks have two or three instructions of every relevant kind.
- `parallel_copy`: every set of copies into four values from five. Two disjoint cycles,
  trees on cycles and chains all occur.
- `phi_elim`: five graphs (self loop, diamond-less branch, loop with exit from the latch,
  two joins, loop in a loop), up to three phis with every choice of operands that is in
  SSA form, in every order of splits and predecessors. Contents are one of two tokens.
- `cfg_cleanup`: eight shapes (if/else, do and while loops, switch, shared trampoline,
  shared join, unreachable block, computed goto), two phis with every choice of operands,
  a call and a pure instruction. Two kinds of function are left out, because the code
  does not keep them intact: those with a trivial phi that stands for another
  trivial phi, and those where an empty block's value is used again by a phi of its
  target. The shape of MCArmsInputs is left out for the same reason, and the
  computed goto's labels keep their block numbers.
- `mem2reg`: two variables over six shapes (diamond, loop, loop with two entries, loop with
  an early exit, join with an unreached predecessor, single block) with every choice of
  what each block does, and one variable over all graphs of five blocks whose entry
  branches to blocks 2 and 3; semidominators differ from dominators only from five blocks
  on.
- `scalar_passes`: 776 functions of six families, at most nine values, six blocks and
  two loops, one in the other; runs of nine blocks, which take both loops twice; at most four
  rounds of the 100 of MAX_ITERATIONS, so that `Settled` says that they are not needed.
  Left out, because the code does not keep such functions intact (see below): a computation
  repeated in blocks neither of which dominates the other, chains of invariants over several
  blocks of a loop, a second pointer in a block that stores, and register coalescing of
  functions with phis (`Spared`); and, as the passes do not look at types, bitcasts from one
  type to another, loads of another type than was stored last, narrow stores after wider ones
  to the same place (both allowed again after a call, `AsOneType`) and volatile loads between
  two stores. Narrow stores before wide ones, and loads of a place by several types where
  nothing was stored, are in the run.
- `preprocessor`: three names in a user and a system directory, three macros, include depth
  two: enough for a header to include itself, to be wrapped by `#include_next` and to be
  re-read under other macros. Files close the groups they open.
- `sema`: five menus of five to eight items, constructs nested three deep: one name with
  redeclarations and errors, two names of which one can be a parameter, labels in blocks
  and statement expressions, two labels with errors, and switches in loops in switches.
  Three levels are a construct, one inside it and one that is left in the middle.
  `LabelsJudged` and `SwitchesNest` say nothing once a statement was left through an
  error: its label scope or its flags then stay, and the compilation has failed anyway.
- `lowering`: 3 432 functions in six families; `long` has four bits, `int` three, and ranges
  above three values are wide. So few bits make ranges wrap, and a long differs from the int
  it has the low bits of. Switches are on int, long and short; wide ranges of negative
  values and across zero are in the run for long and short, at both ends of the type for
  long, and for int only without negative values. Every jump appears in every loop, and in a loop in a loop. The shapes of
  LoweringDivergences.cfg are left out, among them wide ranges of an int switch with
  negative values (see below).
- `symbol_resolver`: three objects with one occurrence of a name each, in every
  combination of binding, visibility and definition; one archive of three members, or two
  of two, whose members need each other; and objects that mention a linker symbol.

### Deadlock

All configurations say `CHECK_DEADLOCK FALSE`: every modelled procedure returns, and
the state after its return has no successor.

### Fairness

- ParallelCopy and SymbolResolver have weak fairness of `Next`: the code is a loop (or a
  sequence of calls) that runs until its condition is met. Nothing else is assumed.
- CfgCleanup needs only that the passes keep running. This is written as
  `[]<>(pc = "run") \/ []<><<TRUE>>_vars`, weak fairness of the passes, which are
  enabled until `pc` is "run". `RoundsEnd` then says that no two passes undo each other,
  so `MAX_ITERATIONS` (100) is never reached by the modelled passes. The side-by-side run
  after it is no code and has no fairness.
- The other specifications have safety properties only and no fairness.

### Where code and documents part

The following configurations, which end in a violation, show what the passing runs
leave out and why. Where functions are named, they are the value to give `Inputs` or
`Functions` in the configuration:

| Configuration (module, functions) | Property | What the trace shows |
|---|---|---|
| LoweringDivergences.cfg (MCLowering, `MCShadows`) | `ObjectsApart` | `lookup_var` finds every local of the function before any scope is entered: after a block with a local `x`, a global `x` is still bound to the local's alloca. Its other functions violate the property each on its own: a parameter hidden twice, a block in a statement expression, a declaration that is jumped past |
| LoweringDivergences.cfg (MCLowering, `MCIncrements`) | `EdgesOfTerminators` | A `for` whose increment contains `&&` stores its back edge for the block the increment starts in, not for the one it ends in |
| LoweringDivergences.cfg (MCLowering, `MCNegativeRanges`) | `Agreement` | The range test of a switch subtracts as I64 and "works for both signed and unsigned" (`stmt_lowering.rs:1961`); an int is not extended for it (`:1853`) and has zeros above its bits on x86-64, so `case -1000 ... -1` never matches |
| ScalarPassesDivergences.cfg (MCScalarPasses, `SiblingFns`) | `UsesDominated` | Value numbering replaces a sum in one arm of a branch by the one in the other arm |
| ScalarPassesDivergences.cfg (MCScalarPasses, `ChainedFns`) | `UsesDominated` | Two invariants from two blocks of a loop arrive in the preheader in hash order, the user first |
| ScalarPassesDivergences.cfg (MCScalarPasses, `AliasedFns`) | `Agreement` | Store, store through an aliasing pointer, load: the first store's value is forwarded |
| ScalarPassesDivergences.cfg (MCScalarPasses, `ConvertedFns`) | `Agreement` | Copy propagation takes every bitcast for a copy (`copy_propagation.rs:54`), where its documentation speaks of bitcasts from a type to itself (lines 3 and 11); lowering emits them for casts between integers and floating point (`expr_lowering.rs:5680`), so `(double)i` becomes `i` |
| ScalarPassesDivergences.cfg (MCScalarPasses, `PunnedFns`, `PartialFns`) | `Agreement` | Peephole rewriting compares pointers and no types (`peephole.rs:75`, `:131`): a byte loaded from where eight were stored is replaced by all of them, and a store of eight is dropped before a store of one |
| ScalarPassesDivergences.cfg (MCScalarPasses, `VolatileFns`) | `Agreement` | A volatile load between two stores to its place does not keep the first (`peephole.rs:134`) |
| ScalarPassesDivergences.cfg (MCScalarPasses, `CoalescedFns`) | `Agreement` | `values_interfere` calls two values interfering only if one instruction has both, so the phi of a loop counter is merged with the constant it starts from |
| CfgCleanupDivergences.cfg (MCCfgCleanup, `MCLoopInputs`) | `UsesDefined` | `eliminate_empty_blocks` removes a block that selects a value which a loop phi of the target still uses on another entry |
| CfgCleanupDivergences.cfg (MCCfgCleanup, `MCArmsInputs`) | `Agreement` | `simplify_branch_chains` checks both arms before it changes either; threaded to the same join, one of two values is lost |
| PhiElimIndirect.cfg (MCPhiElim) | `Agreement` | Copies for the phis of one successor of a computed goto are put before the jump and run on the way to all successors |
| SymbolResolverUndefined.cfg (MCSymbolResolver) | `UndefinedReported` | `check_undefined` asks whether a name is in the resolved table, where `resolve` has already put the undefined names |
| PreprocessorOnce.cfg (MCPreprocessor) | `OnceIsOnce` | Every `#include` makes a new include handler, so the mark of `#pragma once` is gone by the next one |

Reading `frontend/sema` for the model showed more, which no property states because it
holds of every such program:

- A struct defined in an inner scope is dropped when a complete one of that name is
  visible (`sema/mod.rs:1600`), where `scope.rs:191` says that inner names shadow outer
  ones; a tag of another kind in an inner scope is an error (`mod.rs:1587`).
- A function is declared as not defined and marked afterwards, so a second definition
  merges with the first, where `declare` documents an error for two definitions.
- `extern int x; int x;` never makes `x` tentative, so `finalize` leaves it undefined.
- An enumerator whose name the scope has already is refused without a message
  (`declare_enum_constant`); undefined labels are reported by `validate_labels` and again
  by `pop_scope`; `check_linkage_compatibility` has no caller.

## 4. Proofs

**LinearScanProofs**: for every register file, every list of well-formed intervals and
every set of calls,

- `TypeCorrect`: the type invariant;
- `NeverInterferes`: overlapping intervals never share a register;
- `CallsPreserveValues`: a value live over a call is callee-saved or on the stack;
- `PrologueComplete`: every callee-saved register in use is reported;
- `HomesSound`: a processed interval has a register or a slot, not both;
- `SlotsSound`: spill slots are disjoint and have one owner each;
- `PoolSound`: no register is lost or handed out twice;
- `Inductive`: the invariant they follow from.

The properties are not inductive alone. `IInv` adds `AheadUntouched` (intervals not yet
processed have neither register nor slot) and `RetiredEnded` (an interval that has a
register is active or ended before the last processed one started), without which a
register coming back to its pool could still be in use. `ExpiryFacts` states once what
the head of each iteration leaves; each action then has a lemma with one step per
conjunct. The interesting step is `EvictFarthest` preserving `CallSafe`: the code does
not look at `callee_saved` there, and it holds because the evicted interval started no
later and ends later than the current one, so it crosses every call the current one
crosses.

- `SpillsUnderPressure`: a spill means that more intervals are live somewhere than there
  are registers for them. By `PoolSound` and `NeverInterferes` the registers of the pool
  are then one to one with active intervals, all live at the current start; with the
  current one they are one more than the pool (`SpilledInCrowd` remembers where).

**RegAllocProofs**: the loop with its lists, for every order of the registers,

- `ListsStayInOrder`: the active list is sorted by end and no list has anything twice;
- `Refinement`: it implements LinearScan, with the sets being the ranges of the lists. The
  simulation needs `ListsInOrder`: only in a sorted list is the last element one of the
  farthest (`EvictFarthest`), and only in a list without repetitions does taking one
  position take the element out of the set;
- `CodeKeepsPromises`: hence all that is proved of LinearScan holds here. The lemmas of
  LinearScanProofs are instantiated with the refinement mapping; `CInv`, the inductive
  invariant, is LinearScan's `IInv` under that mapping with `ListsInOrder`.

**LiveIntervalsProofs**: for every graph over a finite set of blocks, every choice of
mentions and every depth-first order,

- `OrderSound`: what `reverse_postorder` returns starts with the entry, has every other
  block after one of its predecessors, and after all of them unless it is on a cycle, and
  is closed under successors. `Search` is the invariant: the stack is a path from the
  entry (so that a block on it leads to all above it, `StackLeads`), a block is finished
  once all its successors are visited, each was entered from one that is on the stack or
  finished later, and an edge from a finished block to one that is not finished, or was
  finished after it, goes around a cycle (`Retreats`);
- `OnePassCloses`: an extension at a later back edge never reaches the header of an earlier
  one, since headers come later in the order the edges are visited in (`Closed`);
- `IntervalCoversLiveness`: wherever the value is live, the interval has the index.
  `Numbered` describes the linear order; then each pass adds its part to `Spanned`: every
  mention is inside (`Scanned`), so is the end of each block a phi takes the value from
  (`PhiCovered`), and so is the end of each loop it reaches into (`Closed`). The value is
  live at the start of a block only after its definition in the linear order
  (`DefinedBefore`, the one place where the order of the search matters), and the set of
  blocks whose start the interval reaches absorbs what flows into `LiveIn`; `LiveIn` is the
  least such set (`LiveInLeast`, `LiveInReached`);
- `LiveAcrossCalls`: calls the value is live across are strictly inside.

**PhiElimProofs**: for every function in SSA form, any order of splits and predecessors
and whatever instructions compute,

- `PhisMatch` (`PhiPredsMatch` holds): between any two splits each phi has one operand for
  each predecessor of its block;
- `Preserved` (`Agreement` holds if `Placed` does): both functions see the same values on
  every path. `Placed` says that no critical edge into a phi starts at a computed goto; it
  is a hypothesis because without it the property is false (PhiElimIndirect.cfg).

The argument has three parts, which rest on what Lemmas has about dominance. *Dominance* is
reachability without a block, computed in rounds; it is shown to be an order on the blocks that can be reached (`DomTransitive`,
`DomAntisymmetric`), and the block of a phi comes strictly below the definition of the one
operand of a trivial phi (`FirstArrival`). *Chains of trivial phis* therefore lead strictly
upwards, so fewer phis are ahead after each link (`AheadShrinks`), a chain is at its end
after as many links as there are trivial phis (`ChaseSettles`), and one round leaves no use
of a phi it removes (`EliminateKeeps`). Blocks that cannot be reached are not ordered and
may have circular chains; nothing is in scope there that matters. *Split edges*: `Splits`
describes the graph after some of the collected edges were split, in terms of the function
given and of `splitOf`, and each phi as one of the given ones with its operands at the new
sites (`PhisAre`); that an edge still to be split is still critical and still in the phi is
`SplitKeeps`. *Copies*: `Copying` is ParallelCopy's invariant for the copies of one block,
and `Effected` says what the list of a block that is done does. Then the copies met on the
way along an edge are those of its phis and no others (`EdgeCopies`): a block with
copies inline has one successor or its target has one predecessor. `StepAligns` is one edge
taken by both functions: a value in scope after it is made there, or is in scope before it.

The invariant `IInv` says that there is a set of phis of the function given that are left,
such that what holds in the phase the pass is in holds of them; `stands` sends every phi
that is not left to a value defined strictly above it, the one all its operands are sent to
as well (`StandFor`).

The same module has the theorems about ParallelCopy alone, for any number of values and any
copy set:

- `SequentialIsParallel`: the finished list has the parallel effect. The invariant says that
  what remains, executed in parallel from the current contents, gives each destination its
  value (`Represents`, `EmittedDone`) and touches nothing else (`OthersUnchanged`);
- `TypeCorrect`: temporaries are fresh;
- `TemporariesBounded`: at most one for two copies. When no copy is safe, every destination
  is the source of some copy, so by counting each source is read once (`AllOnCycles`); no
  copy then reads a temporary, and `Budget` says that two copies have been emitted for each
  temporary taken before.

**Mem2RegProofs**: for every function the lowering may hand over (`FromLowering`), any
variables, and whatever instructions and callees compute,

- `DominatorsFound` (`ImmediateDominators` holds): the tree that is built is the dominator
  tree as Cfg defines dominance, and blocks that are not reached have no parent in it;
- `PhisAreComplete` (`PhisComplete` holds): after the walk each phi of a reached block has
  exactly one entry for each reached predecessor, with a value still defined where that
  predecessor ends;
- `PromotionAgrees` (`Agreement` holds): on every path, what a load read from memory is what
  it stands for now, and other values and variables left in memory are the same.

The tree. `Lemmas` has the theory, in terms of the numbers a depth-first search gives and
of A[v], a vertex with those above it in the search tree: an edge to a larger number goes
down the tree (`DFEdges`), and from semidominators (`Semi`) and a vertex of least
semidominator on the way up (`LeastOnWay`) come the immediate dominators
(`SemidominatorTheorem`). What the code does is shown to meet its hypotheses. The
search: successors of a vertex off the stack are all numbered (`Stacked`), and `Fuel` bounds
its steps. The forest: a linked vertex's label is of least semidominator between it and its
ancestor (`Linked`), which compression keeps while it brings vertices below their roots
(`CompressKeeps`); the labels of the predecessors then give the semidominator
(`SemidominatorFound`), whatever their order. The buckets: a vertex waits under its
semidominator until the child of that vertex on its way is linked (`Waiting`), so at the end
none waits, and what was noted for each is right (`Building`, `VertexStep`). The last pass:
in increasing number, the vertex looked up has its dominator already (`ResolveAll`).

Promotion needs an argument that no single step of the walk shows: that the definition on
top of a variable's stack when a block is reached over the *tree* is the one that reaches
it over every *path*. It has four parts, all on top of the tree's being the dominator
tree. *Phis*: on a path from a block up to where it leaves the tree below the block's
immediate dominator, a store makes a phi, so between a block without a phi for a variable
and its immediate dominator nothing touches the variable (`QuietWay`, `PhisSuffice`).
*One block*: a load stands for the definition on top, a store pushes what its operand
stands for, and a replacement is never itself replaced, so that one step through the map
is enough (`BlockSolved`). *The walk*: `Walking` says of every state between the calls of
`rename_block` that what is noted of the blocks walked so far agrees (`Progress`: their
definitions at each point, replacements, phi entries), that every child of a walked block
is walked or in an open call's list (`Pending`), and that the depth a call saved is that
of the stacks where its parent in the tree ended (`Depths`); so truncating to it gives a
sibling the definitions of the common parent. *Lockstep*: `Lock` pairs each value in
scope and each variable of the given function with its place in the one made. It is kept
along an edge by the phis of the target (`LockBlock`, `LockEntry`) and within a block by
each instruction (`LockLoad`, `LockStore`, `LockStays`; `RewrittenRuns` for the list of
instructions that is left).

The invariant `IInv` says what holds in each phase: `Unwalked` before the phis are placed,
`Placed` (distinct fresh values for the phis) and `Walking` during the walk, `Promoted` after
the replacement, `Agreed` (`Lock` at the end of the block reached) during the run.

**SemaProofs**: for any names, any nesting and any sequence of items and errors,

- `LookupsAgree` (`ScopesAgree` holds). `ScopesAgree` alone is not inductive: popping a
  scope uncovers older entries, of which it says nothing. `Consistent` relates all entries:
  what a scope has for a name is an id of that name and that depth (`EntriesAreIds`), every
  id not yet pruned is in the scope of its depth (`IdsAreEntries`), and deeper ids of a name
  are later (`DeeperIsLater`), so that the last id of the table is the one in the innermost
  scope. It is kept when entries are rewritten, registered, pushed with parameters or popped
  (`RetouchedKeeps`, `RegisteredKeeps`, `PushedKeeps`, `PoppedKeeps`). `Held` says that
  there are at least as many scopes as open constructs that hold one, so none pops the file
  scope; after an error there are more;
- `SwitchStateNests` (`SwitchesNest` holds). `Nested` says of every open construct, not only
  of the innermost, that what its handler saved is the state of those around it, so that
  putting it back is right;
- `LabelsRight` (`LabelsJudged` holds). `Tally` pairs each scope with the construct that
  opened it (`Paired`) and says that what a scope has of labels is what the program so far
  has under that construct (`Tallied`): its gotos, its labels, its local label declarations.
  Only constructs with a scope own labels (`Owned`), and what is reported is what is missing
  under constructs that were left (`Judged`). The scope a goto finds by walking the stack
  is then the one of the construct that owns the label, and popping it reports what is
  missing under it and nothing else.

**SymbolResolverProofs**: for every set of objects and archives,

- `TableComplete`: the table has the symbols of what was linked that are not local, once
  each and nothing else, in the order they were added in: the symbols of an earlier object
  before those of a later one, objects before archives, archive by archive, and those of
  one object or member in its own order. `Tally` pairs the entries with the symbols and
  says that no entry precedes an earlier one;
- `DefinitionsUnique`, `VisibilityRestricts`: so the definition and the visibility chosen
  are those of the input as a whole. Visibility is a fold; the invariant of the fold is that
  it has the most restrictive of what it has seen, and is one of them (`MergeFacts`);
- `ArchiveScanComplete`: a scan that ended left no member that defines a wanted name. Within
  a pass that has included nothing, the snapshot of undefined names is still current and
  each member passed over does not define one (`NoneSkipped`).

Induction: the library's theorems about it take an operator, which no installed prover can
instantiate. `Lemmas` has it for sets instead (`Least`: a nonempty set of numbers has a
least element; `SetInduction`), and an induction over a list is about the set of indices
for which a claim holds. Recursive functions are used by their equation at each index.

Assumptions are the named `ASSUME`s of LinearScan, RegAlloc, LiveIntervals, ParallelCopy,
PhiElim, Mem2Reg, Sema and SymbolResolver, and that an int is not wider than a register in
LoweredRun: pools of different classes are disjoint and name a
register once, callee-saved registers are registers, inputs are well-formed (sorted by start,
as `compute_live_intervals` leaves them), graphs have their successors among their blocks and
no block without an instruction, functions given to SSA construction have an entry nothing
jumps to and values with one definition each, computed before they are stored, functions in
SSA form have no phi in the entry block and no more phis than links of a chain are followed
(`ChainLimit`, 1002), menus are made of Sema's names and items, symbols are symbols and the
linker's names are names. TLC evaluates them in every run that extends those modules.

Only model-checked: the liveness properties `Terminates`, `LinkEnds` and `RoundsEnd`
(liveness under fairness is out of the proof system's reach), and everything in ScalarPasses, CfgCleanup, Preprocessor and Lowering. The
references of Lowering and Preprocessor are recursive operators, which the provers cannot
use; the others are planned below.

## 5. What is not modelled

`PROJECT.json` gives a status and a reason for each component. In short: lexing, parsing,
type rules, encoding and file formats are functions of data without control worth
exploring. Within modelled components:

- CfgCleanup leaves out constant folding (constants are no instructions of this IR, so at
  this level it has nothing to start from but the undefined value, and the only
  instruction it folds of it is a phi that is trivial anyway) and
  `strip_dead_code_after_first_terminator` (inputs have one terminator per block).
- PhiElim and ParallelCopy leave out the types and source positions of copies.
- LiveIntervals leaves out register class and type per value, and `loop_blocks`, which
  the code computes and does not read.
- RegAlloc leaves out `insert_spill_code`, which only tests call, and the rewriting of
  instructions in `backend/generation.rs`.
- Mem2Reg leaves out types, volatile accesses (any use but a plain load or store keeps a
  variable in memory) and phis made by the lowering.
- ScalarPasses leaves out SCCP and strength reduction, whose tables of constants stay empty
  because no instruction of this IR is a constant, volatile stores, and what a conversion
  computes beyond its two types.
- Preprocessor leaves out macro expansion, the expressions of `#if` beyond `defined`, and
  tokens: a line of text is one value.
- Sema leaves out tags, types (a symbol is a function or an object), attributes,
  initialisers, constant expressions, duplicate parameter names, and the messages for
  duplicate `case` values. An `if` changes none of this state and is no construct here; the
  condition of a loop is a `Use` or a `Fail` beside it.
- Lowering leaves out every expression but reads, `&&` and statement expressions, types but
  those of switch values, unsigned ones, the other targets, initialisers, variable-length arrays, static and extern locals, and inline assembly.
- SymbolResolver leaves out addresses, sizes and the emitted symbol table.

## 6. Plan

Done, in this order: LinearScan, RegAlloc and the proofs (an error here silently corrupts
any program); LiveIntervals (what the allocator trusts); ParallelCopy and PhiElim (what
precedes it); SymbolResolver; CfgCleanup; Mem2Reg with Dominators; Preprocessor; Lowering;
ScalarPasses; Sema and its proof; the proofs of live intervals, symbol resolution, phi
elimination, SSA construction and the dominator tree.

Next:

1. Proofs: the safety properties of CfgCleanup that are about edges and phis (`UsesDefined`,
   `OneValuePerPred`, `EdgesFresh`).
2. **SectionLayout**: merging, COMDAT groups, address assignment; fragments disjoint,
   addresses congruent with file offsets, one group member set per signature.
3. **Driver**: the multi-file mode with its temporary objects, with a failure possible at
   each file and at the link.
4. **Tags**: struct, union and enum scopes, completion of forward declarations, with the
   divergence above as a run.
