# A formal model of PIKOS

PIKOS is a parallel version of the IKOS abstract interpreter. It computes, for
every function of a program, the fixpoint of the equations of its control flow
graph. The sequential IKOS visits the graph recursively; PIKOS constructs a
*weak partial order* (WPO) of the graph and lets TBB workers run its cells as
soon as their predecessors have run. This directory holds TLA+ models of that
engine and of the parts of the analyzer around it, the TLC configurations that
check them and proofs that TLAPS checks. Paths below are relative to
`src/pikos/`; `fixpoint/` is `core/include/ikos/core/fixpoint/`, `analysis/` is
`analyzer/src/analysis/`.

## 1. Inventory

| Component | State | Operations | Interacts with | Model |
|---|---|---|---|---|
| **WPO** `fixpoint/wpo.hpp` | DFS stack, DFNs, tree/back/cross edges, disjoint sets, the cells and their constraints | `construct_auxilary`, `construct_wpo`, outer predecessors, accessors | read by the concurrent iterator | `WpoBuilder` |
| **Concurrent iterator** `fixpoint/concurrent_fwd_fixpoint_iterator.hpp` | `_pre`, `_post`; per cell: kind, count, atomic counter; worklists; TBB's tasks | `run`, `Body::operator()`, the three rules, `check_stabilization…` | calls the strategy and the transfer functions from several workers at once | `ConcurrentFixpoint` |
| **Function fixpoint** `…/interprocedural/concurrent/function_fixpoint.cpp` | profile, engines, call context | `extrapolate`, `is_decreasing…`, `partition`, `run`, `run_checks` | callbacks of the iterator | `ConcurrentFixpoint`, `CallInlining` |
| **Call inlining** `…/execution_engine/cc_inliner.hpp` | cache of callee fixpoints, exit invariant | `exec(call)`: callees by `parallel_reduce`, fixpoint pass, check pass | a callee is a function fixpoint with an iterator of its own | `CallInlining` |
| **Sequential iterator** `fixpoint/{fwd_fixpoint_iterator,wto}.hpp` | weak topological order (WTO), `_pre`, `_post` | construction, `visit(vertex)`, `visit(cycle)` | compared with the concurrent one | `Wto`, `SequentialFixpoint` |
| **Comparison** `…/concurrent/comparer.cpp` | – | runs both, compares the invariants | both iterators | `Comparison` |
| **Profile** `analysis/fixpoint_profile.cpp` | path lengths, partitions, widening hints | `compute_partition`, `compute_longest_path`, sizes of functions | partitions read by the iterator | `FixpointProfile` |
| **Factories** `analysis/{call_context,variable,literal,memory_location}.cpp`, `ar/src/semantic/context_impl.cpp` | tables, mutexes | `get_…` | called by the transfer functions of all workers | `Factories` |
| **Progress logger** `…/interprocedural/progress.cpp`, `analyzer/src/util/log.cpp` | frames, lines on the screen, a thread | start/end of tasks, cycles, calls and messages, redraw | terminal shared with the log messages of the workers | `ProgressLogger` |
| **Machine integers** `core/…/number/machine_int.hpp` | bits or big number, width, sign | arithmetic, flags, casts, shifts | all integer domains | `MachineInt` |
| **Integer domains** `core/…/{value,domain}/machine_int/` | value per variable | lattice, transfer functions, conditions | values of the iterators | `IntervalDomain` … `NumericDomain` |
| **Front end** `frontend/llvm/src/import/function.cpp`, `ar/src/{semantic/code,pass/simplify_cfg}.cpp` | blocks, statements, edges | translation of a function's control flow, simplification | makes the graphs that are analyzed | `FunctionImport` |
| **Pointer analyses** `analysis/pointer/`, `core/…/domain/pointer/solver.hpp` | constraints, points-to sets of variables and locations | generate, solve, twice | give the intraprocedural value analysis points-to sets and callees | `PointerAnalysis` |
| Other domains, liveness, other passes, checkers, database | – | – | input or output of the above | – |

### What is hard, and what makes each component correct

*WPO.* An iterative depth-first search in which a vertex may be discovered
after it was pushed; cross edges hidden until the search for components reaches
their lowest common ancestor; components merged while edges still name their
old members; irreducible loops, whose cells wait for cells outside of the loop
(*outer predecessors*). Correct: the components are the strongly connected ones,
level by level; the constraints are acyclic, order every data dependency, lead
into a component through its head and out of it through its exit; the outer
predecessors are counted exactly.

*Concurrent iterator.* Workers increment, reset and restore the same counters
and use the invariant tables without a lock. Correct: every cell runs once per
iteration of the components around it, after all it waits for; no wake-up is
lost, no cell is scheduled twice; no invariant is read while it is written; when
`parallel_do` returns everything has run; the result is a post-fixpoint.

*Call inlining.* Callee fixpoints are stored by several workers and used in
another pass; calls recur. Correct: the checks cover every behaviour, once per
path of calls, with the fixpoint of the last iteration; the analysis ends. (The
third fails where a loop head calls; see the findings.)

*Sequential iterator.* Correct: a post-fixpoint, and the same one;
`src/README.md:238` says that all runs have the same invariants "by design".

*Profile.* Each heavy path is one task, of cells that never run side by side; the
sizes that weigh the paths are computed through recursion with a memo.

*Factories.* One object per key, whoever asks first; nested locks.

*Progress logger.* A redraw erases lines by their number only, through control
sequences of the terminal; the thread that redraws is woken by a notification that
may be lost. Correct: messages are whole, and the last frames are below them. (A
redraw of one frame erases a line too many; see the findings.)

*Integers and domains.* Overflow at the width of the type, two representations;
wrapping and truncating operations; a reduced product whose reduction may undo
a widening. Correct: sound, an order that is inclusion, widening that stops.

*Front end.* Phi instructions are parallel assignments; comparisons and branches
multiply the output blocks; statements are moved and removed afterwards.
Correct: whatever the LLVM function does, its translation can do.

*Pointer analyses.* Constraints in any order, through memory, aggregates and
calls; widening within an iteration. Correct: what the program's pointers hold
is in the result; the solver stops soon.

The list of hazards, each at its line, is in `PROJECT.json`.

## 2. Modules

```
Wpo ── WpoConstruction ── WpoBuilder ─┐
 │            │             SmallGraphs┴─ FunctionOrder(Wto, FixpointProfile) ── MCWpoBuilder
 │            │   WpoBuilder ── WpoBuilderTheorems ── WpoOrderTheorems
 │            └── SmallPrograms ──┐
 ├─ ConcurrentFixpoint ── ConcurrentFixpointInv ── MCConcurrentFixpoint
 │        │ └─ Comparison(SequentialFixpoint(Wto)) ── MCComparison
 │        └─ WpoSchedule (refined)
 ├─ CallInlining ── MCCallInlining
 └─ WpoTheorems ─┬─ ConcurrentFixpointTheorems ── ValuesTheorems
                 └─ CallInliningTheorems (extends CallInlining too)

MachineValue ── {Interval,Congruence,IntervalCongruence,Constant(MachineInt)}Domain
     └─ NumericDomain(SeparateDomain) ── DomainSimulation ── MCNumericDomain
IntervalDomain ── PointerAnalysis ── MCPointerAnalysis
ArCode ── FunctionImport ── ImportSimulation ── MCFunctionImport
ProgressLogger ── {MCProgressLogger, ProgressLoggerTheorems}
Factories ── {MCFactories, FactoriesTheorems}
```

**`Wpo`** – a control flow graph and a WPO as records, the accessors of `class
Wpo`, and `WellFormed`, the contract between the construction and its users, in
eight named parts. Nothing in the contract is assumed of the code: it is proved of
what the construction returns, and the run `construction` checks it.

**`WpoConstruction`** – the turns of the loops of `WpoBuilder` as operators on
two records, the state of the search and the state of the merging, and
`BuildWpo`, which iterates them. Vertices are DFNs, as in the code. A vector that
is only looped over is a set; a disjoint-set forest with a map on its
representatives is the composed map. Only `lift = false` is modelled, the one
value the iterator passes; `_toplevel`, which nothing reads, is left out.
`comp`, the set of cells of a component, is auxiliary: the code stores its size.

**`WpoBuilder`** – the same steps as a state machine, one action per turn:

| action | code |
|---|---|
| `SearchDiscover`, `SearchFinish`, `SearchSkip` | the three branches of the loop of `construct_auxilary` |
| `SearchEnd` | the initialization of `construct_wpo` |
| `NextHead` | one turn of its loop over heads: restore cross edges, find nested components, add cells and constraints, merge |
| `OrderToplevel` | the constraints between maximal components |
| `CountOuterPreds` | the loop of the constructor over `_for_outer_preds` |

**`WpoBuilderTheorems`** – proofs about the search; **`WpoOrderTheorems`** – proofs
about the merging that follows it, up to the contract.

**`WpoSchedule`** – the abstract scheduler: a cell is scheduled when what it is
ordered after has run, runs once, and a component is repeated as a whole.

**`ConcurrentFixpoint`** – the concurrent iterator. A worker is a thread that
runs `Body::operator()`; its `pc` is where it is in it:

| `pc` | action | code |
|---|---|---|
| `idle` | `Take` | TBB gives the worker a task |
| `loop` | `Notify`, `Pop`, `EndTask` | increment one successor's counter and maybe schedule it; next cell; no cell left |
| `read` | `Read`, `SetPre`, `Check` | join one predecessor's post; all joined: `set_pre`, or `check_stabilization…` for an exit |
| `analyze` | `Analyze` | `set_post(analyze_node(pre))` |
| `reset` | `Reset` | `_executed_control_preds = 0`, return the successors |
| `unstable` | `ResetComponent` | the exit of a loop that is not stable resets its own counter |
| `restore` | `Restore`, `RunHead` | one counter of the component at a time, then `apply_header_rule` |

Every access to memory that workers share is one step: the grain at which two
workers can interfere. The locals of a worker (`cell`, `cur`, `unread`, `acc`,
`todo`) are what the C++ stack holds. `pool` counts the tasks TBB holds;
parallelism inside of tasks (a worker that waits for a nested `parallel_do` or
`parallel_reduce` may run other tasks) gives no more interleavings than more
workers do, because a task never waits for another one. `Finish` is the return of
`parallel_do`. `done` is a history variable that no guard reads.

Successors are told in the order of `std::set`, predecessors are read in the
order of the block numbers, which stands for that of the vector
`_data_predecessors`. The domain and the transfer functions are constant
operators. `unsigned` iteration counts saturate at `LaterIteration` = 3,
as `extrapolate` tells only the first, the second and later iterations apart.

**`ConcurrentFixpointInv`** – the inductive invariants, in named parts:
`SchedulerInv` of the schedule, `ValuesInv` of the abstract values with what it
asks of the domain. **`WpoTheorems`**, **`ConcurrentFixpointTheorems`** and
**`ValuesTheorems`** – the proofs (section 5).

**`Wto`** – Bourdoncle's construction, a recursive operator that yields the WTO
as a sequence of items (a vertex; the head, the end of a cycle), and the nestings
of blocks. **`SequentialFixpoint`** – the visitor over these items, one item per
step, with the constants of `ConcurrentFixpoint`. **`FunctionOrder`** – what is
computed of a function before its values: its WPO step by step, compared with the
WTO (with a block on each critical edge, as the front end makes them), then the
profile of that WPO. **`Comparison`** – `comparer.cpp`: the sequential iterator to its end, then
the concurrent one, then the invariants side by side. **`SmallGraphs`**,
**`SmallPrograms`** – the instances and a small domain.

**`CallInlining`** – one object per function and path of calls. Its fixpoint pass
runs cells at the grain of `WpoSchedule`, which `ConcurrentFixpoint` is shown to
implement; blocks that call stay open while other blocks run. `BeginCall` and
`EndCall` follow `exec(CallBase*)` in the fixpoint pass: the targets of
the pointer are collected, recursive ones and those beyond the limit are not
inlined, the others are analyzed side by side and stored. In the check pass the
stored object is checked, a missing one is analyzed again. `With` and `Without` add
objects to a table and take them out. A value is the set of the concrete states it
stands for, so that what the checks must cover can be computed from the program
alone. **`CallInliningTheorems`** – the proofs.

**`FixpointProfile`** – the weight of blocks through the tree of calls, with the
memo the code keeps per context sensitivity; then the sort of the cells, the search for the heaviest path, once per class, and the choice of a
partition and a number of workers when the function is analyzed.

**`Factories`** – every getter is one protocol: (lock,) look up, construct with
nested requests to other tables, insert, (unlock,) return. The tables, what a
construction asks for and the statements that workers analyze are constants.
Tables of AR types have no mutex and take three separate steps. `Guarded` names
the keys that no two workers can insert at once: all of the locked tables, and
the types that exist before or are asked for under one mutex.
**`FactoriesTheorems`** – the proofs.

**`ProgressLogger`** – three kinds of threads on one terminal; the mutex taken when
a message is started and released when it ends; the condition variable of the
redrawing thread with its timeout; `ScopeLogger`, which makes a logger the
current one and puts the old one back. The screen is the sequence of its lines,
from the first message on. The terminal is external: `CursorUp` is what it does with
a parameter, of which 0 stands for 1.
**`ProgressLoggerTheorems`** – the proofs.

**`MachineInt`** – a number is its bits, width and sign, in a register up to
`RegisterBits` bits or as an unlimited integer above, with the algorithms of
each. **`MachineValue`** – the numbers themselves, what the program computes, the
reference. **`IntervalDomain`**, **`CongruenceDomain`**,
**`IntervalCongruenceDomain`**, **`ConstantDomain`** – lattices, casts, binary
operations with and without wrapping, widening with thresholds, narrowing,
reduction. **`SeparateDomain`** – a map from variables to values, bottom when one
is. **`NumericDomain`** – the polymorphic domain, conditions and assignments.
**`DomainSimulation`** – a concrete number and an abstract store through the same
operations, casts, branches, joins and loop heads. `ConstantDomain` is part of
the core library and its unit tests; the analyzer does not offer it.

**`ArCode`** – blocks, edges and statements of a function body.
**`FunctionImport`** – `translate_basic_blocks` instruction by instruction with the
outputs of `BasicBlockTranslation`, phi nodes late, links, unified exits, then
`simplify_cfg`. **`ImportSimulation`** – the LLVM function runs, and `ars` holds all
states of the translation that agree with what was observed so far (a subset
construction: a simulation without a mapping given in advance).

**`PointerAnalysis`** – the constraints of each kind of statement, the solver
constraint by constraint (`Process`) and iteration by iteration
(`EndIteration`), first without numbers and calls through pointers, then with
both; afterwards the program runs (`Step`), in any order of its statements. The
numerical invariants are the interval of each shift, a part of the program.

The definitions whose names end in `Faulty`, `Early` or `Late` are no part of the
model. Each is the definition after it with a plausible mistake in it; the
properties are checked to find them (`mutants` in `PROJECT.json`).

## 3. Runs

| run | instance | what it shows |
|---|---|---|
| `construction` | `MCWpoBuilder.cfg` | the search, the components and the finished order are right and agree with the WTO; sizes, heavy paths, partitions and numbers of workers |
| `concurrent_iterator` | `MCConcurrentFixpoint.cfg`, 3 workers, symmetry | counters exact, cells exclusive, no race, complete, implements `WpoSchedule`, invariants cover what has run, post-fixpoint, phases of loops |
| `comparison` | `MCComparison.cfg`, 2 workers, fairness | both iterators end, with the same invariants |
| `inlining` | `MCCallInlining.cfg`, fairness | checks cover everything, once, with fresh fixpoints; the analysis ends |
| `mixed_recursion` | `MCMixedRecursion.cfg` | *violation*: a cached fixpoint is missing |
| `stale_cache` | `MCStaleCache.cfg` | *violation*: a cached fixpoint is of an earlier, smaller value |
| `factories` | `MCFactories.cfg`, 2 workers, fairness | one object per key; nested requests return |
| `progress` | `MCProgressLogger.cfg`, 2 workers, fairness | messages are not interleaved, frames are below them, a line is lost only with a lone frame; the logger ends |
| `values` | `MCNumericDomain.cfg` | integers exact; domains sound, ordered by inclusion, widened in few steps |
| `frontend` | `MCFunctionImport.cfg` | the translation simulates the function; no critical edge |
| `phi_swap` | `MCSwap.cfg` | *violation*: two phi instructions that exchange registers |
| `pointers` | `MCPointerAnalysis.cfg` | what pointers hold is found; the solver stops soon |

**Graphs.** `SmallGraphs` enumerates *every* graph of *n* blocks with at most two
successors per block and an entry that no edge enters, up to renaming (LLVM's
entry block has no predecessors). `construction` takes all of them up to four
blocks (`MaxBlocks`), six larger ones (three nested loops, loops that are entered
in the middle at each level, cross edges out of loops), and all of these with a
block on each critical edge up to seven blocks (`MaxSplit`), for which the two
orders are compared. Four blocks are the least with an irreducible loop inside of
a loop or beside a branch; the larger graphs have outer predecessors two
components away, which the walk of the constructor needs. `concurrent_iterator`
takes all graphs of three blocks, all irreducible ones of four and named ones
(three-way branches, two loops side by side, nested, in sequence, irreducible,
with a shortcut into the join of the body), each in two partitions.
`comparison` takes the split programs of three blocks and the named ones.

**Workers.** With two workers one can be at any step while the other one resets,
restores or increments; with three, one counter can be incremented by two while a
third worker is elsewhere. Workers are interchangeable, so symmetry is used in
`concurrent_iterator`, which has no liveness property.

**Values of the iterators.** The chain 0..4 with a widening that loses the bound, a
widening with a threshold, a narrowing that finds it again; joins and transfer
functions that are monotone. Invariants then differ with the iteration a loop
widens in, so a wrong phase shows in the result.

**Calls.** Up to four functions with calls in loops, in parallel branches and
through pointers, direct and mutual recursion, limits 0, 2 and 3, with and
without cache and narrowing; states 0..2 (`MaxState`). A call with several targets
of which one is being analyzed is left to `mixed_recursion`, and a call of a loop
head in a domain without iterated narrowing to `stale_cache`, where they fail.

**Profile.** All graphs of up to three blocks (`MaxProfiled`) with light and heavy
blocks, three graphs with calls, chains, loops and rings of callees, limits 0..3 and 0..3 threads;
`MinPath`, `ExitSize` and `IndirectSize` are scaled down so that paths of two or
three blocks are on both sides of the threshold.

**Factories.** Each of two workers analyzes one of four statements, which between
them ask every kind of table and nest two deep. With `void*` among the types that
exist beforehand (`Preexisting`); without it the tables of types race (section 6).

**Progress.** Two levels of frames (`MaxDepth`), iterations 0 and 1, three messages:
enough for a message to fall between any two steps of a redraw, of a change of the
frames and of the end of the logger.

**Integers.** Types of two and three bits hold the boundary cases of every
operation; constants of one, two, four and five bits with registers of four reach both
representations and the casts between them. Values that operations reach are
operated on with every value of a type of two bits and of the congruences; of
intervals of three bits with those that end at a corner, of the product of three
bits with the signs, the ends and the whole congruences, which leaves out pairs of
intervals that the plain intervals cover. Thresholds and coefficients are samples.

**Functions of LLVM.** Four blocks, two Boolean registers; every kind of
terminator, comparisons that are used by their branch only and elsewhere.

**Pointers.** All sequences of three of thirteen statements over two variables and
two objects: in every order, because the solver's iterations depend on it. Five
larger programs for lists, aggregates, calls, aggregates that are returned and a
table of functions. Offsets of five bits and a threshold of three, so that the
iterations without widening are more than the bound. Runs have at most eight steps
(`MaxSteps`), the longest way through a program.

**Fairness.** *Iterators*: a thread that runs a task goes on (`WF` of its steps: the
operating system schedules it and rules take no locks); as long as tasks are left
*some* thread takes one (the thread that called `parallel_do` is one of them), and
`parallel_do` returns; none between the workers. *Inlining*: some step is taken as
long as one is possible. *Factories*: `WF` for each worker, whose critical sections
end. *Progress*: `WF` for `end_logger`, for the thread of the logger, whose wait ends
by the timeout, and for a writer that has begun a message; nothing makes the
analysis log or change frames.

**Deadlock.** `CHECK_DEADLOCK FALSE` where the program stops: the construction when
the order is finished, the iterators when they have returned, and so on. That
they do not stop before is what `BothTerminate`, `Terminates`, `AllAnalyzed` and
`CompleteWhenFinished` say. `values` and `progress` never stop, and are checked.

## 4. Properties

*construction.* `PartitionExact`: before each turn the merged sets are the strongly
connected components of the subgraph after the head. `WpoWellFormed`: the
contract. `ComponentsAreSccs`: components of the order are those of the graph.
`OutsideExact`: post-order numbers tell inputs from back edges. `SameInputs`: so do
the nestings of the WTO, on graphs without critical edges, but for a block that
only jumps to itself. `WtoIsASchedule`: the WTO is one of the WPO's schedules.

*concurrent_iterator.* `SchedulerInv`: the inductive invariant. `Exclusive`: no cell
is scheduled or run twice at a time. `CountersExact`: a counter is the number of
notifications of the current iteration. `RaceFree`: no unlocked value is written
while it is used. `CompleteWhenFinished`. `ScheduleSpec`: the refinement of
`WpoSchedule` with `running` mapped to the cells that are tasks, on a worklist or
run. `PostFixpoint`. `InvariantsCover`: what it takes before the end, the inductive
invariant `ValuesInv` with the two conditions of its proof, `DecreasesLater` and
`OuterRefinementsDescend`. `IterationPhases`: a head climbs strictly, then only
descends.

*comparison.* `SameInvariants`, `BothTerminate`.

*inlining.* `ChecksCover`: every concrete state that enters a block on a path of
calls is in the value the block was checked with. `CheckedOnce`. `CacheFresh`: a
cached fixpoint is for at least the value of the call, in programs that iterate
their narrowing or whose loop heads do not call. `Terminates`.

*the profile, in the run* `construction`. `SizesExact`: the remembered size of a callee is that of its tree of
calls. `LengthsExact`: cells are measured after their inputs.
`ClassesAreHeaviestPaths`: each class is a heaviest path of what is left, so its cells
never run side by side. `ParallelismFits`.

*factories.* `OneObjectPerKey`: what was handed out is what the table holds.
`AllAnalyzed`.

*progress.* `ScreenConsistent`: below the messages are exactly the frames that were
drawn last, the second line of a message is below its first, and nothing is below a
message under way. `LinesKept`: a step that erases one lone frame takes the last line
above it along; no other step erases or changes a line of a message.
`EndLoggerReturns`.

*values.* `OperationsExact`: machine integers against the numbers and flags of
`MachineValue`. `Sound`: the number of the program stays in the store.
`ConstantsExact`. `WideningStops`: each widening lowers a rank in the bits of the
type. `OrderExact`: inclusion is that of sets. `BranchesExact`: a condition that
nothing satisfies is bottom.

*frontend.* `ExecutionsKept`: `ars` is never empty, and the end of the function is
the end of the exit block. `NoCriticalEdges`, which `SameInputs` needs.

*pointers.* `PointsToSound`: during the run a variable without an entry may hold
anything, another one holds an object and an offset of its entry; each cell of
memory holds one of "all the pointers stored at `m`" (`solver.hpp`). `SolvedSoon`:
iterations up to the threshold, then one per object or bound of a cell.

### Findings

* `mixed_recursion`: with a call through a pointer to a function that is being
  analyzed and to one that is not, the fixpoint pass returns before it stores the
  second, and the check pass dereferences the missing entry of the cache
  (`cc_inliner.hpp:405`).
* `stale_cache`: the comment "Erase the previous fix-point on the callee"
  (`cc_inliner.hpp:414`) does not come true, because in the fixpoint pass the engine
  of each block has an empty cache of its own (`function_fixpoint.cpp:150`); the
  entries are in the cache of the caller. An entry of an early iteration of a loop
  head survives when later iterations make the call unknown. A domain that does not
  iterate its narrowing then refines the head once and leaves the loop, and the
  check pass takes the entry for a value that it was not computed for. The theorem
  `CacheIsFresh` says when this cannot happen.
* `phi_swap`: phi instructions become assignments one after the other
  (`function.cpp:1458`); two that exchange registers lose one value.

A fourth disagreement is part of the model, stated by `LinesKept` and not by a run of its
own: the comment at `progress.cpp:334` says that the cursor goes up by `size - 1`
lines. If one frame is displayed that is `\033[0A`, a terminal goes up by one line
for it, and `\033[J` then erases the last line of the message above with the frame.

## 5. Proofs

Five components are proved about, for *every* value of the constants: any control
flow graph, any set of workers, any program, domain, set of tables, or number of
messages. All theorems
are checked by TLAPS to the last leaf.

### What they assume

| assumption | in | says | why |
|---|---|---|---|
| `OrdersWellFormed` | `ConcurrentFixpoint`, `CallInlining` | each order satisfies the contract `WellFormed` | proved: `WpoIsWellFormed` says it of what the code constructs, for every graph that is `GraphsEntered`, and the run `construction` checks it |
| `GraphsFinite` | `WpoBuilder` | each graph is a finite set of blocks with edges between them and an entry | types |
| `ValuesClosed` | `ConcurrentFixpoint` | operators yield abstract values | types |
| `DomainLaws` | `ConcurrentFixpointInv` | `Leq` is a preorder; joins and widenings cover their arguments; `Narrow(a, b)` is between `b` and `a` | the contract of `abstract_domain.hpp` |
| `JoinsLeast` | `ConcurrentFixpointInv` | joins are least upper bounds | true of a lattice, as intervals or congruences; a domain with a coarser join may leave a refined loop uncovered |
| `EdgesMonotone` | `ConcurrentFixpointInv` | the transfer functions of *edges* are monotone | `exec_edge` takes the normal or the exceptional part of a value (`numerical.hpp:974`) and inlines nothing |
| `Numbered` | `CallInlining` | functions and blocks are numbers | names |
| `RequestsWellFormed`, `NobodyIsNoWorker` | `Factories` | requests name tables and arguments; types are named by their argument alone | types of the constants |
| `OwnersDistinct` | `ProgressLogger` | a writer is neither the redrawing thread nor nobody | thread identities |

TLC evaluates each of them in a run, on the constants of that run.

Nothing is assumed of the transfer functions of *blocks*. They need not be monotone:
a block that calls contains fixpoints of its callees, and a smaller value at the
call may be widened further inside. Where a proof needs it the theorem says so by
the hypothesis `RefinedMonotone`: if the domain does not iterate its narrowing, the
*heads* of loops have monotone transfer functions, otherwise all blocks of loops.
Blocks outside of loops, and in the first case blocks that are no heads, may do what
they like. `RefinedMonotone` holds of a function whose loops (or whose loop heads) do
not call, and is not claimed of others: the post-invariant of a refined head is not
computed again, so that what is left there may not cover the block as run on the
refined value. It need not for soundness, which the run `inlining` checks with calls
(`ChecksCover`).

### The theorems

| theorem | property | by |
|---|---|---|
| `SearchClassifies` | (the edges, in no run) | `SearchInv`: after the search, a DFN is lower or higher, and a subtree finished or not, as the class of the edge says |
| `PartitionIsExact` | `PartitionExact` | `SearchInv`, `RepOK`, `PredsOK`: the sets of the merging are connected, and no edge joins two of them that the search for components has still to see |
| `ComponentsAreExact` | `ComponentsAreSccs` | `ParentsOK`: a merged vertex has for parent the innermost head whose component it is in |
| `OutsideIsExact` | `OutsideExact` | `ClimbsToLoops`, `InsideIsWithin`: the climb over parents goes through the loops that a vertex is in, and through nothing else |
| `WpoIsWellFormed` | `WpoWellFormed` | `ContractInv`: the constraints are those of the edges, each at the level of the innermost loop that contains both of its ends |
| `TypeCorrect` | (`TypeOK`, in no run) | `TypeOK`, `InputFixed` and `LocalsOK` together |
| `SchedulerCorrect` | `SchedulerInv` | induction over the steps |
| `ScheduledOnce` | `Exclusive` | a part of `SchedulerInv` |
| `CountersCorrect` | `CountersExact` | a part of `SchedulerInv` |
| `TablesRaceFree` | `RaceFree` | `InputsBefore`: what a running cell joins is in `done`, whoever writes is not; `SameBlock`; `AllCells` for two components that are restored at a time |
| `FinishedComplete` | `CompleteWhenFinished` | when nothing is active, `done` holds every cell whose predecessors it holds: `AllCells` |
| `ImplementsSchedule` | `ScheduleSpec` | `Notify` maps to `Schedule` or a stutter, `Reset` to `Complete`, `ResetComponent` to `Repeat`, all other steps to a stutter |
| `DecreasesCorrect` | a part of `InvariantsCover` | a head decreases after an iteration only, and if narrowing is iterated |
| `PhasesCorrect` | `IterationPhases` | what each rule does to the kind and the invariant of a head |
| `PostFixpointReached` | `PostFixpoint` | `ValuesInv`, where `RefinedMonotone` and `OnlyInnermostRefined`: the heads have monotone transfer functions and the domain does not iterate its narrowing, or all blocks of loops have and no loop is nested |
| `CoveredIfInnermost` | `InvariantsCover` | the same hypotheses, at every step |
| `Inlining` | (`InliningInv`) | induction over the steps |
| `BlocksCheckedOnce` | `CheckedOnce` | a part of `InliningInv` |
| `CacheIsFresh` | `CacheFresh` | a part of `InliningInv`, where `HeadsFresh` |
| `OnlyMixedCallsMiss` | (bounds what `mixed_recursion` shows) | a part of `InliningInv`, where `HeadsFresh` |
| `GuardedKeysHaveOneObject` | (`OneObjectPerKey` of all guarded keys) | `FactoriesInv` |
| `KeysHaveOneObject` | `OneObjectPerKey` | the same, with the hypothesis `TypesGuarded` that all keys are guarded; `MCFactories` has an instance of it |
| `ScreenCorrect` | `ScreenConsistent` | `LoggerInv` |
| `MessagesKept` | `LinesKept` | each step from `LoggerInv` |

### The arguments

**Order** (`WpoTheorems`). What the contract implies: `AllCells` (the well-founded
induction over constraints, stated with a set), `ComponentFacts`,
`ComponentBeforeExit` (a closed set with the predecessors of an exit contains its
component), `OuterFacts`, `SameBlock`, `InputsBefore`, `CellOfBlock`.

**Construction** (`WpoBuilderTheorems`, `WpoOrderTheorems`). Where an argument would
be an induction over a number, it is one over a set of numbers, or over the steps
of the program.

* *Search.* `SearchInv` says how numbers, tree, stack and lowest common ancestors
  fit together: descendants are numbered consecutively, the stack holds a path of
  the tree and the children that wait beside it, every out-edge of a discovered
  block leads to a descendant, waits, or is stored as a back edge or at the lowest
  common ancestor of its ends. A vertex that is discovered after it was pushed
  keeps all of this.
* *Components.* The merging searches backwards over edges that still name old
  members. `RepOK`: each merged set is connected and has its least vertex, the head,
  for representative. `PredsOK`: the edges that are restored so far are all the
  edges into what the head in turn can reach without leaving the vertices after it;
  an edge whose lowest common ancestor comes later leads to another subtree and is
  not needed yet. With both, the backward search finds the strongly connected component
  of the head, and merging it keeps both (`PartitionIsExact`).
* *Nesting.* Every component of the finished order is the strongly connected component
  `LoopOf` of its first vertex among the vertices from there on. Two of them are
  nested or apart. `ParentsOK`: the parent of a merged vertex is the innermost head
  around it (`ComponentsAreExact`).
* *Outside.* `ClimbsToLoops` and `InsideIsWithin`: the climb over parents that the
  constructor makes for outer predecessors is the climb over the loops around a
  vertex. `PostOK`: post-order numbers go down from ancestors to descendants and
  from left to right, so that a predecessor of a head with a smaller number is a
  descendant, hence inside (`OutsideIsExact`). This needs that every block is
  reached from the entry (`AllReached`): a block that is not has no number, and the
  code takes it for number 0. The graphs of all runs satisfy it; simplify-cfg
  removes the blocks that are not reached, but for cycles of them (section 6).
* *Constraints.* `Group(g, d, h, v)` is the component of `v` among the vertices after
  `h`. For two vertices there is exactly one loop, or the whole graph, in which they
  are in different groups (`Meet`): the innermost around both. `OriginOK`: an edge
  that is restored stays stored at the component it leads into until a turn merges
  both of its ends. So each turn adds the constraints of the edges that meet in its
  loop, and those of the back edges to the exit, and no others (`LinksOK`): a
  constraint starts at the head itself or at the last cell of a group and ends at
  the cell of a vertex.
* *Borders.* From this, loop by loop (`Around`): a constraint leaves a loop from its
  exit only; the head waits for nothing inside, the exit for nothing outside; every
  other cell inside waits for one inside and leads on.
* *No cycle.* A set of cells each of which waits for another one of the set is
  `Trapped`. Between the groups of a loop post-order numbers fall along each
  constraint, so a trapped set is trapped in one group, and then within a loop
  further inside; the innermost one is a single vertex, which does not wait for
  itself (`NoneTrapped`). An order without trapped cells can be run, and what lies
  between a head and its exit is the loop (`BetweenBounds`).
* *Counts.* The climb from the target of a constraint goes over exactly the exits of
  the loops that the constraint enters (`OuterLinksEnter`), and no two counted
  constraints join the same cells (`CountIsExact`); the stored size is the number of
  cells (`SizesOK`). These, with the invariants above, are `ContractInv`; it implies
  each of the eight parts of `WellFormed` (`WpoIsWellFormed`). `EntryFirst` needs that
  no edge leads to the entry, as LLVM has it; with `AllReached` this is
  `GraphsEntered`, which `MCWpoBuilder` evaluates for the graphs of its run.

**Schedule** (`ConcurrentFixpointTheorems`). `Exclusive` and `CountersExact` are not inductive:
whether an increment schedules a cell twice depends on what the other predecessors
of the cell do. The invariant `SchedulerInv` adds

* `DoneClosed`: `done` is closed under the constraints. With `ComponentBeforeExit`,
  when an exit runs the rest of its component has run (`ExitAlone`), so an exit
  that repeats its component disturbs nobody inside of it.
* `ActiveReady`: all predecessors of an active cell have run *and told it*, so no
  counter of an active cell is ever incremented again before the cell has run.
* `PendingOnce`: a cell still to be told is neither done nor active, and no two
  workers tell on behalf of one predecessor, so a notification counts once.
* `ComponentQuiet`: while a component is restored none of its cells is told or
  active, and all it waits for outside has run, so that the restored numbers are
  the notifications that will not come again.
* `LoopsFresh`, `FinishedQuiet`: a loop that is left, and a run that is over.

`CountersExact` then says what `Notified` must be for the last increment to find
the right value, and `ActiveReady` follows for the cell that is scheduled.

**Values** (`ValuesTheorems`). `PostFixpoint` speaks of the end only. `ValuesInv`
says what is covered before: the initial state (`EntryCovered`); by a worker that
reads, the inputs it has joined (`ReadsCovered`); the edges into a block once its
plain cell or the exit of its loop has run (`InputsCovered`); the block itself once
it is analyzed, but for the head of a loop that is about to be repeated
(`NodesCovered`). What one worker has covered survives the steps of the others
because `SchedulerInv` keeps them from writing what it has read.

When a loop is refined its invariants shrink while blocks of it keep theirs, and a
block may run with inputs that were refined and others that were not. For a loop
without loops inside, `LoopsDescend` keeps all its blocks covered: every value that
is joined is below the one it replaces, by `RefinedMonotone`, `EdgesMonotone` and
`JoinsLeast`. A loop *inside* of a refined one starts over, and its widening may end
above the value it had: widening is not monotone, not even where the blocks are.
That the outer refinement descends then depends on the domain
(`OuterRefinementsDescend`); the run `concurrent_iterator` checks it in
`InvariantsCover` on its nested loops, and the theorems leave this case out by
`OnlyInnermostRefined`. Within both hypotheses `CoveredIfInnermost` says that
`ValuesInv` holds at every step and `PostFixpointReached` that the result is a
post-fixpoint. The phases (`PhasesCorrect`, `DecreasesCorrect`) need neither.

**Inlining** (`CallInliningTheorems`). A cache holds objects whose caches hold objects
in turn, to any depth. `Settled` says of an object that it is in a *set closed
downwards* of resting objects, each with its fixpoint found and its cache filled:
a definition without recursion, whose proofs give a witness for the set. Objects
are settled when they converge (`RunOK` collects what their blocks stored), when
they are stored and when they are taken.

* *Once*: `checked` grows when a check pass goes on from a block, and the object of
  a path is gone when it is through. `CheckedOK` says that a block that was checked
  on path *c* was visited by the object of *c*, if there is one, and `ComesDown`
  that each object above has visited the call that leads to *c*. A second object
  for *c* would need a call that is not visited yet.
* *Fresh*: `CacheFilled` says what the cache holds for the blocks that are done:
  an entry of at least the value in `pre`, for each callee that the check pass will
  look for. A refinement of a loop makes `pre` of its head smaller without running
  the head again. Smaller is no harm to an entry that is there, but a smaller value
  may need an entry that the larger one did not (its call was unknown). Hence
  `HeadsFresh`: narrowing is iterated, so that the head runs again, or heads do not
  call. Without it the run `stale_cache` shows a counterexample.
* *Mixed*: with `HeadsFresh`, what is `missing` belongs to a call with a callee that
  is being analyzed.

`InliningInv` was checked by TLC on all programs of the run `inlining` before it was
proved.

**Factories** (`FactoriesTheorems`). That a found object is the one in the table is
easy; that an *inserted* one is the first of its key is not, because the lookup is
several steps, and calls of other factories, before. `MakingOK`: whoever makes an
object holds the mutex of its table, its key is absent, and no other object of that
table is made down the same stack. `TypesOK`: a guarded type that was looked up in
vain is still absent. Two workers that look up the same new type in vain would both
hold the mutex under which it is asked for.

**Logger** (`ProgressLoggerTheorems`). A redraw erases as many lines as it remembers,
and one more if it remembers one. `MutexOK`: the mutex is the redrawing thread's
exactly while it draws, nothing is displayed while a message is written, while frames
are drawn or after the last redraw. With `ScreenConsistent`, which says what each line
of the screen is, two or more lines that are erased are the lines below the messages
(`Erased`); a lone one takes the last line of a message, and what is left is still
consistent because a message loses its end before its beginning.

### Only model-checked

* All liveness (`Terminates`, `BothTerminate`, `AllAnalyzed`, `EndLoggerReturns`) and
  `SolvedSoon`, `WideningStops`, which bound iterations.
* The profile: path lengths and the tree of calls are recursive functions over
  data, and what such a function computes for every graph is out of the prover's
  reach.
* `ChecksCover`, which compares with the recursive `Executions`.
* `SameInvariants`: it would take an argument that two schedules widen each loop at
  the same values, which relates the two iterators iteration by iteration.
* `FunctionImport`, `PointerAnalysis`: folds over statements and constraints.
  The integers and domains: recursive operators and bit operations.
* `PostFixpoint` and `InvariantsCover` of nested loops in a domain that iterates its
  narrowing (`OuterRefinementsDescend`), and, as the programs of that run have
  monotone blocks, of no other programs than those with `RefinedMonotone`.

## 6. Not modelled

* `_toplevel`, `lift = true`, `dump`, `Cell::reset`, `size`, `max_parallelism`: no
  effect on the analysis or no caller.
* Domains other than intervals, congruences and constants (octagons, gauges,
  difference bounds, memory, nullity, lifetime, exceptions): algorithms over
  matrices and maps of unbounded data; the iterators take a domain as a parameter.
* Widening hints of the profile (`fixpoint_profile.cpp:100`): a syntactic pattern
  of comparisons; `HasHint` is a parameter of the iterators.
* Front end: types, constants, memory instructions, debug information, exceptions
  beyond the edges of an invoke. The other AR passes.
* Liveness (`liveness.cpp`): a backward fixpoint whose result removes variables.
* The intraprocedural and the sequential interprocedural drivers: loops around the
  iterators. Checkers and database: reporting.
* Memory exhaustion and exceptions in transfer functions: they end the program.

Seen in the code, and outside of the instances because the models of the parts
take what the other parts hand them:

* *Iterator*: an entry block that heads a loop, and a second call of `run`, would go
  wrong; no caller does them. A predecessor that is not reachable is taken for
  cell 0 (`concurrent_fwd_fixpoint_iterator.hpp:565`); simplify-cfg leaves cycles
  of unreachable blocks.
* *Factories*: without `void*` in the table two workers may insert it at once
  (`context_impl.cpp:93`). Whoever made the type that was not inserted holds one
  that is destroyed. Nothing in the analyzer sees to it that `void*` exists, hence
  `TypesGuarded` is a hypothesis of one theorem and not an assumption.
* *Integers*: the bisection of the leading zeros (`machine_int.hpp:534`) is wrong at
  widths that cannot be halved down to one; an arithmetic shift of a signed
  interval of one bit calls itself for ever (`interval.hpp:817`).
* *Front end*: a constant branch that makes the only return unreachable makes
  simplify-cfg erase the exit block (`code.cpp:301`); the model stops in phase
  `aborted`.
* *Liveness*: a block from which the exit is unreachable is not in the reversed
  graph.
* *Pointers*: a pointer derived from one without constraints (the result of an
  unknown function, a cast from an integer, whose constraint is created and not
  added, `constraint.hpp:390`) has an empty entry instead of none; functions that
  are passed through calls through pointers are not found by the first analysis,
  and their calls have no constraints in the second; `realloc` keeps no contents
  (`constraint.hpp:716`). Pointers of the first kind are *outside* in the model.

## 7. What is left

1. *Proofs.* `ChecksCover`: `Executions`, a recursive definition, would have to be
   restated as the least set closed under the steps of the program, and the
   invariant of the inlining extended by what `ValuesInv` says of one function.
   A safety part of the comparison: under monotone operators both iterators stay
   above the least fixpoint.
2. *Liveness analysis and widening hints.*
3. *More domains*: gauges and difference bounds, on `MachineValue`.
