# Verification of the Cangjie compiler's CHIR range analysis

TLA+ specifications, TLC model-checking runs and TLAPS proofs for the compiler in this
repository, kept beside its code. Paths below are relative to the repository root, where
the compiler's sources are under `src/` and `include/`.

## Contents

1. Inventory of the system
2. The modules and the plan
3. The runs
4. The theorems
5. What is not covered
6. How to run everything

## 1. Inventory of the system

The repository is the front end of the Cangjie compiler: it lexes, parses, expands macros,
type-checks, lowers to the intermediate representation CHIR, analyses and optimises CHIR and
emits LLVM bitcode. This branch of it concentrates on a *value range analysis* of CHIR
(`doc/range_analysis_refactor_baseline.md`). The core logic of that branch, and most of what is
concurrent in the compiler, is in `src/CHIR` and the utilities it uses.

### Analysis of CHIR

| Component | State | Operations | Interacts with | What makes it correct |
|---|---|---|---|---|
| Data-flow engine, `include/cangjie/CHIR/Analysis/Engine.h` | entry state of every block, work list and its set, environment of each lambda met, lambda work list | `IterateToFixpoint`, `IterateSingleUnitToFixpoint`, narrowing rounds | virtual functions of `Analysis<Domain>`, operations of the domain, `TopologicalSort` | result covers every execution; the work list forgets no change; it ends |
| Widening and cut-off, `RangeAnalysis::CheckInQueueTimes` | visits per block, snapshots, budget of context analysis | count, widen, clear | the engine, after each block | only loses information; bounds the visits |
| Task queue, `include/cangjie/Utils/TaskQueue.h` | priority queue under a mutex, threads, `isStarted` | `AddTask`, `RunInBackground`, `WaitForAllTasksCompleted`, `RunAndWaitForAllTasksCompleted` | every parallel pass | each task runs once, all are done when the wait returns, heavier first |
| Analysis wrappers, `AnalysisWrapper.h`, `ConstAnalysisWrapper.h` | result maps | `RunOnPackage` serial or parallel, `SetUpGlobalVarState`, `CheckFuncResult`, `Invalidate...` | engine, task queue | the maps do not depend on the number of threads |
| Context summaries, `AnalyzeCalleeWithContext` in `ValueRangeAnalysis.cpp` | global cache from (callee, context) to summary with a state UNSEEN, COMPUTING, READY, FAILED; counts; insertion order; rejected keys; budget; per-thread depth and call stack | look up, reserve, analyse (recursively), publish, reject, clear | all analysis threads, under one mutex | one analysis per key, bounds never exceeded, a reader never uses a half-made summary, nobody waits for anybody |
| Recorded call contexts | per call site the contexts it was analysed with, the sites with unmodelled calls, completeness flags | record, commit, clear, visit reachable | context summaries, results | "complete" only if every reachable context is READY |
| Range values: `ConstantRange`, `SIntDomain`, `SInt`, symbolic bounds | intervals modulo 2^W | union, intersection, arithmetic, comparison | transfer functions | over-approximate the machine operation, wrap-around included |
| Active state pool, `ActiveStatePool.h` | bounded pool of abstract values | `Insert`, `Join`, eviction | constant analysis of large functions | an evicted value is unknown, `Join` reports changes |
| Dominators, topological sort, `Utils.cpp` | visit stack | reverse post-order | engine, passes | every reachable block once |
| Call graph, `CallGraphAnalysis.cpp` | DFS numbers, stacks, SCC list | Tarjan's algorithm, resumable | function inlining | callees before callers |

### Optimisation of CHIR

| Component | State | Operations | Interacts with | What makes it correct |
|---|---|---|---|---|
| Pass pipeline, `src/CHIR/CHIR.cpp` | package, effect map, result wrappers | serial and parallel variants of each pass | all passes | both variants compute the same |
| Constant and range propagation | rewrites per function, effect map shared by all instances under a mutex | `RunOnFunc`, `RecordEffectMap` | analysis results, incremental cache | rewrites only what every execution agrees on |
| Function inlining | count and size caches, effect map | `CheckCanRewrite`, `DoFunctionInline` | call graph | bounded growth |
| Effect map, `FlattenEffectMap`, `MergeEffectMap` | which declaration was optimised into which | merge, flatten, rename, drop | passes, incremental compilation | no optimisation is forgotten; it ends |
| Dead code elimination, devirtualisation, redundant load and future elimination, array passes, block merging | the IR | rewrite | | preserve behaviour |

### The rest of the compiler

| Component | State | Hard behaviour |
|---|---|---|
| Lexer, parser | token buffer | error recovery |
| Sema (type checking, generics, desugaring) | type manager, AST | constraint solving |
| Macro expansion, `src/Macro` | status of each macro call, child processes | macros that depend on macros, parallel evaluation, the macro server's messages |
| Diagnostics, `src/Basic/DiagnosticEngine*` | pending diagnostics, transactions, counters under mutexes | nested transactions, reports from several threads |
| Package management, `src/Modules` | loaded packages, serialised ASTs | cyclic imports |
| Conditional compilation | conditions | |
| Incremental compilation | hashes of the last compilation, effect map | pollution propagation, stale cache after a failed run |
| AST to CHIR, CHIR serialisation, checker, interpreter | translation tables, bytecode frames | constant evaluation |
| Code generation | LLVM modules | parallel emission |
| Driver, `src/Driver` | jobs, tool processes, temporary files | cancelled by a signal, limit on processes (`Semaphore`) |
| Frontend | compiler instance, phases | phases in order |
| Utilities | semaphore, signals, profile | |

## 2. The modules and the plan

Seven components are modelled so far, chosen because the rest of the branch stands on them and
because what can go wrong in them is out of reach of a unit test.

### 2.1 `DataflowEngine`: the engine of every analysis

`Engine<Domain>` is a template, so the module is one too. Its CONSTANTS are what the engine
calls: the graph (`UnitBlocks`, `Successors`, `TopologicalSort`, `LambdasIn`), the virtual functions
of `Analysis<Domain>` (`FuncEntryState`, `LambdaEntryState`, `Effect`, `Targets`, `EdgeState`) and the
operations of the domain (`Join`, `JoinChanged`, `Widen`, `ClearState`, `Narrow`). The named
assumptions are the contract: `GraphAssumption`, `DomainAssumption`, `LatticeAssumption`,
`TransferAssumption`, and `ReachAssumption`, which says what "an execution reaches this block with
this store" means. `Gamma` maps an abstract state to the stores it describes.

| Code (`Engine.h`) | Module |
|---|---|
| `entrySets`, `worklist`, `worklistSet`, `lambdaEnvState`, `lambdaWorklist`, `worklistIdx` | variables of the same names |
| local states of a visit | `cur`, `toRecord`, `out`, `toJoin` |
| `inqueueTimes`, `loopRangeSnapshots`, the context budget | `inqueueTimes`, `snapshots`, `budgetExhausted` |
| early return of `IterateToFixpoint` | `Reject` |
| initial states of the blocks, entry of the function | `StartFunction` |
| loop over the work list: pop, skip an unreachable block, walk the block | `SkipBlock`, `BeginBlock`, `RecordLambda` |
| `CheckInQueueTimes` and the terminator | `FinishBlock`, `FinishBlockWithoutBudget` |
| join of each successor, requeueing | `JoinSuccessor`, `EndBlock` |
| `IterateSingleUnitToNarrowingFixpoint` | `EndFixpoint`, `NarrowBlock`, `ApplyNarrowing` |
| loop over the lambdas, `SetToStable` | `NextLambda`, `SetToStable` |
| `ConsumeContextAnalysisWork` refuses, at any time | `ExhaustBudget` |

What one visit does to each variable of the program is data and stays in `Effect`; which block is
visited, joined, requeued, widened, cut off or narrowed, and when, is control and is kept.

### 2.2 `TaskQueue` implements `TaskBatch`

`TaskBatch` is the promise: tasks handed over are each executed once, heavier ones first, at most
`Limit` at a time, and the call that waits returns when all have a result. `TaskQueue` is
`TaskQueue.h`: the main thread (`AddTask`, `RunNothing`, `StartCreating`, `CreateThread`, `StartWaiting`,
`JoinThread`, `ReturnFromWait`) and the threads of `DoTask`, cut where another thread can act: `Lock`,
`Exit`, `CopyTop`, `PopAndUnlock`, `RunTask`. Copying the head and removing it are two steps, since
`std::priority_queue` makes them two calls; only the mutex keeps them together. Threads start while
others are being created. `RunInBackground` and `RunAndWaitForAllTasksCompleted` are the same
actions, with other work of the main thread before `JoinThread` or none.
Refinement mapping: `waiting <- tasks`, `executing <- Running`, `done <- ready`,
`returned <- (main = "returned")`.

### 2.3 `ContextSummaries`: context-sensitive calls

The nested analyses of one thread are its `stack` of frames; a frame has the calls it still has to
handle, the call in hand, and the value it has so far. `HandleContextSensitiveCall` is
`CallUnmodeled` and `BeginCall`, which records the context in the same step, as the code does before the
look-up. `AnalyzeCalleeWithContext` is then one of `CallAffine`, `CallUnknown`, `CallReady`, `Reject` and
`StartAnalysis`: each is one hold of `contextSummaryMutex`, so that other threads act between the
reservation and the publication (`FinishAnalysis`). `ClearState` is `CheckInQueueTimes` of a context
that has no budget left, `ExhaustBudget` the clock or the counter. The contest client of range
propagation is `StartVisit`, `VisitContext`, `FinishVisit` (`VisitReachableContextSensitiveResults`)
and `ClearContextSensitiveResults`. Values are sets of concrete results; `Returns`, a solution of the
program's equations, says what a call can really return.

### 2.4 `EffectMap`: what was optimised into what

One compilation, from constant propagation to the names that the next compilation reads. The
history variable `contents` says what each function's code was really made from; the program's own
maps must name all of it.

| Code | Module |
|---|---|
| `RunConstantPropagation` (merge before the pass with one job, after it with more) | `StartConstantPropagation`, `PropagateConstants`, `EndConstantPropagation` |
| `RunFunctionInline`, `CheckCanRewrite`, `DoFunctionInline`, `RecordEffectMap` | `Inline`, `NextCaller`, `EndFunctionInline` |
| `RunRangePropagation` | `PropagateRanges`, `EndRangePropagation` |
| `FlattenEffectMap` and its stack | `StartKey`, `PopNode`, `EndKey`, `EndFlatten` |
| `UpdateOptEffectMapBecauseOfInit` | `RewriteConstructors` |
| `UpdateEffectMapToString`, `DropOutIllegalString` | `ToNames` |

### 2.5 `JobExecution`: the driver's tools

`Job::Execute`, `Tool::Execute`, `Tool::Run` and the futures of `Tool.h`, with
`TempFileManager::DeleteTempFiles` beside them. Three kinds of actor interleave: the main thread, the
children it starts, and a handler that deletes the temporary files at any moment.

| Code | Module |
|---|---|
| loops over `commandList` and over a batch | `batch`, `next`, `BatchStarted`, `AllBatchesDone` |
| wait while no slot is free (`Job.cpp`), then the command | `WaitForSlot`, `SlotAvailable` |
| `Tool::Execute` looks at `isDeleted` | `MayRun`, `NoFuture`; `ReadNullFuture` is what the caller does with a missing future |
| `Tool::Run`: take a slot, start the child, `ErrorFuture` | `Acquire`, `Spawn`, `SpawnFailed` |
| `CheckExecuteResult`, one round over the map | `Inspect`, `CheckAgain`, `CheckSucceeded`, `CheckFailed` |
| destruction of `childWorkers` | `Unwind` |
| processes and copying threads | `FinishProcess`, `FinishThread` |
| `DeleteTempFiles` by the handler and by the main thread, `_exit` | `BeginDeleting`, `FinishDeleting`, `StopWaiting`, `Exit` |

A command is identified with its command string, the key of the map, which is unique since the
tools of a job differ in their files. The map's keys are strings, so a round meets its entries in any
order. The wait of `IsDeleted` reads the flag a bounded number of times and then goes on;
`StopWaiting` may therefore be taken whatever the flag is. The history variable `late` collects the commands that
were started after a deletion had begun.

### 2.6 `CallGraphSCC`: the order of inlining

`CallGraph` and `CallGraphAnalysis`. `AddToCallGraph` is one turn of the constructor's loop;
`BuildSCC` visits the entry node; `VisitNewChild` and `VisitSeenChild` are a turn of
`DFSVisitChildren`, and `PopLeaf` and `PopComponent` the two ends of a turn of `GetNextSCC`, the second with the loop
that empties the component from `sccNodeStack` and the loop of `BuildSCC` that lists it. The
number `~0U` of a finished node is `Done`, one more than any number given. A call through an
interface adds no edge, because `GetAllPossibleCalleeOfInvoke` finds no callee. The package is chosen in the initial
state from `Programs`, so that one run covers every package of a family. The history variable
`components` keeps which nodes were listed together.

### 2.7 `SInt`, `ConstantRange`, `SIntDomain` and `RangeTransfer`: the arithmetic of ranges

Four modules for the values of the range analysis, each on top of the one before.

| Code | Module |
|---|---|
| `SInt.cpp`: integers of a width, overflow tests, saturation | `SInt`: a pattern is a number below 2^w, the width is given by h = 2^(w-1) |
| `ConstantRange.cpp`: intervals modulo 2^w | `ConstantRange`: a record of two ends and h; one operator per method |
| `SIntDomain.cpp`: range and symbolic bounds, meet, join, conversions, arithmetic, verdicts on comparisons | `SIntDomain`: a record of the range, a function from symbols to ranges of the difference, and the signedness |
| `HandleUnaryExpr`, `HandleBinaryExpr`, `HandleTypeCast` of `RangeAnalysis` | actions of `RangeTransfer` of the same names, which append a value |
| one edge of a branch, `ApplyIntComparisonConstraint` and the narrowing of what a value was computed from | `TakeBranch` |
| `HandleBranchTerminator`, then the join of its edges, `SIntRange::Join` | `MergeBranch` |
| parameters, literals, values narrowed before | `Operand` |

`RangeTransfer` is a straight-line program that is chosen step by step: `dom` is what the analysis
computes, `runs` is the history of the program, the values in every execution that gets to this point,
from the semantics of the operators (`OverflowChecking.h`). The properties compare the two. The order
in which common symbols are tried is that of addresses in the code and any order in the model.

`Families` are small programs: the types, ranges, operators and steps they may use. `KnownGaps` are
places where the rules are known to be wrong (3.2); a step that reaches one needs it in `KnownGaps`, so that the passing run has
none and shows that its programs meet no others, and each of three runs has one. The gap predicates (`LosesEnd`, `ComparesEnd`,
`RelatesUnsigned`, `SubtractsUnsigned`, `KeepsBounds`) say exactly what the passing run leaves out:

- `ends`: NEG and BITNOT of a range that begins at the smallest value; a signed division that may divide the smallest value by -1;
  a subtraction that negates a bound which is the smallest value alone, or which is clamped; a difference from a
  symbol that is known to be an end of the order alone, and may lie beyond it, where two values are subtracted or
  compared through that symbol.
- `unsigned`: LE and GE between two unsigned values, and a subtraction of an unsigned value above the largest signed one.
- `join`: a merge in which one side's range covers the other's while their bounds differ.

A range stands for those too large for the exact sets of values that the code keeps of small
ones; two single values are computed exactly, as in the code. A single value that enters is a literal. In a program of one step the operands
are used in the order they enter, which loses nothing since every pair of ranges enters.
The limits on a value's ancestors, six bounds deep and 32 in all, are the code's own; programs of four values do not reach them.
Left out are congruences, known bits, exclusions and fragments, which only refine a range; the CHECKED
strategy, which yields an option; shifts and bit operations on two operands; loads, and the shortcuts for loops.

### 2.8 How they compose

The analyses that `TaskQueue` runs are the root frames of `ContextSummaries`; every frame is one
run of `DataflowEngine`, which `ContextSummaries` abstracts to the calls it handles, relying on its
`Termination` and `SoundResult`. Range propagation acts on `SoundResult` and, in the contest client, on
`ClosureSound`; what it rewrites is recorded in `EffectMap`. `TaskBatch` is what the passes use of
`TaskQueue`; `PropagateConstants` and `PropagateRanges` of `EffectMap` are in any order for that reason.
The list that `CallGraphSCC` builds is the constant `PostOrder` of `EffectMap`; that module assumes
nothing of it but that it lists functions, since a cycle of calls has no order that would help it.
`Effect`, `EdgeState` and `Join` of `DataflowEngine` are, for the range analysis, the transfer functions,
narrowing and join of `RangeTransfer`: `RangesSound` is what `TransferAssumption` asks of them, and `Gamma` there is
`Contains` here; `ValuesInRanges` proves it for programs outside the known gaps. The runs of 3.2 are therefore also the places where the engine's contract does not hold.
`JobExecution` begins when the front end and the code generator have written their files and shares
no state with the others.

### 2.9 What comes next

In this order; each module is to be written so that it can be proved about.

1. `ActiveStatePool`: insertion, `Join`, demotion of references and eviction at the pool's limit.
   Worth stating: an evicted value is unknown; `Join` reports every change (the engine's
   `LatticeAssumption` for this domain); the pool never grows past its limit.
2. The rest of the range arithmetic: exact sets and congruences of `RangeTransfer`, shifts. Each new operator
   needs its own theorem beside `ProductSound` and one more case in `BinarySound`; the invariant stays.
3. `TopologicalSort` and the dominators: the `GraphAssumption` that the engine's proofs rest on, for
   the visit-stack algorithm of `Utils.cpp`.
4. `IncrementalCache`: the cached effect map across several compilations, some of which fail,
   composed with `EffectMap`.
5. `AnalysisWrapper`: result maps and `SetUpGlobalVarState`, serial and parallel, composed with
   `TaskBatch`: the result is the same for both.
6. `ContextSummaries` with the replay of bounded loops, whose contexts are committed or dropped
   as a whole, and with the summaries of lambdas.
7. `MacroEvaluation` (states of calls that depend on calls) and `DiagnosticEngine` (nested transactions,
   reports from several threads).
8. The theorems of the modules above, each beside its module.

## 3. The runs

Every run explores all states of its instance. Systems that stop when their work is done have
`CHECK_DEADLOCK FALSE`; for the concurrent ones `Termination` says what a deadlock check would.

### 3.1 Runs that pass

| Run | Module | Instance | Distinct states |
|---|---|---|---|
| `engine` | `MCDataflowEngine` | four shapes of graph (a loop, a diamond, a block that is its own successor, a loop through the entry), one variable 0..7 with wrapping addition, a lambda created in either block or nowhere and a lambda inside it, widening at the 2nd visit, cut-off at the 3rd, three narrowing rounds | 95,579 |
| `task_queue` | `MCTaskQueue` | four tasks, two of them of one priority, three threads at most | 4,495 |
| `context_summaries` | `MCContextSummaries` | two threads, two roots, five contexts of three functions that call each other, three of them of one function; two contexts per function, three in all, depth two, five records | 95,822 |
| `context_closure` | `MCContextSummaries` | one thread, three roots, contexts that call each other, the contest client, two reachable contexts | 13,410 |
| `effect_map` | `MCEffectMap` | four functions, two without a name of their own of which one is a constructor, one global variable, three inlinings, two jobs | 156,158 |
| `job_execution` | `MCJobExecution` | four commands of which one is a copy, an empty batch, a linker; three slots | 13,909 |
| `call_graph` | `MCCallGraphSCC` | all packages of a function that nobody calls and three that call each other and themselves, at most two different calls each, one function possibly used as a value | 335,822 |
| `int_domain` | `MCRangeTransfer` | one step on every range, or two, of two bits and on those of three bits that begin and stop at or next to an end of an order; two steps between three and four bits; two and three steps on three bits, signed and unsigned | 102,077 |

What they show, and why the bounds are enough:

- **`engine`.** `WorklistExact`: the list and the set beside it agree. `Settled`: a block that is not
  queued is consistent with its successors. `SoundResult`: the entry state of every block covers every
  execution, after widening, cut-off and narrowing. `LambdasOnce`: no lambda is queued twice or
  iterated before its creator. `VisitsBounded`: the cut-off bounds the visits.
  `Termination`. A block needs three visits for plain join, widening and cut-off to
  happen in turn, and a program that climbs in single steps to its bound reaches all three; eight
  values are enough for the variable to wrap around; a lambda in a lambda is enough for the
  lambda list to grow while it is walked. TLC checks the contract, `ReachAssumption` included,
  on every program of the family.
- **`task_queue`.** `RunsOnce`, `QuietOnReturn` (nothing runs when the wait has returned),
  the refinement `ImplementsBatch`, `Termination`. Three
  threads and four tasks let one thread take two tasks while others are created or leave; the
  main thread may add any subset of the tasks, so that there are more threads than tasks, and none at all, too.
- **`context_summaries`.** `SummariesSound` (a READY summary contains what the call can return),
  `CacheConsistent` (cache, counts, insertion order and rejected keys agree), `LimitsHold`, `PublishedOnce`
  (nobody rewrites a READY entry), `Termination` (every root ends although nobody waits). The program enters one recursion from both ends, so
  that each thread meets what the other is computing; every limit is below what the program would need, that of
  one function as well, whose third context may come when only two are in the cache.
- **`context_closure`.** `ClosureSound`: when the walk says that it saw all reachable contexts, it did.
  `VisitsEnd`: every walk ends, with contexts that call each other in a cycle, summaries that are missing, and no room
  for all the contexts.
- **`effect_map`.** `FlattenedIsClosure` (a finished key has exactly what chains of effects lead to) and
  `EffectsCovered` (at the end whatever went into a function's code is named). It has two jobs; with
  one job `EffectsCovered` does not hold (3.2).
- **`job_execution`.** `SlotsAccounted`, `BatchesInOrder`, `ResultIsExact` (`Execute` returns true if every tool succeeded, and
  only then; one mutant breaks either direction),
  `DeletionIsExclusive`, `AtMostOneLate`, `Termination`. With three slots for four commands the wait for a slot
  happens; any subset of the processes fails; the copying thread can be the last that runs.
- **`call_graph`.** `ListedOnce`, `ComponentsExact` (what is listed together is a recursion, all
  of it), `CalleesFirst`, `ReachableListed`. Three functions and the edges between them give every
  strongly connected shape up to three nodes, entered at each of them.
- **`int_domain`.** `RangesSound`, `BoundsSound` (a bound covers the difference of two values in every
  execution, clamped to the width) and `VerdictsSound` (a comparison that is decided has that outcome in every
  execution, whichever symbol decided it) hold of programs that mix all expressions, casts, branches and
  merges. `CoversSmallest`: a union or intersection that is no interval is covered by a smallest one. Two and three bits
  have every shape of range: empty, full, single, wrapped in either order or in both, ending at zero or at the smallest
  value; with every pair of them every case of `IntersectWith` and `UnionWith` happens. Two steps are enough
  for a bound to be used after it was made, three for a chain of bounds and for a value cast to the other sign and back.
  Four bits to three, and back, give the cuts of the conversions; a wider type has no other case, since every
  comparison in the code is with zero, an end of an order or the end of the smaller type.

### 3.2 Runs that refute what the repository says

| Run | Property | What the code does |
|---|---|---|
| `effect_map_cycle` | `Termination` | Two functions that call each other may be inlined into each other; `FlattenEffectMap` (`src/CHIR/CHIR.cpp:169`) then goes round the cycle for ever. |
| `smallest_value` | `RangesSound` | `ConstantRange::Negate` (`src/CHIR/Analysis/ConstantRange.cpp:1334`) ends its result before the smallest value when the range begins there, contrary to `ConstantRange.h:343`. |
| `unsigned_relation` | `VerdictsSound` | `FromSymbolic` (`src/CHIR/Analysis/SIntDomain.cpp:89`) takes the bound of an unsigned comparison in the unsigned order, where a difference that is not above zero is zero; it is read as signed (`SIntDomain.h:29`). |
| `join_bounds` | `VerdictsSound` | `SIntRange::Join` (`src/CHIR/Analysis/ValueRangeAnalysis.cpp:7357`) reports no change, and keeps its bounds, when only the numeric range is unchanged. |

`effect_map_cycle` has the instance of `effect_map` with another program; `smallest_value` has the first family of
`int_domain`, the other two have programs of branches and merges only, each with one gap admitted.

Where the models had to follow the code into something its comments deny, without a run of its own:

- With one job `RunConstantPropagation` merges the effect map of the pass (`src/CHIR/CHIR.cpp:580`) before the pass has
  run; with more jobs, and in `RunRangePropagation` with one, it is merged after, and `ConstPropagation.h:50` calls it the
  map "after this pass". The next incremental compilation does not learn what was folded where. It can be seen
  with `Jobs = 1` in `MCEffectMap.cfg`: TLC then reports `EffectsCovered` violated after `leaf` has folded the value of `limit`.
- `isDeleted` is read in `Tool::Execute` (`src/Driver/Tool.cpp:167`) before the slot is taken and the process
  started, so that one command may run on deleted files; `AtMostOneLate` is what holds.
- When `Tool::Execute` returns no future, `Job::Execute` reads that future's message
  (`src/Driver/Job.cpp:129`): the action `ReadNullFuture`.
- A function used as a value has a user and gets no edge from the entry node (`src/CHIR/Analysis/CallGraphAnalysis.cpp:100`),
  contrary to `include/cangjie/CHIR/Analysis/CallGraphAnalysis.h:117`; called by nobody, it is in no component,
  and neither is a recursion that nothing else calls. `ReachableListed` says what the list does hold.
- The smallest value modulo -1 under THROWING is taken for an overflow (`CheckSingleValueOverflow`), although
  `include/cangjie/CHIR/Checker/OverflowChecking.h:236` says that it is none; the result is unknown, which is sound.
- A signed division loses the quotient of the smallest value in the same way as `Negate`: the upper end is
  assigned twice (`src/CHIR/Analysis/ConstantRange.cpp:1037`). It is part of the gap `ends`.
- `ComputeSub` keeps away from negating a right operand that is the smallest value alone
  (`src/CHIR/Analysis/SIntDomain.cpp:305`), but not a bound that is (line 294): the proof of `TypeOK` could not be closed there.
  When a value is known to be the smallest value above another and is subtracted from it, `Negate` builds equal ends, which
  the assertion of the constructor (`src/CHIR/Analysis/ConstantRange.cpp:29`) refuses. The shortest program found has
  two sums, a comparison of them that meets their bounds, three more comparisons and the subtraction.
- A bound that is the largest or the smallest value alone stands for every difference beyond it as well.
  `TryComputeCommonSymbolDifferenceRangeImpl` (`src/CHIR/Analysis/ValueRangeAnalysis.cpp:16984`) adds it up as exact, and
  a comparison through a common symbol takes two such bounds for equal. With three bits: after `c = a + b`, `b > a` and `c > a`,
  c may be known to be 3 above a and b at least 1 above it, which may be 7 above it; `b <= c` is then taken for true.
  Both are part of the gap `ends`. They were met when the conditions of `VerdictSound` (section 4) were
  looked for in longer programs than those of `int_domain`, of up to eight steps chosen at random.

### 3.3 Fairness

| Module | Assumed | Why the code justifies it |
|---|---|---|
| `DataflowEngine` | weak fairness of the engine's steps | one thread that never blocks; the budget need not run out |
| `TaskQueue` | weak fairness of the main thread and of each thread outside the lock; strong fairness of `Lock` per thread | threads are scheduled and tasks end; a mutex that is free again and again is in the end given to a thread that keeps asking for it |
| `ContextSummaries` | weak fairness of each thread's analysis and of the walk | an engine's run ends (`Termination` of `DataflowEngine`); no thread waits for another, so weak fairness is enough. Nothing obliges the budget to run out or a client to clear the cache |
| `EffectMap` | weak fairness of `Next`, for `effect_map_cycle` only | sequential; the run needs it for its counterexample to be one of the loop and not of a stop |
| `CallGraphSCC`, `RangeTransfer` | none | only safety is stated |
| `JobExecution` | weak fairness of the main thread, of the end of each tool, and of a handler that has begun | a tool is a compiler step that ends; the handler need never begin |

## 4. The theorems

The theorems about specifications are of the form `Spec => []P` or `Spec => Abstract`, without fairness, for every
value of the constants that meets the named assumptions. Each of these `*_proofs` modules defines an inductive invariant,
proves it action by action, and derives the listed properties from it. The theorems of
`SIntDomain_proofs` are about operators, for every width, and those of `RangeTransfer_proofs`, about programs, rest on them.

| Module | Assumptions | Theorems |
|---|---|---|
| `DataflowEngine_proofs` | `GraphAssumption`, `BoundAssumption`, `DomainAssumption`, `LatticeAssumption`, `TransferAssumption`, `ReachAssumption` | `TypeCorrect`, `WorklistCorrect`, `LambdasCorrect`, `SettledCorrect`, `Soundness` |
| `TaskQueue_proofs` | `TaskAssumption`, `ThreadsAssumption` | `TypeCorrect`, `OnceCorrect`, `NoIdleCorrect`, `QuietCorrect`, `Implementation` |
| `ContextSummaries_proofs` | `ContextAssumption`, `ReturnsAssumption` | `TypeCorrect`, `SummariesCorrect`, `PublishedFinally`, `ClosureCorrect`, `CacheCorrect`, `LimitsCorrect` |
| `EffectMap_proofs` | `ValueAssumption`, `BodyAssumption`, `LimitAssumption`, `NameAssumption` | `TypeCorrect`, `ClosureCorrect`, `NoEffectLost` (which also assumes `Jobs # 1`) |
| `JobExecution_proofs` | `CmdAssumption`, `SlotsAssumption`, `ListAssumption` | `TypeCorrect`, `SlotsAreAccounted`, `BatchesAreInOrder`, `ResultIsRight`, `DeletionIsAlwaysExclusive`, `OneLateAtMost` |
| `CallGraphSCC_proofs` | `NodeAssumption`, `FunctionsAssumption`, `ProgramsAssumption` | `TypeCorrect`, `NodesAreListedOnce`, `CalleesComeFirst`, `ComponentsAreExact`, `ReachableAreListed` |
| `SIntDomain_proofs` | none; each theorem is for every h \in Nat \ {0, 1}, half the modulus of the width, and all legal ranges of that width | `UnionBest`, `IntersectionBest`, `InverseExact`, `AddSound`, `SubSound`, `NegateSound`, `UnsignedExtremes`, `SignedExtremes`, `FromExact`, `CompareSound`, `MeetKeeps`, `JoinCovers`, `ZeroExtendSound`, `SignExtendSound`, `VerdictSound`, `ComparisonKeeps`, `ComputeAddSound`, `ComputeSubSound` |
| `RangeTransfer_proofs` | `FamiliesAssumption`, `GapsAssumption` | `SmallestCovers`; `RangesAreRanges` (which also assumes `"ends" \notin KnownGaps`); `ValuesInRanges`, `DifferencesInBounds`, `VerdictsHold` (which also assume `KnownGaps = {}`) |
| `RangeTransfer_proofs`, operators | h is a power of two (`IsHalfModulus`; any h for `QuotientSound`) | `UMulOvfExact`, `ProductSound`, `QuotientSound`, `ConversionSound` |
| `RangeTransfer_proofs`, one execution | the domains describe the values of an execution (`Sources`, `Executes`, `Fit`) | `CastSound`, `BinarySound`, `ComparisonFits` |

`FamiliesAssumption` asks that the widths of types be widths in bits, that is, that half the modulus be a power of two,
as in the code, which has 8, 16, 32 and 64 bits. `KnownGaps = {}` is the setting of the passing run: the three gaps are
places where the code is wrong and the properties are false (3.2), so that no theorem could include them.

The arguments:

- **Engine.** `Settled` alone is not inductive: in the middle of a visit the block in hand has
  handed its new state to some successors and not yet to others. `SettledInv` therefore says what
  the block in hand still owes (`InHand`). Soundness rests on three parts: the state handed to a unit's entry
  block is kept and describes what enters the unit from outside (`SeedInv`), the states of the units that are done
  describe what executions reach, and so do those their lambdas will be entered with (`DoneInv`), and during a narrowing round the
  candidates describe what enters over the edges of the blocks propagated so far (`CandidateInv`). At the
  fixpoint, take a reached store of least `Depth` that its block's state misses: `ReachAssumption` says where it came from, an
  earlier store that is described, and `Settled` that the edge was covered, a contradiction. The argument needs no
  order of the blocks.
- **Task queue.** `MutexInv` (at most one thread is between lock and unlock), `HandInv` (the task
  in a thread's hand is in no other place), `NoIdleThread` (a thread that has left saw an
  empty queue, and nobody adds tasks any more), `ThreadInv` and `MainInv` (which threads exist). The refinement then
  maps `PopAndUnlock` to the start of a task of the highest priority, because the mutex makes the copied head
  still the head, and `RunTask` to its end.
- **Context summaries.** The value of a frame contains what the calls it has handled can return, and its
  remaining calls are the others; the frame above is the call in hand of the one below; a READY summary contains
  `Returns`. The shape of `ReturnsAssumption`, which only asks for a solution of the equations, is
  why recursion needs no induction over the depth of calls. Four more invariants stand on these. `StackInv`: the
  frame above another is a context, is COMPUTING, and is on no other stack, so that an analysis that ends finds its own
  entry (`PublishedFinally`), and a context has one frame exactly while it is COMPUTING (`CacheCorrect`). `KnownInv`: a
  call that was handled is recorded with its caller, or one of the flags says that something is missing; what the
  visit has discovered is visited or waits (`ClosureCorrect`). `OrderInv` and `CountInv`: the order lists each used
  context once and the counter of a function is the number of its used contexts, a fold that `CountsSum` unfolds.
  `LimitInv`: since the reservation tests the limits and reserves in one hold of the mutex, no other thread's
  reservation comes between (`LimitsCorrect`). The three limits are natural numbers and contexts and functions
  are finitely many (`ContextAssumption`); in the code they are unsigned and the program is finite.
- **Effect map.** Inside the flattening, what is finished is closed, what was popped has its successors on the
  stack or among the popped, and nothing is there that a chain of effects does not lead to (`InnerInv`).
  That no effect is lost is `CoverInv`: until the flattening has ended, a chain of effects, recorded in the maps of the
  passes or in the merged one, leads from whatever a function's code was made from to that function. Chains only grow
  (`ReachedGrows`), and inlining copies a callee's contents together with an effect of the callee on the caller.
  After the flattening the chain is a single entry, and after the constructors and the names have been
  rewritten it is an entry of the names. With one job the map of constant propagation is merged before the pass has
  run and the property is false (3.2), which is why `NoEffectLost` assumes `Jobs # 1`.
  `NameAssumption` says that a constructor has the empty name and that no member of a type has it or
  "$BOX": only a function is given that name (`TranslateFuncDecl.cpp`).
- **Jobs.** `SlotInv` (the equation of slots and futures), `PlaceInv` and `StartedInv` (which commands have been
  started, from `batch` and `next`), `FailInv` (a failure this round or the result knows of has a cause, a tool that
  did not succeed, and causes do not go away: `FailureCaused`, `CauseStays`), `OutcomeInv` (a started command of this batch has a future, has succeeded, or
  this round knows of a failure), `LateInv` (a late command means that the main thread is past the only look that
  could have missed the deletion), `DeleteInv` (who may be in `DeleteTempFiles`).
- **Call graph.** `CountInv` (visit numbers are the order of visits), `StackInv` and `PathInv` (the path is
  a subsequence of the stack, in order), `CalleeInv`, `ListInv`. The difficulty of `CalleesFirst` is to say
  where the number of a callee went that was seen on the stack. `CalleeInv` gives every node on the stack an
  *owner*, the nearest node of the path at or below it: a callee
  already followed is listed, or is on the stack at or above the owner's lowest number. When the
  owner is the first of its component, all callees of the nodes above it are thus in the component or listed.
  The other two theorems are about reachability, which the proofs define without paths: `Reaches(n, m)` says that m
  is in every set that holds n and is closed under calls. No induction over paths is then needed, only closed
  sets: what is finished is closed (`DoneClosed`). `ConnInv` says that a node of the path reaches every node of the
  stack visited after it, that a node of the stack reaches its owner, and that the lowest number a node
  of the path has seen is that of a node it reaches. The component that is cut off is thus strongly connected, and nothing outside
  it both reaches it and is reached from it, since what it reaches besides is finished. `ReachedFact` ties this to
  the definition the runs evaluate, layers of callees up to the number of nodes: the layers grow until they
  stop, by then at the latest, since each that grows adds a node.
- **Ranges.** Membership of a pattern in a range is expressed by its ends (`Contains`), which leaves linear arithmetic
  once the cases of wrapping are told apart; the lemmas do that one operator at a time. `UnionBest` and `IntersectionBest` say
  that the result is legal, covers what it must, and covers nothing else unless the exact result is in two
  pieces that no interval joins; of these there are only two covers that a smaller range could lie in, and the smaller one is
  returned. `SmallestCovers` says the same of every two operands of a program. `AddSound` and `SubSound` rest on the rule that a result smaller than an
  operand went round the modulus (`FullIfWrapped`). `CompareSound` follows from the extremes of a range in either order.
  `MeetKeeps` and `JoinCovers` lift union and intersection to domains, bounds included; `ComputeAddSound`, `ComputeSubSound`
  and `ComparisonKeeps` say that a domain which describes a value describes what is computed from it or what is left
  after a branch, and `VerdictSound` that no comparison of described values is decided wrongly. What the last four exclude
  is what the gaps `ends` and `unsigned` name: the smallest value, whose negation is clamped, a clamped difference from a
  common symbol, and unsigned values whose difference is read with another sign. In these theorems h need not be a
  power of two: they hold of every even modulus from four on.

  `RangesAreRanges` is `TypeOK` for programs of any number of values, steps and types. A range is legal unless its
  ends are equal and neither both zero nor both the largest pattern, so every operation of `ConstantRange` and every conversion
  between any two widths has a lemma in `SIntDomain_proofs` that its ends do not meet except where it returns the empty
  or the full range (`SDivLegal`, `SRemLegal`, `TruncateLegal` and `ConversionLegal` are the long ones; a quotient needs
  `DivisionMonotone`). The invariant `RangesLegal` says further that bounds are of the width of their value and
  by symbols that exist, which a new value, a narrowing and a join each keep (`ValueAdded`, `ValuesNarrowed`).
- **Programs on ranges.** `RangesSound` alone is not inductive: a branch on one value narrows the value it was
  computed from, so that the invariant must know that the two are related as the definition says, and a bound that is wrong today gives a wrong range
  two steps later. The invariant is `Sound`, of four parts. `RangesLegal` is the one above. `Sources`: a definition
  refers to earlier symbols only, and its operands have the type of its result. `Executes`: in every execution each value
  is a pattern of its type and is what its definition gives for the values it refers to. `Fit`: every domain describes its
  value, that is, it is legal, contains the pattern, its bounds contain the clamped differences, and a signed value is
  bounded by values of its own type only; the last is what keeps a bound meaningful through casts.

  *Operators.* An operation is proved first for one pattern of each range. `UMulOvfExact` needs widths
  to be whole numbers of bits: `UMulOvf` adds the active bits of its operands, and two numbers whose bits add
  up to two more than those of h have a product of at least 2h only if h is a power of two. It is an induction over halvings. With it,
  `ProductSound` follows from the four products of the ends, which are the extremes of a product of two intervals,
  and from saturation being monotone. `QuotientSound` follows from
  `DivisionMonotone`, part by part of a divisor that is cut at zero. `ConversionSound` goes through the parts
  into which a wrapped range is split before each is truncated or extended; that a narrower width divides a wider one, which
  truncation relies on, is again that both are widths in bits.

  *Domains.* `CastSound` and `BinarySound` lift this to domains. The hard case is the difference of two values with a
  common ancestor: `CommonSymbolDifference` follows chains of bounds that are single values, as many as the code's limits allow. How the
  recursion unfolds (`AncestorsFollowed`) is an induction over its layers, and so is that each ancestor found differs from
  the value by just what was added up (`AncestorsDiffer`). A step of a chain is exact only because its
  difference is not an end of the order, where it may be clamped: outside the gap `ends` (`AmountExact`, `CommonDifferenceExact`).

  *Narrowing and joining.* `SourceKnows` and `DerivedKnows` say what an edge's condition on a value says of what it was cast
  from, or computed from by an addition or subtraction of a constant that does not wrap; here
  `Executes` is used. `ByConstantFits` and `BySymbolsFits` then narrow either side by constants and by
  one another (`ComparisonFits`), and `JoinKeeps` says that a join that changes nothing, outside the gap `join`, loses nothing.

  *Steps.* A new value (`ValueSound`), an edge (`NarrowedSound`) and a merge (`MergeSound`) each keep `Sound`
  (`SoundInductive`), and the three properties are consequences of it; `VerdictsHold` cites `VerdictSound`
  with the two values' patterns as its witnesses. TLC checked `Sound` on the families of `int_domain`
  before it was proved.

Only model-checked, and why:

- `Termination` everywhere: liveness and `ENABLED` are beyond the prover.
- `VisitsBounded`: that an ascent ends rests on a cleared block handing the same state over an edge each time it is
  visited. In the instance a cleared state is the unknown one. The engine's contract has no such clause, and `ClearState` of
  `ValueAnalysis.h` gives up the entries that hold a value only: references stay as they were, so that what a cleared
  block hands on may in general still change. An assumption that says otherwise would not be the code's.

## 5. What is not covered

- **Data of the analyses.** What an expression does to the abstract state is `Effect` of the engine, constrained by
  the contract only. For integers `RangeTransfer` has the contract checked and proved; the transfer functions on booleans, on
  references and containers, the exact sets, congruences and known bits of `ValueRangeAnalysis.cpp`,
  its shortcuts for loops and its loads are not modelled, nor is the constant analysis.
- **Parsing and formatting of integers**, shifts and bit operations in `SInt.cpp` and `ConstantRange.cpp`.
- **Replay of bounded loops and summaries of lambdas** in `AnalyzeCalleeWithContext`, and the renaming of
  object identities between caller and callee: the values of `ContextSummaries` are sets of results.
- **`ArrayListConstStartOpt`** and other passes that write no shared map; dead code elimination, devirtualisation,
  redundant loads, array passes and block merging are sequential rewritings of one function at a time.
- **Process interfaces.** The Windows variants of starting and waiting for a process are represented by the
  same actions; a `std::async` is a thread of its own, as its launch policy asks for.
- **Lexer, parser, semantic analysis, mangling, AST to CHIR, serialisation, interpreter, code generation,
  package management, conditional compilation, options**: translations and recognisers of large data, sequential
  but for the task queue they use. Their states are out of a model checker's reach.
- **Macro expansion, diagnostics, incremental compilation**: planned, see 2.9.

## 6. How to run everything

In this directory, with TLC, the community modules and TLAPS 1.4.5 installed:

    tlasany DataflowEngine.tla
    tlc -workers 2 -config MCDataflowEngine.cfg MCDataflowEngine.tla
    tlapm DataflowEngine_proofs.tla

and likewise for the other modules. The configuration of every run is named in `PROJECT.json`. `int_domain`
takes two to three minutes, `engine` and `call_graph` about a minute each, the other runs seconds. The proofs of
`RangeTransfer_proofs` take about twelve minutes, those of `SIntDomain_proofs` about four, the others less.
