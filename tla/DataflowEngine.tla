--------------------------- MODULE DataflowEngine ---------------------------
(***************************************************************************)
(* The data-flow engine of CHIR: Engine<Domain>::IterateToFixpoint and     *)
(* IterateSingleUnitToFixpoint of include/cangjie/CHIR/Analysis/Engine.h,  *)
(* with the widening guard RangeAnalysis::CheckInQueueTimes.               *)
(*                                                                         *)
(* The engine computes, for every block of a function and of the lambdas   *)
(* it creates, a state that over-approximates what an execution can have   *)
(* when it enters the block.  It runs a work list over one unit (the body  *)
(* of the function or of one lambda) until nothing changes, then a bounded *)
(* number of narrowing rounds, then goes on with the lambdas the unit      *)
(* created, each entered in the state recorded where it was created.       *)
(*                                                                         *)
(* Engine is a template over the abstract domain and the analysis, so the  *)
(* constants of this module are exactly what it calls: the control-flow    *)
(* graph, the virtual functions of Analysis<Domain> and the operations of  *)
(* AbstractDomain<Domain>.  The assumptions are the contract the engine    *)
(* relies on; Gamma gives the concrete stores a state describes.           *)
(***************************************************************************)
EXTENDS Integers, Sequences, FiniteSets

CONSTANTS
    Function,             \* the functions under analysis
    Block,                \* the blocks of all their units
    Lambda,               \* the lambdas they may create
    FuncBody,             \* the unit that is the function's own body
    State,                \* the abstract states (Domain)
    Bottom,               \* Analysis::Bottom(), the UNREACHABLE state
    Store                 \* the concrete stores

CONSTANTS
    UnitBlocks(_, _),     \* function, unit: the blocks of the unit
    UnitEntry(_, _),      \* function, unit: its entry block
    TopologicalSort(_, _),\* function, unit: the initial work list
    Successors(_, _),     \* function, block: GetSuccessors, in order
    LambdasIn(_, _),      \* function, block: lambdas created, in order
    SkipAnalysis(_),      \* no body, SKIP_ANALYSIS or over the block limit
    IsContextAnalysis(_)  \* RangeAnalysis::isContextAnalysis

CONSTANTS
    FuncEntryState(_),    \* InitializeFuncEntryState applied to Bottom
    LambdaEntryState(_, _, _), \* HandleVarStateCapturedByLambda and
                               \* InitializeLambdaEntryState of a lambda
                               \* applied to its recorded state
    EnvAt(_, _, _, _),    \* f, b, l, s: the state where block b, entered
                          \* in s, creates l
    Effect(_, _, _),      \* f, b, s: the state after all of b, terminator
                          \* included, entered in s
    Targets(_, _, _),     \* f, b, s: the successors PropagateTerminatorEffect
                          \* leaves: all of them, or the one it resolved
    EdgeState(_, _, _, _),\* f, b, s, t: GetTerminatorStateForSuccessor
    Join(_, _),           \* the state after lhs.Join(rhs)
    JoinChanged(_, _),    \* what lhs.Join(rhs) returns
    Widen(_, _, _),       \* f, snapshot, s: the state after ApplyLoopWidening
    ClearState(_),        \* State::ClearState
    Narrow(_, _),         \* the state after NarrowState(state, candidate)
    WidenStart,           \* rangeAnalysisConfig.loopWideningStartTimes
    MaxInqueue,           \* rangeAnalysisConfig.maxInqueueTimes
    NarrowLimit           \* GetNarrowingIterationLimit()

CONSTANTS
    Gamma(_),             \* the concrete stores a state describes
    FuncStores(_),        \* f: the stores a call can start in
    Run(_, _, _),         \* f, b, c: the stores in which an execution of b
                          \* from store c can reach the terminator's edges
    Takes(_, _, _),       \* f, b, c: the successors control can go to
    Invoke(_, _, _, _),   \* f, b, l, c: the stores in which the lambda l
                          \* created by b, entered in c, can be entered
    Reach(_, _),          \* f, b: the stores executions enter block b with
    Depth(_, _, _)        \* f, b, c: the steps an execution needs to do so

(* The elements of a sequence.                                             *)
Elems(s) == {s[i] : i \in DOMAIN s}

Distinct(s) == \A i, j \in DOMAIN s : s[i] = s[j] => i = j

(* What is iterated separately: the function's body and each lambda's.     *)
Unit == Lambda \cup {FuncBody}

-----------------------------------------------------------------------------
(* The contract.                                                           *)

(* Shape of the graph: units do not share blocks, a unit's entry is on its *)
(* initial work list, which edges do not leave, edges stay in the unit, and *)
(* a lambda expression is in one block only.                               *)
ASSUME GraphAssumption ==
    /\ FuncBody \notin Lambda
    /\ \A f \in Function :
        /\ \A u \in Unit :
            /\ UnitBlocks(f, u) \subseteq Block
            /\ UnitEntry(f, u) \in UnitBlocks(f, u)
            /\ TopologicalSort(f, u) \in Seq(UnitBlocks(f, u))
            /\ UnitEntry(f, u) \in Elems(TopologicalSort(f, u))
            /\ Distinct(TopologicalSort(f, u))
            /\ \A b \in Elems(TopologicalSort(f, u)) :
                   Elems(Successors(f, b)) \subseteq Elems(TopologicalSort(f, u))
            /\ \A v \in Unit : u # v => UnitBlocks(f, u) \cap UnitBlocks(f, v) = {}
            /\ \A b \in UnitBlocks(f, u) : Successors(f, b) \in Seq(UnitBlocks(f, u))
        /\ \A b \in Block : LambdasIn(f, b) \in Seq(Lambda)
        /\ \A b, d \in Block : b # d =>
               Elems(LambdasIn(f, b)) \cap Elems(LambdasIn(f, d)) = {}

(* The bounds; ReadRangeAnalysisConfig keeps 2 <= WidenStart < MaxInqueue. *)
ASSUME BoundAssumption ==
    /\ WidenStart \in Nat /\ MaxInqueue \in Nat /\ NarrowLimit \in Nat
    /\ 2 <= WidenStart /\ WidenStart < MaxInqueue

(* Every operation returns a state, and resolves to successors.            *)
ASSUME DomainAssumption ==
    /\ Bottom \in State
    /\ \A s, t \in State :
        /\ Join(s, t) \in State
        /\ JoinChanged(s, t) \in BOOLEAN
        /\ ClearState(s) \in State
        /\ Narrow(s, t) \in State
    /\ \A f \in Function :
        /\ FuncEntryState(f) \in State
        /\ \A s, t \in State : Widen(f, s, t) \in State
        /\ \A l \in Lambda, s \in State : LambdaEntryState(f, l, s) \in State
        /\ \A b \in Block, s \in State :
            /\ Effect(f, b, s) \in State
            /\ Targets(f, b, s) \in Seq(Elems(Successors(f, b)))
            /\ \A l \in Lambda : EnvAt(f, b, l, s) \in State
            /\ \A t \in Block : EdgeState(f, b, s, t) \in State

(* AbstractDomain: Join is an upper bound and reports every change ("@return *)
(* true if state changed"), Bottom is unreachable, widening and clearing   *)
(* only lose information, narrowing keeps what both states describe.       *)
ASSUME LatticeAssumption ==
    /\ Gamma(Bottom) = {}
    /\ \A s, t \in State :
        /\ Gamma(s) \cup Gamma(t) \subseteq Gamma(Join(s, t))
        /\ ~JoinChanged(s, t) => Join(s, t) = s
        /\ \A f \in Function : Gamma(t) \subseteq Gamma(Widen(f, s, t))
        /\ Gamma(s) \subseteq Gamma(ClearState(s))
        /\ Gamma(s) \cap Gamma(t) \subseteq Gamma(Narrow(s, t))

(* The transfer functions cover the executions.                            *)
ASSUME TransferAssumption ==
    \A f \in Function :
        /\ FuncStores(f) \subseteq Gamma(FuncEntryState(f))
        /\ \A b \in Block, s \in State : \A c \in Gamma(s) :
            /\ \A d \in Run(f, b, c) :
                /\ d \in Gamma(Effect(f, b, s))
                /\ Takes(f, b, d) \subseteq Elems(Targets(f, b, s))
            /\ \A t \in Takes(f, b, c) : c \in Gamma(EdgeState(f, b, s, t))
            /\ \A l \in Elems(LambdasIn(f, b)) :
                   Invoke(f, b, l, c) \subseteq Gamma(LambdaEntryState(f, l, EnvAt(f, b, l, s)))

-----------------------------------------------------------------------------
(* Concrete executions.                                                    *)

(* An execution that enters b with store c can enter t with store d.       *)
EdgeStep(f, b, c, t, d) == d \in Run(f, b, c) /\ t \in Takes(f, b, d)

(* ... can create lambda l, whose body is then entered with store d.       *)
LambdaStep(f, b, c, l, d) == l \in Elems(LambdasIn(f, b)) /\ d \in Invoke(f, b, l, c)

(* A function starts at its entry block in one of FuncStores.              *)
StartsAt(f, b, c) == b = UnitEntry(f, FuncBody) /\ c \in FuncStores(f)

(* Store c at block b comes from a configuration reached in fewer steps.   *)
HasOrigin(f, b, c) ==
    \E p \in Block : \E d \in Reach(f, p) :
        /\ Depth(f, p, d) < Depth(f, b, c)
        /\ \/ EdgeStep(f, p, d, b, c)
           \/ \E l \in Lambda : b = UnitEntry(f, l) /\ LambdaStep(f, p, d, l, c)

(* Reach is what executions reach: it is closed under the steps, and each  *)
(* of its members is a start or the result of a step.  Executions stay in  *)
(* the blocks of the units and go from a block to its successors.          *)
ASSUME ReachAssumption ==
    \A f \in Function :
        /\ FuncStores(f) \subseteq Reach(f, UnitEntry(f, FuncBody))
        /\ \A b \in Block :
            /\ Reach(f, b) \subseteq Store
            /\ Reach(f, b) # {} => \E u \in Unit : b \in UnitBlocks(f, u)
            /\ \A c \in Store : Takes(f, b, c) \subseteq Elems(Successors(f, b))
            /\ \A c \in Reach(f, b) :
                /\ Depth(f, b, c) \in Nat
                /\ StartsAt(f, b, c) \/ HasOrigin(f, b, c)
                /\ \A t \in Block, d \in Store :
                       EdgeStep(f, b, c, t, d) => d \in Reach(f, t)
                /\ \A l \in Lambda, d \in Store :
                       LambdaStep(f, b, c, l, d) => d \in Reach(f, UnitEntry(f, l))

-----------------------------------------------------------------------------
VARIABLES
    fn,               \* the function under analysis
    pc,               \* where IterateToFixpoint is
    unit,             \* the unit IterateSingleUnitToFixpoint works on
    entrySets,        \* the state at the entry of every block
    entrySeed,        \* the unit's entry state before the iteration
    worklist,         \* blocks to process
    worklistSet,      \* the set kept beside it
    cur,              \* the block being processed
    toRecord,         \* its lambda expressions not yet met
    out,              \* the state at its end
    toJoin,           \* its successors not yet joined
    inqueueTimes,     \* how often a block was processed
    snapshots,        \* loopRangeSnapshots[this]: a partial map of states
    budgetExhausted,  \* the context-analysis budget shared by all threads
    lambdaEnvState,   \* the states in which lambdas were created, partial
    lambdaWorklist,   \* the lambdas met, in order
    worklistIdx,      \* how many of them have been taken up
    round,            \* the narrowing round
    narrowRest,       \* the blocks it has still to propagate from
    candidates        \* the entry states it recomputes

unitVars == <<fn, unit, entrySeed, lambdaEnvState, lambdaWorklist, worklistIdx>>
queueVars == <<worklist, worklistSet>>
blockVars == <<cur, toRecord, out, toJoin>>
guardVars == <<inqueueTimes, snapshots, budgetExhausted>>
narrowVars == <<round, narrowRest, candidates>>
vars == <<pc, entrySets, unitVars, queueVars, blockVars, guardVars, narrowVars>>

(* Mutated: a key the map has not is ignored.                              *)
AssignKnown(map, k, v) == [x \in DOMAIN map |-> IF x = k THEN v ELSE map[x]]

(* A partial map with one more entry, or a new value for one it has.       *)
Assign(map, k, v) == [x \in DOMAIN map \cup {k} |-> IF x = k THEN v ELSE map[x]]

-----------------------------------------------------------------------------
Init ==
    /\ fn \in Function
    /\ pc = "start"
    /\ unit = FuncBody
    /\ entrySets = [b \in Block |-> Bottom]
    /\ entrySeed = Bottom
    /\ worklist = <<>> /\ worklistSet = {}
    /\ cur = UnitEntry(fn, FuncBody) /\ toRecord = <<>>
    /\ out = Bottom /\ toJoin = <<>>
    /\ inqueueTimes = [b \in Block |-> 0]
    /\ snapshots = [b \in {} |-> Bottom]
    /\ budgetExhausted = FALSE
    /\ lambdaEnvState = [l \in {} |-> Bottom]
    /\ lambdaWorklist = <<>> /\ worklistIdx = 0
    /\ round = 0 /\ narrowRest = <<>>
    /\ candidates = [b \in Block |-> Bottom]

(* IterateSingleUnitToFixpoint(entry of u, states) begins.                 *)
EnterUnit(u, states) ==
    /\ unit' = u
    /\ entrySets' = states
    /\ entrySeed' = states[UnitEntry(fn, u)]
    /\ worklist' = TopologicalSort(fn, u)
    /\ worklistSet' = Elems(TopologicalSort(fn, u))
    /\ pc' = "pop"

(* IterateToFixpoint returns nullptr: nothing is analysed.                 *)
Reject ==
    /\ pc = "start"
    /\ SkipAnalysis(fn)
    /\ pc' = "skipped"
    /\ UNCHANGED <<entrySets, unitVars, queueVars, blockVars, guardVars, narrowVars>>

(* Every block starts at Bottom but the entry, initialised for the body.   *)
StartFunction ==
    /\ pc = "start"
    /\ ~SkipAnalysis(fn)
    /\ EnterUnit(FuncBody,
                 [entrySets EXCEPT ![UnitEntry(fn, FuncBody)] = FuncEntryState(fn)])
    /\ UNCHANGED <<fn, lambdaEnvState, lambdaWorklist, worklistIdx, blockVars,
                   guardVars, narrowVars>>

(* Mutated: the block stays in the set.                                    *)
PopBlockFromListOnly ==
    /\ pc = "pop"
    /\ worklist # <<>>
    /\ worklist' = Tail(worklist)
    /\ worklistSet' = worklistSet

(* The head of the work list leaves the list and its set.                  *)
PopBlock ==
    /\ pc = "pop"
    /\ worklist # <<>>
    /\ worklist' = Tail(worklist)
    /\ worklistSet' = worklistSet \ {Head(worklist)}

(* An unreachable block is dropped.                                        *)
SkipBlock ==
    /\ PopBlock
    /\ entrySets[Head(worklist)] = Bottom
    /\ UNCHANGED <<pc, entrySets, unitVars, blockVars, guardVars, narrowVars>>

(* A reachable one is walked from a copy of its entry state.               *)
BeginBlock ==
    /\ PopBlock
    /\ entrySets[Head(worklist)] # Bottom
    /\ cur' = Head(worklist)
    /\ toRecord' = LambdasIn(fn, cur')
    /\ pc' = "record"
    /\ UNCHANGED <<entrySets, unitVars, out, toJoin, guardVars, narrowVars>>

(* Mutated: the lambda is queued at every visit.                           *)
RecordLambdaAgain ==
    /\ pc = "record"
    /\ toRecord # <<>>
    /\ LET l == Head(toRecord) IN
        /\ lambdaEnvState' = Assign(lambdaEnvState, l, EnvAt(fn, cur, l, entrySets[cur]))
        /\ lambdaWorklist' = Append(lambdaWorklist, l)
    /\ toRecord' = Tail(toRecord)
    /\ UNCHANGED <<pc, entrySets, fn, unit, entrySeed, worklistIdx, queueVars,
                   cur, out, toJoin, guardVars, narrowVars>>

(* A lambda expression: the state it is created in replaces the one of an  *)
(* earlier visit; the lambda is queued at its first visit.                 *)
RecordLambda ==
    /\ pc = "record"
    /\ toRecord # <<>>
    /\ LET l == Head(toRecord) IN
        /\ lambdaEnvState' = Assign(lambdaEnvState, l, EnvAt(fn, cur, l, entrySets[cur]))
        /\ lambdaWorklist' = IF l \in Elems(lambdaWorklist) THEN lambdaWorklist
                             ELSE Append(lambdaWorklist, l)
    /\ toRecord' = Tail(toRecord)
    /\ UNCHANGED <<pc, entrySets, fn, unit, entrySeed, worklistIdx, queueVars,
                   cur, out, toJoin, guardVars, narrowVars>>

(* CheckInQueueTimes, n-th visit of the block: widening against the        *)
(* snapshot of the last visit, and a state without information from visit  *)
(* MaxInqueue on.                                                          *)
Widened(b, n, s) ==
    IF n >= WidenStart /\ b \in DOMAIN snapshots THEN Widen(fn, snapshots[b], s) ELSE s

(* Mutated: no limit on the visits.                                        *)
CutOffNever(n) == FALSE

CutOff(n) == n >= MaxInqueue

(* The terminator's effect and CheckInQueueTimes: a block cut off spreads  *)
(* to all its successors, whatever its terminator resolved to.             *)
FinishBlock ==
    /\ pc = "record"
    /\ toRecord = <<>>
    /\ ~(IsContextAnalysis(fn) /\ budgetExhausted)
    /\ LET n == inqueueTimes[cur] + 1
           s == Widened(cur, n, Effect(fn, cur, entrySets[cur]))
       IN  /\ inqueueTimes' = [inqueueTimes EXCEPT ![cur] = n]
           /\ snapshots' = IF n > 1 /\ n >= WidenStart - 1 THEN Assign(snapshots, cur, s)
                           ELSE snapshots
           /\ out' = IF CutOff(n) THEN ClearState(s) ELSE s
           /\ toJoin' = IF CutOff(n) THEN Successors(fn, cur)
                        ELSE Targets(fn, cur, entrySets[cur])
    /\ pc' = "spread"
    /\ UNCHANGED <<entrySets, unitVars, queueVars, cur, toRecord, budgetExhausted,
                   narrowVars>>

(* The same when ConsumeContextAnalysisWork finds no budget left.          *)
FinishBlockWithoutBudget ==
    /\ pc = "record"
    /\ toRecord = <<>>
    /\ IsContextAnalysis(fn) /\ budgetExhausted
    /\ out' = ClearState(Effect(fn, cur, entrySets[cur]))
    /\ toJoin' = Successors(fn, cur)
    /\ pc' = "spread"
    /\ UNCHANGED <<entrySets, unitVars, queueVars, cur, toRecord, guardVars, narrowVars>>

(* Mutated: the block in hand is never queued again.                       *)
RequeueOthers(t, changed) ==
    IF changed /\ t \notin worklistSet /\ t # cur
    THEN /\ worklist' = Append(worklist, t)
         /\ worklistSet' = worklistSet \cup {t}
    ELSE UNCHANGED queueVars

(* Mutated: queued whether it changed or not.                              *)
RequeueUnchanged(t, changed) ==
    IF t \notin worklistSet
    THEN /\ worklist' = Append(worklist, t)
         /\ worklistSet' = worklistSet \cup {t}
    ELSE UNCHANGED queueVars

(* A successor whose entry state changed is queued unless it is already.   *)
Requeue(t, changed) ==
    IF changed /\ t \notin worklistSet
    THEN /\ worklist' = Append(worklist, t)
         /\ worklistSet' = worklistSet \cup {t}
    ELSE UNCHANGED queueVars

(* The state of the edge is joined into the successor's entry state.       *)
JoinSuccessor ==
    /\ pc = "spread"
    /\ toJoin # <<>>
    /\ LET t == Head(toJoin)
           s == EdgeState(fn, cur, out, t)
       IN  /\ entrySets' = [entrySets EXCEPT ![t] = Join(entrySets[t], s)]
           /\ Requeue(t, JoinChanged(entrySets[t], s))
    /\ toJoin' = Tail(toJoin)
    /\ UNCHANGED <<pc, unitVars, cur, toRecord, out, guardVars, narrowVars>>

EndBlock ==
    /\ pc = "spread"
    /\ toJoin = <<>>
    /\ pc' = "pop"
    /\ UNCHANGED <<entrySets, unitVars, queueVars, blockVars, guardVars, narrowVars>>

(* Mutated: the entry's seed is forgotten.                                 *)
SeedNothing == [b \in Block |-> Bottom]

(* A narrowing round starts from Bottom everywhere but the seed.           *)
SeedCandidates ==
    [b \in Block |-> IF b = UnitEntry(fn, unit) THEN entrySeed ELSE Bottom]

BeginRound(n) ==
    /\ round' = n
    /\ narrowRest' = TopologicalSort(fn, unit)
    /\ candidates' = SeedCandidates

(* The work list is empty: narrowing, unless the analysis wants none.      *)
EndFixpoint ==
    /\ pc = "pop"
    /\ worklist = <<>>
    /\ IF NarrowLimit = 0
       THEN pc' = "next" /\ UNCHANGED narrowVars
       ELSE pc' = "narrow" /\ BeginRound(0)
    /\ UNCHANGED <<entrySets, unitVars, queueVars, blockVars, guardVars>>

(* One block of IterateSingleUnitToNarrowingFixpoint: the old entry state  *)
(* is propagated into the candidates of the successors, without widening.  *)
NarrowBlock ==
    /\ pc = "narrow"
    /\ narrowRest # <<>>
    /\ LET b == Head(narrowRest)
           s == entrySets[b]
       IN  candidates' =
             IF s = Bottom THEN candidates
             ELSE [t \in Block |->
                    IF t \in Elems(Targets(fn, b, s))
                    THEN Join(candidates[t], EdgeState(fn, b, Effect(fn, b, s), t))
                    ELSE candidates[t]]
    /\ narrowRest' = Tail(narrowRest)
    /\ UNCHANGED <<pc, entrySets, unitVars, queueVars, blockVars, guardVars, round>>

(* The entry states of the unit narrowed with their candidates.            *)
Narrowed ==
    [b \in Block |-> IF b \in UnitBlocks(fn, unit) THEN Narrow(entrySets[b], candidates[b])
                     ELSE entrySets[b]]

ApplyNarrowing ==
    /\ pc = "narrow"
    /\ narrowRest = <<>>
    /\ entrySets' = Narrowed
    /\ IF Narrowed = entrySets \/ round + 1 = NarrowLimit
       THEN pc' = "next" /\ UNCHANGED narrowVars
       ELSE pc' = "narrow" /\ BeginRound(round + 1)
    /\ UNCHANGED <<unitVars, queueVars, blockVars, guardVars>>

(* The next lambda of the lambda work list.                                *)
NextLambda ==
    /\ pc = "next"
    /\ worklistIdx < Len(lambdaWorklist)
    /\ LET l == lambdaWorklist[worklistIdx + 1] IN
         EnterUnit(l, [entrySets EXCEPT ![UnitEntry(fn, l)] =
                           LambdaEntryState(fn, l, lambdaEnvState[l])])
    /\ worklistIdx' = worklistIdx + 1
    /\ UNCHANGED <<fn, lambdaEnvState, lambdaWorklist, blockVars, guardVars, narrowVars>>

(* SetToStable: the results are handed out.                                *)
SetToStable ==
    /\ pc = "next"
    /\ worklistIdx = Len(lambdaWorklist)
    /\ pc' = "stable"
    /\ UNCHANGED <<entrySets, unitVars, queueVars, blockVars, guardVars, narrowVars>>

(* The context-analysis budget is one counter for all threads: another     *)
(* context may use it up between any two steps.                            *)
ExhaustBudget ==
    /\ IsContextAnalysis(fn)
    /\ ~budgetExhausted
    /\ pc \notin {"stable", "skipped"}
    /\ budgetExhausted' = TRUE
    /\ UNCHANGED <<pc, entrySets, unitVars, queueVars, blockVars, inqueueTimes,
                   snapshots, narrowVars>>

Engine ==
    \/ Reject \/ StartFunction
    \/ SkipBlock \/ BeginBlock \/ RecordLambda
    \/ FinishBlock \/ FinishBlockWithoutBudget
    \/ JoinSuccessor \/ EndBlock
    \/ EndFixpoint \/ NarrowBlock \/ ApplyNarrowing
    \/ NextLambda \/ SetToStable

Next == Engine \/ ExhaustBudget

Spec == Init /\ [][Next]_vars

(* The engine is one thread that never blocks.                             *)
FairSpec == Spec /\ WF_vars(Engine)

-----------------------------------------------------------------------------
Ascending == pc \in {"pop", "record", "spread"}

(* The units entered so far.                                               *)
Started ==
    IF pc \in {"start", "skipped"} THEN {}
    ELSE {FuncBody} \cup {lambdaWorklist[i] : i \in 1..worklistIdx}

(* The variables have the types of the fields they stand for.              *)
TypeOK ==
    /\ fn \in Function
    /\ pc \in {"start", "skipped", "pop", "record", "spread", "narrow", "next", "stable"}
    /\ unit \in Unit
    /\ entrySets \in [Block -> State]
    /\ entrySeed \in State
    /\ worklist \in Seq(UnitBlocks(fn, unit))
    /\ worklistSet \subseteq Block
    /\ cur \in Block
    /\ pc \in {"record", "spread"} => cur \in UnitBlocks(fn, unit)
    /\ toRecord \in Seq(Elems(LambdasIn(fn, cur)))
    /\ out \in State
    /\ toJoin \in Seq(Elems(Successors(fn, cur)))
    /\ inqueueTimes \in [Block -> Nat]
    /\ DOMAIN snapshots \subseteq Block
    /\ \A b \in DOMAIN snapshots : snapshots[b] \in State
    /\ budgetExhausted \in BOOLEAN
    /\ DOMAIN lambdaEnvState = Elems(lambdaWorklist)
    /\ \A l \in DOMAIN lambdaEnvState : lambdaEnvState[l] \in State
    /\ lambdaWorklist \in Seq(Lambda)
    /\ worklistIdx \in 0..Len(lambdaWorklist)
    /\ round \in Nat
    /\ narrowRest \in Seq(UnitBlocks(fn, unit))
    /\ candidates \in [Block -> State]

(* The list and the set beside it never drift apart, so that no block is   *)
(* queued twice and none is believed queued that is not.                   *)
WorklistExact ==
    /\ worklistSet = Elems(worklist)
    /\ Distinct(worklist)

(* What an execution does from the stores of b's entry state is covered:   *)
(* by the entry states of the successors, and by the recorded state of the *)
(* lambdas b creates.                                                      *)
EdgesCovered(b) ==
    \A c \in Gamma(entrySets[b]) : \A t \in Block, d \in Store :
        EdgeStep(fn, b, c, t, d) => d \in Gamma(entrySets[t])

LambdasCovered(b) ==
    \A c \in Gamma(entrySets[b]) : \A l \in Lambda, d \in Store :
        LambdaStep(fn, b, c, l, d) =>
            /\ l \in Elems(lambdaWorklist)
            /\ d \in Gamma(LambdaEntryState(fn, l, lambdaEnvState[l]))

(* The invariant of the work list: during the ascending iteration, a block *)
(* of the unit that is neither queued nor in hand is settled.              *)
Settled ==
    Ascending =>
        \A b \in UnitBlocks(fn, unit) :
            \/ b \in worklistSet
            \/ pc \in {"record", "spread"} /\ b = cur
            \/ EdgesCovered(b) /\ LambdasCovered(b)

(* The result of the analysis, on which RangePropagation, constant folding *)
(* and dead-block removal act: when it is handed out, the state at the     *)
(* entry of a block describes every store an execution enters it with, in  *)
(* the function and in every lambda; widening, the budget and narrowing    *)
(* notwithstanding.                                                        *)
SoundResult ==
    pc = "stable" =>
        \A u \in Unit : \A b \in UnitBlocks(fn, u) : Reach(fn, b) \subseteq Gamma(entrySets[b])

(* Each lambda met is analysed once, and only after the unit creating it   *)
(* is done: the lambda work list has no duplicate, and no lambda created   *)
(* by the block in hand has been taken up already.                         *)
LambdasOnce ==
    /\ Distinct(lambdaWorklist)
    /\ pc \in {"record", "spread"} =>
           Elems(LambdasIn(fn, cur)) \cap Started = {}

(* The guard bounds the work however high the domain is: a block cut off   *)
(* hands out the same edge states for ever, so that each predecessor can   *)
(* queue a block at most MaxInqueue times.                                 *)
VisitsBounded ==
    \A b \in Block :
        LET preds == {p \in Block : b \in Elems(Successors(fn, p))}
        IN  inqueueTimes[b] <= 1 + MaxInqueue * Cardinality(preds)

(* The analysis of a function comes to an end.                             *)
Termination == <>(pc \in {"stable", "skipped"})
=============================================================================
