-------------------------- MODULE ContextSummaries --------------------------
(***************************************************************************)
(* The context-sensitive part of the range analysis, that is               *)
(* RangeAnalysis::HandleContextSensitiveCall, AnalyzeCalleeWithContext and *)
(* VisitReachableContextSensitiveResults of ValueRangeAnalysis.cpp.        *)
(*                                                                         *)
(* A call with known arguments is analysed by a nested run of the engine   *)
(* on the callee, in the same thread.  Its summary is kept in a cache that *)
(* all the threads of AnalysisWrapper::RunOnPackageInParallel share; a     *)
(* summary somebody is still computing is not waited for but replaced by   *)
(* "unknown", and so is one that a limit forbids.  After the analysis of a *)
(* root the contexts recorded on the way are visited; only if they are all *)
(* there may a client conclude something from what it saw in them.         *)
(*                                                                         *)
(* A value is the set of concrete results it stands for: Unknown is all    *)
(* of them.  The engine's iteration over one function is DataflowEngine's  *)
(* subject; here it is the set of calls it handles, each once.             *)
(***************************************************************************)
EXTENDS Integers, Sequences, FiniteSets, Functions

CONSTANTS
    Function, Context, \* functions, and functions with abstract arguments
    FunctionOf,        \* the function of each context
    Root,              \* the functions RunOnFunc is called for
    Thread,            \* the threads of the pool; one in the contest client
    External,          \* a call whose target has no body or is not known
    Calls,             \* the calls handled in a root or a context
    Value, Local,      \* concrete results; those a body yields by itself
    Returns,           \* what a call can return when the program runs
    Affine,            \* contexts TryAnalyzeAffineRecursiveCallee solves
    ExactArguments,    \* contexts of single scalar arguments, no globals
    WithGlobals,       \* contexts with tracked globals
    TooLarge,          \* what DoesExceedBlockLimit turns down
    Contest,           \* the client visits the reachable contexts
    maxContextPerFunction, maxTotalContextSummaries, maxContextAnalysisDepth,
    maxRecordedCallContexts, MAX_GLOBAL_CONTEXT_PER_FUNCTION,
    MAX_EXACT_SCALAR_CONTEXTS_PER_FUNCTION,
    MAX_EXACT_SCALAR_RECURSION_CONTEXTS_PER_FUNCTION,
    MAX_EXACT_SCALAR_RECURSION_DEPTH,
    MaxTotalReachableContextSummaries,
    MaxClears          \* bound of the model: how often results are cleared

Node == Root \cup Context
Unknown == Value

ASSUME ContextAssumption ==
    /\ Root \cap Context = {} /\ External \notin Node
    /\ FunctionOf \in [Context -> Function]
    /\ Calls \in [Node -> SUBSET (Context \cup {External})]
    /\ Local \in [Node -> SUBSET Value]
    /\ TooLarge \subseteq Node
    /\ Contest \in BOOLEAN
    /\ maxRecordedCallContexts \in Nat /\ MaxTotalReachableContextSummaries \in Nat
    /\ {maxContextPerFunction, maxTotalContextSummaries, maxContextAnalysisDepth} \subseteq Nat
    /\ IsFiniteSet(Context) /\ IsFiniteSet(Function)

(* Returns is a solution of the equations of the program.                  *)
ASSUME ReturnsAssumption ==
    /\ Returns \in [Node \cup {External} -> SUBSET Value]
    /\ \A n \in Node : Returns[n] \subseteq Local[n] \cup UNION {Returns[c] : c \in Calls[n]}

VARIABLES
    summary,    \* ContextSummaryState of each key of the cache
    returns,    \* the values of the READY ones
    order,      \* GetContextSummaryOrder
    counts,     \* GetContextCounts, per function
    failedContextKeys,
    exhausted,  \* contextAnalysisBudgetExhausted
    recorded,   \* analyzedCallContexts: the contexts recorded per parent
    complete,   \* its flags, per parent
    recordedCount, recordingComplete, \* analyzedCallContextCount, ...RecordingComplete
    stack,      \* the analyses in progress in each thread
    result,     \* RunOnFunc's progress, and what it returned, per root
    visit,      \* the state of VisitReachableContextSensitiveResults
    closure,    \* what it told the client, per root
    clears      \* how often the results were cleared

cacheVars == <<summary, returns, order, counts, failedContextKeys>>
recordVars == <<recorded, complete, recordedCount, recordingComplete>>
visitVars == <<visit, closure>>
vars == <<cacheVars, exhausted, recordVars, stack, result, visitVars, clears>>

Frame == [node : Node, todo : SUBSET (Context \cup {External}),
          calling : SUBSET Context, value : SUBSET Value]

NoVisit == [root |-> {}, work |-> {}, discovered |-> {}, visited |-> {}, complete |-> TRUE]

Init ==
    /\ summary = [c \in Context |-> "unseen"] /\ returns = [c \in Context |-> {}]
    /\ order = <<>> /\ counts = [f \in Function |-> 0] /\ failedContextKeys = {}
    /\ exhausted = FALSE
    /\ recorded = [n \in Node |-> {}] /\ complete = [n \in Node |-> TRUE]
    /\ recordedCount = 0 /\ recordingComplete = TRUE
    /\ stack = [t \in Thread |-> <<>>]
    /\ result = [r \in Root |-> "none"]
    /\ visit = NoVisit /\ closure = [r \in Root |-> "none"]
    /\ clears = 0

-----------------------------------------------------------------------------
(* The stack of a thread.                                                  *)

Top(s) == s[Len(s)]
Pop(s) == SubSeq(s, 1, Len(s) - 1)
SetTop(s, f) == [s EXCEPT ![Len(s)] = f]

NewFrame(n) ==
    [node |-> n, todo |-> IF n \in TooLarge THEN {} ELSE Calls[n],
     calling |-> {}, value |-> Local[n]]

(* A call is begun, or passed over without an analysis of its target; the  *)
(* call in hand returned v.                                                *)
Begun(f, c) == [f EXCEPT !.todo = @ \ {c}, !.calling = {c}]
PassedOver(f, c) == [f EXCEPT !.todo = @ \ {c}, !.value = Unknown]
Returned(f, v) == [f EXCEPT !.calling = {}, !.value = @ \cup v]

ReplaceTop(t, f) == stack' = [stack EXCEPT ![t] = SetTop(stack[t], f)]

Calling(t, c) == stack[t] # <<>> /\ Top(stack[t]).calling = {c}
Between(t) == stack[t] # <<>> /\ Top(stack[t]).calling = {}

(* contextSummaryAnalysisDepth and contextSummaryFunctionStack.            *)
Depth(t) == Len(stack[t]) - 1
OnFunctionStack(t) == {FunctionOf[stack[t][i].node] : i \in 2 .. Len(stack[t])}

HasDirectSelfCall(f) ==
    \E c, d \in Context : FunctionOf[c] = f /\ FunctionOf[d] = f /\ d \in Calls[c]

IsExactScalarRecursive(t, c) ==
    /\ c \in ExactArguments
    /\ FunctionOf[c] \in OnFunctionStack(t) \/ HasDirectSelfCall(FunctionOf[c])

DepthLimit(t, c) ==
    IF IsExactScalarRecursive(t, c) THEN MAX_EXACT_SCALAR_RECURSION_DEPTH
    ELSE maxContextAnalysisDepth

ContextLimit(t, c) ==
    IF IsExactScalarRecursive(t, c)
      THEN MAX_EXACT_SCALAR_RECURSION_CONTEXTS_PER_FUNCTION + maxContextPerFunction
    ELSE IF c \in ExactArguments THEN MAX_EXACT_SCALAR_CONTEXTS_PER_FUNCTION
    ELSE IF c \in WithGlobals THEN MAX_GLOBAL_CONTEXT_PER_FUNCTION
    ELSE maxContextPerFunction

(* Mutated: > for >=.                                                      *)
LimitExceeded(t, c) ==
    \/ Depth(t) > DepthLimit(t, c)
    \/ FoldFunction(+, 0, counts) > maxTotalContextSummaries
    \/ Len(order) > MaxTotalReachableContextSummaries
    \/ exhausted
    \/ counts[FunctionOf[c]] > ContextLimit(t, c)

LimitReached(t, c) ==
    \/ Depth(t) >= DepthLimit(t, c)
    \/ FoldFunction(+, 0, counts) >= maxTotalContextSummaries
    \/ Len(order) >= MaxTotalReachableContextSummaries
    \/ exhausted
    \/ counts[FunctionOf[c]] >= ContextLimit(t, c)

-----------------------------------------------------------------------------
(* The analysis of one function.                                           *)

(* RunOnFunc; the engine turns down a function with too many blocks.       *)
StartRoot(t, r) ==
    /\ visit.root = {}
    /\ stack[t] = <<>> /\ result[r] = "none"
    /\ Contest => \A u \in Thread : stack[u] = <<>>
    /\ IF r \in TooLarge
         THEN result' = [result EXCEPT ![r] = "null"] /\ UNCHANGED stack
         ELSE /\ result' = [result EXCEPT ![r] = "running"]
              /\ stack' = [stack EXCEPT ![t] = <<NewFrame(r)>>]
    /\ UNCHANGED <<cacheVars, exhausted, recordVars, visitVars, clears>>

(* RecordUnmodeledCallContext.                                             *)
RecordUnmodeled(n) ==
    /\ complete' = [complete EXCEPT ![n] = FALSE]
    /\ UNCHANGED <<recorded, recordedCount, recordingComplete>>

(* Mutated: one context too many.                                          *)
RecordOneMore(n, c) ==
    CASE c \in recorded[n] -> UNCHANGED recordVars
      [] c \notin recorded[n] /\ recordedCount > maxRecordedCallContexts ->
            /\ complete' = [complete EXCEPT ![n] = FALSE]
            /\ recordingComplete' = FALSE
            /\ UNCHANGED <<recorded, recordedCount>>
      [] OTHER ->
            /\ recorded' = [recorded EXCEPT ![n] = @ \cup {c}]
            /\ recordedCount' = recordedCount + 1
            /\ UNCHANGED <<complete, recordingComplete>>

(* RecordAnalyzedCallContext.                                              *)
RecordAnalyzed(n, c) ==
    CASE c \in recorded[n] -> UNCHANGED recordVars
      [] c \notin recorded[n] /\ recordedCount >= maxRecordedCallContexts ->
            /\ complete' = [complete EXCEPT ![n] = FALSE]
            /\ recordingComplete' = FALSE
            /\ UNCHANGED <<recorded, recordedCount>>
      [] OTHER ->
            /\ recorded' = [recorded EXCEPT ![n] = @ \cup {c}]
            /\ recordedCount' = recordedCount + 1
            /\ UNCHANGED <<complete, recordingComplete>>

(* The target has no body, or the budget is spent: the result is unknown.  *)
CallUnmodeled(t, c) ==
    /\ Between(t)
    /\ c \in Top(stack[t]).todo
    /\ c = External \/ exhausted
    /\ RecordUnmodeled(Top(stack[t]).node)
    /\ ReplaceTop(t, PassedOver(Top(stack[t]), c))
    /\ UNCHANGED <<cacheVars, exhausted, result, visitVars, clears>>

(* The context is recorded before it is looked up.                         *)
BeginCall(t, c) ==
    /\ Between(t)
    /\ c \in Top(stack[t]).todo \ {External}
    /\ ~exhausted
    /\ RecordAnalyzed(Top(stack[t]).node, c)
    /\ ReplaceTop(t, Begun(Top(stack[t]), c))
    /\ UNCHANGED <<cacheVars, exhausted, result, visitVars, clears>>

ReturnValue(t, v) == ReplaceTop(t, Returned(Top(stack[t]), v))

(* A recurrence solved in closed form needs no summary.                    *)
CallAffine(t, c) ==
    /\ Calling(t, c)
    /\ c \in Affine
    /\ ReturnValue(t, Returns[c])
    /\ UNCHANGED <<cacheVars, exhausted, recordVars, result, visitVars, clears>>

(* Mutated: recursion starts from the empty set of results and nobody      *)
(* iterates to a fixpoint.                                                 *)
UnknownIsNothing(c) == {}

UnknownOutputs(c) == Unknown

(* Mutated: a summary in progress is waited for.                           *)
CallUnknownOrWait(t, c) ==
    /\ Calling(t, c) /\ c \notin Affine
    /\ c \in failedContextKeys \/ summary[c] = "failed"
    /\ ReturnValue(t, UnknownOutputs(c))
    /\ UNCHANGED <<cacheVars, exhausted, recordVars, result, visitVars, clears>>

(* The key was rejected once, its analysis failed, or it is in progress:   *)
(* a recursive call of this thread, or another thread's call.              *)
CallUnknown(t, c) ==
    /\ Calling(t, c) /\ c \notin Affine
    /\ c \in failedContextKeys \/ summary[c] \in {"computing", "failed"}
    /\ ReturnValue(t, UnknownOutputs(c))
    /\ UNCHANGED <<cacheVars, exhausted, recordVars, result, visitVars, clears>>

CallReady(t, c) ==
    /\ Calling(t, c) /\ c \notin Affine \cup failedContextKeys
    /\ summary[c] = "ready"
    /\ ReturnValue(t, returns[c])
    /\ UNCHANGED <<cacheVars, exhausted, recordVars, result, visitVars, clears>>

(* Mutated: a summary in progress is computed again.                       *)
MissingOrComputing(c) == c \notin failedContextKeys /\ summary[c] \in {"unseen", "computing"}

Missing(c) == c \notin failedContextKeys /\ summary[c] = "unseen"

(* rejectContext: from now on the key is unknown to every caller.          *)
Reject(t, c) ==
    /\ Calling(t, c) /\ c \notin Affine
    /\ Missing(c)
    /\ LimitReached(t, c)
    /\ failedContextKeys' =
           IF Cardinality(failedContextKeys) < MaxTotalReachableContextSummaries
           THEN failedContextKeys \cup {c} ELSE failedContextKeys
    /\ ReturnValue(t, UnknownOutputs(c))
    /\ UNCHANGED <<summary, returns, order, counts, exhausted, recordVars, result,
                   visitVars, clears>>

StartAnalysis(t, c) ==
    /\ Calling(t, c) /\ c \notin Affine
    /\ Missing(c)
    /\ ~LimitReached(t, c)
    /\ counts' = [counts EXCEPT ![FunctionOf[c]] = @ + 1]
    /\ summary' = [summary EXCEPT ![c] = "computing"]
    /\ order' = Append(order, c)
    /\ stack' = [stack EXCEPT ![t] = Append(@, NewFrame(c))]
    /\ UNCHANGED <<returns, failedContextKeys, exhausted, recordVars, result, visitVars, clears>>

(* CheckInQueueTimes of a context when ConsumeContextAnalysisWork refuses. *)
ClearState(t) ==
    /\ Between(t) /\ Len(stack[t]) > 1
    /\ exhausted
    /\ ReplaceTop(t, [Top(stack[t]) EXCEPT !.value = Unknown])
    /\ UNCHANGED <<cacheVars, exhausted, recordVars, result, visitVars, clears>>

(* The nested engine is done: the summary is published, the caller goes    *)
(* on.  FAILED only if the engine turned the function down.                *)
FinishAnalysis(t) ==
    LET f == Top(stack[t])
        rest == Pop(stack[t])
        failed == f.node \in TooLarge
    IN /\ Between(t) /\ Len(stack[t]) > 1
       /\ f.todo = {}
       /\ summary' = [summary EXCEPT ![f.node] = IF failed THEN "failed" ELSE "ready"]
       /\ returns' = IF failed THEN returns ELSE [returns EXCEPT ![f.node] = f.value]
       /\ stack' = [stack EXCEPT ![t] =
              SetTop(rest, Returned(Top(rest), IF failed THEN Unknown ELSE f.value))]
       /\ UNCHANGED <<order, counts, failedContextKeys, exhausted, recordVars, result,
                      visitVars, clears>>

FinishRoot(t) ==
    /\ Between(t) /\ Len(stack[t]) = 1
    /\ Top(stack[t]).todo = {}
    /\ stack' = [stack EXCEPT ![t] = <<>>]
    /\ result' = [result EXCEPT ![Top(stack[t]).node] = "done"]
    /\ UNCHANGED <<cacheVars, exhausted, recordVars, visitVars, clears>>

Analyse(t) ==
    \/ \E r \in Root : StartRoot(t, r)
    \/ \E c \in Context \cup {External} : CallUnmodeled(t, c)
    \/ \E c \in Context :
           BeginCall(t, c) \/ CallAffine(t, c) \/ CallUnknown(t, c) \/ CallReady(t, c)
           \/ Reject(t, c) \/ StartAnalysis(t, c)
    \/ FinishAnalysis(t) \/ FinishRoot(t)

(* Five seconds of wall time or the work units are used up.                *)
ExhaustBudget ==
    /\ ~exhausted
    /\ exhausted' = TRUE
    /\ UNCHANGED <<cacheVars, recordVars, stack, result, visitVars, clears>>

-----------------------------------------------------------------------------
(* VisitReachableContextSensitiveResults.                                  *)

Idle == \A t \in Thread : stack[t] = <<>>

(* Mutated: contexts that do not fit are dropped silently.                 *)
EnqueueSilently(v, keys) ==
    {[v EXCEPT !.work = @ \cup new, !.discovered = @ \cup new] :
        new \in {s \in SUBSET (keys \ v.discovered) :
                    Cardinality(v.discovered \cup s) <= MaxTotalReachableContextSummaries}}

(* Mutated: only what waits is known, not what was visited before.         *)
EnqueueAgain(v, keys) ==
    LET unseen == keys \ v.work
        room == MaxTotalReachableContextSummaries - Cardinality(v.work)
    IN {[v EXCEPT !.work = @ \cup new, !.discovered = @ \cup new,
                  !.complete = @ /\ new = unseen] :
        new \in {s \in SUBSET unseen :
                    IF Cardinality(unseen) <= room THEN s = unseen ELSE Cardinality(s) = room}}

(* enqueue, for each of the keys in the order of an unordered set: what    *)
(* can be made of the visit v.                                             *)
Enqueue(v, keys) ==
    LET unseen == keys \ v.discovered
        room == MaxTotalReachableContextSummaries - Cardinality(v.discovered)
    IN {[v EXCEPT !.work = @ \cup new, !.discovered = @ \cup new,
                  !.complete = @ /\ new = unseen] :
        new \in {s \in SUBSET unseen :
                    IF Cardinality(unseen) <= room THEN s = unseen ELSE Cardinality(s) = room}}

(* collectCalls with GetRecordedChildContexts.                             *)
CollectCalls(v, n) ==
    Enqueue([v EXCEPT !.complete = @ /\ recordingComplete /\ complete[n]], recorded[n])

StartVisit(r) ==
    /\ Contest /\ Idle /\ visit.root = {}
    /\ result[r] = "done" /\ closure[r] = "none"
    /\ visit' \in CollectCalls([NoVisit EXCEPT !.root = {r}], r)
    /\ UNCHANGED <<cacheVars, exhausted, recordVars, stack, result, closure, clears>>

VisitContext(c) ==
    /\ c \in visit.work
    /\ LET popped == [visit EXCEPT !.work = @ \ {c}]
       IN IF summary[c] = "ready"
            THEN visit' \in CollectCalls([popped EXCEPT !.visited = @ \cup {c}], c)
            ELSE visit' = [popped EXCEPT !.complete = FALSE]
    /\ UNCHANGED <<cacheVars, exhausted, recordVars, stack, result, closure, clears>>

FinishVisit(r) ==
    /\ visit.root = {r} /\ visit.work = {}
    /\ closure' = [closure EXCEPT ![r] = IF visit.complete THEN "complete" ELSE "partial"]
    /\ visit' = [visit EXCEPT !.root = {}]
    /\ UNCHANGED <<cacheVars, exhausted, recordVars, stack, result, clears>>

Visit == \/ \E r \in Root : StartVisit(r) \/ FinishVisit(r)
         \/ \E c \in Context : VisitContext(c)

(* Mutated: the set of rejected keys survives.                             *)
ClearCacheOnly ==
    /\ summary' = [c \in Context |-> "unseen"] /\ returns' = [c \in Context |-> {}]
    /\ order' = <<>> /\ UNCHANGED <<counts, failedContextKeys>>

ClearCache ==
    /\ summary' = [c \in Context |-> "unseen"] /\ returns' = [c \in Context |-> {}]
    /\ order' = <<>> /\ counts' = [f \in Function |-> 0] /\ failedContextKeys' = {}

(* ClearContextSensitiveResults, between two rounds of analyses.           *)
ClearContextSensitiveResults ==
    /\ Idle /\ visit.root = {} /\ clears < MaxClears
    /\ ClearCache
    /\ exhausted' = FALSE
    /\ recorded' = [n \in Node |-> {}] /\ complete' = [n \in Node |-> TRUE]
    /\ recordedCount' = 0 /\ recordingComplete' = TRUE
    /\ result' = [r \in Root |-> "none"]
    /\ visit' = NoVisit /\ closure' = [r \in Root |-> "none"]
    /\ clears' = clears + 1
    /\ UNCHANGED stack

Next ==
    \/ \E t \in Thread : Analyse(t) \/ ClearState(t)
    \/ ExhaustBudget \/ Visit \/ ClearContextSensitiveResults

Spec == Init /\ [][Next]_vars

(* Threads are scheduled and an engine's run ends (DataflowEngine).  The   *)
(* budget need not be spent, and nobody need clear the results.            *)
FairSpec == Spec /\ \A t \in Thread : WF_vars(Analyse(t)) /\ WF_vars(Visit)

-----------------------------------------------------------------------------
(* The variables have the types of the fields they stand for.              *)
TypeOK ==
    /\ summary \in [Context -> {"unseen", "computing", "ready", "failed"}]
    /\ returns \in [Context -> SUBSET Value]
    /\ order \in Seq(Context)
    /\ counts \in [Function -> Nat]
    /\ failedContextKeys \subseteq Context
    /\ exhausted \in BOOLEAN
    /\ recorded \in [Node -> SUBSET Context] /\ complete \in [Node -> BOOLEAN]
    /\ recordedCount \in 0 .. maxRecordedCallContexts /\ recordingComplete \in BOOLEAN
    /\ stack \in [Thread -> Seq(Frame)]
    /\ result \in [Root -> {"none", "running", "done", "null"}]
    /\ visit \in [root : SUBSET Root, work : SUBSET Context, discovered : SUBSET Context,
                  visited : SUBSET Context, complete : BOOLEAN]
    /\ closure \in [Root -> {"none", "partial", "complete"}]
    /\ clears \in Nat

(* The position of the frames that analyse a context.                      *)
FramesOf(c) == {p \in Thread \X (1 .. Cardinality(Context) + 1) :
                    p[2] <= Len(stack[p[1]]) /\ stack[p[1]][p[2]].node = c}

(* The cache, its order, the counters the limits are tested on, the set of *)
(* rejected keys and the stacks of all the threads agree at every moment:  *)
(* a context is COMPUTING exactly while one thread analyses it.            *)
CacheConsistent ==
    /\ \A c \in Context :
           Cardinality(FramesOf(c)) = IF summary[c] = "computing" THEN 1 ELSE 0
    /\ {order[i] : i \in 1 .. Len(order)} = {c \in Context : summary[c] # "unseen"}
    /\ Cardinality({c \in Context : summary[c] # "unseen"}) = Len(order)
    /\ \A f \in Function :
           counts[f] = Cardinality({c \in Context : summary[c] # "unseen" /\ FunctionOf[c] = f})
    /\ failedContextKeys \cap {c \in Context : summary[c] # "unseen"} = {}

(* What a summary in the cache says a call returns, and what is left to    *)
(* the callers meanwhile, covers what the call returns when the program    *)
(* runs, in whatever order the threads met the contexts.                   *)
SummariesSound ==
    /\ \A c \in Context : summary[c] = "ready" => Returns[c] \subseteq returns[c]
    /\ \A t \in Thread : \A i \in 1 .. Len(stack[t]) :
           LET f == stack[t][i]
           IN f.node \notin TooLarge /\ f.todo = {} /\ f.calling = {} =>
                  Returns[f.node] \subseteq f.value

(* A published summary is final, since the visitor keeps a plain pointer   *)
(* to its result after it has released the mutex: it changes only when all *)
(* is cleared, and an analysis that ends still finds its entry COMPUTING.  *)
PublishedOnce ==
    [][/\ \A c \in Context : summary[c] \in {"ready", "failed"} /\ clears' = clears =>
              summary'[c] = summary[c] /\ returns'[c] = returns[c]
       /\ \A t \in Thread : 1 < Len(stack[t]) /\ Len(stack'[t]) < Len(stack[t]) =>
              summary[Top(stack[t]).node] = "computing"]_vars

(* The client takes what it saw in the visited contexts for all that can   *)
(* happen: if it is told so, every call of every visited context is known  *)
(* and its context was visited as well.                                    *)
ClosureSound ==
    \A r \in Root : visit.root = {r} /\ visit.work = {} /\ visit.complete =>
        \A n \in visit.visited \cup {r} : Calls[n] \subseteq visit.visited

(* The limits hold although several threads test and count: recursion into *)
(* contexts that are not of exact scalar arguments stays shallow, and the  *)
(* cache stays small.                                                      *)
LimitsHold ==
    /\ Len(order) <= maxTotalContextSummaries
    /\ \A t \in Thread : \A i \in 2 .. Len(stack[t]) :
           stack[t][i].node \notin ExactArguments => i - 1 <= maxContextAnalysisDepth
    /\ \A f \in Function :
           counts[f] <= LET cs == {c \in Context : FunctionOf[c] = f}
                            exact == cs \cap ExactArguments
                        IN IF exact = {} /\ cs \cap WithGlobals = {}
                           THEN maxContextPerFunction ELSE Cardinality(cs)

(* Every root is analysed to its end: recursion, in one thread or across   *)
(* two, makes nobody wait.                                                 *)
Termination == <>[](\A r \in Root : result[r] \in {"done", "null"})

(* Every visit of reachable contexts ends and tells the client what it has *)
(* seen, although the contexts call each other in cycles, some have no     *)
(* summary, and there is not room for all of them.                         *)
VisitsEnd == Contest => <>[](\A r \in Root : result[r] = "done" => closure[r] # "none")
=============================================================================
