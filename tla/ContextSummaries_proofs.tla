----------------------- MODULE ContextSummaries_proofs -----------------------
(***************************************************************************)
(* What a summary says, and what a caller is told instead of a summary,    *)
(* covers what the call can return: for any program, any number of threads *)
(* and any limits.  A summary is published once and then stays; what is    *)
(* reported as the closure of an analysis is closed under the calls it     *)
(* recorded; the indexes of the cache agree with the summaries; and the    *)
(* limits hold.  The number of contexts of a function is a fold of the     *)
(* library over the keys; CountsSum unfolds it.                            *)
(***************************************************************************)
EXTENDS ContextSummaries, SequenceTheorems, FiniteSetTheorems, TLAPS

-----------------------------------------------------------------------------
(* The operators on stacks.                                                *)

(* The top of a non-empty stack is its last frame.                         *)
LEMMA TopFact ==
    ASSUME NEW S, NEW s \in Seq(S), s # <<>>
    PROVE  /\ Top(s) \in S /\ Len(s) \in Nat \ {0} /\ Top(s) = s[Len(s)]
BY DEF Top

(* Replacing the top changes nothing below it.                             *)
LEMMA SetTopFact ==
    ASSUME NEW S, NEW s \in Seq(S), s # <<>>, NEW f \in S
    PROVE  /\ SetTop(s, f) \in Seq(S) /\ SetTop(s, f) # <<>>
           /\ Len(SetTop(s, f)) = Len(s)
           /\ SetTop(s, f)[Len(s)] = f
           /\ \A i \in 1 .. Len(s) : i # Len(s) => SetTop(s, f)[i] = s[i]
<1>1. Len(s) \in Nat \ {0} /\ Len(s) \in 1 .. Len(s)
    OBVIOUS
<1>2. /\ SetTop(s, f) \in Seq(S) /\ Len(SetTop(s, f)) = Len(s)
      /\ \A j \in 1 .. Len(s) : SetTop(s, f)[j] = IF j = Len(s) THEN f ELSE s[j]
    BY <1>1, ExceptSeq DEF SetTop
<1> QED
    BY <1>1, <1>2

(* Popping leaves the frames below the top as they were.                   *)
LEMMA PopFact ==
    ASSUME NEW S, NEW s \in Seq(S), Len(s) > 1
    PROVE  /\ Pop(s) \in Seq(S) /\ Pop(s) # <<>> /\ Len(Pop(s)) = Len(s) - 1
           /\ \A i \in 1 .. Len(s) - 1 : Pop(s)[i] = s[i]
<1>1. Len(s) - 1 \in Nat \ {0} /\ \A i \in 1 .. Len(s) - 1 : s[i] \in S
    OBVIOUS
<1>2. /\ Pop(s) \in Seq(S) /\ Len(Pop(s)) = Len(s) - 1
      /\ \A i \in 1 .. Len(s) - 1 : Pop(s)[i] = s[i]
    BY <1>1, SubSeqProperties DEF Pop
<1> QED
    BY <1>1, <1>2

(* Pushing leaves the frames below as they were.                           *)
LEMMA PushFact ==
    ASSUME NEW S, NEW s \in Seq(S), NEW f \in S
    PROVE  /\ Append(s, f) \in Seq(S) /\ Append(s, f) # <<>>
           /\ Len(Append(s, f)) = Len(s) + 1 /\ Append(s, f)[Len(s) + 1] = f
           /\ \A i \in 1 .. Len(s) : Append(s, f)[i] = s[i]
OBVIOUS

(* A new frame is a frame.                                                 *)
LEMMA NewFrameFact == ASSUME NEW n \in Node PROVE NewFrame(n) \in Frame
BY ContextAssumption DEF NewFrame, Frame
-----------------------------------------------------------------------------
(* The inductive invariant.                                                *)

(* What the value of an analysis in progress covers already: what the body *)
(* yields by itself and what the calls it is done with return.             *)
FrameOK(f) ==
    f.node \notin TooLarge =>
        /\ Local[f.node] \subseteq f.value
        /\ \A c \in Calls[f.node] : c \in f.todo \/ c \in f.calling \/ Returns[c] \subseteq f.value

(* Each analysis but the last waits for the one above it.                  *)
StackOK(s) ==
    /\ s \in Seq(Frame)
    /\ \A i \in 1 .. Len(s) :
        /\ FrameOK(s[i])
        /\ i < Len(s) => s[i].calling = {s[i + 1].node}

Stacks == \A t \in Thread : StackOK(stack[t])

Ready == \A c \in Context : summary[c] = "ready" => Returns[c] \subseteq returns[c]

CacheTypes ==
    /\ summary \in [Context -> {"unseen", "computing", "ready", "failed"}]
    /\ returns \in [Context -> SUBSET Value]
    /\ order \in Seq(Context)
    /\ counts \in [Function -> Nat]
    /\ failedContextKeys \subseteq Context
    /\ exhausted \in BOOLEAN

RecordTypes ==
    /\ recorded \in [Node -> SUBSET Context] /\ complete \in [Node -> BOOLEAN]
    /\ recordedCount \in 0 .. maxRecordedCallContexts /\ recordingComplete \in BOOLEAN

Visits == [root : SUBSET Root, work : SUBSET Context, discovered : SUBSET Context,
           visited : SUBSET Context, complete : BOOLEAN]

VisitTypes ==
    /\ result \in [Root -> {"none", "running", "done", "null"}]
    /\ visit \in Visits
    /\ closure \in [Root -> {"none", "partial", "complete"}]
    /\ clears \in Nat

Inv ==
    /\ CacheTypes /\ RecordTypes /\ VisitTypes
    /\ stack \in [Thread -> Seq(Frame)]
    /\ Stacks /\ Ready

(* The invariant gives every variable its type.                            *)
LEMMA Types == Inv => TypeOK
BY DEF Inv, TypeOK, CacheTypes, RecordTypes, VisitTypes, Visits

(* A frame that has made all its calls covers what its node returns.       *)
LEMMA FrameCovers ==
    ASSUME NEW f \in Frame, FrameOK(f), f.node \notin TooLarge, f.todo = {}, f.calling = {}
    PROVE  Returns[f.node] \subseteq f.value
<1>1. f.node \in Node
    BY DEF Frame
<1>2. \A c \in Calls[f.node] : Returns[c] \subseteq f.value
    BY DEF FrameOK
<1>3. Returns[f.node] \subseteq Local[f.node] \cup UNION {Returns[c] : c \in Calls[f.node]}
    BY <1>1, ReturnsAssumption
<1> QED
    BY <1>2, <1>3 DEF FrameOK

(* The invariant implies the soundness of the summaries.                   *)
LEMMA Sound == Inv => SummariesSound
<1> SUFFICES ASSUME Inv PROVE SummariesSound
    OBVIOUS
<1>1. ASSUME NEW t \in Thread, NEW i \in 1 .. Len(stack[t]),
             stack[t][i].node \notin TooLarge, stack[t][i].todo = {}, stack[t][i].calling = {}
      PROVE  Returns[stack[t][i].node] \subseteq stack[t][i].value
    <2>1. stack[t] \in Seq(Frame) /\ stack[t][i] \in Frame
        BY DEF Inv
    <2>2. FrameOK(stack[t][i])
        BY DEF Inv, Stacks, StackOK
    <2> QED
        BY <1>1, <2>1, <2>2, FrameCovers
<1> QED
    BY <1>1 DEF Inv, Ready, SummariesSound

-----------------------------------------------------------------------------
(* What the steps do to a frame.                                           *)

(* A new frame covers what it has executed: nothing yet.                   *)
LEMMA NewFrameOK == ASSUME NEW n \in Node PROVE FrameOK(NewFrame(n)) /\ NewFrame(n).node = n
BY DEF NewFrame, FrameOK

(* A frame stays covering when a sound summary is joined into it.          *)
LEMMA ReturnedOK ==
    ASSUME NEW f \in Frame, FrameOK(f), NEW c, f.calling = {c},
           NEW v \in SUBSET Value, Returns[c] \subseteq v
    PROVE  /\ Returned(f, v) \in Frame /\ FrameOK(Returned(f, v))
           /\ Returned(f, v).node = f.node
<1> DEFINE g == Returned(f, v)
<1>1. g \in Frame
    BY DEF Frame, Returned
<1>2. g.node = f.node /\ g.todo = f.todo
    BY DEF Frame, Returned
<1>3. g.calling = {} /\ g.value = f.value \cup v
    BY DEF Frame, Returned
<1> HIDE DEF g
<1>4. FrameOK(g)
    BY <1>2, <1>3 DEF FrameOK
<1> QED
    BY <1>1, <1>2, <1>4 DEF g

(* ... when a call that is not analysed makes its value unknown.           *)
LEMMA PassedOverOK ==
    ASSUME NEW f \in Frame, FrameOK(f), NEW c
    PROVE  /\ PassedOver(f, c) \in Frame /\ FrameOK(PassedOver(f, c))
           /\ PassedOver(f, c).node = f.node
<1> DEFINE g == PassedOver(f, c)
<1>1. g \in Frame
    BY DEF Frame, Unknown, PassedOver
<1>2. g.node = f.node /\ g.value = Value
    BY DEF Frame, Unknown, PassedOver
<1>3. f.node \in Node
    BY DEF Frame
<1> HIDE DEF g
<1>4. \A d \in Calls[f.node] : Returns[d] \subseteq Value
    <2>1. \A d \in Calls[f.node] : d \in Node \cup {External}
        BY <1>3, ContextAssumption DEF Node
    <2> QED
        BY <2>1, ReturnsAssumption
<1>5. Local[f.node] \subseteq Value
    BY <1>3, ContextAssumption
<1>6. FrameOK(g)
    BY <1>2, <1>4, <1>5 DEF FrameOK
<1> QED
    BY <1>1, <1>2, <1>6 DEF g

(* ... and when it begins a call.                                          *)
LEMMA BegunOK ==
    ASSUME NEW f \in Frame, FrameOK(f), f.calling = {}, NEW c \in Context
    PROVE  /\ Begun(f, c) \in Frame /\ FrameOK(Begun(f, c))
           /\ Begun(f, c).node = f.node
<1> DEFINE g == Begun(f, c)
<1>1. g \in Frame
    BY DEF Frame, Begun
<1>2. g.node = f.node /\ g.value = f.value
    BY DEF Frame, Begun
<1>3. g.todo = f.todo \ {c} /\ g.calling = {c}
    BY DEF Frame, Begun
<1> HIDE DEF g
<1>4. FrameOK(g)
    BY <1>2, <1>3 DEF FrameOK
<1> QED
    BY <1>1, <1>2, <1>4 DEF g

-----------------------------------------------------------------------------
(* What the steps do to a stack.                                           *)

(* The top of a correct stack is a correct frame.                          *)
LEMMA TopOK == ASSUME NEW s, StackOK(s), s # <<>> PROVE Top(s) \in Frame /\ FrameOK(Top(s))
BY TopFact DEF StackOK

(* Replacing the top by a correct frame of the same node.                  *)
LEMMA ReplaceOK ==
    ASSUME NEW s, StackOK(s), s # <<>>, NEW f \in Frame, FrameOK(f), f.node = Top(s).node
    PROVE  StackOK(SetTop(s, f))
<1> DEFINE r == SetTop(s, f)
           n == Len(s)
<1>1. n \in Nat \ {0} /\ Top(s) = s[n]
    BY TopFact DEF StackOK
<1>2. r \in Seq(Frame) /\ Len(r) = n /\ r[n] = f /\ \A i \in 1 .. n : i # n => r[i] = s[i]
    BY SetTopFact DEF StackOK
<1>3. ASSUME NEW i \in 1 .. n PROVE FrameOK(r[i]) /\ (i < n => r[i].calling = {r[i + 1].node})
    <2>1. CASE i = n
        BY <1>1, <1>2, <2>1
    <2>2. CASE i # n
        <3>1. i \in 1 .. n - 1 /\ i + 1 \in 1 .. n
            BY <1>1, <2>2
        <3>2. r[i] = s[i] /\ r[i + 1].node = s[i + 1].node
            BY <1>1, <1>2, <2>2, <3>1
        <3> QED
            BY <3>1, <3>2, <1>1 DEF StackOK
    <2> QED
        BY <2>1, <2>2
<1> QED
    BY <1>2, <1>3 DEF StackOK

(* Pushing the frame of the context that the top is calling.               *)
LEMMA PushOK ==
    ASSUME NEW s, StackOK(s), s # <<>>, NEW f \in Frame, FrameOK(f), Top(s).calling = {f.node}
    PROVE  StackOK(Append(s, f))
<1> DEFINE r == Append(s, f)
           n == Len(s)
<1>1. n \in Nat \ {0} /\ Top(s) = s[n]
    BY TopFact DEF StackOK
<1>2. r \in Seq(Frame) /\ Len(r) = n + 1 /\ r[n + 1] = f /\ \A i \in 1 .. n : r[i] = s[i]
    BY PushFact DEF StackOK
<1>3. ASSUME NEW i \in 1 .. n + 1 PROVE FrameOK(r[i]) /\ (i < n + 1 => r[i].calling = {r[i + 1].node})
    <2>1. CASE i = n + 1
        BY <1>1, <1>2, <2>1
    <2>2. CASE i = n
        BY <1>1, <1>2, <2>2 DEF StackOK
    <2>3. CASE i < n
        <3>1. i \in 1 .. n /\ i + 1 \in 1 .. n
            BY <1>1, <2>3
        <3> QED
            BY <1>1, <1>2, <2>3, <3>1 DEF StackOK
    <2> QED
        BY <1>1, <2>1, <2>2, <2>3
<1> QED
    BY <1>2, <1>3 DEF StackOK

(* Popping uncovers a frame that is calling the popped context.            *)
LEMMA PopOK ==
    ASSUME NEW s, StackOK(s), Len(s) > 1
    PROVE  /\ StackOK(Pop(s)) /\ Pop(s) # <<>>
           /\ Top(Pop(s)).calling = {Top(s).node}
<1> DEFINE r == Pop(s)
           n == Len(s)
<1>1. s \in Seq(Frame) /\ n \in Nat /\ n > 1
    BY DEF StackOK
<1>2. r \in Seq(Frame) /\ r # <<>> /\ Len(r) = n - 1 /\ \A i \in 1 .. n - 1 : r[i] = s[i]
    BY <1>1, PopFact
<1>3. Top(r) = s[n - 1] /\ Top(s) = s[n]
    BY <1>1, <1>2 DEF Top
<1>4. n - 1 \in 1 .. n /\ n - 1 < n /\ (n - 1) + 1 = n
    BY <1>1
<1>5. s[n - 1].calling = {s[n].node}
    BY <1>4 DEF StackOK
<1>6. ASSUME NEW i \in 1 .. n - 1 PROVE FrameOK(r[i]) /\ (i < n - 1 => r[i].calling = {r[i + 1].node})
    <2>1. i \in 1 .. n /\ i < n /\ (i < n - 1 => i + 1 \in 1 .. n - 1)
        BY <1>1
    <2> QED
        BY <1>2, <2>1 DEF StackOK
<1> QED
    BY <1>2, <1>3, <1>5, <1>6 DEF StackOK

(* A root's stack of one frame.                                            *)
LEMMA SingleOK == ASSUME NEW f \in Frame, FrameOK(f) PROVE StackOK(<<f>>)
BY DEF StackOK

-----------------------------------------------------------------------------
(* The steps of an analysis.                                               *)

(* One thread's step keeps the stacks of all the others.                   *)
LEMMA StackStep ==
    ASSUME Inv, NEW t \in Thread, NEW s, StackOK(s), stack' = [stack EXCEPT ![t] = s]
    PROVE  stack' \in [Thread -> Seq(Frame)] /\ Stacks'
<1>1. s \in Seq(Frame)
    BY DEF StackOK
<1>2. \A u \in Thread : stack'[u] = IF u = t THEN s ELSE stack[u]
    BY DEF Inv
<1> QED
    BY <1>1, <1>2 DEF Inv, Stacks

(* Returning a sound value to the caller.                                  *)
LEMMA ReturnStep ==
    ASSUME Inv, NEW t \in Thread, NEW c \in Context, Calling(t, c),
           NEW v \in SUBSET Value, Returns[c] \subseteq v, ReturnValue(t, v)
    PROVE  stack' \in [Thread -> Seq(Frame)] /\ Stacks'
<1> DEFINE s == stack[t]
           f == Returned(Top(s), v)
<1>1. StackOK(s) /\ s # <<>> /\ Top(s).calling = {c}
    BY DEF Inv, Stacks, Calling
<1>2. Top(s) \in Frame /\ FrameOK(Top(s))
    BY <1>1, TopOK
<1>3. f \in Frame /\ FrameOK(f) /\ f.node = Top(s).node
    BY <1>1, <1>2, ReturnedOK
<1>4. StackOK(SetTop(s, f))
    BY <1>1, <1>3, ReplaceOK
<1>5. stack' = [stack EXCEPT ![t] = SetTop(s, f)]
    BY DEF ReturnValue, ReplaceTop
<1> QED
    BY <1>4, <1>5, StackStep

(* A step that leaves the cache alone keeps it correct.                    *)
LEMMA KeptOthers ==
    ASSUME Inv, UNCHANGED <<cacheVars, exhausted>>
    PROVE  CacheTypes' /\ Ready'
BY DEF Inv, CacheTypes, Ready, cacheVars

(* A step that leaves the records alone keeps their types.                 *)
LEMMA KeptRecords == ASSUME Inv, UNCHANGED recordVars PROVE RecordTypes'
BY DEF Inv, RecordTypes, recordVars

(* A step that leaves the walks alone keeps their types.                   *)
LEMMA KeptVisits == ASSUME Inv, UNCHANGED <<result, visitVars, clears>> PROVE VisitTypes'
BY DEF Inv, VisitTypes, visitVars

(* StartRoot keeps the invariant.                                          *)
LEMMA StartRootStep ==
    ASSUME Inv, NEW t \in Thread, NEW r \in Root, StartRoot(t, r) PROVE Inv'
<1>1. CacheTypes' /\ Ready' /\ RecordTypes'
    BY KeptOthers, KeptRecords DEF StartRoot
<1>2. VisitTypes'
    BY DEF StartRoot, Inv, VisitTypes, visitVars
<1>3. stack' \in [Thread -> Seq(Frame)] /\ Stacks'
    <2>1. CASE UNCHANGED stack
        BY <2>1 DEF Inv, Stacks
    <2>2. CASE stack' = [stack EXCEPT ![t] = <<NewFrame(r)>>]
        <3>1. StackOK(<<NewFrame(r)>>)
            BY NewFrameFact, NewFrameOK, SingleOK DEF Node
        <3> QED
            BY <2>2, <3>1, StackStep
    <2> QED
        BY <2>1, <2>2 DEF StartRoot
<1> QED
    BY <1>1, <1>2, <1>3 DEF Inv

(* CallUnmodeled keeps the invariant.                                      *)
LEMMA CallUnmodeledStep ==
    ASSUME Inv, NEW t \in Thread, NEW c, CallUnmodeled(t, c) PROVE Inv'
<1> DEFINE s == stack[t]
           f == PassedOver(Top(s), c)
<1>1. CacheTypes' /\ Ready' /\ VisitTypes'
    BY KeptOthers, KeptVisits DEF CallUnmodeled
<1>2. RecordTypes'
    BY DEF CallUnmodeled, RecordUnmodeled, Inv, RecordTypes
<1>3. StackOK(s) /\ s # <<>>
    BY DEF Inv, Stacks, CallUnmodeled, Between
<1>4. Top(s) \in Frame /\ FrameOK(Top(s))
    BY <1>3, TopOK
<1>6. f \in Frame /\ FrameOK(f) /\ f.node = Top(s).node
    BY <1>4, PassedOverOK
<1>7. StackOK(SetTop(s, f))
    BY <1>3, <1>6, ReplaceOK
<1>8. stack' = [stack EXCEPT ![t] = SetTop(s, f)]
    BY DEF CallUnmodeled, ReplaceTop
<1>9. stack' \in [Thread -> Seq(Frame)] /\ Stacks'
    BY <1>7, <1>8, StackStep
<1> QED
    BY <1>1, <1>2, <1>9 DEF Inv

(* RecordAnalyzed keeps the types of the records.                          *)
LEMMA RecordStep ==
    ASSUME Inv, NEW n, NEW c \in Context, RecordAnalyzed(n, c) PROVE RecordTypes'
<1>1. maxRecordedCallContexts \in Nat
    BY ContextAssumption
<1>2. CASE UNCHANGED recordVars
    BY <1>2, KeptRecords
<1>3. CASE /\ complete' = [complete EXCEPT ![n] = FALSE] /\ recordingComplete' = FALSE
           /\ UNCHANGED <<recorded, recordedCount>>
    BY <1>3 DEF Inv, RecordTypes
<1>4. CASE /\ c \notin recorded[n] /\ ~(recordedCount >= maxRecordedCallContexts)
           /\ recorded' = [recorded EXCEPT ![n] = @ \cup {c}]
           /\ recordedCount' = recordedCount + 1
           /\ UNCHANGED <<complete, recordingComplete>>
    <2>1. RecordTypes
        BY DEF Inv
    <2>2. recorded' \in [Node -> SUBSET Context]
        BY <1>4, <2>1 DEF RecordTypes
    <2>3. recordedCount' \in 0 .. maxRecordedCallContexts
        BY <1>1, <1>4, <2>1 DEF RecordTypes
    <2> QED
        BY <1>4, <2>1, <2>2, <2>3 DEF RecordTypes
<1> QED
    BY <1>2, <1>3, <1>4 DEF RecordAnalyzed

(* BeginCall keeps the invariant.                                          *)
LEMMA BeginCallStep ==
    ASSUME Inv, NEW t \in Thread, NEW c \in Context, BeginCall(t, c) PROVE Inv'
<1> DEFINE s == stack[t]
           f == Begun(Top(s), c)
<1>1. CacheTypes' /\ Ready' /\ VisitTypes'
    BY KeptOthers, KeptVisits DEF BeginCall
<1>2. RecordTypes'
    BY RecordStep DEF BeginCall
<1>3. StackOK(s) /\ s # <<>> /\ Top(s).calling = {}
    BY DEF Inv, Stacks, BeginCall, Between
<1>4. Top(s) \in Frame /\ FrameOK(Top(s))
    BY <1>3, TopOK
<1>6. f \in Frame /\ FrameOK(f) /\ f.node = Top(s).node
    BY <1>3, <1>4, BegunOK
<1>7. StackOK(SetTop(s, f))
    BY <1>3, <1>6, ReplaceOK
<1>8. stack' = [stack EXCEPT ![t] = SetTop(s, f)]
    BY DEF BeginCall, ReplaceTop
<1>9. stack' \in [Thread -> Seq(Frame)] /\ Stacks'
    BY <1>7, <1>8, StackStep
<1> QED
    BY <1>1, <1>2, <1>9 DEF Inv

(* The ways a call returns without an analysis of its own.                 *)
LEMMA CallReturnsStep ==
    ASSUME Inv, NEW t \in Thread, NEW c \in Context,
           CallAffine(t, c) \/ CallUnknown(t, c) \/ CallReady(t, c) \/ Reject(t, c)
    PROVE  Inv'
<1>1. Returns[c] \in SUBSET Value
    BY ReturnsAssumption DEF Node
<1>2. CASE CallAffine(t, c)
    <2>1. stack' \in [Thread -> Seq(Frame)] /\ Stacks'
        BY <1>1, <1>2, ReturnStep DEF CallAffine
    <2> QED
        BY <1>2, <2>1, KeptOthers, KeptRecords, KeptVisits DEF CallAffine, Inv
<1>3. CASE CallUnknown(t, c)
    <2>1. stack' \in [Thread -> Seq(Frame)] /\ Stacks'
        BY <1>1, <1>3, ReturnStep DEF CallUnknown, UnknownOutputs, Unknown
    <2> QED
        BY <1>3, <2>1, KeptOthers, KeptRecords, KeptVisits DEF CallUnknown, Inv
<1>4. CASE CallReady(t, c)
    <2>1. returns[c] \in SUBSET Value /\ Returns[c] \subseteq returns[c]
        BY <1>4 DEF CallReady, Inv, CacheTypes, Ready
    <2>2. stack' \in [Thread -> Seq(Frame)] /\ Stacks'
        BY <1>4, <2>1, ReturnStep DEF CallReady
    <2> QED
        BY <1>4, <2>2, KeptOthers, KeptRecords, KeptVisits DEF CallReady, Inv
<1>5. CASE Reject(t, c)
    <2>1. stack' \in [Thread -> Seq(Frame)] /\ Stacks'
        BY <1>1, <1>5, ReturnStep DEF Reject, UnknownOutputs, Unknown
    <2>2. CacheTypes' /\ Ready'
        BY <1>5 DEF Reject, Inv, CacheTypes, Ready
    <2> QED
        BY <1>5, <2>1, <2>2, KeptRecords, KeptVisits DEF Reject, Inv
<1> QED
    BY <1>2, <1>3, <1>4, <1>5

(* Reserving an entry and pushing its frame keeps the invariant.           *)
LEMMA StartAnalysisStep ==
    ASSUME Inv, NEW t \in Thread, NEW c \in Context, StartAnalysis(t, c) PROVE Inv'
<1> DEFINE s == stack[t]
<1>1. RecordTypes' /\ VisitTypes'
    BY KeptRecords, KeptVisits DEF StartAnalysis
<1>2. CacheTypes'
    <2>1. CacheTypes
        BY DEF Inv
    <2>2. counts' = [counts EXCEPT ![FunctionOf[c]] = @ + 1] /\ order' = Append(order, c)
        BY DEF StartAnalysis
    <2>3. counts' \in [Function -> Nat]
        <3>1. counts \in [Function -> Nat]
            BY <2>1 DEF CacheTypes
        <3>2. FunctionOf[c] \in Function
            BY ContextAssumption
        <3> QED
            BY <2>2, <3>1, <3>2
    <2>5. order' \in Seq(Context)
        BY <2>1, <2>2 DEF CacheTypes
    <2>4. /\ summary' \in [Context -> {"unseen", "computing", "ready", "failed"}]
          /\ UNCHANGED <<returns, failedContextKeys, exhausted>>
        BY <2>1 DEF StartAnalysis, CacheTypes
    <2> QED
        BY <2>1, <2>3, <2>4, <2>5 DEF CacheTypes
<1>3. Ready'
    BY DEF StartAnalysis, Inv, CacheTypes, Ready
<1>4. StackOK(s) /\ s # <<>> /\ Top(s).calling = {c}
    BY DEF Inv, Stacks, StartAnalysis, Calling
<1>5. NewFrame(c) \in Frame /\ FrameOK(NewFrame(c)) /\ NewFrame(c).node = c
    BY NewFrameFact, NewFrameOK DEF Node
<1>6. StackOK(Append(s, NewFrame(c)))
    BY <1>4, <1>5, PushOK
<1>7. stack' = [stack EXCEPT ![t] = Append(s, NewFrame(c))]
    BY DEF StartAnalysis, Inv
<1>8. stack' \in [Thread -> Seq(Frame)] /\ Stacks'
    BY <1>6, <1>7, StackStep
<1> QED
    BY <1>1, <1>2, <1>3, <1>8 DEF Inv

(* Making a frame's state unknown keeps the invariant.                     *)
LEMMA ClearStateStep ==
    ASSUME Inv, NEW t \in Thread, ClearState(t) PROVE Inv'
<1> DEFINE s == stack[t]
           f == [Top(s) EXCEPT !.value = Unknown]
<1>1. CacheTypes' /\ Ready' /\ RecordTypes' /\ VisitTypes'
    BY KeptOthers, KeptRecords, KeptVisits DEF ClearState
<1>2. StackOK(s) /\ s # <<>>
    BY DEF Inv, Stacks, ClearState, Between
<1>3. Top(s) \in Frame /\ FrameOK(Top(s))
    BY <1>2, TopOK
<1>4. f \in Frame /\ f.node = Top(s).node
    BY <1>3 DEF Frame, Unknown
<1>5. f.todo = Top(s).todo /\ f.calling = Top(s).calling /\ f.value = Value
    BY <1>3 DEF Frame, Unknown
<1>6. Top(s).value \subseteq Value
    BY <1>3 DEF Frame
<1> HIDE DEF f
<1>7. FrameOK(f)
    BY <1>3, <1>4, <1>5, <1>6 DEF FrameOK
<1>8. StackOK(SetTop(s, f))
    BY <1>2, <1>4, <1>7, ReplaceOK
<1>9. stack' = [stack EXCEPT ![t] = SetTop(s, f)]
    BY DEF ClearState, ReplaceTop, f
<1>10. stack' \in [Thread -> Seq(Frame)] /\ Stacks'
    BY <1>8, <1>9, StackStep
<1> QED
    BY <1>1, <1>10 DEF Inv

(* Publishing a summary keeps the invariant: the frame covers it.          *)
LEMMA FinishAnalysisStep ==
    ASSUME Inv, NEW t \in Thread, FinishAnalysis(t) PROVE Inv'
<1> DEFINE s == stack[t]
           f == Top(s)
           rest == Pop(s)
           v == IF f.node \in TooLarge THEN Unknown ELSE f.value
           g == Returned(Top(rest), v)
<1>1. RecordTypes' /\ VisitTypes'
    BY KeptRecords, KeptVisits DEF FinishAnalysis
<1>2. StackOK(s) /\ s # <<>> /\ Len(s) > 1 /\ f.calling = {} /\ f.todo = {}
    BY DEF Inv, Stacks, FinishAnalysis, Between
<1>3. f \in Frame /\ FrameOK(f)
    BY <1>2, TopOK
<1>4. f.node \notin TooLarge => Returns[f.node] \subseteq f.value
    BY <1>2, <1>3, FrameCovers
<1>5. f.node \in Node /\ f.value \in SUBSET Value
    BY <1>3 DEF Frame
<1>6. v \in SUBSET Value /\ Returns[f.node] \subseteq v
    BY <1>4, <1>5, ReturnsAssumption DEF Unknown
<1>7. StackOK(rest) /\ rest # <<>> /\ Top(rest).calling = {f.node}
    BY <1>2, PopOK
<1>8. Top(rest) \in Frame /\ FrameOK(Top(rest))
    BY <1>7, TopOK
<1>9. g \in Frame /\ FrameOK(g) /\ g.node = Top(rest).node
    BY <1>6, <1>7, <1>8, ReturnedOK
<1>10. StackOK(SetTop(rest, g))
    BY <1>7, <1>9, ReplaceOK
<1>11. stack' = [stack EXCEPT ![t] = SetTop(rest, g)]
    BY DEF FinishAnalysis, Inv
<1>12. stack' \in [Thread -> Seq(Frame)] /\ Stacks'
    BY <1>10, <1>11, StackStep
<1>13. /\ summary' = [summary EXCEPT ![f.node] = IF f.node \in TooLarge THEN "failed" ELSE "ready"]
       /\ returns' = IF f.node \in TooLarge THEN returns ELSE [returns EXCEPT ![f.node] = f.value]
       /\ UNCHANGED <<order, counts, failedContextKeys, exhausted>>
    BY DEF FinishAnalysis
<1> HIDE DEF f
<1>14. CacheTypes'
    BY <1>5, <1>13 DEF Inv, CacheTypes
<1>15. Ready'
    BY <1>4, <1>13 DEF Inv, CacheTypes, Ready
<1> QED
    BY <1>1, <1>12, <1>14, <1>15 DEF Inv

(* FinishRoot keeps the invariant.                                         *)
LEMMA FinishRootStep ==
    ASSUME Inv, NEW t \in Thread, FinishRoot(t) PROVE Inv'
<1>1. CacheTypes' /\ Ready' /\ RecordTypes'
    BY KeptOthers, KeptRecords DEF FinishRoot
<1>2. VisitTypes'
    BY DEF FinishRoot, Inv, VisitTypes, visitVars
<1>3. StackOK(<<>>)
    BY DEF StackOK
<1>4. stack' \in [Thread -> Seq(Frame)] /\ Stacks'
    BY <1>3, StackStep DEF FinishRoot
<1> QED
    BY <1>1, <1>2, <1>4 DEF Inv

-----------------------------------------------------------------------------
(* The visit and the clearing of the results.                              *)

(* Enqueueing contexts yields a walk.                                      *)
LEMMA EnqueueFact ==
    ASSUME NEW v \in Visits, NEW keys \in SUBSET Context, NEW w \in Enqueue(v, keys)
    PROVE  w \in Visits
<1>1. PICK new \in SUBSET (keys \ v.discovered) :
          w = [v EXCEPT !.work = @ \cup new, !.discovered = @ \cup new,
                        !.complete = @ /\ new = keys \ v.discovered]
    BY DEF Enqueue
<1>2. (v.complete /\ new = keys \ v.discovered) \in BOOLEAN
    OBVIOUS
<1> QED
    BY <1>1, <1>2 DEF Visits

(* Collecting a node's calls yields a walk.                                *)
LEMMA CollectFact ==
    ASSUME Inv, NEW v \in Visits, NEW n \in Node, NEW w \in CollectCalls(v, n)
    PROVE  w \in Visits
<1> DEFINE u == [v EXCEPT !.complete = @ /\ recordingComplete /\ complete[n]]
<1>1. (v.complete /\ recordingComplete /\ complete[n]) \in BOOLEAN
    OBVIOUS
<1>2. u \in Visits
    BY <1>1 DEF Visits
<1>3. recorded[n] \in SUBSET Context
    BY DEF Inv, RecordTypes
<1>4. w \in Enqueue(u, recorded[n])
    BY DEF CollectCalls
<1> HIDE DEF u
<1> QED
    BY <1>2, <1>3, <1>4, EnqueueFact

(* A step of the walk or the budget leaves the analyses correct.           *)
LEMMA KeptAnalyses ==
    ASSUME Inv, UNCHANGED <<cacheVars, exhausted, recordVars, stack>>
    PROVE  CacheTypes' /\ Ready' /\ RecordTypes' /\ stack' \in [Thread -> Seq(Frame)] /\ Stacks'
BY KeptOthers, KeptRecords DEF Inv, Stacks

(* A step of the walk keeps the invariant.                                 *)
LEMMA VisitStep == ASSUME Inv, Visit PROVE Inv'
<1>a. visit \in Visits /\ VisitTypes
    BY DEF Inv, VisitTypes
<1>1. ASSUME NEW r \in Root, StartVisit(r) PROVE Inv'
    <2>1. [NoVisit EXCEPT !.root = {r}] \in Visits
        BY DEF NoVisit, Visits
    <2>2. visit' \in Visits
        BY <1>1, <2>1, CollectFact DEF StartVisit, Node
    <2> QED
        BY <1>1, <1>a, <2>2, KeptAnalyses DEF StartVisit, VisitTypes, Inv
<1>2. ASSUME NEW r \in Root, FinishVisit(r) PROVE Inv'
    <2>1. visit' \in Visits
        BY <1>2, <1>a DEF FinishVisit, Visits
    <2>2. closure' \in [Root -> {"none", "partial", "complete"}]
        BY <1>2, <1>a DEF FinishVisit, VisitTypes
    <2> QED
        BY <1>2, <1>a, <2>1, <2>2, KeptAnalyses DEF FinishVisit, VisitTypes, Inv
<1>3. ASSUME NEW c \in Context, VisitContext(c) PROVE Inv'
    <2> DEFINE popped == [visit EXCEPT !.work = @ \ {c}]
               seen == [popped EXCEPT !.visited = @ \cup {c}]
    <2>1. popped \in Visits
        BY <1>a DEF Visits
    <2>2. visit' \in CollectCalls(seen, c) \/ visit' = [popped EXCEPT !.complete = FALSE]
        BY <1>3 DEF VisitContext
    <2>4. UNCHANGED <<cacheVars, exhausted, recordVars, stack, result, closure, clears>>
        BY <1>3 DEF VisitContext
    <2> HIDE DEF popped
    <2>3. seen \in Visits /\ [popped EXCEPT !.complete = FALSE] \in Visits
        BY <2>1 DEF Visits
    <2> HIDE DEF seen
    <2>5. visit' \in Visits
        BY <2>2, <2>3, CollectFact DEF Node
    <2> QED
        BY <1>a, <2>4, <2>5, KeptAnalyses DEF VisitTypes, Inv
<1> QED
    BY <1>1, <1>2, <1>3 DEF Visit

(* Clearing everything keeps the invariant.                                *)
LEMMA ClearStep == ASSUME Inv, ClearContextSensitiveResults PROVE Inv'
<1>1. CacheTypes' /\ Ready'
    <2>1. ClearCache /\ exhausted' = FALSE
        BY DEF ClearContextSensitiveResults
    <2>2. order' \in Seq(Context)
        BY <2>1 DEF ClearCache
    <2>3. CacheTypes'
        BY <2>1, <2>2 DEF ClearCache, CacheTypes
    <2>4. Ready'
        BY <2>1 DEF ClearCache, Ready
    <2> QED
        BY <2>3, <2>4
<1>2. RecordTypes'
    BY ContextAssumption DEF ClearContextSensitiveResults, RecordTypes
<1>3. NoVisit \in Visits
    BY DEF NoVisit, Visits
<1>4. VisitTypes'
    BY <1>3 DEF ClearContextSensitiveResults, Inv, VisitTypes
<1>5. stack' \in [Thread -> Seq(Frame)] /\ Stacks'
    BY DEF ClearContextSensitiveResults, Inv, Stacks
<1> QED
    BY <1>1, <1>2, <1>4, <1>5 DEF Inv

(* Running out of budget keeps the invariant.                              *)
LEMMA ExhaustStep == ASSUME Inv, ExhaustBudget PROVE Inv'
<1>1. CacheTypes' /\ Ready'
    BY DEF ExhaustBudget, cacheVars, Inv, CacheTypes, Ready
<1>2. RecordTypes' /\ VisitTypes'
    BY KeptRecords, KeptVisits DEF ExhaustBudget
<1>3. stack' \in [Thread -> Seq(Frame)] /\ Stacks'
    BY DEF ExhaustBudget, Inv, Stacks
<1> QED
    BY <1>1, <1>2, <1>3 DEF Inv

(* The invariant holds at first.                                           *)
LEMMA Start == Init => Inv
<1> SUFFICES ASSUME Init PROVE Inv
    OBVIOUS
<1>1. CacheTypes /\ Ready
    <2>1. order \in Seq(Context)
        BY DEF Init
    <2>2. CacheTypes
        BY <2>1 DEF Init, CacheTypes
    <2>3. Ready
        BY DEF Init, Ready
    <2> QED
        BY <2>2, <2>3
<1>2. RecordTypes
    BY ContextAssumption DEF Init, RecordTypes
<1>3. NoVisit \in Visits
    BY DEF NoVisit, Visits
<1>4. VisitTypes
    BY <1>3 DEF Init, VisitTypes
<1>5. StackOK(<<>>) /\ <<>> \in Seq(Frame)
    BY DEF StackOK
<1>6. stack \in [Thread -> Seq(Frame)] /\ Stacks
    BY <1>5 DEF Init, Stacks
<1> QED
    BY <1>1, <1>2, <1>4, <1>6 DEF Inv

(* Inv, the inductive invariant, holds for every program, pool and limit.  *)
THEOREM Invariance == Spec => []Inv
<1>1. Inv /\ [Next]_vars => Inv'
    <2> SUFFICES ASSUME Inv, [Next]_vars PROVE Inv'
        OBVIOUS
    <2>1. ASSUME NEW t \in Thread, Analyse(t) PROVE Inv'
        BY <2>1, StartRootStep, CallUnmodeledStep, BeginCallStep, CallReturnsStep,
           StartAnalysisStep, FinishAnalysisStep, FinishRootStep DEF Analyse
    <2>2. ASSUME NEW t \in Thread, ClearState(t) PROVE Inv'
        BY <2>2, ClearStateStep
    <2>3. CASE UNCHANGED vars
        <3>1. CacheTypes' /\ Ready' /\ RecordTypes' /\ stack' \in [Thread -> Seq(Frame)] /\ Stacks'
            BY <2>3, KeptAnalyses DEF vars
        <3>2. VisitTypes'
            BY <2>3, KeptVisits DEF vars
        <3> QED
            BY <3>1, <3>2 DEF Inv
    <2> QED
        BY <2>1, <2>2, <2>3, VisitStep, ClearStep, ExhaustStep DEF Next
<1> QED
    BY <1>1, Start, PTL DEF Spec

(* The variables keep the types of the fields they stand for.              *)
THEOREM TypeCorrect == Spec => []TypeOK
BY Invariance, Types, PTL

(* Whatever the threads' order, whatever limit is hit and whenever the     *)
(* budget is spent: a summary covers what its call can return.             *)
THEOREM SummariesCorrect == Spec => []SummariesSound
BY Invariance, Sound, PTL
-----------------------------------------------------------------------------
(* Which frames there are, and who computes what.                          *)

(* The first frame of a stack is a root's, the others are contexts whose   *)
(* entries are COMPUTING.                                                  *)
Shape ==
    \A t \in Thread : \A i \in 1 .. Len(stack[t]) :
        IF i = 1 THEN stack[t][i].node \in Root \ TooLarge
        ELSE stack[t][i].node \in Context /\ summary[stack[t][i].node] = "computing"

(* No context is analysed twice at a time, in whatever threads.            *)
Alone ==
    \A t, u \in Thread : \A i \in 2 .. Len(stack[t]), j \in 2 .. Len(stack[u]) :
        stack[t][i].node = stack[u][j].node => t = u /\ i = j

(* What is COMPUTING is computed by somebody.                              *)
Owned ==
    \A c \in Context : summary[c] = "computing" =>
        \E t \in Thread : \E i \in 2 .. Len(stack[t]) : stack[t][i].node = c

(* The analyses do not run while the contexts are visited.                 *)
VisitIdle == visit.root # {} => Idle

StackInv == Shape /\ Alone /\ Owned /\ VisitIdle

SameNodes ==
    \A t \in Thread :
        /\ Len(stack'[t]) = Len(stack[t])
        /\ \A i \in 1 .. Len(stack[t]) : stack'[t][i].node = stack[t][i].node

(* The calls of a node are recorded with it, or are known to be missing.   *)
CallKnown(n, c) == c \in recorded[n] \/ ~complete[n] \/ ~recordingComplete

AllKnown(n) == \A c \in Calls[n] : CallKnown(n, c)

FrameKnown(f) == f.node \notin TooLarge => \A c \in Calls[f.node] \ f.todo : CallKnown(f.node, c)

RecordsKept == \A n \in Node : \A c : CallKnown(n, c) => CallKnown(n, c)'

(* The handling of one call, or of none, by the analysis on top.           *)
Handle(t) ==
    \/ \E c \in Context \cup {External} : CallUnmodeled(t, c)
    \/ \E c \in Context :
           BeginCall(t, c) \/ CallAffine(t, c) \/ CallUnknown(t, c) \/ CallReady(t, c)
           \/ Reject(t, c)
    \/ ClearState(t)

(* What a step of recording does to the records.                           *)
LEMMA RecordAnalyzedFact ==
    ASSUME Inv, NEW n \in Node, NEW c \in Context, RecordAnalyzed(n, c)
    PROVE  RecordsKept /\ CallKnown(n, c)'
<1>1. /\ recorded \in [Node -> SUBSET Context] /\ complete \in [Node -> BOOLEAN]
      /\ recordingComplete \in BOOLEAN
    BY DEF Inv, RecordTypes
<1>2. CASE c \in recorded[n] /\ UNCHANGED recordVars
    BY <1>2 DEF recordVars, RecordsKept, CallKnown
<1>3. CASE /\ recordingComplete' = FALSE
    BY <1>3 DEF RecordsKept, CallKnown
<1>4. CASE /\ recorded' = [recorded EXCEPT ![n] = @ \cup {c}]
           /\ UNCHANGED <<complete, recordingComplete>>
    BY <1>1, <1>4 DEF RecordsKept, CallKnown
<1> QED
    BY <1>2, <1>3, <1>4 DEF RecordAnalyzed

(* An unmodelled call makes its node's record incomplete.                  *)
LEMMA RecordUnmodeledFact ==
    ASSUME Inv, NEW n \in Node, RecordUnmodeled(n)
    PROVE  RecordsKept /\ \A c : CallKnown(n, c)'
<1>1. complete \in [Node -> BOOLEAN]
    BY DEF Inv, RecordTypes
<1> QED
    BY <1>1 DEF RecordUnmodeled, RecordsKept, CallKnown

(* Records that are left alone are kept.                                   *)
LEMMA RecordsAlone == UNCHANGED recordVars => RecordsKept
BY DEF recordVars, RecordsKept, CallKnown

(* What returning does to the frame that called.                           *)
LEMMA ReturnedFact ==
    ASSUME NEW f \in Frame, NEW v \in SUBSET Value
    PROVE  Returned(f, v) \in Frame /\ Returned(f, v).node = f.node /\ Returned(f, v).todo = f.todo
BY DEF Frame, Returned

(* A step that handles a call changes the frame on top only, and what it   *)
(* takes from the frame's calls is recorded.                               *)
LEMMA HandleFact ==
    ASSUME Inv, NEW t \in Thread, Handle(t)
    PROVE  /\ stack[t] # <<>> /\ RecordsKept
           /\ UNCHANGED <<summary, returns, order, counts, exhausted, result, visit, closure, clears>>
           /\ \E f \in Frame :
                /\ f.node = Top(stack[t]).node
                /\ stack' = [stack EXCEPT ![t] = SetTop(stack[t], f)]
                /\ \A c \in Top(stack[t]).todo \ f.todo : CallKnown(f.node, c)'
<1> DEFINE s == stack[t]
           g == Top(s)
           Goal == /\ s # <<>> /\ RecordsKept
                   /\ UNCHANGED <<summary, returns, order, counts, exhausted, result, visit, closure, clears>>
                   /\ \E f \in Frame :
                        /\ f.node = g.node
                        /\ stack' = [stack EXCEPT ![t] = SetTop(s, f)]
                        /\ \A c \in g.todo \ f.todo : CallKnown(f.node, c)'
<1>1. s \in Seq(Frame)
    BY DEF Inv
<1>a. s # <<>> => g \in Frame
    BY <1>1, TopFact
<1>2. s # <<>> => g \in Frame /\ g.node \in Node
    BY <1>a DEF Frame
<1>b. PICK n : n = g.node
    OBVIOUS
<1>3. ASSUME NEW c, CallUnmodeled(t, c) PROVE Goal
    <2>1. s # <<>>
        BY <1>3 DEF CallUnmodeled, Between
    <2>2. PassedOver(g, c) \in Frame /\ PassedOver(g, c).node = g.node
        BY <1>2, <2>1 DEF PassedOver, Frame, Unknown
    <2>3. RecordsKept /\ \A d : CallKnown(n, d)'
        BY <1>2, <1>b, <1>3, <2>1, RecordUnmodeledFact DEF CallUnmodeled
    <2>4. stack' = [stack EXCEPT ![t] = SetTop(s, PassedOver(g, c))]
        BY <1>3 DEF CallUnmodeled, ReplaceTop
    <2>5. UNCHANGED <<summary, returns, order, counts, exhausted, result, visit, closure, clears>>
        BY <1>3 DEF CallUnmodeled, cacheVars, visitVars
    <2>6. PICK f \in Frame : f = PassedOver(g, c)
        BY <2>2
    <2> QED
        BY <1>b, <2>1, <2>2, <2>3, <2>4, <2>5, <2>6
<1>4. ASSUME NEW c \in Context, BeginCall(t, c) PROVE Goal
    <2>1. s # <<>>
        BY <1>4 DEF BeginCall, Between
    <2>2. Begun(g, c) \in Frame /\ Begun(g, c).node = g.node /\ Begun(g, c).todo = g.todo \ {c}
        BY <1>2, <2>1 DEF Begun, Frame
    <2>3. RecordsKept /\ CallKnown(n, c)'
        BY <1>2, <1>b, <1>4, <2>1, RecordAnalyzedFact DEF BeginCall
    <2>4. stack' = [stack EXCEPT ![t] = SetTop(s, Begun(g, c))]
        BY <1>4 DEF BeginCall, ReplaceTop
    <2>5. UNCHANGED <<summary, returns, order, counts, exhausted, result, visit, closure, clears>>
        BY <1>4 DEF BeginCall, cacheVars, visitVars
    <2>6. PICK f \in Frame : f = Begun(g, c)
        BY <2>2
    <2>7. f.node = n /\ f.todo = g.todo \ {c}
        BY <1>b, <2>2, <2>6
    <2>8. \A d \in g.todo \ f.todo : CallKnown(f.node, d)'
        BY <2>3, <2>7
    <2> QED
        BY <1>b, <2>1, <2>3, <2>4, <2>5, <2>6, <2>7, <2>8
<1>5. ASSUME NEW c \in Context, NEW v \in SUBSET Value, Calling(t, c), ReturnValue(t, v),
             UNCHANGED <<summary, returns, order, counts, exhausted, recordVars, result, visitVars, clears>>
      PROVE  Goal
    <2>1. s # <<>>
        BY <1>5 DEF Calling
    <2>2. Returned(g, v) \in Frame /\ Returned(g, v).node = g.node /\ Returned(g, v).todo = g.todo
        BY <1>2, <2>1, ReturnedFact
    <2>3. stack' = [stack EXCEPT ![t] = SetTop(s, Returned(g, v))]
        BY <1>5 DEF ReturnValue, ReplaceTop
    <2>4. RecordsKept
        BY <1>5, RecordsAlone
    <2>5. UNCHANGED <<summary, returns, order, counts, exhausted, result, visit, closure, clears>>
        BY <1>5 DEF visitVars
    <2> QED
        BY <2>1, <2>2, <2>3, <2>4, <2>5
<1>6. ASSUME NEW c \in Context, CallAffine(t, c) PROVE Goal
    <2>1. Returns[c] \in SUBSET Value
        BY ReturnsAssumption DEF Node
    <2> HIDE DEF Goal
    <2> QED
        BY <1>5, <1>6, <2>1 DEF CallAffine, cacheVars
<1>7. ASSUME NEW c \in Context, CallUnknown(t, c) PROVE Goal
    <2> HIDE DEF Goal
    <2> QED
        BY <1>5, <1>7 DEF CallUnknown, cacheVars, UnknownOutputs, Unknown
<1>8. ASSUME NEW c \in Context, CallReady(t, c) PROVE Goal
    <2>1. returns[c] \in SUBSET Value
        BY DEF Inv, CacheTypes
    <2> HIDE DEF Goal
    <2> QED
        BY <1>5, <1>8, <2>1 DEF CallReady, cacheVars
<1>9. ASSUME NEW c \in Context, Reject(t, c) PROVE Goal
    <2> HIDE DEF Goal
    <2> QED
        BY <1>5, <1>9 DEF Reject, UnknownOutputs, Unknown
<1>10. ASSUME ClearState(t) PROVE Goal
    <2>1. s # <<>>
        BY <1>10 DEF ClearState, Between
    <2> DEFINE f == [g EXCEPT !.value = Unknown]
    <2>2. f \in Frame /\ f.node = g.node /\ f.todo = g.todo
        BY <1>2, <2>1 DEF Frame, Unknown
    <2>3. stack' = [stack EXCEPT ![t] = SetTop(s, f)]
        BY <1>10 DEF ClearState, ReplaceTop
    <2>4. RecordsKept
        BY <1>10, RecordsAlone DEF ClearState
    <2>5. UNCHANGED <<summary, returns, order, counts, exhausted, result, visit, closure, clears>>
        BY <1>10 DEF ClearState, cacheVars, visitVars
    <2> HIDE DEF f
    <2> QED
        BY <2>1, <2>2, <2>3, <2>4, <2>5
<1> HIDE DEF Goal
<1>11. Goal
    <2>1. CASE \E c \in Context \cup {External} : CallUnmodeled(t, c)
        BY <1>3, <2>1
    <2>2. CASE \E c \in Context :
                   BeginCall(t, c) \/ CallAffine(t, c) \/ CallUnknown(t, c) \/ CallReady(t, c)
                   \/ Reject(t, c)
        BY <1>4, <1>6, <1>7, <1>8, <1>9, <2>2
    <2> QED
        BY <1>10, <2>1, <2>2 DEF Handle
<1> QED
    BY <1>11 DEF Goal

(* ... so that it keeps the nodes of all the stacks.                       *)
LEMMA HandleNodes == ASSUME Inv, NEW t \in Thread, Handle(t) PROVE SameNodes
<1>1. PICK f \in Frame : /\ f.node = Top(stack[t]).node
                         /\ stack' = [stack EXCEPT ![t] = SetTop(stack[t], f)]
    BY HandleFact
<1>2. stack[t] # <<>> /\ stack \in [Thread -> Seq(Frame)] /\ stack[t] \in Seq(Frame)
    BY HandleFact DEF Inv
<1>3. /\ Len(SetTop(stack[t], f)) = Len(stack[t])
      /\ SetTop(stack[t], f)[Len(stack[t])] = f
      /\ \A i \in 1 .. Len(stack[t]) : i # Len(stack[t]) => SetTop(stack[t], f)[i] = stack[t][i]
    BY <1>2, SetTopFact
<1>4. Top(stack[t]) = stack[t][Len(stack[t])]
    BY <1>2, TopFact
<1>5. \A u \in Thread : stack'[u] = IF u = t THEN SetTop(stack[t], f) ELSE stack[u]
    BY <1>1, <1>2
<1> QED
    BY <1>1, <1>3, <1>4, <1>5 DEF SameNodes

(* Keeping the nodes and the cache keeps who computes what.                *)
LEMMA SameNodesKeep ==
    ASSUME StackInv, SameNodes, UNCHANGED summary PROVE Shape' /\ Alone' /\ Owned'
<1>1. \A u \in Thread : 1 .. Len(stack'[u]) = 1 .. Len(stack[u]) /\ 2 .. Len(stack'[u]) = 2 .. Len(stack[u])
    BY DEF SameNodes
<1>2. \A u \in Thread : \A i \in 2 .. Len(stack[u]) : stack'[u][i].node = stack[u][i].node
    BY DEF SameNodes
<1>3. Shape'
    BY <1>1 DEF StackInv, Shape, SameNodes
<1>4. Alone'
    BY <1>1, <1>2 DEF StackInv, Alone
<1>5. Owned'
    BY <1>1, <1>2 DEF StackInv, Owned
<1> QED
    BY <1>3, <1>4, <1>5

(* A thread's stack with the frame of a context more, or the top less.     *)
LEMMA StackUpdate ==
    ASSUME Inv, NEW t \in Thread, NEW s, stack' = [stack EXCEPT ![t] = s]
    PROVE  \A u \in Thread : stack'[u] = IF u = t THEN s ELSE stack[u]
BY DEF Inv

(* StartRoot keeps who computes what: a root computes no entry.            *)
LEMMA StartRootStack ==
    ASSUME Inv, StackInv, NEW t \in Thread, NEW r \in Root, StartRoot(t, r) PROVE StackInv'
<1>1. UNCHANGED <<summary, visit>> /\ visit.root = {} /\ stack[t] = <<>>
    BY DEF StartRoot, cacheVars, visitVars
<1>2. VisitIdle'
    BY <1>1 DEF VisitIdle
<1>3. CASE UNCHANGED stack
    BY <1>1, <1>2, <1>3 DEF StackInv, Shape, Alone, Owned
<1>4. CASE r \notin TooLarge /\ stack' = [stack EXCEPT ![t] = <<NewFrame(r)>>]
    <2>1. \A u \in Thread : stack'[u] = IF u = t THEN <<NewFrame(r)>> ELSE stack[u]
        BY <1>4, StackUpdate
    <2>2. Len(<<NewFrame(r)>>) = 1 /\ <<NewFrame(r)>>[1].node = r /\ Len(stack[t]) = 0
        BY <1>1, NewFrameOK DEF Node
    <2>3. Shape'
        BY <1>1, <1>4, <2>1, <2>2 DEF StackInv, Shape
    <2>4. \A u \in Thread : 2 .. Len(stack'[u]) = 2 .. Len(stack[u]) /\ (u # t => stack'[u] = stack[u])
        <3>1. 2 .. 1 = {} /\ 2 .. 0 = {}
            OBVIOUS
        <3> QED
            BY <2>1, <2>2, <3>1
    <2>5. \A u \in Thread : \A i \in 2 .. Len(stack[u]) : u # t
        BY <2>2
    <2>6. Alone'
        BY <2>4, <2>5 DEF StackInv, Alone
    <2>7. Owned'
        BY <1>1, <2>4, <2>5 DEF StackInv, Owned
    <2> QED
        BY <1>2, <2>3, <2>6, <2>7 DEF StackInv
<1> QED
    BY <1>3, <1>4 DEF StartRoot

(* Handling a call keeps it.                                               *)
LEMMA HandleStack ==
    ASSUME Inv, StackInv, NEW t \in Thread, Handle(t) PROVE StackInv'
<1>1. UNCHANGED <<summary, visit>> /\ stack[t] # <<>>
    BY HandleFact
<1>2. visit.root = {}
    BY <1>1 DEF StackInv, VisitIdle, Idle
<1>3. VisitIdle'
    BY <1>1, <1>2 DEF VisitIdle
<1> QED
    BY <1>1, <1>3, HandleNodes, SameNodesKeep DEF StackInv

(* A reserved entry is computed by the thread that reserved it.            *)
LEMMA StartAnalysisStack ==
    ASSUME Inv, StackInv, NEW t \in Thread, NEW c \in Context, StartAnalysis(t, c) PROVE StackInv'
<1> DEFINE s == stack[t]
           n == Len(s)
           p == Append(s, NewFrame(c))
<1>1. /\ s # <<>> /\ summary[c] = "unseen" /\ summary' = [summary EXCEPT ![c] = "computing"]
      /\ stack' = [stack EXCEPT ![t] = Append(stack[t], NewFrame(c))] /\ UNCHANGED visit
    BY DEF StartAnalysis, Calling, Missing, visitVars
<1>2. s \in Seq(Frame) /\ summary \in [Context -> {"unseen", "computing", "ready", "failed"}]
    BY DEF Inv, CacheTypes
<1>3. NewFrame(c) \in Frame /\ NewFrame(c).node = c
    BY NewFrameFact, NewFrameOK DEF Node
<1>4. /\ Len(p) = n + 1 /\ p[n + 1] = NewFrame(c) /\ \A i \in 1 .. n : p[i] = s[i]
      /\ n \in Nat \ {0}
    BY <1>1, <1>2, <1>3, PushFact
<1>b. \A u \in Thread : stack'[u] = IF u = t THEN p ELSE stack[u]
    BY <1>1, StackUpdate
<1>5. \A u \in Thread : /\ u = t => stack'[u] = p /\ stack[u] = s /\ Len(stack[u]) = n
                        /\ u # t => stack'[u] = stack[u]
    BY <1>b
<1>a. \A u \in Thread : Len(stack[u]) \in Nat
    BY DEF Inv
<1> HIDE DEF s, n, p
<1>6. ASSUME NEW u \in Thread, NEW i \in 1 .. Len(stack'[u])
      PROVE  \/ u = t /\ i = n + 1 /\ i # 1 /\ stack'[u][i].node = c
             \/ i \in 1 .. Len(stack[u]) /\ stack'[u][i].node = stack[u][i].node
    BY <1>3, <1>4, <1>5
<1>7. \A u \in Thread : \A i \in 2 .. Len(stack[u]) : stack[u][i].node # c
    BY <1>1, <1>a DEF StackInv, Shape
<1>8. Shape'
    <2> SUFFICES ASSUME NEW u \in Thread, NEW i \in 1 .. Len(stack'[u])
                 PROVE  IF i = 1 THEN stack'[u][i].node \in Root \ TooLarge
                        ELSE stack'[u][i].node \in Context /\ summary'[stack'[u][i].node] = "computing"
        BY DEF Shape
    <2> QED
        BY <1>1, <1>2, <1>6 DEF StackInv, Shape
<1>9. Alone'
    <2> SUFFICES ASSUME NEW u \in Thread, NEW v \in Thread,
                        NEW i \in 2 .. Len(stack'[u]), NEW j \in 2 .. Len(stack'[v]),
                        stack'[u][i].node = stack'[v][j].node
                 PROVE  u = v /\ i = j
        BY DEF Alone
    <2>0. Len(stack'[u]) \in Nat /\ Len(stack'[v]) \in Nat
        BY <1>4, <1>5, <1>a
    <2>1. i \in 1 .. Len(stack'[u]) /\ j \in 1 .. Len(stack'[v]) /\ i # 1 /\ j # 1
        BY <2>0
    <2>2. \/ u = t /\ i = n + 1 /\ stack'[u][i].node = c
          \/ i \in 2 .. Len(stack[u]) /\ stack'[u][i].node = stack[u][i].node
        BY <1>6, <1>a, <2>1
    <2>3. \/ v = t /\ j = n + 1 /\ stack'[v][j].node = c
          \/ j \in 2 .. Len(stack[v]) /\ stack'[v][j].node = stack[v][j].node
        BY <1>6, <1>a, <2>1
    <2> QED
        BY <1>7, <2>2, <2>3 DEF StackInv, Alone
<1>10. Owned'
    <2> SUFFICES ASSUME NEW d \in Context, summary'[d] = "computing"
                 PROVE  \E u \in Thread : \E i \in 2 .. Len(stack'[u]) : stack'[u][i].node = d
        BY DEF Owned
    <2>1. CASE d = c
        BY <1>3, <1>4, <1>5, <2>1
    <2>2. CASE d # c
        <3>1. PICK u \in Thread : \E i \in 2 .. Len(stack[u]) : stack[u][i].node = d
            BY <1>1, <1>2, <2>2 DEF StackInv, Owned
        <3>a. PICK i \in 2 .. Len(stack[u]) : stack[u][i].node = d
            BY <3>1
        <3>2. i \in 2 .. Len(stack'[u]) /\ stack'[u][i].node = d
            BY <1>4, <1>5, <1>a, <3>a
        <3> QED
            BY <3>2
    <2> QED
        BY <2>1, <2>2
<1>11. VisitIdle'
    BY <1>1 DEF StackInv, VisitIdle, Idle, s
<1> QED
    BY <1>8, <1>9, <1>10, <1>11 DEF StackInv

(* What the end of an analysis does to the stacks.                         *)
LEMMA FinishFact ==
    ASSUME Inv, NEW t \in Thread, FinishAnalysis(t)
    PROVE  /\ Len(stack[t]) \in Nat /\ Len(stack[t]) > 1 /\ Top(stack[t]) = stack[t][Len(stack[t])]
           /\ Top(stack[t]).todo = {}
           /\ \A u \in Thread : u # t => stack'[u] = stack[u]
           /\ Len(stack'[t]) = Len(stack[t]) - 1
           /\ \A i \in 1 .. Len(stack[t]) - 1 :
                /\ stack'[t][i].node = stack[t][i].node
                /\ stack'[t][i].todo = stack[t][i].todo
<1> DEFINE s == stack[t]
           f == Top(s)
           rest == Pop(s)
           v == IF f.node \in TooLarge THEN Unknown ELSE f.value
           g == Returned(Top(rest), v)
<1>1. /\ s # <<>> /\ Len(s) > 1 /\ f.todo = {}
      /\ stack' = [stack EXCEPT ![t] = SetTop(rest, g)]
    BY DEF FinishAnalysis, Between
<1>2. s \in Seq(Frame) /\ Len(s) \in Nat /\ f \in Frame /\ f = s[Len(s)]
    <2>1. s \in Seq(Frame)
        BY DEF Inv
    <2> QED
        BY <1>1, <2>1, TopFact
<1>3. v \in SUBSET Value
    BY <1>2 DEF Frame, Unknown
<1>4. /\ rest \in Seq(Frame) /\ rest # <<>> /\ Len(rest) = Len(s) - 1
      /\ \A i \in 1 .. Len(s) - 1 : rest[i] = s[i]
    BY <1>1, <1>2, PopFact
<1>5. Top(rest) \in Frame /\ Top(rest) = rest[Len(rest)]
    BY <1>4, TopFact
<1>6. g \in Frame /\ g.node = Top(rest).node /\ g.todo = Top(rest).todo
    BY <1>3, <1>5, ReturnedFact
<1> HIDE DEF f, rest, v, g
<1>7. /\ Len(SetTop(rest, g)) = Len(s) - 1 /\ SetTop(rest, g)[Len(s) - 1] = g
      /\ \A i \in 1 .. Len(s) - 1 : i # Len(s) - 1 => SetTop(rest, g)[i] = s[i]
    <2>1. /\ Len(SetTop(rest, g)) = Len(rest) /\ SetTop(rest, g)[Len(rest)] = g
          /\ \A i \in 1 .. Len(rest) : i # Len(rest) => SetTop(rest, g)[i] = rest[i]
        BY <1>4, <1>6, SetTopFact
    <2> QED
        BY <1>4, <2>1
<1>9. stack'[t] = SetTop(rest, g)
    BY <1>1 DEF Inv
<1>10. Len(s) - 1 \in 1 .. Len(s) - 1
    BY <1>1, <1>2
<1>11. ASSUME NEW i \in 1 .. Len(s) - 1
       PROVE  stack'[t][i].node = s[i].node /\ stack'[t][i].todo = s[i].todo
    BY <1>4, <1>5, <1>6, <1>7, <1>9, <1>10
<1>12. \A u \in Thread : u # t => stack'[u] = stack[u]
    BY <1>1, StackUpdate
<1> QED
    BY <1>1, <1>2, <1>7, <1>9, <1>11, <1>12 DEF f

(* A published entry was computed by the thread that publishes it, and by  *)
(* nobody else.                                                            *)
LEMMA FinishAnalysisStack ==
    ASSUME Inv, StackInv, NEW t \in Thread, FinishAnalysis(t)
    PROVE  /\ StackInv' /\ Top(stack[t]).node \in Context
           /\ summary[Top(stack[t]).node] = "computing"
<1> DEFINE s == stack[t]
           n == Len(s)
           c == Top(s).node
<1>1. /\ n \in Nat /\ n > 1 /\ Top(s) = s[n]
      /\ \A u \in Thread : u # t => stack'[u] = stack[u]
      /\ Len(stack'[t]) = n - 1 /\ \A i \in 1 .. n - 1 : stack'[t][i].node = stack[t][i].node
    BY FinishFact
<1>2. n \in 1 .. Len(s) /\ n # 1
    BY <1>1
<1>3. c \in Context /\ summary[c] = "computing"
    BY <1>1, <1>2 DEF StackInv, Shape
<1>4. summary \in [Context -> {"unseen", "computing", "ready", "failed"}] /\ UNCHANGED visit
    BY DEF Inv, CacheTypes, FinishAnalysis, visitVars
<1>5. \A d \in Context : d # c => summary'[d] = summary[d]
    BY <1>3, <1>4 DEF FinishAnalysis
<1>6. summary'[c] # "computing"
    BY <1>3, <1>4 DEF FinishAnalysis
<1>a. \A u \in Thread : Len(stack[u]) \in Nat
    BY DEF Inv
<1>c. c = s[n].node
    BY <1>1
<1> HIDE DEF s, n, c
<1>7. ASSUME NEW u \in Thread, NEW i \in 1 .. Len(stack'[u])
      PROVE  /\ i \in 1 .. Len(stack[u]) /\ stack'[u][i].node = stack[u][i].node
             /\ ~(u = t /\ i = n)
    BY <1>1, <1>a DEF s, n
<1>8. ASSUME NEW u \in Thread, NEW i \in 2 .. Len(stack'[u])
      PROVE  i \in 2 .. Len(stack[u]) /\ stack'[u][i].node = stack[u][i].node /\ stack[u][i].node # c
    <2>0. Len(stack'[u]) \in Nat
        BY <1>1, <1>a
    <2>1. i \in 1 .. Len(stack'[u])
        BY <2>0
    <2>2. i \in 2 .. Len(stack[u]) /\ n \in 2 .. Len(stack[t]) /\ ~(u = t /\ i = n)
        BY <1>1, <1>7, <1>a, <2>0, <2>1 DEF s, n
    <2>3. stack[u][i].node # c
        BY <1>c, <2>2 DEF StackInv, Alone, s
    <2> QED
        BY <1>7, <2>1, <2>2, <2>3
<1>9. Shape'
    <2> SUFFICES ASSUME NEW u \in Thread, NEW i \in 1 .. Len(stack'[u])
                 PROVE  IF i = 1 THEN stack'[u][i].node \in Root \ TooLarge
                        ELSE stack'[u][i].node \in Context /\ summary'[stack'[u][i].node] = "computing"
        BY DEF Shape
    <2>1. CASE i = 1
        BY <1>7, <2>1 DEF StackInv, Shape
    <2>2. CASE i # 1
        <3>1. Len(stack'[u]) \in Nat
            BY <1>1, <1>a
        <3>2. i \in 2 .. Len(stack'[u])
            BY <2>2, <3>1
        <3> QED
            BY <1>5, <1>7, <1>8, <2>2, <3>2 DEF StackInv, Shape
    <2> QED
        BY <2>1, <2>2
<1>10. Alone'
    BY <1>8 DEF StackInv, Alone
<1>11. Owned'
    <2> SUFFICES ASSUME NEW d \in Context, summary'[d] = "computing"
                 PROVE  \E u \in Thread : \E i \in 2 .. Len(stack'[u]) : stack'[u][i].node = d
        BY DEF Owned
    <2>1. d # c /\ summary[d] = "computing"
        BY <1>5, <1>6
    <2>2. PICK u \in Thread : \E i \in 2 .. Len(stack[u]) : stack[u][i].node = d
        BY <2>1 DEF StackInv, Owned
    <2>a. PICK i \in 2 .. Len(stack[u]) : stack[u][i].node = d
        BY <2>2
    <2>3. ~(u = t /\ i = n)
        BY <1>c, <2>1, <2>a DEF s
    <2>4. i \in 2 .. Len(stack'[u]) /\ stack'[u][i].node = d
        BY <1>1, <1>a, <2>a, <2>3 DEF s, n
    <2> QED
        BY <2>4
<1>12. VisitIdle'
    <2>1. stack[t] # <<>>
        BY DEF FinishAnalysis, Between
    <2> QED
        BY <1>4, <2>1 DEF StackInv, VisitIdle, Idle
<1> QED
    BY <1>3, <1>9, <1>10, <1>11, <1>12 DEF StackInv, c, s

(* The end of a root's analysis ends no context's.                         *)
LEMMA FinishRootStack ==
    ASSUME Inv, StackInv, NEW t \in Thread, FinishRoot(t) PROVE StackInv'
<1>1. /\ Len(stack[t]) = 1 /\ stack[t] # <<>> /\ UNCHANGED <<summary, visit>>
      /\ stack' = [stack EXCEPT ![t] = <<>>]
    BY DEF FinishRoot, Between, cacheVars, visitVars
<1>2. \A u \in Thread : stack'[u] = IF u = t THEN <<>> ELSE stack[u]
    BY <1>1 DEF Inv
<1>3. 1 .. Len(<<>>) = {} /\ 2 .. Len(<<>>) = {} /\ 2 .. 1 = {}
    OBVIOUS
<1>4. \A u \in Thread : 2 .. Len(stack'[u]) = 2 .. Len(stack[u]) /\ (u # t => stack'[u] = stack[u])
    BY <1>1, <1>2, <1>3
<1>5. \A u \in Thread : \A i \in 2 .. Len(stack[u]) : u # t
    BY <1>1, <1>3
<1>6. Shape'
    <2> SUFFICES ASSUME NEW u \in Thread, NEW i \in 1 .. Len(stack'[u])
                 PROVE  IF i = 1 THEN stack'[u][i].node \in Root \ TooLarge
                        ELSE stack'[u][i].node \in Context /\ summary'[stack'[u][i].node] = "computing"
        BY DEF Shape
    <2>1. stack'[u] = stack[u]
        BY <1>2, <1>3
    <2> QED
        BY <1>1, <2>1 DEF StackInv, Shape
<1>7. Alone'
    BY <1>4, <1>5 DEF StackInv, Alone
<1>8. Owned'
    BY <1>1, <1>4, <1>5 DEF StackInv, Owned
<1>9. VisitIdle'
    BY <1>1 DEF StackInv, VisitIdle, Idle
<1> QED
    BY <1>6, <1>7, <1>8, <1>9 DEF StackInv

(* The visit leaves the analyses alone.                                    *)
LEMMA VisitStack == ASSUME Inv, StackInv, Visit PROVE StackInv'
<1>1. UNCHANGED <<summary, stack>>
    BY DEF Visit, StartVisit, FinishVisit, VisitContext, cacheVars
<1>2. Shape' /\ Alone' /\ Owned'
    BY <1>1 DEF StackInv, Shape, Alone, Owned
<1>3. ASSUME visit'.root # {} PROVE Idle
    <2>1. CASE \E r \in Root : StartVisit(r)
        BY <2>1 DEF StartVisit
    <2>2. CASE \E r \in Root : FinishVisit(r)
        BY <1>3, <2>2 DEF FinishVisit, Inv, VisitTypes, Visits
    <2>3. ASSUME NEW c \in Context, VisitContext(c) PROVE visit.root # {}
        <3>1. visit \in Visits
            BY DEF Inv, VisitTypes
        <3>2. CASE visit' = [[visit EXCEPT !.work = @ \ {c}] EXCEPT !.complete = FALSE]
            BY <1>3, <3>1, <3>2 DEF Visits
        <3>3. CASE visit' \in CollectCalls([[visit EXCEPT !.work = @ \ {c}] EXCEPT !.visited = @ \cup {c}], c)
            <4> DEFINE v == [[visit EXCEPT !.work = @ \ {c}] EXCEPT !.visited = @ \cup {c}]
                       w == [v EXCEPT !.complete = @ /\ recordingComplete /\ complete[c]]
            <4>1. v.root = visit.root /\ v \in Visits /\ w.root = v.root /\ w \in Visits
                BY <3>1 DEF Visits
            <4>2. PICK new : visit' = [w EXCEPT !.work = @ \cup new, !.discovered = @ \cup new,
                                                !.complete = @ /\ new = recorded[c] \ w.discovered]
                <5> HIDE DEF v
                <5>a. visit' \in CollectCalls(v, c)
                    BY <3>3 DEF v
                <5> QED
                    BY <5>a DEF CollectCalls, Enqueue
            <4>3. visit'.root = w.root
                <5> HIDE DEF w
                <5> QED
                    BY <4>1, <4>2 DEF Visits
            <4> QED
                BY <1>3, <4>1, <4>3
        <3> QED
            BY <2>3, <3>2, <3>3 DEF VisitContext
    <2>4. CASE \E c \in Context : VisitContext(c)
        BY <2>3, <2>4 DEF StackInv, VisitIdle
    <2> QED
        BY <2>1, <2>2, <2>4 DEF Visit
<1>4. VisitIdle'
    BY <1>1, <1>3 DEF VisitIdle, Idle
<1> QED
    BY <1>2, <1>4 DEF StackInv

(* The results are cleared between the analyses only.                      *)
LEMMA ClearStack == ASSUME Inv, StackInv, ClearContextSensitiveResults PROVE StackInv'
<1>1. /\ \A u \in Thread : stack'[u] = <<>>
      /\ summary' = [c \in Context |-> "unseen"] /\ visit' = NoVisit
    BY DEF ClearContextSensitiveResults, ClearCache, Idle
<1>2. 1 .. Len(<<>>) = {} /\ 2 .. Len(<<>>) = {}
    OBVIOUS
<1>3. Shape' /\ Alone' /\ Owned' /\ VisitIdle'
    BY <1>1, <1>2 DEF Shape, Alone, Owned, VisitIdle, Idle, NoVisit
<1> QED
    BY <1>3 DEF StackInv

(* At the start nothing is analysed.                                       *)
LEMMA StackStart == ASSUME Init PROVE StackInv
<1>1. /\ \A u \in Thread : stack[u] = <<>>
      /\ summary = [c \in Context |-> "unseen"] /\ visit = NoVisit
    BY DEF Init
<1>2. 1 .. Len(<<>>) = {} /\ 2 .. Len(<<>>) = {}
    OBVIOUS
<1> QED
    BY <1>1, <1>2 DEF StackInv, Shape, Alone, Owned, VisitIdle, Idle, NoVisit

(* The steps of one thread, by what they do to its stack.                  *)
LEMMA ThreadSteps ==
    ASSUME NEW t \in Thread, Analyse(t) \/ ClearState(t)
    PROVE  \/ \E r \in Root : StartRoot(t, r)
           \/ Handle(t)
           \/ \E c \in Context : StartAnalysis(t, c)
           \/ FinishAnalysis(t)
           \/ FinishRoot(t)
BY DEF Analyse, Handle

(* A context is COMPUTING exactly while one thread analyses it.            *)
LEMMA OwnersStep == ASSUME Inv, StackInv, [Next]_vars PROVE StackInv'
<1>1. CASE UNCHANGED vars
    BY <1>1 DEF vars, cacheVars, visitVars, StackInv, Shape, Alone, Owned, VisitIdle, Idle
<1>2. ASSUME NEW t \in Thread, Analyse(t) \/ ClearState(t) PROVE StackInv'
    BY <1>2, ThreadSteps, StartRootStack, HandleStack, StartAnalysisStack, FinishAnalysisStack, FinishRootStack
<1>3. CASE ExhaustBudget
    BY <1>3 DEF ExhaustBudget, cacheVars, visitVars, StackInv, Shape, Alone, Owned, VisitIdle, Idle
<1>4. CASE Visit
    BY <1>4, VisitStack
<1>5. CASE ClearContextSensitiveResults
    BY <1>5, ClearStack
<1> QED
    BY <1>1, <1>2, <1>3, <1>4, <1>5 DEF Next

LEMMA StackInvariance == Spec => []StackInv
<1>1. Init => StackInv
    BY StackStart
<1>2. Inv /\ StackInv /\ [Next]_vars => StackInv'
    BY OwnersStep
<1> QED
    BY <1>1, <1>2, Invariance, PTL DEF Spec

-----------------------------------------------------------------------------
(* A published summary is final.                                           *)

(* What PublishedOnce says of a step.                                      *)
StaysPublished ==
    /\ \A c \in Context : summary[c] \in {"ready", "failed"} /\ clears' = clears =>
           summary'[c] = summary[c] /\ returns'[c] = returns[c]
    /\ \A t \in Thread : 1 < Len(stack[t]) /\ Len(stack'[t]) < Len(stack[t]) =>
           summary[Top(stack[t]).node] = "computing"

(* A step that leaves the published summaries and the lengths of the       *)
(* stacks alone.                                                           *)
LEMMA NothingPublished ==
    ASSUME Inv, UNCHANGED <<summary, returns>>, \A t \in Thread : Len(stack'[t]) = Len(stack[t])
    PROVE  StaysPublished
<1>1. \A t \in Thread : Len(stack[t]) \in Nat
    BY DEF Inv
<1> QED
    BY <1>1 DEF StaysPublished

(* A thread's step publishes at most the entry it computes.                *)
LEMMA ThreadPublishes ==
    ASSUME Inv, StackInv, NEW t \in Thread, Analyse(t) \/ ClearState(t) PROVE StaysPublished
<1>a. \A u \in Thread : Len(stack[u]) \in Nat
    BY DEF Inv
<1>b. /\ summary \in [Context -> {"unseen", "computing", "ready", "failed"}]
      /\ returns \in [Context -> SUBSET Value]
    BY DEF Inv, CacheTypes
<1>1. ASSUME NEW r \in Root, StartRoot(t, r) PROVE StaysPublished
    <2>1. UNCHANGED <<summary, returns>> /\ stack[t] = <<>>
        BY <1>1 DEF StartRoot, cacheVars
    <2>2. \A u \in Thread : u # t => stack'[u] = stack[u]
        BY <1>1 DEF StartRoot, Inv
    <2>3. Len(stack[t]) = 0
        BY <2>1
    <2> QED
        BY <1>a, <2>1, <2>2, <2>3 DEF StaysPublished
<1>2. CASE Handle(t)
    <2>1. UNCHANGED <<summary, returns>>
        BY <1>2 DEF Handle, CallUnmodeled, BeginCall, CallAffine, CallUnknown, CallReady, Reject,
                    ClearState, cacheVars
    <2> QED
        BY <1>2, <2>1, HandleNodes, NothingPublished DEF SameNodes
<1>3. ASSUME NEW c \in Context, StartAnalysis(t, c) PROVE StaysPublished
    <2>1. /\ summary[c] = "unseen" /\ summary' = [summary EXCEPT ![c] = "computing"]
          /\ UNCHANGED returns /\ stack' = [stack EXCEPT ![t] = Append(@, NewFrame(c))]
        BY <1>3 DEF StartAnalysis, Missing
    <2>2. \A d \in Context : d # c => summary'[d] = summary[d]
        BY <1>b, <2>1
    <2>3. NewFrame(c) \in Frame
        BY NewFrameFact DEF Node
    <2>4. stack[t] \in Seq(Frame) /\ Len(Append(stack[t], NewFrame(c))) = Len(stack[t]) + 1
        BY <2>3 DEF Inv
    <2>5. stack'[t] = Append(stack[t], NewFrame(c)) /\ \A u \in Thread : u # t => stack'[u] = stack[u]
        BY <2>1 DEF Inv
    <2>6. \A u \in Thread : ~(Len(stack'[u]) < Len(stack[u]))
        BY <1>a, <2>4, <2>5
    <2> QED
        BY <2>1, <2>2, <2>6 DEF StaysPublished
<1>4. CASE FinishAnalysis(t)
    <2> DEFINE c == Top(stack[t]).node
    <2>1. c \in Context /\ summary[c] = "computing"
        BY <1>4, FinishAnalysisStack
    <2>2. \A d \in Context : d # c => summary'[d] = summary[d] /\ returns'[d] = returns[d]
        BY <1>4, <1>b, <2>1 DEF FinishAnalysis
    <2>3. \A u \in Thread : u # t => Len(stack'[u]) = Len(stack[u])
        BY <1>4, FinishFact
    <2> QED
        BY <1>a, <2>1, <2>2, <2>3 DEF StaysPublished
<1>5. CASE FinishRoot(t)
    <2>1. UNCHANGED <<summary, returns>> /\ Len(stack[t]) = 1
        BY <1>5 DEF FinishRoot, cacheVars
    <2>2. \A u \in Thread : u # t => stack'[u] = stack[u]
        BY <1>5 DEF FinishRoot, Inv
    <2>a. \A n \in Nat : 1 < n => n # 1
        OBVIOUS
    <2>b. Len(stack[t]) = 1
        BY <2>1
    <2>3. \A u \in Thread : 1 < Len(stack[u]) => u # t
        BY ONLY <1>a, <2>a, <2>b, Zenon
    <2>4. \A u \in Thread : u # t => ~(Len(stack'[u]) < Len(stack[u]))
        BY <1>a, <2>2
    <2> QED
        BY <2>1, <2>3, <2>4 DEF StaysPublished
<1> QED
    BY <1>1, <1>2, <1>3, <1>4, <1>5, ThreadSteps

LEMMA EachStepPublishes == ASSUME Inv, StackInv, [Next]_vars PROVE StaysPublished
<1>1. CASE UNCHANGED vars
    BY <1>1, NothingPublished DEF vars, cacheVars
<1>2. ASSUME NEW t \in Thread, Analyse(t) \/ ClearState(t) PROVE StaysPublished
    BY <1>2, ThreadPublishes
<1>3. CASE ExhaustBudget
    BY <1>3, NothingPublished DEF ExhaustBudget, cacheVars
<1>4. CASE Visit
    BY <1>4, NothingPublished DEF Visit, StartVisit, FinishVisit, VisitContext, cacheVars
<1>5. CASE ClearContextSensitiveResults
    <2>1. clears' # clears /\ UNCHANGED stack /\ \A u \in Thread : Len(stack[u]) \in Nat
        BY <1>5 DEF ClearContextSensitiveResults, Inv, VisitTypes
    <2> QED
        BY <2>1 DEF StaysPublished
<1> QED
    BY <1>1, <1>2, <1>3, <1>4, <1>5 DEF Next

(* A summary that is READY or FAILED keeps its state and its value until   *)
(* all is cleared, so that the plain pointer the visitor holds after it    *)
(* has released the mutex stays good; and what an analysis publishes is an *)
(* entry that is still COMPUTING, with any number of threads.              *)
THEOREM PublishedFinally == Spec => PublishedOnce
<1>1. Inv /\ StackInv /\ [Next]_vars => [StaysPublished]_vars
    BY EachStepPublishes
<1>2. Spec => [][StaysPublished]_vars
    BY <1>1, Invariance, StackInvariance, PTL DEF Spec
<1> QED
    BY <1>2 DEF PublishedOnce, StaysPublished

-----------------------------------------------------------------------------
(* What a finished visit may claim.                                        *)

(* The calls an analysis has handled so far are recorded with it; all of   *)
(* those of a published summary and of a root's result are.                *)
FramesKnown == \A t \in Thread : \A i \in 1 .. Len(stack[t]) : FrameKnown(stack[t][i])

DoneKnown ==
    /\ \A c \in Context : summary[c] = "ready" => AllKnown(c)
    /\ \A r \in Root : result[r] = "done" => AllKnown(r)

(* As long as the walk is complete, it has discovered every call of the    *)
(* nodes it was at, and what it has discovered it was at or will be at.    *)
VisitKnown ==
    visit.root # {} /\ visit.complete =>
        /\ visit.discovered \subseteq visit.visited \cup visit.work
        /\ \A n \in visit.visited \cup visit.root : Calls[n] \subseteq visit.discovered

KnownInv == FramesKnown /\ DoneKnown /\ VisitKnown

(* CallKnown after a step.                                                 *)
CallKnownNext(n, c) == c \in recorded'[n] \/ ~complete'[n] \/ ~recordingComplete'

(* A step that keeps the records keeps what is known.                      *)
LEMMA RecordsKeep ==
    ASSUME Inv, RecordsKept, NEW n \in Node
    PROVE  /\ AllKnown(n) => AllKnown(n)'
           /\ \A T : (\A c \in Calls[n] \ T : CallKnown(n, c))
                         => (\A c \in Calls[n] \ T : CallKnown(n, c)')
BY DEF RecordsKept, AllKnown

(* A frame with another's node and calls left is known with it.            *)
LEMMA FrameKeeps ==
    ASSUME Inv, RecordsKept, NEW f, NEW g, f.node \in Node, g.node = f.node, g.todo = f.todo,
           FrameKnown(f)
    PROVE  g.node \notin TooLarge => \A c \in Calls[g.node] \ g.todo : CallKnownNext(g.node, c)
BY DEF RecordsKept, FrameKnown, CallKnown, CallKnownNext

(* The frame of an analysis that begins has handled no call.               *)
LEMMA NewFrameKnown ==
    ASSUME NEW n PROVE
        NewFrame(n).node \notin TooLarge =>
            \A c \in Calls[NewFrame(n).node] \ NewFrame(n).todo : CallKnownNext(NewFrame(n).node, c)
BY DEF NewFrame

(* The frames of the stacks have nodes, and their calls are known.         *)
LEMMA FramesNodes ==
    ASSUME Inv PROVE \A t \in Thread : /\ Len(stack[t]) \in Nat
                                       /\ \A i \in 1 .. Len(stack[t]) : stack[t][i].node \in Node
<1>1. \A t \in Thread : stack[t] \in Seq(Frame)
    BY DEF Inv
<1>2. \A t \in Thread : \A i \in 1 .. Len(stack[t]) : stack[t][i] \in Frame
    BY <1>1
<1>3. \A f \in Frame : f.node \in Node
    BY DEF Frame
<1> QED
    BY <1>1, <1>2, <1>3

(* What has to be shown of the stacks after a step.                        *)
LEMMA FramesKnownNext ==
    ASSUME \A t \in Thread : \A i \in 1 .. Len(stack'[t]) :
               stack'[t][i].node \notin TooLarge =>
                   \A c \in Calls[stack'[t][i].node] \ stack'[t][i].todo :
                       CallKnownNext(stack'[t][i].node, c)
    PROVE  FramesKnown'
BY DEF FramesKnown, FrameKnown, CallKnown, CallKnownNext

(* Results that stay, with records that are kept, stay known.              *)
LEMMA DoneKept ==
    ASSUME Inv, DoneKnown, RecordsKept, UNCHANGED <<summary, result>> PROVE DoneKnown'
<1>1. \A n \in Node : AllKnown(n) => AllKnown(n)'
    BY RecordsKeep
<1> QED
    BY <1>1 DEF DoneKnown, Node

(* Without a walk there is nothing to show of it.                          *)
LEMMA NoWalkKnown == ASSUME visit'.root = {} PROVE VisitKnown'
BY DEF VisitKnown

(* The analyses run while nothing is visited.                              *)
LEMMA NoWalk ==
    ASSUME StackInv, NEW t \in Thread, stack[t] # <<>>, UNCHANGED visit PROVE VisitKnown'
BY NoWalkKnown DEF StackInv, VisitIdle, Idle

LEMMA StartRootKnown ==
    ASSUME Inv, KnownInv, NEW t \in Thread, NEW r \in Root, StartRoot(t, r) PROVE KnownInv'
<1>1. /\ RecordsKept /\ UNCHANGED <<summary, visit>> /\ visit.root = {}
      /\ \A q \in Root : result'[q] = "done" => result[q] = "done"
    BY RecordsAlone DEF StartRoot, cacheVars, visitVars, Inv, VisitTypes
<1>2. \A u \in Thread : stack'[u] = stack[u] \/ (u = t /\ stack'[u] = <<NewFrame(r)>>)
    BY DEF StartRoot, Inv
<1>3. FramesKnown'
    <2> SUFFICES ASSUME NEW u \in Thread, NEW i \in 1 .. Len(stack'[u])
                 PROVE  stack'[u][i].node \notin TooLarge =>
                            \A c \in Calls[stack'[u][i].node] \ stack'[u][i].todo :
                                CallKnownNext(stack'[u][i].node, c)
        BY FramesKnownNext
    <2>1. CASE stack'[u] = stack[u]
        <3>1. stack[u][i].node \in Node /\ FrameKnown(stack[u][i]) /\ stack'[u][i] = stack[u][i]
            BY <2>1, FramesNodes DEF KnownInv, FramesKnown
        <3> QED
            BY <1>1, <3>1, FrameKeeps
    <2>2. CASE stack'[u] = <<NewFrame(r)>>
        <3>1. stack'[u][i] = NewFrame(r)
            BY <2>2
        <3> QED
            BY <3>1, NewFrameKnown
    <2> QED
        BY <1>2, <2>1, <2>2
<1>4. DoneKnown'
    <2>1. \A n \in Node : AllKnown(n) => AllKnown(n)'
        BY <1>1, RecordsKeep
    <2> QED
        BY <1>1, <2>1 DEF KnownInv, DoneKnown, Node
<1>5. VisitKnown'
    BY <1>1, NoWalkKnown
<1> QED
    BY <1>3, <1>4, <1>5 DEF KnownInv

LEMMA HandleKnown ==
    ASSUME Inv, StackInv, KnownInv, NEW t \in Thread, Handle(t) PROVE KnownInv'
<1> DEFINE s == stack[t]
           m == Len(s)
<1>1. PICK f \in Frame : /\ f.node = Top(stack[t]).node
                         /\ stack' = [stack EXCEPT ![t] = SetTop(stack[t], f)]
                         /\ \A c \in Top(stack[t]).todo \ f.todo : CallKnown(f.node, c)'
    BY HandleFact
<1>2. s # <<>> /\ RecordsKept /\ UNCHANGED <<summary, result, visit>>
    BY HandleFact
<1>3. s \in Seq(Frame)
    BY DEF Inv
<1>4. /\ m \in Nat \ {0} /\ Top(s) = s[m]
    BY <1>2, <1>3, TopFact
<1>5. /\ Len(SetTop(s, f)) = m /\ SetTop(s, f)[m] = f
      /\ \A i \in 1 .. m : i # m => SetTop(s, f)[i] = s[i]
    BY <1>2, <1>3, SetTopFact
<1>6. \A u \in Thread : stack'[u] = IF u = t THEN SetTop(s, f) ELSE stack[u]
    BY <1>1, StackUpdate
<1>a. f.node = s[m].node /\ \A c \in s[m].todo \ f.todo : CallKnownNext(f.node, c)
    BY <1>1, <1>4 DEF CallKnown, CallKnownNext
<1> HIDE DEF m
<1>7. FramesKnown'
    <2> SUFFICES ASSUME NEW u \in Thread, NEW i \in 1 .. Len(stack'[u])
                 PROVE  stack'[u][i].node \notin TooLarge =>
                            \A c \in Calls[stack'[u][i].node] \ stack'[u][i].todo :
                                CallKnownNext(stack'[u][i].node, c)
        BY FramesKnownNext
    <2>1. i \in 1 .. Len(stack[u])
        BY <1>5, <1>6 DEF m
    <2>2. stack[u][i].node \in Node /\ FrameKnown(stack[u][i])
        BY <2>1, FramesNodes DEF KnownInv, FramesKnown
    <2>3. CASE u = t /\ i = m
        <3>1. stack'[u][i] = f /\ stack[u][i] = s[m]
            BY <1>5, <1>6, <2>3
        <3>2. s[m].node \notin TooLarge => \A c \in Calls[s[m].node] \ s[m].todo : CallKnownNext(s[m].node, c)
            BY <1>2, <2>2, <3>1, FrameKeeps
        <3> QED
            BY <1>a, <3>1, <3>2
    <2>4. CASE ~(u = t /\ i = m)
        <3>1. stack'[u][i] = stack[u][i]
            BY <1>5, <1>6, <2>1, <2>4 DEF m
        <3> QED
            BY <1>2, <2>2, <3>1, FrameKeeps
    <2> QED
        BY <2>3, <2>4
<1> QED
    BY <1>2, <1>7, DoneKept, NoWalk DEF KnownInv

LEMMA StartAnalysisKnown ==
    ASSUME Inv, StackInv, KnownInv, NEW t \in Thread, NEW d \in Context, StartAnalysis(t, d)
    PROVE  KnownInv'
<1> DEFINE s == stack[t]
           n == Len(s)
           p == Append(s, NewFrame(d))
<1>1. /\ s # <<>> /\ RecordsKept /\ UNCHANGED <<result, visit>>
      /\ summary' = [summary EXCEPT ![d] = "computing"]
      /\ stack' = [stack EXCEPT ![t] = Append(stack[t], NewFrame(d))]
    BY RecordsAlone DEF StartAnalysis, Calling, visitVars
<1>2. s \in Seq(Frame) /\ \A c \in Context : summary'[c] = "ready" => summary[c] = "ready"
    BY <1>1 DEF Inv, CacheTypes
<1>3. NewFrame(d) \in Frame
    BY NewFrameFact DEF Node
<1>4. /\ Len(p) = n + 1 /\ p[n + 1] = NewFrame(d) /\ n \in Nat /\ \A i \in 1 .. n : p[i] = s[i]
    BY <1>1, <1>2, <1>3, PushFact
<1>5. \A u \in Thread : stack'[u] = IF u = t THEN p ELSE stack[u]
    BY <1>1, StackUpdate
<1> HIDE DEF p, n
<1>6. FramesKnown'
    <2> SUFFICES ASSUME NEW u \in Thread, NEW i \in 1 .. Len(stack'[u])
                 PROVE  stack'[u][i].node \notin TooLarge =>
                            \A c \in Calls[stack'[u][i].node] \ stack'[u][i].todo :
                                CallKnownNext(stack'[u][i].node, c)
        BY FramesKnownNext
    <2>1. stack'[u][i] = NewFrame(d) \/ (i \in 1 .. Len(stack[u]) /\ stack'[u][i] = stack[u][i])
        BY <1>4, <1>5 DEF n
    <2>2. CASE stack'[u][i] = NewFrame(d)
        BY <2>2, NewFrameKnown
    <2>3. CASE i \in 1 .. Len(stack[u]) /\ stack'[u][i] = stack[u][i]
        <3>1. stack[u][i].node \in Node /\ FrameKnown(stack[u][i])
            BY <2>3, FramesNodes DEF KnownInv, FramesKnown
        <3> QED
            BY <1>1, <2>3, <3>1, FrameKeeps
    <2> QED
        BY <2>1, <2>2, <2>3
<1>7. DoneKnown'
    <2>1. \A m \in Node : AllKnown(m) => AllKnown(m)'
        BY <1>1, RecordsKeep
    <2> QED
        BY <1>1, <1>2, <2>1 DEF KnownInv, DoneKnown, Node
<1> QED
    BY <1>1, <1>6, <1>7, NoWalk DEF KnownInv

(* A published summary has all its calls recorded.                         *)
LEMMA FinishAnalysisKnown ==
    ASSUME Inv, StackInv, KnownInv, NEW t \in Thread, FinishAnalysis(t) PROVE KnownInv'
<1> DEFINE n == Len(stack[t])
           d == Top(stack[t]).node
<1>1. /\ n \in Nat /\ n > 1 /\ Top(stack[t]) = stack[t][n] /\ Top(stack[t]).todo = {}
      /\ \A u \in Thread : u # t => stack'[u] = stack[u]
      /\ Len(stack'[t]) = n - 1
      /\ \A i \in 1 .. n - 1 : /\ stack'[t][i].node = stack[t][i].node
                               /\ stack'[t][i].todo = stack[t][i].todo
    BY FinishFact
<1>2. /\ RecordsKept /\ UNCHANGED <<result, visit>> /\ stack[t] # <<>>
      /\ summary' = [summary EXCEPT ![d] = IF d \in TooLarge THEN "failed" ELSE "ready"]
    BY RecordsAlone DEF FinishAnalysis, visitVars, Between
<1>3. d \in Context /\ \A c \in Context : summary'[c] = "ready" => summary[c] = "ready" \/ (c = d /\ d \notin TooLarge)
    <2>1. d \in Context
        BY FinishAnalysisStack
    <2> HIDE DEF d
    <2> QED
        BY <1>2, <2>1 DEF Inv, CacheTypes
<1> HIDE DEF n
<1>4. FramesKnown'
    <2> SUFFICES ASSUME NEW u \in Thread, NEW i \in 1 .. Len(stack'[u])
                 PROVE  stack'[u][i].node \notin TooLarge =>
                            \A c \in Calls[stack'[u][i].node] \ stack'[u][i].todo :
                                CallKnownNext(stack'[u][i].node, c)
        BY FramesKnownNext
    <2>1. /\ i \in 1 .. Len(stack[u])
          /\ stack'[u][i].node = stack[u][i].node /\ stack'[u][i].todo = stack[u][i].todo
        <3>1. CASE u = t
            BY <1>1, <3>1 DEF n
        <3>2. CASE u # t
            BY <1>1, <3>2
        <3> QED
            BY <3>1, <3>2
    <2>2. stack[u][i].node \in Node /\ FrameKnown(stack[u][i])
        BY <2>1, FramesNodes DEF KnownInv, FramesKnown
    <2> QED
        BY <1>2, <2>1, <2>2, FrameKeeps
<1>5. d \notin TooLarge => AllKnown(d)
    <2>1. n \in 1 .. Len(stack[t])
        BY <1>1 DEF n
    <2>2. FrameKnown(stack[t][n]) /\ stack[t][n].todo = {} /\ stack[t][n].node = d
        BY <1>1, <2>1 DEF KnownInv, FramesKnown
    <2> QED
        BY <2>2 DEF FrameKnown, AllKnown
<1> HIDE DEF d
<1>6. DoneKnown'
    <2>1. \A m \in Node : AllKnown(m) => AllKnown(m)'
        BY <1>2, RecordsKeep
    <2> QED
        BY <1>2, <1>3, <1>5, <2>1 DEF KnownInv, DoneKnown, Node
<1> QED
    BY <1>2, <1>4, <1>6, NoWalk DEF KnownInv

(* ... and so has a root's result.                                         *)
LEMMA FinishRootKnown ==
    ASSUME Inv, StackInv, KnownInv, NEW t \in Thread, FinishRoot(t) PROVE KnownInv'
<1> DEFINE d == Top(stack[t]).node
<1>1. /\ Len(stack[t]) = 1 /\ Top(stack[t]).todo = {} /\ stack[t] # <<>>
      /\ RecordsKept /\ UNCHANGED <<summary, visit>>
      /\ stack' = [stack EXCEPT ![t] = <<>>] /\ result' = [result EXCEPT ![d] = "done"]
    BY RecordsAlone DEF FinishRoot, Between, cacheVars, visitVars
<1>2. \A u \in Thread : stack'[u] = IF u = t THEN <<>> ELSE stack[u]
    BY <1>1 DEF Inv
<1>3. /\ 1 \in 1 .. Len(stack[t]) /\ Top(stack[t]) = stack[t][1]
    BY <1>1 DEF Top
<1>4. d \in Root \ TooLarge /\ FrameKnown(stack[t][1]) /\ stack[t][1].todo = {} /\ stack[t][1].node = d
    BY <1>1, <1>3 DEF StackInv, Shape, KnownInv, FramesKnown
<1>5. AllKnown(d)
    BY <1>4 DEF FrameKnown, AllKnown
<1>6. \A r \in Root : result'[r] = "done" => r = d \/ result[r] = "done"
    <2> HIDE DEF d
    <2> QED
        BY <1>1, <1>4 DEF Inv, VisitTypes
<1>7. FramesKnown'
    <2> SUFFICES ASSUME NEW u \in Thread, NEW i \in 1 .. Len(stack'[u])
                 PROVE  stack'[u][i].node \notin TooLarge =>
                            \A c \in Calls[stack'[u][i].node] \ stack'[u][i].todo :
                                CallKnownNext(stack'[u][i].node, c)
        BY FramesKnownNext
    <2>0. 1 .. Len(<<>>) = {}
        OBVIOUS
    <2>1. stack'[u] = stack[u]
        BY <1>2, <2>0
    <2>2. stack[u][i].node \in Node /\ FrameKnown(stack[u][i])
        BY <2>1, FramesNodes DEF KnownInv, FramesKnown
    <2>3. stack'[u][i] = stack[u][i]
        BY <2>1
    <2> QED
        BY <1>1, <2>2, <2>3, FrameKeeps
<1> HIDE DEF d
<1>8. DoneKnown'
    <2>1. \A m \in Node : AllKnown(m) => AllKnown(m)'
        BY <1>1, RecordsKeep
    <2> QED
        BY <1>1, <1>4, <1>5, <1>6, <2>1 DEF KnownInv, DoneKnown, Node
<1> QED
    BY <1>1, <1>7, <1>8, NoWalk DEF KnownInv

(* Collecting a node's calls discovers them all, or makes the walk         *)
(* incomplete.                                                             *)
LEMMA CollectKnown ==
    ASSUME Inv, NEW v \in Visits, NEW n \in Node, AllKnown(n), NEW w \in CollectCalls(v, n)
    PROVE  /\ w.root = v.root /\ w.visited = v.visited
           /\ v.work \subseteq w.work /\ v.discovered \subseteq w.discovered
           /\ w.discovered \subseteq v.discovered \cup w.work
           /\ w.complete => v.complete /\ Calls[n] \subseteq w.discovered
<1> DEFINE u == [v EXCEPT !.complete = @ /\ recordingComplete /\ complete[n]]
<1>1. (v.complete /\ recordingComplete /\ complete[n]) \in BOOLEAN
    OBVIOUS
<1>2. /\ u \in Visits /\ u.root = v.root /\ u.visited = v.visited /\ u.work = v.work
      /\ u.discovered = v.discovered
      /\ u.complete = (v.complete /\ recordingComplete /\ complete[n])
    BY <1>1 DEF Visits
<1>3. w \in Enqueue(u, recorded[n])
    BY DEF CollectCalls
<1> HIDE DEF u
<1>4. PICK new \in SUBSET (recorded[n] \ u.discovered) :
          w = [u EXCEPT !.work = @ \cup new, !.discovered = @ \cup new,
                        !.complete = @ /\ new = recorded[n] \ u.discovered]
    BY <1>3 DEF Enqueue
<1>5. /\ w.root = u.root /\ w.visited = u.visited /\ w.work = u.work \cup new
      /\ w.discovered = u.discovered \cup new
      /\ w.complete = (u.complete /\ new = recorded[n] \ u.discovered)
    BY <1>2, <1>4 DEF Visits
<1>6. ASSUME w.complete PROVE v.complete /\ Calls[n] \subseteq w.discovered
    <2>1. v.complete /\ recordingComplete /\ complete[n] /\ new = recorded[n] \ u.discovered
        BY <1>2, <1>5, <1>6
    <2>2. Calls[n] \subseteq recorded[n]
        BY <2>1 DEF AllKnown, CallKnown
    <2> QED
        BY <1>5, <2>1, <2>2
<1> QED
    BY <1>2, <1>5, <1>6

(* The walk keeps what it knows.                                           *)
LEMMA VisitStepKnown == ASSUME Inv, StackInv, KnownInv, Visit PROVE KnownInv'
<1>1. UNCHANGED <<summary, stack, result>> /\ UNCHANGED recordVars
    BY DEF Visit, StartVisit, FinishVisit, VisitContext, cacheVars
<1>2. FramesKnown' /\ DoneKnown'
    BY <1>1 DEF KnownInv, FramesKnown, FrameKnown, DoneKnown, AllKnown, CallKnown, recordVars
<1>a. visit \in Visits
    BY DEF Inv, VisitTypes
<1>3. ASSUME NEW r \in Root, StartVisit(r) PROVE VisitKnown'
    <2> DEFINE v == [NoVisit EXCEPT !.root = {r}]
    <2>1. v \in Visits /\ v.root = {r} /\ v.work = {} /\ v.discovered = {} /\ v.visited = {}
        BY DEF NoVisit, Visits
    <2>2. AllKnown(r) /\ visit' \in CollectCalls(v, r)
        BY <1>3 DEF StartVisit, KnownInv, DoneKnown
    <2> HIDE DEF v
    <2>3. PICK w : w = visit'
        OBVIOUS
    <2>4. /\ w.root = {r} /\ w.visited = {} /\ w.discovered \subseteq w.work
          /\ w.complete => Calls[r] \subseteq w.discovered
        BY <2>1, <2>2, <2>3, CollectKnown DEF Node
    <2> QED
        BY <2>3, <2>4 DEF VisitKnown
<1>4. ASSUME NEW r \in Root, FinishVisit(r) PROVE VisitKnown'
    <2>1. visit'.root = {}
        BY <1>4, <1>a DEF FinishVisit, Visits
    <2> QED
        BY <2>1, NoWalkKnown
<1>5. ASSUME NEW c \in Context, VisitContext(c) PROVE VisitKnown'
    <2> DEFINE popped == [visit EXCEPT !.work = @ \ {c}]
               seen == [popped EXCEPT !.visited = @ \cup {c}]
    <2>1. /\ popped \in Visits /\ popped.root = visit.root /\ popped.work = visit.work \ {c}
          /\ popped.discovered = visit.discovered /\ popped.visited = visit.visited
          /\ popped.complete = visit.complete
        BY <1>a DEF Visits
    <2>2. IF summary[c] = "ready" THEN visit' \in CollectCalls(seen, c)
          ELSE visit' = [popped EXCEPT !.complete = FALSE]
        BY <1>5 DEF VisitContext
    <2> HIDE DEF popped
    <2>3. /\ seen \in Visits /\ seen.root = visit.root /\ seen.work = visit.work \ {c}
          /\ seen.discovered = visit.discovered /\ seen.visited = visit.visited \cup {c}
          /\ seen.complete = visit.complete
        BY <2>1 DEF Visits
    <2>4. CASE summary[c] = "ready"
        <3>1. AllKnown(c) /\ c \in Node /\ visit' \in CollectCalls(seen, c)
            BY <2>2, <2>4 DEF KnownInv, DoneKnown, Node
        <3> HIDE DEF seen
        <3>2. PICK w : w = visit'
            OBVIOUS
        <3>3. /\ w.root = visit.root /\ w.visited = visit.visited \cup {c}
              /\ visit.work \ {c} \subseteq w.work /\ visit.discovered \subseteq w.discovered
              /\ w.discovered \subseteq visit.discovered \cup w.work
              /\ w.complete => visit.complete /\ Calls[c] \subseteq w.discovered
            BY <2>3, <3>1, <3>2, CollectKnown
        <3>4. ASSUME w.root # {}, w.complete
              PROVE  /\ w.discovered \subseteq w.visited \cup w.work
                     /\ \A n \in w.visited \cup w.root : Calls[n] \subseteq w.discovered
            <4>1. /\ visit.discovered \subseteq visit.visited \cup visit.work
                  /\ \A n \in visit.visited \cup visit.root : Calls[n] \subseteq visit.discovered
                BY <3>3, <3>4 DEF KnownInv, VisitKnown
            <4> QED
                BY <3>3, <3>4, <4>1
        <3> QED
            BY <3>2, <3>4 DEF VisitKnown
    <2>5. CASE summary[c] # "ready"
        <3>1. visit'.complete = FALSE
            BY <2>1, <2>2, <2>5 DEF Visits
        <3> QED
            BY <3>1 DEF VisitKnown
    <2> QED
        BY <2>4, <2>5
<1> QED
    BY <1>2, <1>3, <1>4, <1>5 DEF Visit, KnownInv

LEMMA ClearKnown == ASSUME Inv, ClearContextSensitiveResults PROVE KnownInv'
<1>1. /\ \A u \in Thread : stack'[u] = <<>>
      /\ summary' = [c \in Context |-> "unseen"] /\ result' = [r \in Root |-> "none"]
      /\ visit' = NoVisit
    BY DEF ClearContextSensitiveResults, ClearCache, Idle
<1>2. 1 .. Len(<<>>) = {}
    OBVIOUS
<1> QED
    BY <1>1, <1>2 DEF KnownInv, FramesKnown, DoneKnown, VisitKnown, NoVisit

LEMMA KnownStart == ASSUME Init PROVE KnownInv
<1>1. /\ \A u \in Thread : stack[u] = <<>>
      /\ summary = [c \in Context |-> "unseen"] /\ result = [r \in Root |-> "none"]
      /\ visit = NoVisit
    BY DEF Init
<1>2. 1 .. Len(<<>>) = {}
    OBVIOUS
<1> QED
    BY <1>1, <1>2 DEF KnownInv, FramesKnown, DoneKnown, VisitKnown, NoVisit

LEMMA KnownStep == ASSUME Inv, StackInv, KnownInv, [Next]_vars PROVE KnownInv'
<1>1. CASE UNCHANGED vars
    BY <1>1 DEF vars, cacheVars, recordVars, visitVars, KnownInv, FramesKnown, FrameKnown, DoneKnown,
                AllKnown, CallKnown, VisitKnown
<1>2. ASSUME NEW t \in Thread, Analyse(t) \/ ClearState(t) PROVE KnownInv'
    BY <1>2, ThreadSteps, StartRootKnown, HandleKnown, StartAnalysisKnown, FinishAnalysisKnown,
       FinishRootKnown
<1>3. CASE ExhaustBudget
    BY <1>3 DEF ExhaustBudget, cacheVars, recordVars, visitVars, KnownInv, FramesKnown, FrameKnown,
                DoneKnown, AllKnown, CallKnown, VisitKnown
<1>4. CASE Visit
    BY <1>4, VisitStepKnown
<1>5. CASE ClearContextSensitiveResults
    BY <1>5, ClearKnown
<1> QED
    BY <1>1, <1>2, <1>3, <1>4, <1>5 DEF Next

LEMMA KnownInvariance == Spec => []KnownInv
<1>1. Init => KnownInv
    BY KnownStart
<1>2. Inv /\ StackInv /\ KnownInv /\ [Next]_vars => KnownInv'
    BY KnownStep
<1> QED
    BY <1>1, <1>2, Invariance, StackInvariance, PTL DEF Spec

(* A client of VisitReachableContextSensitiveResults that is told the walk *)
(* was complete was shown every context any visited function calls,        *)
(* whatever was refused, not recorded or still computed on the way.        *)
THEOREM ClosureCorrect == Spec => []ClosureSound
<1>1. Inv /\ KnownInv => ClosureSound
    BY DEF Inv, KnownInv, VisitKnown, ClosureSound
<1> QED
    BY <1>1, Invariance, KnownInvariance, PTL

-----------------------------------------------------------------------------
(* The cache, its order and its counters.                                  *)

Used == {c \in Context : summary[c] # "unseen"}

UsedOf(f) == {c \in Used : FunctionOf[c] = f}

(* GetContextSummaryOrder lists each context with an entry once, the       *)
(* counters count them, and a rejected key has none.                       *)
OrderInv ==
    /\ \A i, j \in 1 .. Len(order) : order[i] = order[j] => i = j
    /\ {order[i] : i \in 1 .. Len(order)} = Used
    /\ failedContextKeys \cap Used = {}

CountInv == \A f \in Function : counts[f] = Cardinality(UsedOf(f))

LEMMA UsedFinite == /\ IsFiniteSet(Used) /\ \A f : IsFiniteSet(UsedOf(f))
                    /\ Cardinality(Used) \in Nat /\ \A f : Cardinality(UsedOf(f)) \in Nat
<1>1. Used \in SUBSET Context /\ \A f : UsedOf(f) \in SUBSET Context
    BY DEF Used, UsedOf
<1>2. IsFiniteSet(Used) /\ \A f : IsFiniteSet(UsedOf(f))
    BY <1>1, FS_Subset, ContextAssumption
<1> QED
    BY <1>2, FS_CardinalityType

(* A step that reserves no entry and gives up none.                        *)
LEMMA OrderKept ==
    ASSUME OrderInv, CountInv, UNCHANGED <<order, counts>>, Used' = Used,
           failedContextKeys' \cap Used = {}
    PROVE  OrderInv' /\ CountInv'
<1>1. \A f : UsedOf(f)' = UsedOf(f)
    BY DEF UsedOf
<1> QED
    BY <1>1 DEF OrderInv, CountInv

(* Reserving an entry lists it and counts it.                              *)
LEMMA StartAnalysisOrder ==
    ASSUME Inv, OrderInv, CountInv, NEW t \in Thread, NEW c \in Context, StartAnalysis(t, c)
    PROVE  OrderInv' /\ CountInv'
<1> DEFINE g == FunctionOf[c]
           n == Len(order)
<1>1. /\ summary[c] = "unseen" /\ c \notin failedContextKeys
      /\ summary' = [summary EXCEPT ![c] = "computing"]
      /\ order' = Append(order, c) /\ counts' = [counts EXCEPT ![FunctionOf[c]] = @ + 1]
      /\ failedContextKeys' = failedContextKeys
    BY DEF StartAnalysis, Missing
<1>2. /\ summary \in [Context -> {"unseen", "computing", "ready", "failed"}]
      /\ order \in Seq(Context) /\ counts \in [Function -> Nat] /\ g \in Function
    BY ContextAssumption DEF Inv, CacheTypes
<1>3. Used' = Used \cup {c} /\ c \notin Used
    BY <1>1, <1>2 DEF Used
<1>4. /\ n \in Nat /\ Len(order') = n + 1 /\ order'[n + 1] = c
      /\ \A i \in 1 .. n : order'[i] = order[i]
    BY <1>1, <1>2, PushFact
<1>a. \A i \in 1 .. n : order[i] # c
    BY <1>3 DEF OrderInv
<1> HIDE DEF n, g
<1>5. ASSUME NEW i \in 1 .. Len(order'), NEW j \in 1 .. Len(order'), order'[i] = order'[j]
      PROVE  i = j
    <2>1. \/ i = n + 1 /\ order'[i] = c
          \/ i \in 1 .. n /\ order'[i] = order[i] /\ order'[i] # c
        BY <1>4, <1>a
    <2>2. \/ j = n + 1 /\ order'[j] = c
          \/ j \in 1 .. n /\ order'[j] = order[j] /\ order'[j] # c
        BY <1>4, <1>a
    <2> QED
        BY <1>5, <2>1, <2>2 DEF OrderInv, n
<1>6. {order'[i] : i \in 1 .. Len(order')} = Used'
    <2>1. \A i \in 1 .. Len(order') : order'[i] \in Used'
        <3> TAKE i \in 1 .. Len(order')
        <3>1. i = n + 1 \/ i \in 1 .. n
            BY <1>4
        <3>2. \A k \in 1 .. n : order[k] \in Used
            BY DEF OrderInv, n
        <3> QED
            BY <1>3, <1>4, <3>1, <3>2
    <2>2. ASSUME NEW d \in Used' PROVE \E i \in 1 .. Len(order') : order'[i] = d
        <3>1. CASE d = c
            BY <1>4, <3>1
        <3>2. CASE d # c
            <4>1. PICK i \in 1 .. n : order[i] = d
                BY <1>3, <3>2 DEF OrderInv, n
            <4>2. i \in 1 .. Len(order') /\ order'[i] = d
                BY <1>4, <4>1
            <4> QED
                BY <4>2
        <3> QED
            BY <3>1, <3>2
    <2> QED
        BY <2>1, <2>2
<1>7. failedContextKeys' \cap Used' = {}
    BY <1>1, <1>3 DEF OrderInv
<1>8. CountInv'
    <2> SUFFICES ASSUME NEW f \in Function PROVE counts'[f] = Cardinality(UsedOf(f)')
        BY DEF CountInv
    <2>1. CASE f = g
        <3>1. UsedOf(f)' = UsedOf(f) \cup {c} /\ c \notin UsedOf(f)
            BY <1>3, <2>1 DEF UsedOf, g
        <3>2. Cardinality(UsedOf(f)') = Cardinality(UsedOf(f)) + 1
            BY <3>1, UsedFinite, FS_AddElement
        <3>3. counts'[f] = counts[f] + 1
            BY <1>1, <1>2, <2>1 DEF g
        <3> QED
            BY <3>2, <3>3 DEF CountInv
    <2>2. CASE f # g
        <3>1. UsedOf(f)' = UsedOf(f)
            BY <1>3, <2>2 DEF UsedOf, g
        <3>2. counts'[f] = counts[f]
            BY <1>1, <1>2, <2>2 DEF g
        <3> QED
            BY <3>1, <3>2 DEF CountInv
    <2> QED
        BY <2>1, <2>2
<1> QED
    BY <1>5, <1>6, <1>7, <1>8 DEF OrderInv

(* The steps of one thread.                                                *)
LEMMA ThreadOrder ==
    ASSUME Inv, StackInv, OrderInv, CountInv, NEW t \in Thread, Analyse(t) \/ ClearState(t)
    PROVE  OrderInv' /\ CountInv'
<1>1. CASE UNCHANGED cacheVars
    BY <1>1, OrderKept DEF cacheVars, Used, OrderInv
<1>2. CASE \E r \in Root : StartRoot(t, r)
    BY <1>1, <1>2 DEF StartRoot
<1>3. ASSUME NEW c \in Context, Reject(t, c) PROVE OrderInv' /\ CountInv'
    <2>1. /\ UNCHANGED <<summary, order, counts>> /\ summary[c] = "unseen"
          /\ failedContextKeys' \subseteq failedContextKeys \cup {c}
        BY <1>3 DEF Reject, Missing
    <2>2. Used' = Used /\ c \notin Used
        BY <2>1 DEF Used
    <2> QED
        BY <2>1, <2>2, OrderKept DEF OrderInv
<1>4. CASE Handle(t)
    <2>1. UNCHANGED cacheVars \/ \E c \in Context : Reject(t, c)
        BY <1>4 DEF Handle, CallUnmodeled, BeginCall, CallAffine, CallUnknown, CallReady, ClearState
    <2> QED
        BY <1>1, <1>3, <2>1
<1>5. CASE \E c \in Context : StartAnalysis(t, c)
    BY <1>5, StartAnalysisOrder
<1>6. CASE FinishAnalysis(t)
    <2> DEFINE d == Top(stack[t]).node
    <2>1. d \in Context /\ summary[d] = "computing"
        BY <1>6, FinishAnalysisStack
    <2>2. summary' = [summary EXCEPT ![d] = IF d \in TooLarge THEN "failed" ELSE "ready"]
        BY <1>6 DEF FinishAnalysis
    <2>3. UNCHANGED <<order, counts, failedContextKeys>>
        BY <1>6 DEF FinishAnalysis
    <2> HIDE DEF d
    <2>4. \A c \in Context : summary'[c] = "unseen" <=> summary[c] = "unseen"
        BY <2>1, <2>2 DEF Inv, CacheTypes
    <2>5. Used' = Used
        BY <2>4 DEF Used
    <2> QED
        BY <2>3, <2>5, OrderKept DEF OrderInv
<1>7. CASE FinishRoot(t)
    BY <1>1, <1>7 DEF FinishRoot
<1> QED
    BY <1>2, <1>4, <1>5, <1>6, <1>7, ThreadSteps

LEMMA EmptyCache ==
    ASSUME summary = [c \in Context |-> "unseen"], order = <<>>, counts = [f \in Function |-> 0],
           failedContextKeys = {}
    PROVE  OrderInv /\ CountInv
<1>1. Used = {} /\ \A f : UsedOf(f) = {}
    BY DEF Used, UsedOf
<1>2. 1 .. Len(order) = {}
    OBVIOUS
<1> QED
    BY <1>1, <1>2, FS_EmptySet DEF OrderInv, CountInv

LEMMA OrderStart == ASSUME Init PROVE OrderInv /\ CountInv
BY EmptyCache DEF Init

LEMMA OrderStep ==
    ASSUME Inv, StackInv, OrderInv, CountInv, [Next]_vars PROVE OrderInv' /\ CountInv'
<1>1. CASE UNCHANGED cacheVars
    BY <1>1, OrderKept DEF cacheVars, Used, OrderInv
<1>2. ASSUME NEW t \in Thread, Analyse(t) \/ ClearState(t) PROVE OrderInv' /\ CountInv'
    BY <1>2, ThreadOrder
<1>3. ExhaustBudget \/ Visit \/ UNCHANGED vars => UNCHANGED cacheVars
    BY DEF ExhaustBudget, Visit, StartVisit, FinishVisit, VisitContext, vars
<1>4. CASE ClearContextSensitiveResults
    <2>1. /\ summary' = [c \in Context |-> "unseen"] /\ order' = <<>>
          /\ counts' = [f \in Function |-> 0] /\ failedContextKeys' = {}
        BY <1>4 DEF ClearContextSensitiveResults, ClearCache
    <2>2. Used' = {} /\ \A f : UsedOf(f)' = {}
        BY <2>1 DEF Used, UsedOf
    <2>3. 1 .. Len(order') = {}
        BY <2>1
    <2> QED
        BY <2>1, <2>2, <2>3, FS_EmptySet DEF OrderInv, CountInv
<1> QED
    BY <1>1, <1>2, <1>3, <1>4 DEF Next

LEMMA OrderInvariance == Spec => [](OrderInv /\ CountInv)
<1>1. Init => OrderInv /\ CountInv
    BY OrderStart
<1>2. Inv /\ StackInv /\ (OrderInv /\ CountInv) /\ [Next]_vars => (OrderInv /\ CountInv)'
    BY OrderStep
<1> QED
    BY <1>1, <1>2, Invariance, StackInvariance, PTL DEF Spec

(* An order without repetition is as long as the set it lists.             *)
LEMMA OrderLength == ASSUME Inv, OrderInv PROVE Cardinality(Used) = Len(order) /\ Len(order) \in Nat
<1> DEFINE n == Len(order)
           g == [i \in 1 .. n |-> order[i]]
<1>1. n \in Nat
    BY DEF Inv, CacheTypes
<1>2. g \in Bijection(1 .. n, Used)
    BY DEF OrderInv, Bijection, Injection, IsInjective, Surjection
<1>3. ExistsBijection(1 .. n, Used)
    BY <1>2 DEF ExistsBijection
<1> HIDE DEF g
<1> QED
    BY <1>1, <1>3, FS_CountingElements

(* A stack is no deeper than one root and every context: the contexts on   *)
(* it are different.                                                       *)
LEMMA StackDepth ==
    ASSUME Inv, StackInv, NEW t \in Thread
    PROVE  /\ Len(stack[t]) \in Nat /\ Cardinality(Context) \in Nat
           /\ Len(stack[t]) <= Cardinality(Context) + 1
<1> DEFINE n == Len(stack[t])
           g == [i \in 2 .. n |-> stack[t][i].node]
<1>1. n \in Nat /\ IsFiniteSet(Context) /\ Cardinality(Context) \in Nat
    BY ContextAssumption, FS_CardinalityType DEF Inv
<1>2. \A i \in 2 .. n : i \in 1 .. n /\ i # 1
    BY <1>1
<1>3. \A i \in 2 .. n : g[i] \in Context
    BY <1>2 DEF StackInv, Shape
<1>4. \A i, j \in 2 .. n : g[i] = g[j] => i = j
    BY DEF StackInv, Alone
<1>5. g \in Injection(2 .. n, Context)
    BY <1>3, <1>4 DEF Injection, IsInjective
<1> HIDE DEF n, g
<1>6. Cardinality(2 .. n) <= Cardinality(Context)
    BY <1>1, <1>5, FS_Injection
<1>7. Cardinality(2 .. n) = IF 2 > n THEN 0 ELSE n - 2 + 1
    BY <1>1, FS_Interval
<1>8. n <= Cardinality(Context) + 1
    BY <1>1, <1>6, <1>7
<1> QED
    BY <1>1, <1>8 DEF n

(* One frame analyses what is COMPUTING, none the rest.                    *)
LEMMA FramesCounted ==
    ASSUME Inv, StackInv, NEW c \in Context
    PROVE  Cardinality(FramesOf(c)) = IF summary[c] = "computing" THEN 1 ELSE 0
<1> DEFINE Box == Thread \X (1 .. Cardinality(Context) + 1)
<1>1. ASSUME NEW p \in FramesOf(c)
      PROVE  /\ p = <<p[1], p[2]>> /\ p[1] \in Thread /\ p[2] \in 2 .. Len(stack[p[1]])
             /\ stack[p[1]][p[2]].node = c /\ summary[c] = "computing"
    <2>1. /\ p = <<p[1], p[2]>> /\ p[1] \in Thread /\ p[2] \in 1 .. Cardinality(Context) + 1
          /\ p[2] <= Len(stack[p[1]]) /\ stack[p[1]][p[2]].node = c
        BY DEF FramesOf
    <2>2. PICK t \in Thread, i \in 1 .. Cardinality(Context) + 1 : t = p[1] /\ i = p[2]
        BY <2>1
    <2>3. Len(stack[t]) \in Nat /\ Cardinality(Context) \in Nat
        BY StackDepth
    <2>4. i \in 1 .. Len(stack[t]) /\ stack[t][i].node = c
        BY <2>1, <2>2, <2>3
    <2>5. c \notin Root
        BY ContextAssumption
    <2>6. i # 1 /\ summary[c] = "computing"
        BY <2>4, <2>5 DEF StackInv, Shape
    <2>7. i \in 2 .. Len(stack[t])
        BY <2>3, <2>4, <2>6
    <2> QED
        BY <2>1, <2>2, <2>6, <2>7
<1>2. CASE summary[c] # "computing"
    <2>1. FramesOf(c) = {}
        BY <1>1, <1>2
    <2> QED
        BY <1>2, <2>1, FS_EmptySet
<1>3. CASE summary[c] = "computing"
    <2>1. PICK t \in Thread : \E i \in 2 .. Len(stack[t]) : stack[t][i].node = c
        BY <1>3 DEF StackInv, Owned
    <2>2. PICK i \in 2 .. Len(stack[t]) : stack[t][i].node = c
        BY <2>1
    <2>3. /\ Len(stack[t]) \in Nat /\ Cardinality(Context) \in Nat
          /\ Len(stack[t]) <= Cardinality(Context) + 1
        BY StackDepth
    <2>4. i \in 1 .. Cardinality(Context) + 1 /\ i <= Len(stack[t])
        BY <2>3
    <2>5. <<t, i>> \in FramesOf(c)
        BY <2>2, <2>4 DEF FramesOf
    <2>6. ASSUME NEW p \in FramesOf(c) PROVE p = <<t, i>>
        <3>1. PICK u, j : p = <<u, j>> /\ u = p[1] /\ j = p[2]
            BY <1>1
        <3>2. u \in Thread /\ j \in 2 .. Len(stack[u]) /\ stack[u][j].node = c
            BY <1>1, <3>1
        <3>3. u = t /\ j = i
            BY <2>2, <3>2 DEF StackInv, Alone
        <3> QED
            BY <3>1, <3>3
    <2>7. FramesOf(c) = {<<t, i>>}
        BY <2>5, <2>6
    <2> QED
        BY <1>3, <2>7, FS_Singleton
<1> QED
    BY <1>2, <1>3

(* The cache, the order of its summaries, the counters the limits are      *)
(* tested on, the rejected keys and the stacks of any number of threads    *)
(* agree at every moment.                                                  *)
THEOREM CacheCorrect == Spec => []CacheConsistent
<1>1. ASSUME Inv, StackInv, OrderInv, CountInv PROVE CacheConsistent
    <2>1. \A f \in Function :
              UsedOf(f) = {c \in Context : summary[c] # "unseen" /\ FunctionOf[c] = f}
        BY DEF UsedOf, Used
    <2>2. \A c \in Context :
              Cardinality(FramesOf(c)) = IF summary[c] = "computing" THEN 1 ELSE 0
        BY <1>1, FramesCounted
    <2>3. \A f \in Function :
              counts[f] = Cardinality({c \in Context : summary[c] # "unseen" /\ FunctionOf[c] = f})
        BY <1>1, <2>1 DEF CountInv
    <2>4. Cardinality(Used) = Len(order)
        BY <1>1, OrderLength
    <2> QED
        BY <1>1, <2>2, <2>3, <2>4 DEF CacheConsistent, OrderInv, Used
<1> QED
    BY <1>1, Invariance, StackInvariance, OrderInvariance, PTL

-----------------------------------------------------------------------------
(* The limits.                                                             *)

Pick(s) == CHOOSE x \in s : TRUE

(* it is the table the folds of the library compute the sum of fun with.   *)
IsSum(fun, it) ==
    it = [s \in SUBSET DOMAIN fun |->
             IF s = {} THEN 0 ELSE fun[Pick(s)] + it[s \ {Pick(s)}]]

LEMMA SumTable ==
    ASSUME NEW fun PROVE FoldFunction(+, 0, fun) = (CHOOSE it : IsSum(fun, it))[DOMAIN fun]
BY DEF FoldFunction, FoldFunctionOnSet, MapThenFoldSet, IsSum, Pick

(* A finite function has one such table.                                   *)
LEMMA SumUnique ==
    ASSUME NEW fun, IsFiniteSet(DOMAIN fun), NEW g, NEW h, IsSum(fun, g), IsSum(fun, h)
    PROVE  g = h
<1> DEFINE D == DOMAIN fun
           Bad == {s \in SUBSET D : g[s] # h[s]}
           R == StrictSubsetOrdering(D)
<1>1. /\ g = [s \in SUBSET D |-> IF s = {} THEN 0 ELSE fun[Pick(s)] + g[s \ {Pick(s)}]]
      /\ h = [s \in SUBSET D |-> IF s = {} THEN 0 ELSE fun[Pick(s)] + h[s \ {Pick(s)}]]
    BY DEF IsSum
<1>2. IsWellFoundedOn(R, SUBSET D)
    BY FS_StrictSubsetOrderingWellFounded, FS_FiniteSubsetsOfFinite
<1> HIDE DEF D
<1>3. ASSUME Bad # {} PROVE FALSE
    <2>1. PICK s \in Bad : \A r \in Bad : <<r, s>> \notin R
        <3> HIDE DEF R
        <3>1. Bad \subseteq SUBSET D
            OBVIOUS
        <3> HIDE DEF Bad
        <3> QED
            BY <1>2, <1>3, <3>1, WFMin
    <2>2. s \in SUBSET D /\ g[s] # h[s] /\ s # {}
        BY <1>1, <2>1
    <2>3. Pick(s) \in s
        BY <2>2 DEF Pick
    <2>4. s \ {Pick(s)} \in SUBSET D /\ <<s \ {Pick(s)}, s>> \in R
        BY <2>2, <2>3 DEF StrictSubsetOrdering
    <2>5. g[s \ {Pick(s)}] = h[s \ {Pick(s)}]
        BY <2>1, <2>4
    <2>6. g[s] = fun[Pick(s)] + g[s \ {Pick(s)}] /\ h[s] = fun[Pick(s)] + h[s \ {Pick(s)}]
        BY <1>1, <2>2
    <2> QED
        BY <2>2, <2>5, <2>6
<1>4. \A s \in SUBSET D : g[s] = h[s]
    BY <1>3
<1> QED
    BY <1>1, <1>4

(* GetContextCounts add up to the number of entries.                       *)
LEMMA CountsSum ==
    ASSUME Inv, CountInv PROVE FoldFunction(+, 0, counts) = Cardinality(Used)
<1> DEFINE In(s) == {c \in Used : FunctionOf[c] \in s}
           h == [s \in SUBSET Function |-> Cardinality(In(s))]
<1>1. /\ DOMAIN counts = Function /\ IsFiniteSet(Function) /\ \A f \in Function : counts[f] \in Nat
      /\ FunctionOf \in [Context -> Function]
    BY ContextAssumption DEF Inv, CacheTypes
<1>2. \A s : IsFiniteSet(In(s)) /\ Cardinality(In(s)) \in Nat
    <2>1. \A s : In(s) \in SUBSET Used
        OBVIOUS
    <2>2. \A s : IsFiniteSet(In(s))
        BY <2>1, UsedFinite, FS_Subset
    <2> QED
        BY <2>2, FS_CardinalityType
<1>3. ASSUME NEW s \in SUBSET Function, s # {}
      PROVE  h[s] = counts[Pick(s)] + h[s \ {Pick(s)}]
    <2> DEFINE p == Pick(s)
               A == UsedOf(p)
               B == In(s \ {p})
    <2>1. p \in s /\ p \in Function /\ s \ {p} \in SUBSET Function
        BY <1>3 DEF Pick
    <2>2. counts[p] = Cardinality(A) /\ h[s] = Cardinality(In(s)) /\ h[s \ {p}] = Cardinality(B)
        BY <2>1 DEF CountInv
    <2> HIDE DEF p
    <2>3. In(s) = A \cup B /\ A \cap B = {}
        BY <2>1 DEF UsedOf
    <2>4. IsFiniteSet(A) /\ IsFiniteSet(B) /\ Cardinality(A) \in Nat /\ Cardinality(B) \in Nat
        BY <1>2, UsedFinite
    <2> HIDE DEF A, B, In
    <2>5. Cardinality(A \cup B) = Cardinality(A) + Cardinality(B)
        BY <2>3, <2>4, FS_Union, FS_EmptySet
    <2> QED
        BY <2>2, <2>3, <2>5 DEF p
<1>4. h[{}] = 0
    <2>1. In({}) = {}
        OBVIOUS
    <2> QED
        BY <2>1, FS_EmptySet
<1>5. h[Function] = Cardinality(Used)
    <2>1. In(Function) = Used
        BY <1>1 DEF Used
    <2> QED
        BY <2>1
<1>a. h = [s \in SUBSET Function |-> h[s]]
    OBVIOUS
<1> HIDE DEF h
<1>6. IsSum(counts, h)
    BY <1>1, <1>3, <1>4, <1>a DEF IsSum
<1>7. (CHOOSE it : IsSum(counts, it)) = h
    <2>1. IsSum(counts, CHOOSE it : IsSum(counts, it))
        BY <1>6
    <2> QED
        BY <1>1, <1>6, <2>1, SumUnique
<1> QED
    BY <1>1, <1>5, <1>7, SumTable

(* LimitsHold, part by part.                                               *)
OrderShort == Len(order) <= maxTotalContextSummaries

StacksShallow ==
    \A t \in Thread : \A i \in 2 .. Len(stack[t]) :
        stack[t][i].node \notin ExactArguments => i - 1 <= maxContextAnalysisDepth

Plain(f) == \A c \in Context : FunctionOf[c] = f => c \notin ExactArguments /\ c \notin WithGlobals

CountsSmall == \A f \in Function : Plain(f) => counts[f] <= maxContextPerFunction

LimitInv == OrderShort /\ StacksShallow /\ CountsSmall

(* Steps that reserve no entry and push no frame.                          *)
LEMMA LimitsKept ==
    ASSUME Inv, LimitInv, UNCHANGED <<order, counts>>,
           \A t \in Thread : \A i \in 2 .. Len(stack'[t]) :
               i \in 2 .. Len(stack[t]) /\ stack'[t][i].node = stack[t][i].node
    PROVE  LimitInv'
BY DEF LimitInv, OrderShort, StacksShallow, CountsSmall, Plain

(* A reservation was tested against the limits first.                      *)
LEMMA StartAnalysisLimits ==
    ASSUME Inv, OrderInv, CountInv, LimitInv, NEW t \in Thread, NEW c \in Context, StartAnalysis(t, c)
    PROVE  LimitInv'
<1> DEFINE s == stack[t]
           n == Len(s)
           p == Append(s, NewFrame(c))
           g == FunctionOf[c]
<1>1. /\ s # <<>> /\ ~LimitReached(t, c) /\ order' = Append(order, c)
      /\ counts' = [counts EXCEPT ![FunctionOf[c]] = @ + 1]
      /\ stack' = [stack EXCEPT ![t] = Append(stack[t], NewFrame(c))]
    BY DEF StartAnalysis, Calling
<1>2. /\ s \in Seq(Frame) /\ order \in Seq(Context) /\ counts \in [Function -> Nat] /\ g \in Function
      /\ Len(order) \in Nat
    BY ContextAssumption DEF Inv, CacheTypes
<1>3. NewFrame(c) \in Frame /\ NewFrame(c).node = c
    BY NewFrameFact, NewFrameOK DEF Node
<1>4. /\ Len(p) = n + 1 /\ p[n + 1] = NewFrame(c) /\ n \in Nat /\ \A i \in 1 .. n : p[i] = s[i]
    BY <1>1, <1>2, <1>3, PushFact
<1>5. \A u \in Thread : stack'[u] = IF u = t THEN p ELSE stack[u]
    BY <1>1, StackUpdate
<1>6. /\ maxContextPerFunction \in Nat /\ maxTotalContextSummaries \in Nat
      /\ maxContextAnalysisDepth \in Nat
    BY ContextAssumption
<1>7. OrderShort'
    <2>1. FoldFunction(+, 0, counts) = Len(order)
        BY CountsSum, OrderLength
    <2>2. ~(FoldFunction(+, 0, counts) >= maxTotalContextSummaries)
        BY <1>1 DEF LimitReached
    <2>3. ~(Len(order) >= maxTotalContextSummaries)
        BY <2>1, <2>2
    <2>4. Len(order') = Len(order) + 1
        BY <1>1, <1>2
    <2> QED
        BY <1>2, <1>6, <2>3, <2>4 DEF OrderShort
<1>8. ASSUME c \notin ExactArguments PROVE n <= maxContextAnalysisDepth
    <2>1. ~(n - 1 >= maxContextAnalysisDepth)
        BY <1>1, <1>8 DEF LimitReached, DepthLimit, IsExactScalarRecursive, Depth
    <2>2. n \in Nat
        BY <1>4
    <2> HIDE DEF n
    <2> QED
        BY <1>6, <2>1, <2>2
<1>9. ASSUME c \notin ExactArguments, c \notin WithGlobals PROVE counts[g] < maxContextPerFunction
    <2>1. ContextLimit(t, c) = maxContextPerFunction
        BY <1>9 DEF ContextLimit, IsExactScalarRecursive
    <2>2. ~(counts[g] >= maxContextPerFunction)
        BY <1>1, <2>1 DEF LimitReached
    <2> QED
        BY <1>2, <1>6, <2>2
<1> HIDE DEF n, p, g
<1>a. \A u \in Thread : Len(stack[u]) \in Nat
    BY DEF Inv
<1>10. StacksShallow'
    <2> SUFFICES ASSUME NEW u \in Thread, NEW i \in 2 .. Len(stack'[u]),
                        stack'[u][i].node \notin ExactArguments
                 PROVE  i - 1 <= maxContextAnalysisDepth
        BY DEF StacksShallow
    <2>1. CASE u = t /\ i = n + 1
        <3>1. c \notin ExactArguments
            BY <1>3, <1>4, <1>5, <2>1
        <3>2. n \in Nat
            BY <1>4
        <3>3. n <= maxContextAnalysisDepth
            BY <1>8, <3>1
        <3> QED
            BY <2>1, <3>2, <3>3
    <2>2. CASE ~(u = t /\ i = n + 1)
        <3>1. i \in 2 .. Len(stack[u]) /\ stack'[u][i] = stack[u][i]
            BY <1>4, <1>5, <1>a, <2>2 DEF n
        <3> QED
            BY <3>1 DEF LimitInv, StacksShallow
    <2> QED
        BY <2>1, <2>2
<1>11. CountsSmall'
    <2> SUFFICES ASSUME NEW f \in Function, Plain(f) PROVE counts'[f] <= maxContextPerFunction
        BY DEF CountsSmall, Plain
    <2>1. CASE f = g
        <3>1. counts'[f] = counts[g] + 1 /\ counts[g] \in Nat
            BY <1>1, <1>2, <2>1 DEF g
        <3>2. counts[g] < maxContextPerFunction
            BY <1>9, <2>1 DEF Plain, g
        <3> QED
            BY <1>6, <3>1, <3>2
    <2>2. CASE f # g
        <3>1. counts'[f] = counts[f]
            BY <1>1, <1>2, <2>2 DEF g
        <3> QED
            BY <3>1 DEF LimitInv, CountsSmall
    <2> QED
        BY <2>1, <2>2
<1> QED
    BY <1>7, <1>10, <1>11 DEF LimitInv

(* The steps of one thread.                                                *)
LEMMA ThreadLimits ==
    ASSUME Inv, StackInv, OrderInv, CountInv, LimitInv, NEW t \in Thread, Analyse(t) \/ ClearState(t)
    PROVE  LimitInv'
<1>a. \A u \in Thread : Len(stack[u]) \in Nat
    BY DEF Inv
<1>b. 2 .. 0 = {} /\ 2 .. 1 = {}
    OBVIOUS
<1>1. ASSUME NEW r \in Root, StartRoot(t, r) PROVE LimitInv'
    <2>1. UNCHANGED <<order, counts>>
        BY <1>1 DEF StartRoot, cacheVars
    <2>2. \A u \in Thread : stack'[u] = stack[u] \/ stack'[u] = <<NewFrame(r)>>
        BY <1>1 DEF StartRoot, Inv
    <2>3. Len(<<NewFrame(r)>>) = 1
        OBVIOUS
    <2>4. \A u \in Thread : stack'[u] = stack[u] \/ 2 .. Len(stack'[u]) = {}
        BY <1>b, <2>2, <2>3
    <2> QED
        BY <2>1, <2>4, LimitsKept
<1>2. CASE Handle(t)
    <2>1. UNCHANGED <<order, counts>> /\ SameNodes
        BY <1>2, HandleFact, HandleNodes
    <2>2. \A u \in Thread : \A i \in 2 .. Len(stack'[u]) :
              i \in 2 .. Len(stack[u]) /\ i \in 1 .. Len(stack[u])
        BY <1>a, <2>1 DEF SameNodes
    <2> QED
        BY <2>1, <2>2, LimitsKept DEF SameNodes
<1>3. CASE \E c \in Context : StartAnalysis(t, c)
    BY <1>3, StartAnalysisLimits
<1>4. CASE FinishAnalysis(t)
    <2>1. UNCHANGED <<order, counts>>
        BY <1>4 DEF FinishAnalysis
    <2>2. /\ Len(stack'[t]) = Len(stack[t]) - 1
          /\ \A i \in 1 .. Len(stack[t]) - 1 : stack'[t][i].node = stack[t][i].node
          /\ \A u \in Thread : u # t => stack'[u] = stack[u]
        BY <1>4, FinishFact
    <2>3. \A i \in 2 .. Len(stack[t]) - 1 : i \in 2 .. Len(stack[t]) /\ i \in 1 .. Len(stack[t]) - 1
        BY <1>a
    <2>4. ASSUME NEW u \in Thread, NEW i \in 2 .. Len(stack'[u])
          PROVE  i \in 2 .. Len(stack[u]) /\ stack'[u][i].node = stack[u][i].node
        <3>1. CASE u = t
            BY <2>2, <2>3, <3>1
        <3>2. CASE u # t
            BY <2>2, <3>2
        <3> QED
            BY <3>1, <3>2
    <2> QED
        BY <2>1, <2>4, LimitsKept
<1>5. CASE FinishRoot(t)
    <2>1. UNCHANGED <<order, counts>>
        BY <1>5 DEF FinishRoot, cacheVars
    <2>2. \A u \in Thread : stack'[u] = stack[u] \/ stack'[u] = <<>>
        BY <1>5 DEF FinishRoot, Inv
    <2>3. \A u \in Thread : stack'[u] = stack[u] \/ 2 .. Len(stack'[u]) = {}
        BY <1>b, <2>2
    <2> QED
        BY <2>1, <2>3, LimitsKept
<1> QED
    BY <1>1, <1>2, <1>3, <1>4, <1>5, ThreadSteps

(* An empty cache and empty stacks are within the limits.                  *)
LEMMA LimitsStart ==
    ASSUME Init PROVE LimitInv
<1>1. Len(order) = 0 /\ \A t \in Thread : 2 .. Len(stack[t]) = {}
    BY DEF Init
<1>2. \A f \in Function : counts[f] = 0
    BY DEF Init
<1> QED
    BY <1>1, <1>2, ContextAssumption DEF LimitInv, OrderShort, StacksShallow, CountsSmall

LEMMA LimitsStep ==
    ASSUME Inv, StackInv, OrderInv, CountInv, LimitInv, [Next]_vars PROVE LimitInv'
<1>1. CASE UNCHANGED <<order, counts, stack>>
    BY <1>1, LimitsKept
<1>2. ASSUME NEW t \in Thread, Analyse(t) \/ ClearState(t) PROVE LimitInv'
    BY <1>2, ThreadLimits
<1>3. ExhaustBudget \/ Visit \/ UNCHANGED vars => UNCHANGED <<order, counts, stack>>
    BY DEF ExhaustBudget, Visit, StartVisit, FinishVisit, VisitContext, vars, cacheVars
<1>4. CASE ClearContextSensitiveResults
    <2>1. Len(order') = 0 /\ \A t \in Thread : stack'[t] = <<>>
        BY <1>4 DEF ClearContextSensitiveResults, ClearCache, Idle
    <2>2. \A t \in Thread : 2 .. Len(stack'[t]) = {}
        BY <2>1
    <2>3. \A f \in Function : counts'[f] = 0
        BY <1>4 DEF ClearContextSensitiveResults, ClearCache
    <2> QED
        BY <2>1, <2>2, <2>3, ContextAssumption DEF LimitInv, OrderShort, StacksShallow, CountsSmall
<1> QED
    BY <1>1, <1>2, <1>3, <1>4 DEF Next

LEMMA LimitsInvariance == Spec => []LimitInv
<1>1. Init => LimitInv
    BY LimitsStart
<1>2. Inv /\ StackInv /\ (OrderInv /\ CountInv) /\ LimitInv /\ [Next]_vars => LimitInv'
    BY LimitsStep
<1> QED
    BY <1>1, <1>2, Invariance, StackInvariance, OrderInvariance, PTL DEF Spec

(* However many threads test the limits and reserve entries, the cache     *)
(* stays within maxTotalContextSummaries, the analyses of contexts that    *)
(* are not of exact scalar arguments nest no deeper than                   *)
(* maxContextAnalysisDepth, and a function whose contexts are all plain    *)
(* has at most maxContextPerFunction of them.                              *)
THEOREM LimitsCorrect == Spec => []LimitsHold
<1>1. ASSUME Inv, CountInv, LimitInv PROVE LimitsHold
    <2>1. ASSUME NEW f \in Function
          PROVE  counts[f] <= LET cs == {c \in Context : FunctionOf[c] = f}
                                  exact == cs \cap ExactArguments
                              IN IF exact = {} /\ cs \cap WithGlobals = {}
                                 THEN maxContextPerFunction ELSE Cardinality(cs)
        <3> DEFINE cs == {c \in Context : FunctionOf[c] = f}
        <3>1. CASE cs \cap ExactArguments = {} /\ cs \cap WithGlobals = {}
            <4>1. Plain(f)
                BY <3>1 DEF Plain
            <4> QED
                BY <1>1, <3>1, <4>1 DEF LimitInv, CountsSmall
        <3>2. counts[f] <= Cardinality(cs)
            <4>1. UsedOf(f) \in SUBSET cs /\ cs \in SUBSET Context
                BY DEF UsedOf, Used
            <4>2. IsFiniteSet(cs)
                BY <4>1, FS_Subset, ContextAssumption
            <4> HIDE DEF cs
            <4>3. Cardinality(UsedOf(f)) <= Cardinality(cs)
                BY <4>1, <4>2, FS_Subset
            <4> QED
                BY <1>1, <4>3 DEF CountInv
        <3> QED
            BY <3>1, <3>2
    <2> QED
        BY <1>1, <2>1 DEF LimitsHold, LimitInv, OrderShort, StacksShallow
<1> QED
    BY <1>1, Invariance, OrderInvariance, LimitsInvariance, PTL
=============================================================================
