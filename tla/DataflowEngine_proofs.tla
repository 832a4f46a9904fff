----------------------- MODULE DataflowEngine_proofs -----------------------
(***************************************************************************)
(* The theorems about DataflowEngine, for every graph, domain and program  *)
(* that meet the contract of the engine.                                   *)
(***************************************************************************)
EXTENDS DataflowEngine, WellFoundedInduction, TLAPS

(***************************************************************************)
(* Facts about the elements of a sequence.                                 *)
(***************************************************************************)
LEMMA ElemsEmpty == Elems(<<>>) = {} /\ Distinct(<<>>)
BY DEF Elems, Distinct

(* Appending adds one element.                                             *)
LEMMA ElemsAppend ==
    ASSUME NEW S, NEW s \in Seq(S), NEW x \in S
    PROVE  /\ Append(s, x) \in Seq(S)
           /\ Elems(Append(s, x)) = Elems(s) \cup {x}
           /\ x \notin Elems(s) /\ Distinct(s) => Distinct(Append(s, x))
<1> DEFINE t == Append(s, x)
<1>1. /\ t \in Seq(S)
      /\ Len(s) \in Nat /\ DOMAIN s = 1..Len(s)
      /\ DOMAIN t = 1..(Len(s) + 1)
      /\ t[Len(s) + 1] = x
      /\ \A i \in 1..Len(s) : t[i] = s[i]
  OBVIOUS
<1> HIDE DEF t
<1>2. Elems(t) = Elems(s) \cup {x}
  BY <1>1 DEF Elems
<1>3. ASSUME x \notin Elems(s), Distinct(s)
      PROVE  Distinct(t)
  BY <1>1, <1>3 DEF Distinct, Elems
<1> QED BY <1>1, <1>2, <1>3 DEF t

(* The head and the tail share out the elements.                           *)
LEMMA ElemsTail ==
    ASSUME NEW S, NEW s \in Seq(S), s # <<>>
    PROVE  /\ Tail(s) \in Seq(S)
           /\ Head(s) \in S
           /\ Head(s) \in Elems(s)
           /\ Elems(s) = Elems(Tail(s)) \cup {Head(s)}
           /\ Distinct(s) => Distinct(Tail(s)) /\ Head(s) \notin Elems(Tail(s))
<1> DEFINE t == Tail(s)
<1>1. /\ t \in Seq(S)
      /\ Len(s) \in Nat /\ Len(s) > 0 /\ DOMAIN s = 1..Len(s)
      /\ DOMAIN t = 1..(Len(s) - 1)
      /\ Head(s) = s[1]
      /\ \A i \in 1..(Len(s) - 1) : t[i] = s[i + 1]
      /\ s[1] \in S
  OBVIOUS
<1> HIDE DEF t
<1>2. Elems(s) \subseteq Elems(t) \cup {Head(s)}
  <2> SUFFICES ASSUME NEW i \in 1..Len(s)
               PROVE  s[i] \in Elems(t) \cup {Head(s)}
    BY <1>1 DEF Elems
  <2>1. CASE i = 1
    BY <1>1, <2>1
  <2>2. CASE i # 1
    <3>1. i - 1 \in DOMAIN t /\ t[i - 1] = s[i]
      BY <1>1, <2>2
    <3> QED BY <3>1 DEF Elems
  <2> QED BY <2>1, <2>2
<1>3. Elems(t) \cup {Head(s)} \subseteq Elems(s)
  <2>1. \A j \in DOMAIN t : j + 1 \in DOMAIN s /\ t[j] = s[j + 1]
    BY <1>1
  <2>2. Elems(t) \subseteq Elems(s)
    BY <2>1 DEF Elems
  <2> QED BY <1>1, <2>2 DEF Elems
<1>4. ASSUME Distinct(s)
      PROVE  Distinct(t) /\ Head(s) \notin Elems(t)
  <2>1. Distinct(t)
    <3> SUFFICES ASSUME NEW i \in DOMAIN t, NEW j \in DOMAIN t, t[i] = t[j]
                 PROVE  i = j
      BY DEF Distinct
    <3>1. i + 1 \in DOMAIN s /\ j + 1 \in DOMAIN s /\ s[i + 1] = s[j + 1]
      BY <1>1
    <3>2. i + 1 = j + 1
      BY <1>4, <3>1 DEF Distinct
    <3> QED BY <1>1, <3>2
  <2>2. Head(s) \notin Elems(t)
    BY <1>1, <1>4 DEF Distinct, Elems
  <2> QED BY <2>1, <2>2
<1> QED BY <1>1, <1>2, <1>3, <1>4 DEF t

(* The elements of a sequence over S are in S.                             *)
LEMMA ElemsSeq ==
    ASSUME NEW S, NEW s \in Seq(S)
    PROVE  /\ Elems(s) \subseteq S
           /\ \A i \in 1..Len(s) : s[i] \in Elems(s)
BY DEF Elems

(* A sequence is one over any set that holds its elements.                 *)
LEMMA SeqOfElems ==
    ASSUME NEW S, NEW s \in Seq(S), NEW T, Elems(s) \subseteq T
    PROVE  s \in Seq(T)
<1>1. \A i \in 1..Len(s) : s[i] \in T
  BY DEF Elems
<1> QED BY <1>1

(***************************************************************************)
(* Type correctness.                                                       *)
(***************************************************************************)

(* The sequences a phase works off are empty outside it.                   *)
Idle ==
    /\ pc # "record" => toRecord = <<>>
    /\ pc # "spread" => toJoin = <<>>
    /\ pc # "narrow" => narrowRest = <<>>

TypeInv == TypeOK /\ Idle

(* What the assumptions say of a unit's blocks.                            *)
LEMMA UnitFacts ==
    ASSUME NEW f \in Function, NEW u \in Unit
    PROVE  /\ UnitEntry(f, u) \in UnitBlocks(f, u)
           /\ UnitEntry(f, u) \in Block
           /\ UnitBlocks(f, u) \subseteq Block
           /\ TopologicalSort(f, u) \in Seq(UnitBlocks(f, u))
           /\ Elems(TopologicalSort(f, u)) \subseteq Block
           /\ Distinct(TopologicalSort(f, u))
<1>1. /\ UnitEntry(f, u) \in UnitBlocks(f, u)
      /\ UnitBlocks(f, u) \subseteq Block
      /\ TopologicalSort(f, u) \in Seq(UnitBlocks(f, u))
      /\ Distinct(TopologicalSort(f, u))
  BY GraphAssumption
<1> QED BY <1>1, ElemsSeq

(* What the assumptions say of a block's successors and lambdas.           *)
LEMMA BlockFacts ==
    ASSUME NEW f \in Function, NEW u \in Unit, NEW b \in UnitBlocks(f, u)
    PROVE  /\ b \in Block
           /\ Elems(Successors(f, b)) \subseteq UnitBlocks(f, u)
           /\ Successors(f, b) \in Seq(Elems(Successors(f, b)))
           /\ LambdasIn(f, b) \in Seq(Elems(LambdasIn(f, b)))
           /\ Elems(LambdasIn(f, b)) \subseteq Lambda
<1>1. b \in Block /\ Successors(f, b) \in Seq(UnitBlocks(f, u))
  BY GraphAssumption
<1>2. LambdasIn(f, b) \in Seq(Lambda)
  BY <1>1, GraphAssumption
<1> QED BY <1>1, <1>2, ElemsSeq, SeqOfElems

(* The types hold at first.                                                *)
LEMMA InitType == Init => TypeInv
<1> SUFFICES ASSUME Init PROVE TypeInv
  OBVIOUS
<1>1. FuncBody \in Unit
  BY DEF Unit
<1>2. UnitEntry(fn, FuncBody) \in Block
  BY <1>1, UnitFacts DEF Init
<1>3. Bottom \in State
  BY DomainAssumption
<1>4. Elems(lambdaWorklist) = {}
  BY ElemsEmpty DEF Init
<1>5. \A S : <<>> \in Seq(S)
  OBVIOUS
<1>6. /\ DOMAIN lambdaEnvState = {}
      /\ DOMAIN snapshots = {}
  BY DEF Init
<1>7. /\ entrySets \in [Block -> State]
      /\ candidates \in [Block -> State]
      /\ inqueueTimes \in [Block -> Nat]
  BY <1>3 DEF Init
<1>8. worklistIdx \in 0..Len(lambdaWorklist) /\ round \in Nat
  BY DEF Init
<1>9. TypeOK
  BY <1>1, <1>2, <1>3, <1>4, <1>5, <1>6, <1>7, <1>8 DEF Init, TypeOK
<1> QED BY <1>9 DEF Init, TypeInv, Idle

(* Entering a unit keeps the types.                                        *)
LEMMA EnterUnitType ==
    ASSUME TypeInv, pc \in {"start", "next"}, NEW u \in Unit, NEW states \in [Block -> State],
           EnterUnit(u, states),
           UNCHANGED <<fn, lambdaEnvState, lambdaWorklist, blockVars, guardVars, narrowVars>>,
           worklistIdx' \in 0..Len(lambdaWorklist)
    PROVE  TypeInv'
<1> USE DEF EnterUnit, blockVars, guardVars, narrowVars
<1>1. states[UnitEntry(fn, u)] \in State /\ u \in Unit
  BY UnitFacts DEF TypeInv, TypeOK
<1>2. worklist' \in Seq(UnitBlocks(fn, u)) /\ worklistSet' \subseteq Block
  BY UnitFacts DEF TypeInv, TypeOK
<1> QED BY <1>1, <1>2 DEF TypeInv, TypeOK, Idle

(* Assigning one key keeps a map's range.                                  *)
LEMMA AssignType ==
    ASSUME NEW map, NEW k, NEW V, NEW v \in V, \A x \in DOMAIN map : map[x] \in V
    PROVE  /\ DOMAIN Assign(map, k, v) = DOMAIN map \cup {k}
           /\ \A x \in DOMAIN Assign(map, k, v) : Assign(map, k, v)[x] \in V
BY DEF Assign

(* The transfer function yields states and targets.                        *)
LEMMA TransferTypes ==
    ASSUME NEW f \in Function, NEW b \in Block, NEW s \in State
    PROVE  /\ Effect(f, b, s) \in State
           /\ Targets(f, b, s) \in Seq(Elems(Successors(f, b)))
           /\ Elems(Targets(f, b, s)) \subseteq Elems(Successors(f, b))
           /\ ClearState(s) \in State
           /\ \A l \in Lambda : EnvAt(f, b, l, s) \in State
           /\ \A t \in Block : EdgeState(f, b, s, t) \in State
<1>1. Targets(f, b, s) \in Seq(Elems(Successors(f, b)))
  BY DomainAssumption
<1> QED BY <1>1, DomainAssumption, ElemsSeq

(* The domain's operations yield states.                                   *)
LEMMA DomainTypes ==
    ASSUME NEW s \in State, NEW t \in State
    PROVE  /\ Bottom \in State
           /\ Join(s, t) \in State
           /\ JoinChanged(s, t) \in BOOLEAN
           /\ Narrow(s, t) \in State
BY DomainAssumption

(* Requeueing keeps the list and its set in step.                          *)
LEMMA RequeueType ==
    ASSUME NEW S, worklist \in Seq(S), NEW t \in S, NEW changed \in BOOLEAN,
           Requeue(t, changed)
    PROVE  /\ worklist' \in Seq(S)
           /\ worklistSet' = worklistSet \cup (IF changed THEN {t} ELSE {})
           /\ worklistSet = Elems(worklist) /\ Distinct(worklist) =>
                  worklistSet' = Elems(worklist') /\ Distinct(worklist')
<1>1. CASE changed /\ t \notin worklistSet
  <2>1. worklist' = Append(worklist, t) /\ worklistSet' = worklistSet \cup {t}
    BY <1>1 DEF Requeue
  <2>2. /\ worklist' \in Seq(S)
        /\ Elems(worklist') = Elems(worklist) \cup {t}
        /\ t \notin Elems(worklist) /\ Distinct(worklist) => Distinct(worklist')
    BY <2>1, ElemsAppend
  <2> QED BY <1>1, <2>1, <2>2
<1>2. CASE ~(changed /\ t \notin worklistSet)
  BY <1>2 DEF Requeue, queueVars
<1> QED BY <1>1, <1>2

(* Every step keeps the types.                                             *)
LEMMA NextType == TypeInv /\ [Next]_vars => TypeInv'
<1> SUFFICES ASSUME TypeInv, [Next]_vars
             PROVE  TypeInv'
  OBVIOUS
<1> USE DEF TypeInv, Idle
<1>1. CASE Reject
  BY <1>1 DEF Reject, TypeOK, unitVars, queueVars, blockVars, guardVars, narrowVars
<1>2. CASE StartFunction
  <2> DEFINE states == [entrySets EXCEPT ![UnitEntry(fn, FuncBody)] = FuncEntryState(fn)]
  <2>1. states \in [Block -> State]
    BY DomainAssumption DEF TypeOK
  <2>2. FuncBody \in Unit /\ worklistIdx' \in 0..Len(lambdaWorklist)
    BY <1>2 DEF StartFunction, Unit, TypeOK
  <2> HIDE DEF states
  <2>3. EnterUnit(FuncBody, states)
    BY <1>2 DEF StartFunction, states
  <2> QED BY <1>2, <2>1, <2>2, <2>3, EnterUnitType DEF StartFunction
<1>3. CASE SkipBlock
  <2>1. worklist' \in Seq(UnitBlocks(fn, unit))
    BY <1>3, ElemsTail DEF SkipBlock, PopBlock, TypeOK
  <2> QED BY <1>3, <2>1
          DEF SkipBlock, PopBlock, TypeOK, unitVars, blockVars, guardVars, narrowVars
<1>4. CASE BeginBlock
  <2>1. /\ worklist' \in Seq(UnitBlocks(fn, unit))
        /\ cur' \in UnitBlocks(fn, unit)
    BY <1>4, ElemsTail DEF BeginBlock, PopBlock, TypeOK
  <2>2. /\ cur' \in Block
        /\ toRecord' \in Seq(Elems(LambdasIn(fn, cur')))
    BY <1>4, <2>1, BlockFacts DEF BeginBlock, TypeOK
  <2>3. toJoin' = <<>>
    BY <1>4 DEF BeginBlock, PopBlock
  <2> QED BY <1>4, <2>1, <2>2, <2>3
          DEF BeginBlock, PopBlock, TypeOK, unitVars, guardVars, narrowVars
<1>5. CASE RecordLambda
  <2> DEFINE l == Head(toRecord)
             e == EnvAt(fn, cur, l, entrySets[cur])
  <2>1. /\ l \in Lambda
        /\ toRecord' \in Seq(Elems(LambdasIn(fn, cur)))
    BY <1>5, ElemsTail, BlockFacts DEF RecordLambda, TypeOK
  <2>2. e \in State
    BY <2>1, TransferTypes DEF TypeOK
  <2> HIDE DEF l, e
  <2>3. lambdaEnvState' = Assign(lambdaEnvState, l, e)
    BY <1>5 DEF RecordLambda, l, e
  <2>4. /\ lambdaWorklist' \in Seq(Lambda)
        /\ Elems(lambdaWorklist') = Elems(lambdaWorklist) \cup {l}
        /\ Len(lambdaWorklist') >= Len(lambdaWorklist)
    <3>1. CASE l \in Elems(lambdaWorklist)
      BY <1>5, <3>1 DEF RecordLambda, TypeOK, l
    <3>2. CASE l \notin Elems(lambdaWorklist)
      <4>1. lambdaWorklist' = Append(lambdaWorklist, l)
        BY <1>5, <3>2 DEF RecordLambda, l
      <4> QED BY <2>1, <4>1, ElemsAppend DEF TypeOK
    <3> QED BY <3>1, <3>2
  <2>5. /\ DOMAIN lambdaEnvState' = Elems(lambdaWorklist')
        /\ \A x \in DOMAIN lambdaEnvState' : lambdaEnvState'[x] \in State
    <3>1. /\ DOMAIN Assign(lambdaEnvState, l, e) = Elems(lambdaWorklist')
          /\ \A x \in DOMAIN Assign(lambdaEnvState, l, e) :
                 Assign(lambdaEnvState, l, e)[x] \in State
      <4>1. /\ DOMAIN lambdaEnvState = Elems(lambdaWorklist)
            /\ \A x \in DOMAIN lambdaEnvState : lambdaEnvState[x] \in State
        BY DEF TypeOK
      <4>2. /\ DOMAIN Assign(lambdaEnvState, l, e) = DOMAIN lambdaEnvState \cup {l}
            /\ \A x \in DOMAIN Assign(lambdaEnvState, l, e) :
                 Assign(lambdaEnvState, l, e)[x] \in State
        BY <2>2, <4>1, AssignType
      <4> QED BY <2>4, <4>1, <4>2
    <3> QED BY <2>3, <3>1
  <2>6. worklistIdx' \in 0..Len(lambdaWorklist')
    BY <1>5, <2>4 DEF RecordLambda, TypeOK
  <2> QED BY <1>5, <2>1, <2>4, <2>5, <2>6
          DEF RecordLambda, TypeOK, queueVars, guardVars, narrowVars
<1>6. CASE FinishBlock
  <2> DEFINE n == inqueueTimes[cur] + 1
             s == Widened(cur, n, Effect(fn, cur, entrySets[cur]))
  <2>1. n \in Nat /\ cur \in UnitBlocks(fn, unit) /\ cur \in Block
    BY <1>6 DEF FinishBlock, TypeOK
  <2>2. s \in State
    BY <2>1, TransferTypes, DomainAssumption DEF Widened, TypeOK
  <2> HIDE DEF n, s
  <2>3. /\ inqueueTimes' = [inqueueTimes EXCEPT ![cur] = n]
        /\ snapshots' = IF n > 1 /\ n >= WidenStart - 1 THEN Assign(snapshots, cur, s)
                        ELSE snapshots
        /\ out' = IF CutOff(n) THEN ClearState(s) ELSE s
        /\ toJoin' = IF CutOff(n) THEN Successors(fn, cur)
                     ELSE Targets(fn, cur, entrySets[cur])
    BY <1>6 DEF FinishBlock, n, s
  <2>4. out' \in State
    BY <2>2, <2>3, TransferTypes, <2>1 DEF TypeOK
  <2>5. toJoin' \in Seq(Elems(Successors(fn, cur)))
    BY <2>1, <2>3, TransferTypes, BlockFacts DEF TypeOK
  <2>6. /\ DOMAIN snapshots' \subseteq Block
        /\ \A b \in DOMAIN snapshots' : snapshots'[b] \in State
    <3>1. /\ DOMAIN Assign(snapshots, cur, s) \subseteq Block
          /\ \A b \in DOMAIN Assign(snapshots, cur, s) : Assign(snapshots, cur, s)[b] \in State
      <4>1. /\ DOMAIN snapshots \subseteq Block
            /\ \A b \in DOMAIN snapshots : snapshots[b] \in State
        BY DEF TypeOK
      <4>2. /\ DOMAIN Assign(snapshots, cur, s) = DOMAIN snapshots \cup {cur}
            /\ \A b \in DOMAIN Assign(snapshots, cur, s) : Assign(snapshots, cur, s)[b] \in State
        BY <2>2, <4>1, AssignType
      <4> QED BY <2>1, <4>1, <4>2
    <3> QED BY <2>3, <3>1 DEF TypeOK
  <2>7. inqueueTimes' \in [Block -> Nat]
    BY <2>1, <2>3 DEF TypeOK
  <2> QED BY <1>6, <2>4, <2>5, <2>6, <2>7
          DEF FinishBlock, TypeOK, unitVars, queueVars, narrowVars
<1>7. CASE FinishBlockWithoutBudget
  <2>1. cur \in UnitBlocks(fn, unit) /\ cur \in Block
    BY <1>7 DEF FinishBlockWithoutBudget, TypeOK
  <2>2. out' \in State /\ toJoin' \in Seq(Elems(Successors(fn, cur)))
    BY <1>7, <2>1, TransferTypes, BlockFacts DEF FinishBlockWithoutBudget, TypeOK
  <2> QED BY <1>7, <2>2
          DEF FinishBlockWithoutBudget, TypeOK, unitVars, queueVars, guardVars, narrowVars
<1>8. CASE JoinSuccessor
  <2> DEFINE t == Head(toJoin)
             s == EdgeState(fn, cur, out, t)
  <2>1. /\ t \in Elems(Successors(fn, cur))
        /\ toJoin' \in Seq(Elems(Successors(fn, cur)))
    BY <1>8, ElemsTail DEF JoinSuccessor, TypeOK
  <2>2. t \in UnitBlocks(fn, unit) /\ t \in Block
    BY <1>8, <2>1, BlockFacts, UnitFacts DEF JoinSuccessor, TypeOK
  <2>3. s \in State
    BY <2>2, TransferTypes DEF TypeOK
  <2>4. Join(entrySets[t], s) \in State /\ JoinChanged(entrySets[t], s) \in BOOLEAN
    BY <2>2, <2>3, DomainTypes DEF TypeOK
  <2> HIDE DEF t, s
  <2>5. /\ entrySets' = [entrySets EXCEPT ![t] = Join(entrySets[t], s)]
        /\ Requeue(t, JoinChanged(entrySets[t], s))
    BY <1>8 DEF JoinSuccessor, t, s
  <2>6. /\ worklist' \in Seq(UnitBlocks(fn, unit))
        /\ worklistSet' \subseteq Block
    BY <2>2, <2>4, <2>5, RequeueType DEF TypeOK
  <2>7. entrySets' \in [Block -> State]
    BY <2>2, <2>4, <2>5 DEF TypeOK
  <2> QED BY <1>8, <2>1, <2>6, <2>7
          DEF JoinSuccessor, TypeOK, unitVars, guardVars, narrowVars
<1>9. CASE EndBlock
  BY <1>9 DEF EndBlock, TypeOK, unitVars, queueVars, blockVars, guardVars, narrowVars
<1>10. ASSUME NEW n \in Nat, BeginRound(n), UNCHANGED <<fn, unit>>
       PROVE  /\ round' \in Nat /\ narrowRest' \in Seq(UnitBlocks(fn, unit))
              /\ candidates' \in [Block -> State]
  <2>1. TopologicalSort(fn, unit) \in Seq(UnitBlocks(fn, unit))
    BY UnitFacts DEF TypeOK
  <2>2. SeedCandidates \in [Block -> State]
    BY DomainAssumption DEF SeedCandidates, TypeOK
  <2> QED BY <1>10, <2>1, <2>2 DEF BeginRound
<1>11. CASE EndFixpoint
  <2>1. CASE NarrowLimit = 0
    BY <1>11, <2>1 DEF EndFixpoint, TypeOK, unitVars, queueVars, blockVars, guardVars, narrowVars
  <2>2. CASE NarrowLimit # 0
    <3>1. BeginRound(0) /\ UNCHANGED <<fn, unit>>
      BY <1>11, <2>2 DEF EndFixpoint, unitVars
    <3>2. /\ round' \in Nat /\ narrowRest' \in Seq(UnitBlocks(fn, unit))
          /\ candidates' \in [Block -> State]
      BY <1>10, <3>1
    <3> QED BY <1>11, <2>2, <3>2
            DEF EndFixpoint, TypeOK, unitVars, queueVars, blockVars, guardVars
  <2> QED BY <2>1, <2>2
<1>12. CASE NarrowBlock
  <2> DEFINE b == Head(narrowRest)
             s == entrySets[b]
  <2>1. b \in Block /\ narrowRest' \in Seq(UnitBlocks(fn, unit))
    BY <1>12, ElemsTail, UnitFacts DEF NarrowBlock, TypeOK
  <2>2. s \in State /\ Effect(fn, b, s) \in State
    BY <2>1, TransferTypes DEF TypeOK
  <2>3. \A t \in Block : EdgeState(fn, b, Effect(fn, b, s), t) \in State
    BY <2>1, <2>2, TransferTypes DEF TypeOK
  <2>4. \A t \in Block : Join(candidates[t], EdgeState(fn, b, Effect(fn, b, s), t)) \in State
    BY <2>3, DomainTypes DEF TypeOK
  <2>5. candidates' =
             IF s = Bottom THEN candidates
             ELSE [t \in Block |->
                    IF t \in Elems(Targets(fn, b, s))
                    THEN Join(candidates[t], EdgeState(fn, b, Effect(fn, b, s), t))
                    ELSE candidates[t]]
    BY <1>12 DEF NarrowBlock
  <2> HIDE DEF b, s
  <2>6. candidates' \in [Block -> State]
    BY <2>4, <2>5 DEF TypeOK
  <2> QED BY <1>12, <2>1, <2>6
          DEF NarrowBlock, TypeOK, unitVars, queueVars, blockVars, guardVars
<1>13. CASE ApplyNarrowing
  <2>1. \A b \in Block : Narrow(entrySets[b], candidates[b]) \in State
    BY DomainTypes DEF TypeOK
  <2>2. entrySets' \in [Block -> State]
    BY <1>13, <2>1 DEF ApplyNarrowing, Narrowed, TypeOK
  <2>3. CASE Narrowed = entrySets \/ round + 1 = NarrowLimit
    BY <1>13, <2>2, <2>3
       DEF ApplyNarrowing, TypeOK, unitVars, queueVars, blockVars, guardVars, narrowVars
  <2>4. CASE ~(Narrowed = entrySets \/ round + 1 = NarrowLimit)
    <3>1. BeginRound(round + 1) /\ round + 1 \in Nat /\ UNCHANGED <<fn, unit>>
      BY <1>13, <2>4 DEF ApplyNarrowing, unitVars, TypeOK
    <3>2. /\ round' \in Nat /\ narrowRest' \in Seq(UnitBlocks(fn, unit))
          /\ candidates' \in [Block -> State]
      BY <1>10, <3>1
    <3> QED BY <1>13, <2>2, <2>4, <3>2
            DEF ApplyNarrowing, TypeOK, unitVars, queueVars, blockVars, guardVars
  <2> QED BY <2>3, <2>4
<1>14. CASE NextLambda
  <2> DEFINE l == lambdaWorklist[worklistIdx + 1]
             states == [entrySets EXCEPT ![UnitEntry(fn, l)] =
                           LambdaEntryState(fn, l, lambdaEnvState[l])]
  <2>1. l \in Elems(lambdaWorklist) /\ l \in Lambda /\ l \in Unit
    BY <1>14, ElemsSeq DEF NextLambda, TypeOK, Unit
  <2>2. states \in [Block -> State]
    BY <2>1, DomainAssumption DEF TypeOK
  <2>3. worklistIdx' \in 0..Len(lambdaWorklist)
    BY <1>14 DEF NextLambda, TypeOK
  <2> HIDE DEF l, states
  <2>4. EnterUnit(l, states)
    BY <1>14 DEF NextLambda, l, states
  <2> QED BY <1>14, <2>1, <2>2, <2>3, <2>4, EnterUnitType DEF NextLambda
<1>15. CASE SetToStable
  BY <1>15 DEF SetToStable, TypeOK, unitVars, queueVars, blockVars, guardVars, narrowVars
<1>16. CASE ExhaustBudget
  BY <1>16 DEF ExhaustBudget, TypeOK, unitVars, queueVars, blockVars, narrowVars
<1>17. CASE UNCHANGED vars
  BY <1>17 DEF vars, TypeOK, unitVars, queueVars, blockVars, guardVars, narrowVars
<1> QED
  BY <1>1, <1>2, <1>3, <1>4, <1>5, <1>6, <1>7, <1>8, <1>9, <1>11, <1>12, <1>13,
     <1>14, <1>15, <1>16, <1>17 DEF Next, Engine

(* The variables keep the types of the fields they stand for.              *)
THEOREM TypeCorrect == Spec => []TypeOK
<1>1. Spec => []TypeInv
  BY InitType, NextType, PTL DEF Spec
<1>2. TypeInv => TypeOK
  BY DEF TypeInv
<1> QED BY <1>1, <1>2, PTL

(***************************************************************************)
(* The work list and the set beside it.                                    *)
(***************************************************************************)
LEMMA NextWorklist == TypeInv /\ WorklistExact /\ [Next]_vars => WorklistExact'
<1> SUFFICES ASSUME TypeInv, WorklistExact, [Next]_vars
             PROVE  WorklistExact'
  OBVIOUS
<1> USE DEF WorklistExact
<1>1. CASE UNCHANGED queueVars
  BY <1>1 DEF queueVars
<1>2. ASSUME NEW u \in Unit, NEW states, EnterUnit(u, states)
      PROVE  WorklistExact'
  BY <1>2, UnitFacts DEF EnterUnit, TypeInv, TypeOK
<1>3. CASE StartFunction
  BY <1>2, <1>3 DEF StartFunction, Unit
<1>4. CASE NextLambda
  <2>1. lambdaWorklist[worklistIdx + 1] \in Unit
    BY <1>4 DEF NextLambda, TypeInv, TypeOK, Unit
  <2> QED BY <1>2, <1>4, <2>1 DEF NextLambda
<1>5. CASE PopBlock
  <2>1. /\ Elems(worklist) = Elems(Tail(worklist)) \cup {Head(worklist)}
        /\ Distinct(Tail(worklist)) /\ Head(worklist) \notin Elems(Tail(worklist))
    BY <1>5, ElemsTail DEF PopBlock, TypeInv, TypeOK
  <2> QED BY <1>5, <2>1 DEF PopBlock
<1>6. CASE JoinSuccessor
  <2> DEFINE t == Head(toJoin)
             s == EdgeState(fn, cur, out, t)
  <2>1. t \in Elems(Successors(fn, cur)) /\ cur \in UnitBlocks(fn, unit)
    BY <1>6, ElemsTail DEF JoinSuccessor, TypeInv, TypeOK
  <2>2. t \in UnitBlocks(fn, unit) /\ t \in Block
    BY <2>1, BlockFacts, UnitFacts DEF TypeInv, TypeOK
  <2>3. JoinChanged(entrySets[t], s) \in BOOLEAN
    BY <2>2, TransferTypes, DomainTypes DEF TypeInv, TypeOK
  <2> HIDE DEF t, s
  <2>4. Requeue(t, JoinChanged(entrySets[t], s))
    BY <1>6 DEF JoinSuccessor, t, s
  <2> QED BY <2>2, <2>3, <2>4, RequeueType DEF TypeInv, TypeOK
<1> QED
  BY <1>1, <1>3, <1>4, <1>5, <1>6 DEF Next, Engine, vars, queueVars, Reject, SkipBlock,
     BeginBlock, RecordLambda, FinishBlock, FinishBlockWithoutBudget, EndBlock,
     EndFixpoint, NarrowBlock, ApplyNarrowing, SetToStable, ExhaustBudget

(* The work list has no duplicate and the set beside it is its elements.   *)
THEOREM WorklistCorrect == Spec => []WorklistExact
<1>1. Init => TypeInv /\ WorklistExact
  BY InitType, ElemsEmpty DEF Init, WorklistExact
<1>2. TypeInv /\ WorklistExact /\ [Next]_vars => (TypeInv /\ WorklistExact)'
  BY NextType, NextWorklist
<1> QED BY <1>1, <1>2, PTL DEF Spec

(***************************************************************************)
(* The order of the units.                                                 *)
(***************************************************************************)
LEMMA OneUnit ==
    ASSUME NEW f \in Function, NEW u \in Unit, NEW v \in Unit,
           NEW b \in UnitBlocks(f, u), b \in UnitBlocks(f, v)
    PROVE  u = v
BY GraphAssumption

(* A lambda is created in one block only.                                  *)
LEMMA OneCreator ==
    ASSUME NEW f \in Function, NEW b \in Block, NEW d \in Block,
           NEW l \in Elems(LambdasIn(f, b)), l \in Elems(LambdasIn(f, d))
    PROVE  b = d
BY GraphAssumption

(* The i-th unit: the function's body comes first.                         *)
UnitNo(i) == IF i = 0 THEN FuncBody ELSE lambdaWorklist[i]

(* A lambda on the work list was created in a unit already entered, which  *)
(* comes before it.                                                        *)
CreatedBefore ==
    \A i \in 1..Len(lambdaWorklist) : \E j \in 0..worklistIdx :
        /\ j < i
        /\ \E b \in UnitBlocks(fn, UnitNo(j)) : lambdaWorklist[i] \in Elems(LambdasIn(fn, b))

Nested ==
    /\ unit = UnitNo(worklistIdx)
    /\ Distinct(lambdaWorklist)
    /\ CreatedBefore
    /\ pc \in {"start", "skipped"} => lambdaWorklist = <<>>
    /\ pc = "stable" => worklistIdx = Len(lambdaWorklist)

(* Different positions of the lambda list are different units.             *)
LEMMA UnitNoFacts ==
    ASSUME TypeInv
    PROVE  /\ \A i \in 0..Len(lambdaWorklist) : UnitNo(i) \in Unit
           /\ Distinct(lambdaWorklist) =>
                  \A i, j \in 0..Len(lambdaWorklist) : UnitNo(i) = UnitNo(j) => i = j
<1>1. \A i \in 1..Len(lambdaWorklist) : lambdaWorklist[i] \in Lambda
  BY DEF TypeInv, TypeOK
<1>2. FuncBody \notin Lambda
  BY GraphAssumption
<1> QED BY <1>1, <1>2 DEF UnitNo, Unit, Distinct, TypeInv, TypeOK

(* The started units are those up to the current position.                 *)
LEMMA StartedFacts ==
    ASSUME TypeInv, Nested, pc \notin {"start", "skipped"}
    PROVE  /\ \A u : u \in Started <=> \E j \in 0..worklistIdx : u = UnitNo(j)
           /\ unit \in Started
BY DEF TypeInv, TypeOK, Nested, Started, UnitNo

(* Every step keeps the lambda list ordered and without repetition.        *)
LEMMA NextNested == TypeInv /\ Nested /\ [Next]_vars => Nested'
<1> SUFFICES ASSUME TypeInv, Nested, [Next]_vars
             PROVE  Nested'
  OBVIOUS
<1> USE DEF Nested
<1>1. ASSUME UNCHANGED <<fn, unit, worklistIdx, lambdaWorklist>>,
             pc' \in {"start", "skipped"} => pc \in {"start", "skipped"},
             pc' = "stable" => worklistIdx = Len(lambdaWorklist)
      PROVE  Nested'
  BY <1>1 DEF CreatedBefore, UnitNo
<1>2. CASE RecordLambda
  <2> DEFINE l == Head(toRecord)
  <2>1. l \in Elems(LambdasIn(fn, cur)) /\ l \in Lambda /\ cur \in UnitBlocks(fn, unit)
    <3>1. cur \in UnitBlocks(fn, unit)
      BY <1>2 DEF RecordLambda, TypeInv, TypeOK
    <3>2. l \in Elems(LambdasIn(fn, cur))
      BY <1>2, ElemsTail DEF RecordLambda, TypeInv, TypeOK
    <3> QED BY <3>1, <3>2, BlockFacts DEF TypeInv, TypeOK
  <2>2. UNCHANGED <<fn, unit, worklistIdx, pc>> /\ pc = "record"
    BY <1>2 DEF RecordLambda
  <2>3. CASE l \in Elems(lambdaWorklist)
    <3>1. lambdaWorklist' = lambdaWorklist
      BY <1>2, <2>3 DEF RecordLambda
    <3> QED BY <1>1, <2>2, <3>1
  <2>4. CASE l \notin Elems(lambdaWorklist)
    <3> HIDE DEF l
    <3>1. lambdaWorklist' = Append(lambdaWorklist, l)
      BY <1>2, <2>4 DEF RecordLambda, l
    <3>2. /\ Len(lambdaWorklist') = Len(lambdaWorklist) + 1
          /\ lambdaWorklist'[Len(lambdaWorklist) + 1] = l
          /\ \A i \in 1..Len(lambdaWorklist) : lambdaWorklist'[i] = lambdaWorklist[i]
          /\ Len(lambdaWorklist) \in Nat
          /\ worklistIdx \in Nat /\ worklistIdx <= Len(lambdaWorklist)
      BY <2>1, <3>1 DEF TypeInv, TypeOK
    <3>3. \A j \in 0..worklistIdx : UnitNo(j)' = UnitNo(j)
      BY <2>2, <3>2 DEF UnitNo
    <3>4. Distinct(lambdaWorklist')
      BY <2>1, <2>4, <3>1, ElemsAppend DEF TypeInv, TypeOK
    <3>5. CreatedBefore'
      <4> SUFFICES ASSUME NEW i \in 1..(Len(lambdaWorklist) + 1)
                   PROVE  \E j \in 0..worklistIdx :
                            /\ j < i
                            /\ \E b \in UnitBlocks(fn, UnitNo(j)') :
                                  lambdaWorklist'[i] \in Elems(LambdasIn(fn, b))
        BY <2>2, <3>2 DEF CreatedBefore
      <4>1. CASE i = Len(lambdaWorklist) + 1
        <5>1. PICK k \in 0..worklistIdx : k = worklistIdx /\ k < i
          BY <3>2, <4>1
        <5>2. UnitNo(k)' = unit
          BY <3>3, <5>1
        <5>3. l \in Elems(LambdasIn(fn, cur)) /\ cur \in UnitBlocks(fn, UnitNo(k)')
          BY <2>1, <5>2
        <5>4. lambdaWorklist'[i] = l
          BY <3>2, <4>1
        <5> QED BY <5>1, <5>3, <5>4
      <4>2. CASE i # Len(lambdaWorklist) + 1
        <5>1. i \in 1..Len(lambdaWorklist) /\ lambdaWorklist'[i] = lambdaWorklist[i]
          BY <3>2, <4>2
        <5> QED BY <3>3, <5>1 DEF CreatedBefore
      <4> QED BY <4>1, <4>2
    <3>6. unit' = UnitNo(worklistIdx)'
      BY <2>2, <3>2 DEF UnitNo
    <3> QED BY <2>2, <3>4, <3>5, <3>6
  <2> QED BY <2>3, <2>4
<1>3. CASE NextLambda
  <2>1. /\ UNCHANGED <<fn, lambdaWorklist>>
        /\ worklistIdx \in Nat /\ worklistIdx' = worklistIdx + 1
        /\ unit' = lambdaWorklist[worklistIdx + 1] /\ pc' = "pop"
    BY <1>3 DEF NextLambda, EnterUnit, TypeInv, TypeOK
  <2>2. \A j : UnitNo(j)' = UnitNo(j)
    BY <2>1 DEF UnitNo
  <2>3. CreatedBefore'
    BY <2>1, <2>2 DEF CreatedBefore
  <2> QED BY <2>1, <2>3 DEF UnitNo
<1>4. CASE StartFunction
  <2>1. worklistIdx = 0 /\ unit = FuncBody
    BY <1>4 DEF StartFunction, TypeInv, TypeOK, UnitNo
  <2> QED BY <1>1, <1>4, <2>1 DEF StartFunction, EnterUnit
<1>5. CASE SetToStable
  BY <1>1, <1>5 DEF SetToStable, unitVars
<1>6. CASE Reject
  BY <1>1, <1>6 DEF Reject, unitVars
<1>7. CASE UNCHANGED vars \/ ExhaustBudget
  BY <1>1, <1>7 DEF ExhaustBudget, vars, unitVars
<1>8. CASE SkipBlock \/ BeginBlock \/ FinishBlock \/ FinishBlockWithoutBudget
  BY <1>1, <1>8 DEF SkipBlock, PopBlock, BeginBlock, FinishBlock, FinishBlockWithoutBudget, unitVars
<1>9. CASE JoinSuccessor \/ EndBlock
  BY <1>1, <1>9 DEF JoinSuccessor, EndBlock, unitVars
<1>10. CASE EndFixpoint \/ NarrowBlock \/ ApplyNarrowing
  BY <1>1, <1>10 DEF EndFixpoint, NarrowBlock, ApplyNarrowing, unitVars
<1> QED
  BY <1>2, <1>3, <1>4, <1>5, <1>6, <1>7, <1>8, <1>9, <1>10 DEF Next, Engine

(* The nesting implies that no lambda is analysed twice.                   *)
LEMMA NestedOnce == TypeInv /\ Nested => LambdasOnce
<1> SUFFICES ASSUME TypeInv, Nested, pc \in {"record", "spread"},
                    NEW l \in Elems(LambdasIn(fn, cur)), l \in Started
             PROVE  FALSE
  BY DEF LambdasOnce, Nested
<1>1. cur \in UnitBlocks(fn, unit) /\ unit \in Unit /\ fn \in Function /\ cur \in Block
  BY DEF TypeInv, TypeOK
<1>2. l \in Lambda /\ l # FuncBody
  BY <1>1, BlockFacts, GraphAssumption
<1>3. PICK i \in 1..worklistIdx : l = lambdaWorklist[i]
  BY <1>2 DEF Started
<1>4. worklistIdx \in Nat /\ worklistIdx <= Len(lambdaWorklist) /\ Len(lambdaWorklist) \in Nat
  BY DEF TypeInv, TypeOK
<1>5. PICK j \in 0..worklistIdx :
        /\ j < i
        /\ \E b \in UnitBlocks(fn, UnitNo(j)) : l \in Elems(LambdasIn(fn, b))
  BY <1>3, <1>4 DEF Nested, CreatedBefore
<1>6. UnitNo(j) \in Unit
  BY <1>4, <1>5, UnitNoFacts
<1>7. cur \in UnitBlocks(fn, UnitNo(j))
  BY <1>1, <1>5, <1>6, UnitFacts, OneCreator
<1>8. UnitNo(j) = UnitNo(worklistIdx)
  BY <1>1, <1>6, <1>7, OneUnit DEF Nested
<1>9. j = worklistIdx
  BY <1>4, <1>5, <1>8, UnitNoFacts DEF Nested
<1> QED BY <1>3, <1>4, <1>5, <1>9

(* The nesting holds at first.                                             *)
LEMMA InitNested == Init => Nested
<1>1. Init => Len(lambdaWorklist) = 0
  BY DEF Init
<1> QED BY <1>1, ElemsEmpty DEF Init, Nested, CreatedBefore, UnitNo

(* No lambda is queued twice, and none is taken up before the unit that    *)
(* creates it is done.                                                     *)
THEOREM LambdasCorrect == Spec => []LambdasOnce
<1>1. Init => TypeInv /\ Nested
  BY InitType, InitNested
<1>2. TypeInv /\ Nested /\ [Next]_vars => (TypeInv /\ Nested)'
  BY NextType, NextNested
<1>3. TypeInv /\ Nested => LambdasOnce
  BY NestedOnce
<1> QED BY <1>1, <1>2, <1>3, PTL DEF Spec

(***************************************************************************)
(* The ascending iteration: a block not queued is settled.                 *)
(***************************************************************************)

(* The blocks of a unit not yet entered are as the engine initialised them.*)
Untouched ==
    \A u \in Unit : u \notin Started => \A b \in UnitBlocks(fn, u) : entrySets[b] = Bottom

(* A step changes entry states in the unit in hand only.                   *)
LEMMA LocalStep ==
    ASSUME TypeInv, Nested, [Next]_vars
    PROVE  /\ fn' = fn
           /\ Started \subseteq Started'
           /\ \A b \in Block : entrySets'[b] # entrySets[b] =>
                  unit' \in Started' /\ b \in UnitBlocks(fn, unit')
<1> DEFINE Local == \A b \in Block : entrySets'[b] # entrySets[b] =>
                       unit' \in Started' /\ b \in UnitBlocks(fn, unit')
<1>1. ASSUME UNCHANGED <<fn, worklistIdx>>,
             pc \notin {"start", "skipped"} => pc' \notin {"start", "skipped"},
             \A i \in 1..worklistIdx : lambdaWorklist'[i] = lambdaWorklist[i]
      PROVE  Started \subseteq Started'
  BY <1>1 DEF Started
<1>2. CASE StartFunction
  <2>1. /\ fn' = fn /\ Started = {} /\ Started' = {FuncBody} /\ unit' = FuncBody
        /\ entrySets' = [entrySets EXCEPT ![UnitEntry(fn, FuncBody)] = FuncEntryState(fn)]
    BY <1>2 DEF StartFunction, EnterUnit, Started, Nested, TypeInv, TypeOK
  <2>2. UnitEntry(fn, FuncBody) \in UnitBlocks(fn, FuncBody)
    BY UnitFacts DEF Unit, TypeInv, TypeOK
  <2> QED BY <2>1, <2>2 DEF TypeInv, TypeOK
<1>3. CASE NextLambda
  <2> DEFINE l == lambdaWorklist[worklistIdx + 1]
  <2>1. l \in Unit /\ worklistIdx \in Nat
    BY <1>3 DEF NextLambda, Unit, TypeInv, TypeOK
  <2>2. UnitEntry(fn, l) \in UnitBlocks(fn, l)
    BY <2>1, UnitFacts DEF TypeInv, TypeOK
  <2>3. /\ UNCHANGED <<fn, lambdaWorklist>> /\ worklistIdx' = worklistIdx + 1
        /\ unit' = l /\ pc = "next" /\ pc' = "pop"
        /\ entrySets' = [entrySets EXCEPT ![UnitEntry(fn, l)] =
                           LambdaEntryState(fn, l, lambdaEnvState[l])]
    BY <1>3 DEF NextLambda, EnterUnit
  <2>4. Started \subseteq Started' /\ l \in Started'
    BY <2>1, <2>3 DEF Started
  <2> QED BY <2>2, <2>3, <2>4 DEF TypeInv, TypeOK
<1>4. CASE RecordLambda
  <2>1. Head(toRecord) \in Lambda
    <3>1. cur \in UnitBlocks(fn, unit) /\ Head(toRecord) \in Elems(LambdasIn(fn, cur))
      BY <1>4, ElemsTail DEF RecordLambda, TypeInv, TypeOK
    <3> QED BY <3>1, BlockFacts DEF TypeInv, TypeOK
  <2>2. \A i \in 1..worklistIdx : lambdaWorklist'[i] = lambdaWorklist[i]
    BY <1>4, <2>1 DEF RecordLambda, TypeInv, TypeOK
  <2> QED BY <1>1, <1>4, <2>2 DEF RecordLambda
<1>5. ASSUME UNCHANGED <<fn, unit, worklistIdx, lambdaWorklist>>,
             pc \notin {"start", "skipped"}, pc' \notin {"start", "skipped"}
      PROVE  Started \subseteq Started' /\ unit' \in Started'
  <2>1. Started' = Started
    BY <1>5 DEF Started
  <2> QED BY <1>5, <2>1, StartedFacts
<1>6. CASE JoinSuccessor
  <2>1. Head(toJoin) \in UnitBlocks(fn, unit)
    <3>1. cur \in UnitBlocks(fn, unit) /\ Head(toJoin) \in Elems(Successors(fn, cur))
      BY <1>6, ElemsTail DEF JoinSuccessor, TypeInv, TypeOK
    <3> QED BY <3>1, BlockFacts DEF TypeInv, TypeOK
  <2>2. \A b \in Block : b # Head(toJoin) => entrySets'[b] = entrySets[b]
    BY <1>6 DEF JoinSuccessor, TypeInv, TypeOK
  <2>3. UNCHANGED <<fn, unit, worklistIdx, lambdaWorklist, pc>> /\ pc = "spread"
    BY <1>6 DEF JoinSuccessor, unitVars
  <2> QED BY <1>5, <2>1, <2>2, <2>3
<1>7. CASE ApplyNarrowing
  <2>1. \A b \in Block : b \notin UnitBlocks(fn, unit) => entrySets'[b] = entrySets[b]
    BY <1>7 DEF ApplyNarrowing, Narrowed, TypeInv, TypeOK
  <2>2. /\ UNCHANGED <<fn, unit, worklistIdx, lambdaWorklist>>
        /\ pc = "narrow" /\ pc' \in {"narrow", "next"}
    BY <1>7 DEF ApplyNarrowing, unitVars
  <2> QED BY <1>5, <2>1, <2>2
<1>8. CASE \/ SkipBlock \/ BeginBlock \/ FinishBlock \/ FinishBlockWithoutBudget \/ EndBlock
           \/ Reject
  BY <1>1, <1>8 DEF SkipBlock, PopBlock, BeginBlock, FinishBlock, FinishBlockWithoutBudget,
     EndBlock, Reject, unitVars
<1>9. CASE EndFixpoint \/ NarrowBlock \/ SetToStable \/ ExhaustBudget \/ UNCHANGED vars
  BY <1>1, <1>9 DEF EndFixpoint, NarrowBlock, SetToStable, ExhaustBudget, unitVars, vars
<1> QED
  BY <1>2, <1>3, <1>4, <1>6, <1>7, <1>8, <1>9 DEF Next, Engine

(* The blocks of units not started keep the state they were given.         *)
LEMMA NextUntouched == TypeInv /\ Nested /\ Untouched /\ [Next]_vars => Untouched'
<1> SUFFICES ASSUME TypeInv, Nested, Untouched, [Next]_vars,
                    NEW u \in Unit, u \notin Started', NEW b \in UnitBlocks(fn, u)
             PROVE  entrySets'[b] = Bottom
  BY LocalStep DEF Untouched
<1>1. u \notin Started /\ entrySets[b] = Bottom
  BY LocalStep DEF Untouched
<1>2. b \in Block /\ unit' \in Unit
  BY UnitFacts, NextType DEF TypeInv, TypeOK
<1>3. CASE entrySets'[b] # entrySets[b]
  BY <1>2, <1>3, LocalStep, OneUnit DEF TypeInv, TypeOK
<1> QED BY <1>1, <1>3

(* What is settled of the block in hand: the lambdas it has recorded, then *)
(* the successors it has joined, unless it has been queued again.          *)
InHand ==
    /\ pc = "record" =>
        \A c \in Gamma(entrySets[cur]) : \A l \in Lambda, d \in Store :
            LambdaStep(fn, cur, c, l, d) =>
                \/ l \in Elems(toRecord)
                \/ /\ l \in Elems(lambdaWorklist)
                   /\ d \in Gamma(LambdaEntryState(fn, l, lambdaEnvState[l]))
    /\ pc = "spread" =>
        \/ cur \in worklistSet
        \/ /\ LambdasCovered(cur)
           /\ \A c \in Gamma(entrySets[cur]) : \A t \in Block, d \in Store :
                EdgeStep(fn, cur, c, t, d) =>
                    \/ d \in Gamma(entrySets[t])
                    \/ t \in Elems(toJoin) /\ d \in Gamma(EdgeState(fn, cur, out, t))

SettledInv == Untouched /\ Settled /\ InHand

(* What the domain's assumptions say of the stores of a state.             *)
LEMMA GammaFacts ==
    ASSUME NEW s \in State, NEW t \in State
    PROVE  /\ Gamma(Bottom) = {}
           /\ Gamma(s) \subseteq Gamma(Join(s, t))
           /\ Gamma(t) \subseteq Gamma(Join(s, t))
           /\ ~JoinChanged(s, t) => Join(s, t) = s
           /\ Gamma(s) \subseteq Gamma(ClearState(s))
           /\ \A f \in Function : Gamma(t) \subseteq Gamma(Widen(f, s, t))
           /\ Gamma(s) \cap Gamma(t) \subseteq Gamma(Narrow(s, t))
BY LatticeAssumption

(* Entering unit u: only its entry block can have a state, and it is       *)
(* queued.                                                                 *)
LEMMA EnterUnitSettled ==
    ASSUME TypeInv, TypeInv', NEW u \in Unit, NEW states \in [Block -> State],
           EnterUnit(u, states), fn' = fn,
           \A b \in UnitBlocks(fn, u) : b # UnitEntry(fn, u) => states[b] = Bottom
    PROVE  Settled' /\ InHand'
<1>1. pc' = "pop" /\ entrySets' = states /\ unit' = u
  BY DEF EnterUnit
<1>2. UnitEntry(fn, u) \in worklistSet'
  BY GraphAssumption DEF EnterUnit, TypeInv, TypeOK
<1>3. ASSUME NEW b \in UnitBlocks(fn, u), b # UnitEntry(fn, u)
      PROVE  (EdgesCovered(b) /\ LambdasCovered(b))'
  <2>1. Gamma(entrySets'[b]) = {}
    BY <1>1, <1>3, LatticeAssumption
  <2> QED BY <2>1 DEF EdgesCovered, LambdasCovered
<1> QED BY <1>1, <1>2, <1>3 DEF Settled, InHand

(* What is passed on stays so while no state changes.                      *)
LEMMA CoveredStays ==
    ASSUME NEW b \in Block, UNCHANGED <<fn, entrySets, lambdaWorklist, lambdaEnvState>>
    PROVE  /\ EdgesCovered(b) => EdgesCovered(b)'
           /\ LambdasCovered(b) => LambdasCovered(b)'
BY DEF EdgesCovered, LambdasCovered

(* Recording a lambda's environment keeps the blocks settled.              *)
LEMMA RecordSettled ==
    ASSUME TypeInv, Settled, InHand, RecordLambda
    PROVE  Settled' /\ InHand'
<1> DEFINE l == Head(toRecord)
           e == EnvAt(fn, cur, l, entrySets[cur])
<1>1. /\ cur \in UnitBlocks(fn, unit) /\ cur \in Block
      /\ l \in Elems(LambdasIn(fn, cur)) /\ l \in Lambda
      /\ Elems(toRecord) = Elems(toRecord') \cup {l}
  <2>1. cur \in UnitBlocks(fn, unit) /\ cur \in Block
    BY DEF RecordLambda, TypeInv, TypeOK
  <2>2. /\ l \in Elems(LambdasIn(fn, cur))
        /\ Elems(toRecord) = Elems(toRecord') \cup {l}
    BY ElemsTail DEF RecordLambda, TypeInv, TypeOK
  <2> QED BY <2>1, <2>2, BlockFacts DEF TypeInv, TypeOK
<1>2. UNCHANGED <<fn, pc, unit, entrySets, cur, worklistSet>> /\ pc = "record"
  BY DEF RecordLambda, queueVars
<1> HIDE DEF l, e
<1>3. /\ lambdaEnvState' = Assign(lambdaEnvState, l, e)
      /\ Elems(lambdaWorklist) \subseteq Elems(lambdaWorklist') /\ l \in Elems(lambdaWorklist')
  <2>1. lambdaEnvState' = Assign(lambdaEnvState, l, e)
    BY DEF RecordLambda, l, e
  <2>2. lambdaWorklist' = IF l \in Elems(lambdaWorklist) THEN lambdaWorklist
                          ELSE Append(lambdaWorklist, l)
    BY DEF RecordLambda, l
  <2> QED BY <1>1, <2>1, <2>2, ElemsAppend DEF TypeInv, TypeOK
<1>4. /\ lambdaEnvState'[l] = e
      /\ \A x \in Elems(lambdaWorklist) : x # l => lambdaEnvState'[x] = lambdaEnvState[x]
  <2>1. DOMAIN lambdaEnvState = Elems(lambdaWorklist)
    BY DEF TypeInv, TypeOK
  <2>2. /\ Assign(lambdaEnvState, l, e)[l] = e
        /\ \A x \in DOMAIN lambdaEnvState :
               x # l => Assign(lambdaEnvState, l, e)[x] = lambdaEnvState[x]
    BY DEF Assign
  <2> QED BY <1>3, <2>1, <2>2
<1>5. ASSUME NEW b \in UnitBlocks(fn, unit), b # cur, EdgesCovered(b), LambdasCovered(b)
      PROVE  EdgesCovered(b)' /\ LambdasCovered(b)'
  <2>1. EdgesCovered(b)'
    BY <1>2, <1>5 DEF EdgesCovered
  <2>2. b \in Block /\ l \notin Elems(LambdasIn(fn, b))
    BY <1>1, <1>5, OneCreator, UnitFacts DEF TypeInv, TypeOK
  <2>3. LambdasCovered(b)'
    BY <1>2, <1>3, <1>4, <1>5, <2>2 DEF LambdasCovered, LambdaStep
  <2> QED BY <2>1, <2>3
<1>6. Settled'
  BY <1>2, <1>5 DEF Settled, Ascending
<1>7. InHand'
  <2> SUFFICES ASSUME NEW c \in Gamma(entrySets[cur]), NEW x \in Lambda, NEW d \in Store,
                      LambdaStep(fn, cur, c, x, d), x \notin Elems(toRecord')
               PROVE  /\ x \in Elems(lambdaWorklist')
                      /\ d \in Gamma(LambdaEntryState(fn, x, lambdaEnvState'[x]))
    BY <1>2 DEF InHand
  <2>1. CASE x = l
    <3>1. d \in Gamma(LambdaEntryState(fn, l, e))
      BY <1>1, <2>1, TransferAssumption DEF e, LambdaStep, TypeInv, TypeOK
    <3> QED BY <1>3, <1>4, <2>1, <3>1
  <2>2. CASE x # l
    BY <1>1, <1>2, <1>3, <1>4, <2>2 DEF InHand
  <2> QED BY <2>1, <2>2
<1> QED BY <1>6, <1>7

(* The end of a block: every step out of its entry state is on an edge     *)
(* still to be joined.                                                     *)
LEMMA FinishSettled ==
    ASSUME TypeInv, Settled, InHand, NEW s \in State,
           pc = "record", toRecord = <<>>, pc' = "spread",
           UNCHANGED <<fn, unit, entrySets, cur, worklistSet, lambdaWorklist, lambdaEnvState>>,
           Gamma(Effect(fn, cur, entrySets[cur])) \subseteq Gamma(s), out' = s,
           Elems(Targets(fn, cur, entrySets[cur])) \subseteq Elems(toJoin')
    PROVE  Settled' /\ InHand'
<1>1. cur \in Block /\ cur \in UnitBlocks(fn, unit) /\ entrySets[cur] \in State
  BY DEF TypeInv, TypeOK
<1>2. LambdasCovered(cur)'
  BY ElemsEmpty DEF InHand, LambdasCovered
<1>3. ASSUME NEW c \in Gamma(entrySets[cur]), NEW t \in Block, NEW d \in Store,
             EdgeStep(fn, cur, c, t, d)
      PROVE  t \in Elems(toJoin') /\ d \in Gamma(EdgeState(fn, cur, out', t))
  <2>1. d \in Run(fn, cur, c) /\ t \in Takes(fn, cur, d)
    BY <1>3 DEF EdgeStep
  <2>2. /\ d \in Gamma(Effect(fn, cur, entrySets[cur]))
        /\ t \in Elems(Targets(fn, cur, entrySets[cur]))
    BY <1>1, <2>1, TransferAssumption DEF TypeInv, TypeOK
  <2>3. d \in Gamma(EdgeState(fn, cur, s, t))
    BY <1>1, <2>1, <2>2, TransferAssumption DEF TypeInv, TypeOK
  <2> QED BY <2>2, <2>3
<1>4. InHand'
  BY <1>2, <1>3 DEF InHand
<1>5. Settled'
  BY CoveredStays, UnitFacts DEF Settled, Ascending, TypeInv, TypeOK
<1> QED BY <1>4, <1>5

(* Joining a successor settles the edge and requeues what grew.            *)
LEMMA JoinSettled ==
    ASSUME TypeInv, Settled, InHand, JoinSuccessor
    PROVE  Settled' /\ InHand'
<1> DEFINE t == Head(toJoin)
           s == EdgeState(fn, cur, out, t)
           changed == JoinChanged(entrySets[t], s)
<1>1. /\ cur \in UnitBlocks(fn, unit) /\ cur \in Block
      /\ Elems(toJoin) = Elems(toJoin') \cup {t}
      /\ t \in Elems(Successors(fn, cur))
  BY ElemsTail DEF JoinSuccessor, TypeInv, TypeOK
<1>2. t \in UnitBlocks(fn, unit) /\ t \in Block
  BY <1>1, BlockFacts DEF TypeInv, TypeOK
<1>3. s \in State /\ changed \in BOOLEAN /\ entrySets[t] \in State
  BY <1>1, <1>2, TransferTypes, DomainTypes DEF TypeInv, TypeOK
<1> HIDE DEF t, s, changed
<1>4. /\ entrySets' = [entrySets EXCEPT ![t] = Join(entrySets[t], s)]
      /\ worklistSet' = worklistSet \cup (IF changed THEN {t} ELSE {})
      /\ UNCHANGED <<fn, unit, pc, cur, out, lambdaWorklist, lambdaEnvState>>
      /\ pc = "spread"
  <2>1. Requeue(t, changed)
    BY DEF JoinSuccessor, t, s, changed
  <2>2. worklistSet' = worklistSet \cup (IF changed THEN {t} ELSE {})
    BY <1>2, <1>3, <2>1, RequeueType DEF TypeInv, TypeOK
  <2> QED BY <2>2 DEF JoinSuccessor, unitVars, t, s
<1>5. \A b \in Block : Gamma(entrySets[b]) \subseteq Gamma(entrySets'[b])
  BY <1>2, <1>3, <1>4, GammaFacts DEF TypeInv, TypeOK
<1>6. ASSUME NEW b \in Block, b \notin worklistSet'
      PROVE  entrySets'[b] = entrySets[b] /\ b \notin worklistSet
  <2>1. CASE b # t
    BY <1>4, <1>6, <2>1 DEF TypeInv, TypeOK
  <2>2. CASE b = t
    <3>1. ~changed
      BY <1>4, <1>6, <2>2
    <3>2. Join(entrySets[t], s) = entrySets[t]
      BY <1>3, <3>1, GammaFacts DEF changed
    <3> QED BY <1>4, <1>6, <2>2, <3>2 DEF TypeInv, TypeOK
  <2> QED BY <2>1, <2>2
<1>7. ASSUME NEW b \in Block, b \notin worklistSet', LambdasCovered(b)
      PROVE  LambdasCovered(b)'
  BY <1>4, <1>6, <1>7 DEF LambdasCovered
<1>8. ASSUME NEW b \in Block, b \notin worklistSet', EdgesCovered(b)
      PROVE  EdgesCovered(b)'
  BY <1>4, <1>5, <1>6, <1>8 DEF EdgesCovered
<1>9. Settled'
  <2> SUFFICES ASSUME NEW b \in UnitBlocks(fn, unit), b \notin worklistSet', b # cur
               PROVE  EdgesCovered(b)' /\ LambdasCovered(b)'
    BY <1>4 DEF Settled, Ascending
  <2>1. b \in Block
    BY UnitFacts DEF TypeInv, TypeOK
  <2>2. EdgesCovered(b) /\ LambdasCovered(b)
    BY <1>4, <1>6, <2>1 DEF Settled, Ascending
  <2> QED BY <1>7, <1>8, <2>1, <2>2
<1>10. InHand'
  <2> SUFFICES ASSUME cur \notin worklistSet'
               PROVE  /\ LambdasCovered(cur)'
                      /\ \A c \in Gamma(entrySets'[cur]) : \A x \in Block, d \in Store :
                           EdgeStep(fn, cur, c, x, d) =>
                             \/ d \in Gamma(entrySets'[x])
                             \/ x \in Elems(toJoin') /\ d \in Gamma(EdgeState(fn, cur, out, x))
    <3>1. (InHand)' <=> (cur \in worklistSet' \/
             /\ LambdasCovered(cur)'
             /\ \A c \in Gamma(entrySets'[cur]) : \A x \in Block, d \in Store :
                           EdgeStep(fn, cur, c, x, d) =>
                             \/ d \in Gamma(entrySets'[x])
                             \/ x \in Elems(toJoin') /\ d \in Gamma(EdgeState(fn, cur, out, x)))
      BY <1>4 DEF InHand, LambdasCovered
    <3> QED BY <3>1
  <2>1. entrySets'[cur] = entrySets[cur] /\ cur \notin worklistSet
    BY <1>1, <1>6
  <2>2. LambdasCovered(cur)'
    BY <1>1, <1>4, <1>7, <2>1 DEF InHand
  <2>3. ASSUME NEW c \in Gamma(entrySets[cur]), NEW x \in Block, NEW d \in Store,
               EdgeStep(fn, cur, c, x, d), d \notin Gamma(entrySets'[x])
        PROVE  x \in Elems(toJoin') /\ d \in Gamma(EdgeState(fn, cur, out, x))
    <3>1. x \in Elems(toJoin) /\ d \in Gamma(EdgeState(fn, cur, out, x))
      BY <1>4, <1>5, <2>1, <2>3 DEF InHand
    <3>2. CASE x = t
      <4>1. d \in Gamma(s)
        BY <3>1, <3>2 DEF s
      <4>2. entrySets'[t] = Join(entrySets[t], s)
        BY <1>2, <1>4 DEF TypeInv, TypeOK
      <4> QED BY <1>3, <2>3, <3>2, <4>1, <4>2, GammaFacts
    <3> QED BY <1>1, <3>1, <3>2 DEF t
  <2> QED BY <2>1, <2>2, <2>3
<1> QED BY <1>9, <1>10

(* Every step keeps the blocks settled.                                    *)
LEMMA NextSettled == TypeInv /\ Nested /\ SettledInv /\ [Next]_vars => SettledInv'
<1> SUFFICES ASSUME TypeInv, Nested, SettledInv, [Next]_vars
             PROVE  Settled' /\ InHand'
  BY NextUntouched DEF SettledInv
<1> USE DEF SettledInv
<1>1. TypeInv'
  BY NextType
<1>2. CASE StartFunction
  <2> DEFINE states == [entrySets EXCEPT ![UnitEntry(fn, FuncBody)] = FuncEntryState(fn)]
  <2>1. FuncBody \in Unit /\ FuncBody \notin Started
    BY <1>2 DEF StartFunction, Unit, Started
  <2>2. states \in [Block -> State]
    BY DomainAssumption DEF TypeInv, TypeOK
  <2>3. \A b \in UnitBlocks(fn, FuncBody) : b # UnitEntry(fn, FuncBody) => states[b] = Bottom
    BY <2>1, UnitFacts DEF Untouched, TypeInv, TypeOK
  <2> HIDE DEF states
  <2>4. EnterUnit(FuncBody, states) /\ fn' = fn
    BY <1>2 DEF StartFunction, states
  <2> QED BY <1>1, <2>1, <2>2, <2>3, <2>4, EnterUnitSettled
<1>3. CASE NextLambda
  <2> DEFINE l == lambdaWorklist[worklistIdx + 1]
             states == [entrySets EXCEPT ![UnitEntry(fn, l)] =
                           LambdaEntryState(fn, l, lambdaEnvState[l])]
  <2>1. /\ l \in Lambda /\ l \in Unit /\ l \in Elems(lambdaWorklist)
        /\ worklistIdx \in Nat /\ worklistIdx + 1 \in 0..Len(lambdaWorklist)
        /\ l = UnitNo(worklistIdx + 1)
    BY <1>3, ElemsSeq DEF NextLambda, Unit, UnitNo, TypeInv, TypeOK
  <2>2. pc = "next"
    BY <1>3 DEF NextLambda
  <2>3. l \notin Started
    <3>1. \A j \in 0..worklistIdx : UnitNo(j) # l
      BY <2>1, UnitNoFacts DEF Nested
    <3> QED BY <2>2, <3>1, StartedFacts
  <2>4. states \in [Block -> State]
    BY <2>1, DomainAssumption DEF TypeInv, TypeOK
  <2>5. \A b \in UnitBlocks(fn, l) : b # UnitEntry(fn, l) => states[b] = Bottom
    BY <2>1, <2>3, UnitFacts DEF Untouched, TypeInv, TypeOK
  <2> HIDE DEF l, states
  <2>6. EnterUnit(l, states) /\ fn' = fn
    BY <1>3 DEF NextLambda, l, states
  <2> QED BY <1>1, <2>1, <2>4, <2>5, <2>6, EnterUnitSettled
<1>4. CASE SkipBlock
  <2>1. /\ UNCHANGED <<fn, unit, pc, entrySets, lambdaWorklist, lambdaEnvState, cur>>
        /\ pc = "pop" /\ worklistSet' = worklistSet \ {Head(worklist)}
        /\ entrySets[Head(worklist)] = Bottom
    BY <1>4 DEF SkipBlock, PopBlock, unitVars, blockVars
  <2>2. ASSUME NEW b \in UnitBlocks(fn, unit), b = Head(worklist)
        PROVE  EdgesCovered(b)' /\ LambdasCovered(b)'
    BY <2>1, <2>2, GammaFacts DEF EdgesCovered, LambdasCovered, TypeInv, TypeOK
  <2> QED BY <2>1, <2>2, CoveredStays, UnitFacts DEF Settled, InHand, Ascending, TypeInv, TypeOK
<1>5. CASE BeginBlock
  <2>1. /\ UNCHANGED <<fn, unit, entrySets, lambdaWorklist, lambdaEnvState>>
        /\ pc = "pop" /\ pc' = "record" /\ worklistSet' = worklistSet \ {Head(worklist)}
        /\ cur' = Head(worklist) /\ toRecord' = LambdasIn(fn, cur')
    BY <1>5 DEF BeginBlock, PopBlock, unitVars
  <2>2. Settled'
    BY <2>1, CoveredStays, UnitFacts DEF Settled, Ascending, TypeInv, TypeOK
  <2>3. InHand'
    BY <2>1 DEF InHand, LambdaStep
  <2> QED BY <2>2, <2>3
<1>6. CASE RecordLambda
  BY <1>6, RecordSettled
<1>7. CASE FinishBlock
  <2> DEFINE n == inqueueTimes[cur] + 1
             e == Effect(fn, cur, entrySets[cur])
             s == Widened(cur, n, e)
  <2>1. cur \in UnitBlocks(fn, unit) /\ cur \in Block /\ e \in State
    BY <1>7, TransferTypes DEF FinishBlock, TypeInv, TypeOK
  <2>2. s \in State /\ Gamma(e) \subseteq Gamma(s)
    <3>1. CASE s = e
      BY <2>1, <3>1
    <3>2. CASE s # e
      <4>1. cur \in DOMAIN snapshots /\ s = Widen(fn, snapshots[cur], e)
        BY <3>2 DEF Widened
      <4> QED BY <2>1, <4>1, GammaFacts, DomainAssumption DEF TypeInv, TypeOK
    <3> QED BY <3>1, <3>2
  <2> HIDE DEF n, s
  <2>3. /\ out' = IF CutOff(n) THEN ClearState(s) ELSE s
        /\ toJoin' = IF CutOff(n) THEN Successors(fn, cur)
                     ELSE Targets(fn, cur, entrySets[cur])
    BY <1>7 DEF FinishBlock, n, s
  <2>4. out' \in State /\ Gamma(e) \subseteq Gamma(out')
    BY <2>2, <2>3, GammaFacts, DomainAssumption
  <2>5. Elems(Targets(fn, cur, entrySets[cur])) \subseteq Elems(toJoin')
    BY <2>1, <2>3, TransferTypes DEF TypeInv, TypeOK
  <2>6. /\ pc = "record" /\ toRecord = <<>> /\ pc' = "spread"
        /\ UNCHANGED <<fn, unit, entrySets, cur, worklistSet, lambdaWorklist, lambdaEnvState>>
    BY <1>7 DEF FinishBlock, unitVars, queueVars
  <2> QED BY <2>4, <2>5, <2>6, FinishSettled
<1>8. CASE FinishBlockWithoutBudget
  <2> DEFINE e == Effect(fn, cur, entrySets[cur])
  <2>1. cur \in UnitBlocks(fn, unit) /\ cur \in Block /\ e \in State
    BY <1>8, TransferTypes DEF FinishBlockWithoutBudget, TypeInv, TypeOK
  <2>2. out' = ClearState(e) /\ toJoin' = Successors(fn, cur)
    BY <1>8 DEF FinishBlockWithoutBudget
  <2>3. out' \in State /\ Gamma(e) \subseteq Gamma(out')
    BY <2>1, <2>2, GammaFacts, DomainAssumption
  <2>4. Elems(Targets(fn, cur, entrySets[cur])) \subseteq Elems(toJoin')
    BY <2>1, <2>2, TransferTypes DEF TypeInv, TypeOK
  <2>5. /\ pc = "record" /\ toRecord = <<>> /\ pc' = "spread"
        /\ UNCHANGED <<fn, unit, entrySets, cur, worklistSet, lambdaWorklist, lambdaEnvState>>
    BY <1>8 DEF FinishBlockWithoutBudget, unitVars, queueVars
  <2> QED BY <2>3, <2>4, <2>5, FinishSettled
<1>9. CASE JoinSuccessor
  BY <1>9, JoinSettled
<1>10. CASE EndBlock
  <2>1. /\ UNCHANGED <<fn, unit, entrySets, lambdaWorklist, lambdaEnvState, cur, worklistSet>>
        /\ pc = "spread" /\ pc' = "pop" /\ toJoin = <<>>
    BY <1>10 DEF EndBlock, unitVars, queueVars, blockVars
  <2>2. cur \in worklistSet \/ (EdgesCovered(cur) /\ LambdasCovered(cur))
    <3>1. Elems(toJoin) = {}
      BY <2>1, ElemsEmpty
    <3> QED BY <2>1, <3>1 DEF InHand, EdgesCovered
  <2> QED BY <2>1, <2>2, CoveredStays, UnitFacts DEF Settled, InHand, Ascending, TypeInv, TypeOK
<1>11. CASE Reject \/ EndFixpoint \/ NarrowBlock \/ ApplyNarrowing \/ SetToStable
  <2>1. pc' \notin {"pop", "record", "spread"}
    BY <1>11 DEF Reject, EndFixpoint, NarrowBlock, ApplyNarrowing, SetToStable
  <2> QED BY <2>1 DEF Settled, InHand, Ascending
<1>12. CASE ExhaustBudget \/ UNCHANGED vars
  <2>1. UNCHANGED <<fn, unit, pc, entrySets, lambdaWorklist, lambdaEnvState, cur, worklistSet,
                    toRecord, toJoin, out>>
    BY <1>12 DEF ExhaustBudget, vars, unitVars, queueVars, blockVars
  <2>2. Settled'
    BY <2>1, CoveredStays, UnitFacts DEF Settled, Ascending, TypeInv, TypeOK
  <2>3. InHand'
    BY <2>1 DEF InHand, LambdasCovered
  <2> QED BY <2>2, <2>3
<1> QED
  BY <1>2, <1>3, <1>4, <1>5, <1>6, <1>7, <1>8, <1>9, <1>10, <1>11, <1>12 DEF Next, Engine

(* No block is settled wrongly at first.                                   *)
LEMMA InitSettled == Init => SettledInv
BY UnitFacts DEF Init, SettledInv, Untouched, Settled, InHand, Ascending

(* A block of the unit that is neither queued nor in hand is settled.      *)
THEOREM SettledCorrect == Spec => []Settled
<1>1. Init => TypeInv /\ Nested /\ SettledInv
  BY InitType, InitNested, InitSettled
<1>2. TypeInv /\ Nested /\ SettledInv /\ [Next]_vars => (TypeInv /\ Nested /\ SettledInv)'
  BY NextType, NextNested, NextSettled
<1>3. SettledInv => Settled
  BY DEF SettledInv
<1> QED BY <1>1, <1>2, <1>3, PTL DEF Spec

(***************************************************************************)
(* Soundness.                                                              *)
(***************************************************************************)

(* Store c can be the one unit u is entered with, by a call of the function *)
(* or of the lambda.                                                       *)
FromOutside(u, c) ==
    \/ StartsAt(fn, UnitEntry(fn, u), c)
    \/ \E p \in Block : \E d \in Reach(fn, p), l \in Lambda :
          UnitEntry(fn, u) = UnitEntry(fn, l) /\ LambdaStep(fn, p, d, l, c)

(* The seed of the current unit describes them, and stays described.       *)
SeedInv ==
    /\ Ascending => Gamma(entrySeed) \subseteq Gamma(entrySets[UnitEntry(fn, unit)])
    /\ pc \notin {"start", "skipped"} =>
         \A c \in Reach(fn, UnitEntry(fn, unit)) : FromOutside(unit, c) => c \in Gamma(entrySeed)

(* The states of unit u describe what executions reach, and so do those    *)
(* its lambdas will be entered in.                                         *)
BlockDone(b) ==
    \A c \in Reach(fn, b) :
        /\ c \in Gamma(entrySets[b])
        /\ \A l \in Lambda, d \in Store :
             LambdaStep(fn, b, c, l, d) =>
                /\ l \in Elems(lambdaWorklist)
                /\ d \in Gamma(LambdaEntryState(fn, l, lambdaEnvState[l]))

UnitDone(u) == \A b \in UnitBlocks(fn, u) : BlockDone(b)

DoneInv ==
    \A j \in 0..worklistIdx :
        j < worklistIdx \/ pc \in {"narrow", "next", "stable"} => UnitDone(UnitNo(j))

(* A narrowing round: the candidates describe what is entered from outside *)
(* and over the edges of the blocks propagated so far.                     *)
CandidateInv ==
    pc = "narrow" =>
        /\ \A c \in Reach(fn, UnitEntry(fn, unit)) :
             FromOutside(unit, c) => c \in Gamma(candidates[UnitEntry(fn, unit)])
        /\ \A p \in UnitBlocks(fn, unit) : p \notin Elems(narrowRest) =>
             \A c \in Reach(fn, p), t \in Block, d \in Store :
                 EdgeStep(fn, p, c, t, d) => d \in Gamma(candidates[t])

SoundInv == SeedInv /\ DoneInv /\ CandidateInv

(* Where a reached store comes from: from outside the unit, or over an     *)
(* edge of the unit in fewer steps.                                        *)
LEMMA Origin ==
    ASSUME fn \in Function, NEW u \in Unit, NEW b \in UnitBlocks(fn, u), NEW c \in Reach(fn, b)
    PROVE  /\ Depth(fn, b, c) \in Nat /\ c \in Store
           /\ \/ b = UnitEntry(fn, u) /\ FromOutside(u, c)
              \/ \E p \in UnitBlocks(fn, u) : \E d \in Reach(fn, p) :
                    /\ Depth(fn, p, d) < Depth(fn, b, c)
                    /\ EdgeStep(fn, p, d, b, c)
                    /\ b \in Elems(Successors(fn, p))
<1>1. b \in Block
  BY UnitFacts
<1>2. /\ Depth(fn, b, c) \in Nat /\ c \in Store
      /\ StartsAt(fn, b, c) \/ HasOrigin(fn, b, c)
  BY <1>1, ReachAssumption
<1>3. CASE StartsAt(fn, b, c)
  <2>1. b = UnitEntry(fn, FuncBody) /\ FuncBody \in Unit
    BY <1>3 DEF StartsAt, Unit
  <2>2. u = FuncBody
    BY <2>1, UnitFacts, OneUnit
  <2> QED BY <1>2, <1>3, <2>1, <2>2 DEF FromOutside
<1>4. CASE HasOrigin(fn, b, c)
  <2>1. PICK p \in Block : \E d \in Reach(fn, p) :
          /\ Depth(fn, p, d) < Depth(fn, b, c)
          /\ \/ EdgeStep(fn, p, d, b, c)
             \/ \E l \in Lambda : b = UnitEntry(fn, l) /\ LambdaStep(fn, p, d, l, c)
    BY <1>4 DEF HasOrigin
  <2>2. PICK d \in Reach(fn, p) :
          /\ Depth(fn, p, d) < Depth(fn, b, c)
          /\ \/ EdgeStep(fn, p, d, b, c)
             \/ \E l \in Lambda : b = UnitEntry(fn, l) /\ LambdaStep(fn, p, d, l, c)
    BY <2>1
  <2>3. CASE EdgeStep(fn, p, d, b, c)
    <3>1. b \in Elems(Successors(fn, p))
      BY <1>2, <2>3, ReachAssumption DEF EdgeStep
    <3>2. PICK v \in Unit : p \in UnitBlocks(fn, v)
      BY ReachAssumption
    <3>3. b \in UnitBlocks(fn, v)
      BY <3>1, <3>2, BlockFacts
    <3>4. u = v
      BY <3>3, OneUnit
    <3> QED BY <1>2, <2>2, <2>3, <3>1, <3>2, <3>4
  <2>4. CASE \E l \in Lambda : b = UnitEntry(fn, l) /\ LambdaStep(fn, p, d, l, c)
    <3>1. PICK l \in Lambda : b = UnitEntry(fn, l) /\ LambdaStep(fn, p, d, l, c)
      BY <2>4
    <3>2. l \in Unit /\ u = l
      BY <3>1, UnitFacts, OneUnit DEF Unit
    <3> QED BY <1>2, <3>1, <3>2 DEF FromOutside
  <2> QED BY <2>2, <2>3, <2>4
<1> QED BY <1>2, <1>3, <1>4

(* Induction on the length of executions, for the configurations of a unit:*)
(* if some of them are outside B, one is that no other precedes.           *)
LEMMA LeastDepth ==
    ASSUME fn \in Function, NEW Bad, Bad # {},
           \A x \in Bad : x[1] \in Block /\ x[2] \in Reach(fn, x[1])
    PROVE  \E x \in Bad : \A y \in Bad : ~(Depth(fn, y[1], y[2]) < Depth(fn, x[1], x[2]))
<1> DEFINE D == {Depth(fn, x[1], x[2]) : x \in Bad}
<1>1. D \subseteq Nat /\ D # {}
  BY ReachAssumption
<1> HIDE DEF D
<1>2. PICK n \in D : \A m \in D : n <= m
  <2> DEFINE R == OpToRel(<, Nat)
  <2>1. PICK n \in D : \A m \in D : ~(<<m, n>> \in R)
    BY <1>1, NatLessThanWellFounded, WFMin
  <2>2. \A m \in Nat, k \in Nat : m < k => <<m, k>> \in R
    BY DEF OpToRel
  <2> HIDE DEF R
  <2>3. ASSUME NEW m \in D
        PROVE  n <= m
    <3>1. m \in Nat /\ n \in Nat
      BY <1>1
    <3>2. ~(m < n)
      BY <2>1, <2>2, <3>1
    <3> QED BY <3>1, <3>2
  <2> QED BY <2>3
<1>3. PICK x \in Bad : n = Depth(fn, x[1], x[2])
  BY <1>2 DEF D
<1>4. ASSUME NEW y \in Bad, Depth(fn, y[1], y[2]) < Depth(fn, x[1], x[2])
      PROVE  FALSE
  <2> DEFINE m == Depth(fn, y[1], y[2])
  <2>1. m \in D /\ m \in Nat /\ n \in Nat
    BY <1>1 DEF D
  <2>2. n <= m /\ m < n
    BY <1>2, <1>3, <1>4, <2>1
  <2> HIDE DEF m
  <2> QED BY <2>1, <2>2
<1> QED BY <1>4

(* The fixpoint is sound: when every block of the unit is settled, its     *)
(* states describe what executions reach.                                  *)
LEMMA FixpointSound ==
    ASSUME TypeInv, SeedInv, pc = "pop",
           \A b \in UnitBlocks(fn, unit) : EdgesCovered(b) /\ LambdasCovered(b)
    PROVE  UnitDone(unit)
<1>1. fn \in Function /\ unit \in Unit /\ UnitBlocks(fn, unit) \subseteq Block
  BY UnitFacts DEF TypeInv, TypeOK
<1> DEFINE Bad == {x \in UnitBlocks(fn, unit) \X Store :
                     x[2] \in Reach(fn, x[1]) /\ x[2] \notin Gamma(entrySets[x[1]])}
<1>2. Bad = {}
  <2> SUFFICES ASSUME Bad # {} PROVE FALSE
    OBVIOUS
  <2>1. \A x \in Bad : x[1] \in Block /\ x[2] \in Reach(fn, x[1])
    BY <1>1
  <2>2. PICK x \in Bad : \A y \in Bad : ~(Depth(fn, y[1], y[2]) < Depth(fn, x[1], x[2]))
    <3> HIDE DEF Bad
    <3> QED BY <1>1, <2>1, LeastDepth
  <2> DEFINE b == x[1]
             c == x[2]
  <2>3. b \in UnitBlocks(fn, unit) /\ c \in Reach(fn, b) /\ c \notin Gamma(entrySets[b])
    BY <2>2
  <2>4. \A p \in UnitBlocks(fn, unit) : \A d \in Reach(fn, p) :
           Depth(fn, p, d) < Depth(fn, b, c) => d \in Gamma(entrySets[p])
    <3> SUFFICES ASSUME NEW p \in UnitBlocks(fn, unit), NEW d \in Reach(fn, p),
                        Depth(fn, p, d) < Depth(fn, b, c), d \notin Gamma(entrySets[p])
                 PROVE  FALSE
      OBVIOUS
    <3>1. d \in Store
      BY <1>1, ReachAssumption
    <3>2. <<p, d>> \in Bad
      BY <3>1
    <3> QED BY <2>2, <3>2
  <2> HIDE DEF Bad, b, c
  <2>5. CASE b = UnitEntry(fn, unit) /\ FromOutside(unit, c)
    BY <2>3, <2>5 DEF SeedInv, Ascending
  <2>6. CASE \E p \in UnitBlocks(fn, unit) : \E d \in Reach(fn, p) :
                    /\ Depth(fn, p, d) < Depth(fn, b, c)
                    /\ EdgeStep(fn, p, d, b, c)
    <3>1. PICK p \in UnitBlocks(fn, unit) : \E d \in Reach(fn, p) :
                    /\ Depth(fn, p, d) < Depth(fn, b, c)
                    /\ EdgeStep(fn, p, d, b, c)
      BY <2>6
    <3>2. PICK d \in Reach(fn, p) :
                    /\ Depth(fn, p, d) < Depth(fn, b, c)
                    /\ EdgeStep(fn, p, d, b, c)
      BY <3>1
    <3>3. d \in Gamma(entrySets[p]) /\ b \in Block /\ c \in Store
      BY <1>1, <2>3, <2>4, <3>2, ReachAssumption
    <3> QED BY <2>3, <3>2, <3>3 DEF EdgesCovered
  <2> QED BY <1>1, <2>3, <2>5, <2>6, Origin
<1>3. \A b \in UnitBlocks(fn, unit) : \A c \in Reach(fn, b) : c \in Gamma(entrySets[b])
  <2> SUFFICES ASSUME NEW b \in UnitBlocks(fn, unit), NEW c \in Reach(fn, b),
                      c \notin Gamma(entrySets[b])
               PROVE  FALSE
    OBVIOUS
  <2>1. c \in Store
    BY <1>1, ReachAssumption
  <2>2. <<b, c>> \in Bad
    BY <2>1
  <2> QED BY <1>2, <2>2
<1> QED BY <1>3 DEF UnitDone, BlockDone, LambdasCovered

(* Executions enter listed blocks only: edges do not leave the initial     *)
(* work list.                                                              *)
LEMMA ReachListed ==
    ASSUME fn \in Function, NEW u \in Unit, NEW b \in UnitBlocks(fn, u),
           b \notin Elems(TopologicalSort(fn, u))
    PROVE  Reach(fn, b) = {}
<1>1. UnitBlocks(fn, u) \subseteq Block
  BY UnitFacts
<1> DEFINE Bad == {x \in UnitBlocks(fn, u) \X Store :
                     x[2] \in Reach(fn, x[1]) /\ x[1] \notin Elems(TopologicalSort(fn, u))}
<1>2. Bad = {}
  <2> SUFFICES ASSUME Bad # {} PROVE FALSE
    OBVIOUS
  <2>1. \A x \in Bad : x[1] \in Block /\ x[2] \in Reach(fn, x[1])
    BY <1>1
  <2>2. PICK x \in Bad : \A y \in Bad : ~(Depth(fn, y[1], y[2]) < Depth(fn, x[1], x[2]))
    <3> HIDE DEF Bad
    <3> QED BY <2>1, LeastDepth
  <2> DEFINE a == x[1]
             c == x[2]
  <2>3. /\ a \in UnitBlocks(fn, u) /\ c \in Reach(fn, a)
        /\ a \notin Elems(TopologicalSort(fn, u))
    BY <2>2
  <2>4. \A p \in UnitBlocks(fn, u) : \A d \in Reach(fn, p) :
           Depth(fn, p, d) < Depth(fn, a, c) => p \in Elems(TopologicalSort(fn, u))
    <3> SUFFICES ASSUME NEW p \in UnitBlocks(fn, u), NEW d \in Reach(fn, p),
                        Depth(fn, p, d) < Depth(fn, a, c),
                        p \notin Elems(TopologicalSort(fn, u))
                 PROVE  FALSE
      OBVIOUS
    <3>1. d \in Store
      BY <1>1, ReachAssumption
    <3>2. <<p, d>> \in Bad
      BY <3>1
    <3> QED BY <2>2, <3>2
  <2> HIDE DEF Bad, a, c
  <2>5. a # UnitEntry(fn, u)
    BY <2>3, GraphAssumption
  <2>6. PICK p \in UnitBlocks(fn, u) :
          p \in Elems(TopologicalSort(fn, u)) /\ a \in Elems(Successors(fn, p))
    BY <2>3, <2>4, <2>5, Origin
  <2> QED BY <2>3, <2>6, GraphAssumption
<1> SUFFICES ASSUME NEW c \in Reach(fn, b)
             PROVE  FALSE
  OBVIOUS
<1>3. c \in Store
  BY <1>1, ReachAssumption
<1>4. <<b, c>> \in Bad
  BY <1>3
<1> QED BY <1>2, <1>4

(* A narrowing round starts from the seeds.                                *)
LEMMA BeginRoundSound ==
    ASSUME TypeInv, SeedInv, pc \notin {"start", "skipped"},
           NEW n, BeginRound(n), UNCHANGED <<fn, unit>>
    PROVE  CandidateInv'
<1>1. fn \in Function /\ unit \in Unit /\ UnitEntry(fn, unit) \in Block
  BY UnitFacts DEF TypeInv, TypeOK
<1>2. candidates'[UnitEntry(fn, unit)] = entrySeed /\ narrowRest' = TopologicalSort(fn, unit)
  BY <1>1 DEF BeginRound, SeedCandidates
<1>3. ASSUME NEW c \in Reach(fn, UnitEntry(fn, unit)), FromOutside(unit, c)
      PROVE  c \in Gamma(candidates'[UnitEntry(fn, unit)])
  BY <1>2, <1>3 DEF SeedInv
<1>4. \A c : FromOutside(unit, c)' <=> FromOutside(unit, c)
  BY DEF FromOutside
<1>5. \A p \in UnitBlocks(fn, unit) : p \notin Elems(narrowRest') => Reach(fn, p) = {}
  BY <1>1, <1>2, ReachListed
<1> QED BY <1>3, <1>4, <1>5 DEF CandidateInv

(* A covered block stays covered while its stores are kept.                *)
LEMMA DoneStays ==
    ASSUME NEW b, fn' = fn, BlockDone(b),
           \A c \in Reach(fn, b) : c \in Gamma(entrySets[b]) => c \in Gamma(entrySets'[b]),
           Elems(lambdaWorklist) \subseteq Elems(lambdaWorklist'),
           \A l \in Elems(LambdasIn(fn, b)) :
               l \in Elems(lambdaWorklist) => lambdaEnvState'[l] = lambdaEnvState[l]
    PROVE  BlockDone(b)'
BY DEF BlockDone, LambdaStep

(* Steps that change neither entry states nor what is recorded of lambdas. *)
LEMMA QuietSound ==
    ASSUME SoundInv,
           UNCHANGED <<fn, unit, entrySets, entrySeed, lambdaWorklist, worklistIdx, lambdaEnvState>>,
           pc' \notin {"start", "skipped"} => pc \notin {"start", "skipped"},
           Ascending' => Ascending,
           pc' \in {"narrow", "next", "stable"} => pc \in {"narrow", "next", "stable"},
           CandidateInv'
    PROVE  SoundInv'
<1>1. SeedInv'
  BY DEF SoundInv, SeedInv, FromOutside
<1>2. DoneInv'
  BY DEF SoundInv, DoneInv, UnitDone, BlockDone, UnitNo
<1> QED BY <1>1, <1>2 DEF SoundInv

(* RecordLambda keeps soundness.                                           *)
LEMMA RecordSound ==
    ASSUME TypeInv, Nested, SoundInv, RecordLambda
    PROVE  SoundInv'
<1> DEFINE l == Head(toRecord)
           e == EnvAt(fn, cur, l, entrySets[cur])
<1>1. /\ cur \in UnitBlocks(fn, unit) /\ cur \in Block
      /\ l \in Elems(LambdasIn(fn, cur)) /\ l \in Lambda
  <2>1. cur \in UnitBlocks(fn, unit) /\ cur \in Block
    BY DEF RecordLambda, TypeInv, TypeOK
  <2>2. l \in Elems(LambdasIn(fn, cur))
    BY ElemsTail DEF RecordLambda, TypeInv, TypeOK
  <2> QED BY <2>1, <2>2, BlockFacts DEF TypeInv, TypeOK
<1>2. UNCHANGED <<fn, pc, unit, entrySets, entrySeed, worklistIdx>> /\ pc = "record"
  BY DEF RecordLambda
<1> HIDE DEF l, e
<1>3. /\ lambdaEnvState' = Assign(lambdaEnvState, l, e)
      /\ lambdaWorklist' = IF l \in Elems(lambdaWorklist) THEN lambdaWorklist
                           ELSE Append(lambdaWorklist, l)
  BY DEF RecordLambda, l, e
<1>4. Elems(lambdaWorklist) \subseteq Elems(lambdaWorklist')
  BY <1>1, <1>3, ElemsAppend DEF TypeInv, TypeOK
<1>5. \A x \in Elems(lambdaWorklist) : x # l => lambdaEnvState'[x] = lambdaEnvState[x]
  <2>1. DOMAIN lambdaEnvState = Elems(lambdaWorklist)
    BY DEF TypeInv, TypeOK
  <2> QED BY <1>3, <2>1 DEF Assign
<1>6. SeedInv' /\ CandidateInv'
  BY <1>2 DEF SoundInv, SeedInv, CandidateInv, Ascending, FromOutside
<1>7. DoneInv'
  <2> SUFFICES ASSUME NEW j \in 0..worklistIdx, j < worklistIdx,
                      NEW b \in UnitBlocks(fn, UnitNo(j)')
               PROVE  BlockDone(b)'
    BY <1>2 DEF DoneInv, UnitDone
  <2>1. UnitNo(j)' = UnitNo(j)
    BY <1>1, <1>3 DEF UnitNo, TypeInv, TypeOK
  <2>2. UnitNo(j) \in Unit /\ UnitNo(j) # unit
    <3>1. /\ j \in 0..Len(lambdaWorklist) /\ worklistIdx \in 0..Len(lambdaWorklist)
          /\ j # worklistIdx
      BY DEF TypeInv, TypeOK
    <3> QED BY <3>1, UnitNoFacts DEF Nested
  <2>3. b \in Block /\ b # cur
    BY <1>1, <2>1, <2>2, OneUnit, UnitFacts DEF TypeInv, TypeOK
  <2>4. l \notin Elems(LambdasIn(fn, b))
    BY <1>1, <2>3, OneCreator DEF TypeInv, TypeOK
  <2>5. BlockDone(b)
    BY <2>1 DEF SoundInv, DoneInv, UnitDone
  <2> QED BY <1>2, <1>4, <1>5, <2>4, <2>5, DoneStays
<1> QED BY <1>6, <1>7 DEF SoundInv

(* JoinSuccessor keeps soundness.                                          *)
LEMMA JoinSound ==
    ASSUME TypeInv, Nested, SoundInv, JoinSuccessor
    PROVE  SoundInv'
<1> DEFINE t == Head(toJoin)
           s == EdgeState(fn, cur, out, t)
<1>1. cur \in UnitBlocks(fn, unit) /\ cur \in Block /\ t \in Elems(Successors(fn, cur))
  BY ElemsTail DEF JoinSuccessor, TypeInv, TypeOK
<1>2. t \in Block
  BY <1>1, BlockFacts, UnitFacts DEF TypeInv, TypeOK
<1>3. s \in State /\ entrySets[t] \in State
  BY <1>1, <1>2, TransferTypes DEF TypeInv, TypeOK
<1> HIDE DEF t, s
<1>4. /\ entrySets' = [entrySets EXCEPT ![t] = Join(entrySets[t], s)]
      /\ UNCHANGED <<fn, unit, pc, entrySeed, worklistIdx, lambdaWorklist, lambdaEnvState>>
      /\ pc = "spread"
  BY DEF JoinSuccessor, unitVars, t, s
<1>5. \A b \in Block : Gamma(entrySets[b]) \subseteq Gamma(entrySets'[b])
  BY <1>2, <1>3, <1>4, GammaFacts DEF TypeInv, TypeOK
<1>6. SeedInv' /\ CandidateInv'
  <2>1. UnitEntry(fn, unit) \in Block
    BY UnitFacts DEF TypeInv, TypeOK
  <2> QED BY <1>4, <1>5, <2>1 DEF SoundInv, SeedInv, CandidateInv, Ascending, FromOutside
<1>7. DoneInv'
  <2> SUFFICES ASSUME NEW j \in 0..worklistIdx, j < worklistIdx,
                      NEW b \in UnitBlocks(fn, UnitNo(j))
               PROVE  BlockDone(b)'
    BY <1>4 DEF DoneInv, UnitDone, UnitNo
  <2>1. BlockDone(b)
    BY DEF SoundInv, DoneInv, UnitDone
  <2>2. UnitNo(j) \in Unit
    <3>1. j \in 0..Len(lambdaWorklist)
      BY DEF TypeInv, TypeOK
    <3> QED BY <3>1, UnitNoFacts
  <2>3. b \in Block
    BY <2>2, UnitFacts DEF TypeInv, TypeOK
  <2> QED BY <1>4, <1>5, <2>1, <2>3, DoneStays
<1> QED BY <1>6, <1>7 DEF SoundInv

(* The end of a unit's fixpoint keeps soundness.                           *)
LEMMA EndFixpointSound ==
    ASSUME TypeInv, WorklistExact, Nested, SettledInv, SoundInv, EndFixpoint
    PROVE  SoundInv'
<1>1. /\ UNCHANGED <<fn, unit, entrySets, entrySeed, lambdaWorklist, worklistIdx, lambdaEnvState>>
      /\ pc = "pop" /\ worklist = <<>> /\ pc' \in {"next", "narrow"}
      /\ pc' = "narrow" => BeginRound(0)
  BY DEF EndFixpoint, unitVars
<1>2. worklistSet = {}
  BY <1>1, ElemsEmpty DEF WorklistExact
<1>3. \A b \in UnitBlocks(fn, unit) : EdgesCovered(b) /\ LambdasCovered(b)
  BY <1>1, <1>2 DEF SettledInv, Settled, Ascending
<1>4. UnitDone(unit)
  BY <1>1, <1>3, FixpointSound DEF SoundInv
<1>5. SeedInv'
  BY <1>1 DEF SoundInv, SeedInv, Ascending, FromOutside
<1>6. CandidateInv'
  <2>1. CASE pc' = "narrow"
    BY <1>1, <2>1, BeginRoundSound DEF SoundInv
  <2>2. CASE pc' # "narrow"
    BY <2>2 DEF CandidateInv
  <2> QED BY <2>1, <2>2
<1>7. DoneInv'
  <2> SUFFICES ASSUME NEW j \in 0..worklistIdx
               PROVE  UnitDone(UnitNo(j))
    BY <1>1 DEF DoneInv, UnitDone, BlockDone, UnitNo
  <2>1. CASE j = worklistIdx
    BY <1>4, <2>1 DEF Nested
  <2>2. CASE j # worklistIdx
    <3>1. j < worklistIdx
      BY <2>2 DEF TypeInv, TypeOK
    <3> QED BY <3>1 DEF SoundInv, DoneInv
  <2> QED BY <2>1, <2>2
<1> QED BY <1>5, <1>6, <1>7 DEF SoundInv

(* The candidates of a narrowing round keep covering.                      *)
LEMMA NarrowBlockSound ==
    ASSUME TypeInv, Nested, SoundInv, NarrowBlock
    PROVE  CandidateInv'
<1> DEFINE b == Head(narrowRest)
           s == entrySets[b]
<1>1. /\ b \in UnitBlocks(fn, unit) /\ b \in Block
      /\ Elems(narrowRest) = Elems(narrowRest') \cup {b}
      /\ fn \in Function /\ unit \in Unit /\ UnitEntry(fn, unit) \in Block
  <2>1. b \in UnitBlocks(fn, unit) /\ Elems(narrowRest) = Elems(narrowRest') \cup {b}
    BY ElemsTail DEF NarrowBlock, TypeInv, TypeOK
  <2> QED BY <2>1, UnitFacts DEF TypeInv, TypeOK
<1>2. s \in State /\ \A t \in Block : EdgeState(fn, b, Effect(fn, b, s), t) \in State
  BY <1>1, TransferTypes DEF TypeInv, TypeOK
<1>3. /\ UNCHANGED <<fn, unit, entrySets>> /\ pc = "narrow"
      /\ candidates' =
             IF s = Bottom THEN candidates
             ELSE [t \in Block |->
                    IF t \in Elems(Targets(fn, b, s))
                    THEN Join(candidates[t], EdgeState(fn, b, Effect(fn, b, s), t))
                    ELSE candidates[t]]
  BY DEF NarrowBlock, unitVars
<1>4. BlockDone(b)
  <2>1. worklistIdx \in 0..worklistIdx
    BY DEF TypeInv, TypeOK
  <2>2. UnitDone(unit)
    BY <1>3, <2>1 DEF SoundInv, DoneInv, Nested
  <2> QED BY <1>1, <2>2 DEF UnitDone
<1> HIDE DEF b, s
<1>5. \A t \in Block : Gamma(candidates[t]) \subseteq Gamma(candidates'[t])
  BY <1>2, <1>3, GammaFacts DEF TypeInv, TypeOK
<1>6. ASSUME NEW c \in Reach(fn, b), NEW t \in Block, NEW d \in Store,
             EdgeStep(fn, b, c, t, d)
      PROVE  d \in Gamma(candidates'[t])
  <2>1. c \in Gamma(s)
    BY <1>4 DEF BlockDone, s
  <2>2. s # Bottom
    BY <2>1, LatticeAssumption
  <2>3. d \in Run(fn, b, c) /\ t \in Takes(fn, b, d)
    BY <1>6 DEF EdgeStep
  <2>4. d \in Gamma(Effect(fn, b, s)) /\ t \in Elems(Targets(fn, b, s))
    BY <1>1, <1>2, <2>1, <2>3, TransferAssumption
  <2>5. Effect(fn, b, s) \in State
    BY <1>1, <1>2, TransferTypes
  <2>6. d \in Gamma(EdgeState(fn, b, Effect(fn, b, s), t))
    BY <1>1, <2>3, <2>4, <2>5, TransferAssumption
  <2>7. candidates'[t] = Join(candidates[t], EdgeState(fn, b, Effect(fn, b, s), t))
    BY <1>3, <2>2, <2>4
  <2>8. candidates[t] \in State
    BY DEF TypeInv, TypeOK
  <2> QED BY <1>2, <2>6, <2>7, <2>8, GammaFacts
<1>7. \A c : FromOutside(unit, c)' <=> FromOutside(unit, c)
  BY <1>3 DEF FromOutside
<1> QED BY <1>1, <1>3, <1>5, <1>6, <1>7 DEF CandidateInv, SoundInv

(* Applying a narrowing round keeps soundness.                             *)
LEMMA ApplySound ==
    ASSUME TypeInv, Nested, SoundInv, ApplyNarrowing
    PROVE  SoundInv'
<1>1. /\ UNCHANGED <<fn, unit, entrySeed, lambdaWorklist, worklistIdx, lambdaEnvState>>
      /\ pc = "narrow" /\ narrowRest = <<>> /\ pc' \in {"next", "narrow"}
      /\ pc' = "narrow" => BeginRound(round + 1)
      /\ entrySets' = Narrowed
  BY DEF ApplyNarrowing, unitVars
<1>2. fn \in Function /\ unit \in Unit /\ UnitBlocks(fn, unit) \subseteq Block
  BY UnitFacts DEF TypeInv, TypeOK
<1>3. SeedInv'
  BY <1>1 DEF SoundInv, SeedInv, Ascending, FromOutside
<1>4. CandidateInv'
  <2>1. CASE pc' = "narrow"
    BY <1>1, <2>1, BeginRoundSound DEF SoundInv
  <2>2. CASE pc' # "narrow"
    BY <2>2 DEF CandidateInv
  <2> QED BY <2>1, <2>2
<1>5. UnitDone(unit)
  <2>1. worklistIdx \in 0..worklistIdx
    BY DEF TypeInv, TypeOK
  <2> QED BY <1>1, <2>1 DEF SoundInv, DoneInv, Nested
<1>6. Elems(narrowRest) = {}
  BY <1>1, ElemsEmpty
<1>7. ASSUME NEW b \in UnitBlocks(fn, unit), NEW c \in Reach(fn, b)
      PROVE  c \in Gamma(entrySets'[b])
  <2>1. b \in Block /\ entrySets[b] \in State /\ candidates[b] \in State
    BY <1>2 DEF TypeInv, TypeOK
  <2>2. c \in Gamma(entrySets[b])
    BY <1>5 DEF UnitDone, BlockDone
  <2>3. c \in Gamma(candidates[b])
    <3>1. CASE b = UnitEntry(fn, unit) /\ FromOutside(unit, c)
      BY <1>1, <3>1 DEF SoundInv, CandidateInv
    <3>2. CASE \E p \in UnitBlocks(fn, unit) : \E d \in Reach(fn, p) : EdgeStep(fn, p, d, b, c)
      <4>1. c \in Store
        BY <1>2, Origin
      <4> QED BY <1>1, <1>6, <2>1, <3>2, <4>1 DEF SoundInv, CandidateInv
    <3> QED BY <1>2, <3>1, <3>2, Origin
  <2>4. entrySets'[b] = Narrow(entrySets[b], candidates[b])
    BY <1>1, <2>1 DEF Narrowed
  <2> QED BY <2>1, <2>2, <2>3, <2>4, GammaFacts
<1>8. DoneInv'
  <2> SUFFICES ASSUME NEW j \in 0..worklistIdx, NEW b \in UnitBlocks(fn, UnitNo(j))
               PROVE  BlockDone(b)'
    BY <1>1 DEF DoneInv, UnitDone, UnitNo
  <2>1. BlockDone(b)
    BY <1>1 DEF SoundInv, DoneInv, UnitDone
  <2>2. b \in Block
    <3>1. j \in 0..Len(lambdaWorklist)
      BY DEF TypeInv, TypeOK
    <3> QED BY <1>2, <3>1, UnitNoFacts, UnitFacts
  <2>3. \A c \in Reach(fn, b) : c \in Gamma(entrySets[b]) => c \in Gamma(entrySets'[b])
    <3>1. CASE b \in UnitBlocks(fn, unit)
      BY <1>7, <3>1
    <3>2. CASE b \notin UnitBlocks(fn, unit)
      BY <1>1, <2>2, <3>2 DEF Narrowed
    <3> QED BY <3>1, <3>2
  <2> QED BY <1>1, <2>1, <2>3, DoneStays
<1> QED BY <1>3, <1>4, <1>8 DEF SoundInv

(* StartFunction keeps soundness.                                          *)
LEMMA StartSound ==
    ASSUME TypeInv, Nested, SoundInv, StartFunction
    PROVE  SoundInv'
<1>1. /\ fn' = fn /\ unit' = FuncBody /\ pc' = "pop"
      /\ entrySets' = [entrySets EXCEPT ![UnitEntry(fn, FuncBody)] = FuncEntryState(fn)]
      /\ entrySeed' = FuncEntryState(fn)
      /\ worklistIdx' = 0
  <2>1. UnitEntry(fn, FuncBody) \in Block
    BY UnitFacts DEF Unit, TypeInv, TypeOK
  <2>2. worklistIdx = 0
    BY DEF StartFunction, Nested, TypeInv, TypeOK
  <2> QED BY <2>1, <2>2 DEF StartFunction, EnterUnit, TypeInv, TypeOK
<1>2. fn \in Function /\ FuncBody \in Unit /\ UnitEntry(fn, FuncBody) \in Block
  BY UnitFacts DEF Unit, TypeInv, TypeOK
<1>3. ASSUME NEW c, FromOutside(FuncBody, c)
      PROVE  c \in Gamma(FuncEntryState(fn))
  <2>1. CASE StartsAt(fn, UnitEntry(fn, FuncBody), c)
    BY <1>2, <2>1, TransferAssumption DEF StartsAt
  <2>2. ASSUME NEW l \in Lambda, UnitEntry(fn, FuncBody) = UnitEntry(fn, l)
        PROVE  FALSE
    <3>1. l \in Unit /\ l # FuncBody
      BY GraphAssumption DEF Unit
    <3> QED BY <1>2, <2>2, <3>1, UnitFacts, OneUnit
  <2> QED BY <1>3, <2>1, <2>2 DEF FromOutside
<1>4. SeedInv'
  <2>1. \A c \in Reach(fn, UnitEntry(fn, FuncBody)) : FromOutside(unit, c)' => c \in Gamma(entrySeed')
    BY <1>1, <1>3 DEF FromOutside
  <2>2. entrySets'[UnitEntry(fn, FuncBody)] = entrySeed'
    BY <1>1, <1>2 DEF TypeInv, TypeOK
  <2> QED BY <1>1, <2>1, <2>2 DEF SeedInv
<1>5. DoneInv' /\ CandidateInv'
  BY <1>1 DEF DoneInv, CandidateInv
<1> QED BY <1>4, <1>5 DEF SoundInv

(* NextLambda keeps soundness.                                             *)
LEMMA LambdaSound ==
    ASSUME TypeInv, Nested, SoundInv, NextLambda
    PROVE  SoundInv'
<1> DEFINE l == lambdaWorklist[worklistIdx + 1]
           e == LambdaEntryState(fn, l, lambdaEnvState[l])
<1>1. /\ l \in Lambda /\ l \in Unit /\ l # FuncBody
      /\ worklistIdx \in Nat /\ worklistIdx + 1 \in 1..Len(lambdaWorklist)
      /\ l = UnitNo(worklistIdx + 1) /\ fn \in Function
  <2>1. /\ worklistIdx \in Nat /\ worklistIdx + 1 \in 1..Len(lambdaWorklist)
        /\ lambdaWorklist \in Seq(Lambda) /\ fn \in Function
    BY DEF NextLambda, TypeInv, TypeOK
  <2>2. l \in Lambda /\ l = UnitNo(worklistIdx + 1)
    BY <2>1 DEF UnitNo
  <2> QED BY <2>1, <2>2, GraphAssumption DEF Unit
<1>2. UnitEntry(fn, l) \in UnitBlocks(fn, l) /\ UnitEntry(fn, l) \in Block
  BY <1>1, UnitFacts
<1>3. /\ UNCHANGED <<fn, lambdaWorklist, lambdaEnvState>> /\ unit' = l /\ pc = "next" /\ pc' = "pop"
      /\ entrySets' = [entrySets EXCEPT ![UnitEntry(fn, l)] = e]
      /\ entrySeed' = e /\ worklistIdx' = worklistIdx + 1
  BY <1>2 DEF NextLambda, EnterUnit, TypeInv, TypeOK
<1>4. ASSUME NEW j \in 0..worklistIdx
      PROVE  UnitNo(j) \in Unit /\ UnitNo(j) # l /\ UnitDone(UnitNo(j))
  <2>1. /\ j \in 0..Len(lambdaWorklist) /\ worklistIdx + 1 \in 0..Len(lambdaWorklist)
        /\ j # worklistIdx + 1
    BY <1>1 DEF TypeInv, TypeOK
  <2>2. UnitDone(UnitNo(j))
    BY <1>3 DEF SoundInv, DoneInv
  <2> QED BY <1>1, <2>1, <2>2, UnitNoFacts DEF Nested
<1>5. ASSUME NEW c \in Store, FromOutside(l, c)
      PROVE  c \in Gamma(e)
  <2>1. ~StartsAt(fn, UnitEntry(fn, l), c)
    <3>1. FuncBody \in Unit
      BY DEF Unit
    <3> QED BY <1>1, <1>2, <3>1, UnitFacts, OneUnit DEF StartsAt
  <2>2. PICK p \in Block : \E d \in Reach(fn, p), k \in Lambda :
          UnitEntry(fn, l) = UnitEntry(fn, k) /\ LambdaStep(fn, p, d, k, c)
    BY <1>5, <2>1 DEF FromOutside
  <2>3. PICK d \in Reach(fn, p), k \in Lambda :
          UnitEntry(fn, l) = UnitEntry(fn, k) /\ LambdaStep(fn, p, d, k, c)
    BY <2>2
  <2>4. k = l
    <3>1. k \in Unit
      BY DEF Unit
    <3> QED BY <1>1, <1>2, <2>3, <3>1, UnitFacts, OneUnit
  <2>5. PICK j \in 0..worklistIdx :
          \E b \in UnitBlocks(fn, UnitNo(j)) : l \in Elems(LambdasIn(fn, b))
    BY <1>1 DEF Nested, CreatedBefore
  <2>6. PICK b \in UnitBlocks(fn, UnitNo(j)) : l \in Elems(LambdasIn(fn, b))
    BY <2>5
  <2>7. b = p
    <3>1. b \in Block
      BY <1>1, <1>4, UnitFacts
    <3>2. l \in Elems(LambdasIn(fn, p))
      BY <2>3, <2>4 DEF LambdaStep
    <3> QED BY <1>1, <2>6, <3>1, <3>2, OneCreator
  <2>8. BlockDone(p)
    BY <1>4, <2>7 DEF UnitDone
  <2> QED BY <2>3, <2>4, <2>8 DEF BlockDone
<1>6. SeedInv'
  <2>1. \A c \in Reach(fn, UnitEntry(fn, l)) : FromOutside(unit, c)' => c \in Gamma(entrySeed')
    <3>1. Reach(fn, UnitEntry(fn, l)) \subseteq Store
      BY <1>1, <1>2, ReachAssumption
    <3>2. \A c : FromOutside(unit, c)' <=> FromOutside(l, c)
      BY <1>3 DEF FromOutside
    <3> HIDE DEF l, e
    <3> QED BY <1>3, <1>5, <3>1, <3>2
  <2>2. entrySets'[UnitEntry(fn, l)] = entrySeed'
    BY <1>2, <1>3 DEF TypeInv, TypeOK
  <2> HIDE DEF l, e
  <2> QED BY <1>3, <2>1, <2>2 DEF SeedInv
<1>7. DoneInv'
  <2> SUFFICES ASSUME NEW j \in 0..worklistIdx, NEW b \in UnitBlocks(fn, UnitNo(j))
               PROVE  BlockDone(b)'
    <3>1. \A j \in 0..(worklistIdx + 1) : j < worklistIdx + 1 => j \in 0..worklistIdx
      BY <1>1
    <3>2. \A j : UnitNo(j)' = UnitNo(j)
      BY <1>3 DEF UnitNo
    <3> QED BY <1>3, <3>1, <3>2 DEF DoneInv, UnitDone
  <2>1. BlockDone(b)
    BY <1>4 DEF UnitDone
  <2>2. b # UnitEntry(fn, l) /\ b \in Block
    BY <1>1, <1>2, <1>4, OneUnit, UnitFacts
  <2>3. entrySets'[b] = entrySets[b]
    BY <1>3, <2>2 DEF TypeInv, TypeOK
  <2> QED BY <1>3, <2>1, <2>3, DoneStays
<1> QED BY <1>3, <1>6, <1>7 DEF SoundInv, CandidateInv

(* Every step keeps soundness.                                             *)
LEMMA NextSound ==
    TypeInv /\ WorklistExact /\ Nested /\ SettledInv /\ SoundInv /\ [Next]_vars => SoundInv'
<1> SUFFICES ASSUME TypeInv, WorklistExact, Nested, SettledInv, SoundInv, [Next]_vars
             PROVE  SoundInv'
  OBVIOUS
<1>1. CASE StartFunction
  BY <1>1, StartSound
<1>2. CASE RecordLambda
  BY <1>2, RecordSound
<1>3. CASE JoinSuccessor
  BY <1>3, JoinSound
<1>4. CASE EndFixpoint
  BY <1>4, EndFixpointSound
<1>5. CASE NarrowBlock
  <2>1. CandidateInv'
    BY <1>5, NarrowBlockSound
  <2>2. /\ UNCHANGED <<fn, unit, entrySets, entrySeed, lambdaWorklist, worklistIdx, lambdaEnvState>>
        /\ pc' = pc /\ pc = "narrow"
    BY <1>5 DEF NarrowBlock, unitVars
  <2> QED BY <2>1, <2>2, QuietSound DEF Ascending
<1>6. CASE ApplyNarrowing
  BY <1>6, ApplySound
<1>7. CASE NextLambda
  BY <1>7, LambdaSound
<1>8. CASE \/ SkipBlock \/ BeginBlock \/ FinishBlock \/ FinishBlockWithoutBudget \/ EndBlock
           \/ Reject
  <2>1. /\ UNCHANGED <<fn, unit, entrySets, entrySeed, lambdaWorklist, worklistIdx, lambdaEnvState>>
        /\ \/ pc \in {"pop", "record", "spread"} /\ pc' \in {"pop", "record", "spread"}
           \/ pc = "start" /\ pc' = "skipped"
    BY <1>8 DEF SkipBlock, PopBlock, BeginBlock, FinishBlock, FinishBlockWithoutBudget,
       EndBlock, Reject, unitVars
  <2>2. CandidateInv'
    BY <2>1 DEF CandidateInv
  <2> QED BY <2>1, <2>2, QuietSound DEF Ascending
<1>9. CASE SetToStable
  <2>1. /\ UNCHANGED <<fn, unit, entrySets, entrySeed, lambdaWorklist, worklistIdx, lambdaEnvState>>
        /\ pc = "next" /\ pc' = "stable"
    BY <1>9 DEF SetToStable, unitVars
  <2>2. CandidateInv'
    BY <2>1 DEF CandidateInv
  <2> QED BY <2>1, <2>2, QuietSound DEF Ascending
<1>10. CASE ExhaustBudget \/ UNCHANGED vars
  <2>1. /\ UNCHANGED <<fn, unit, entrySets, entrySeed, lambdaWorklist, worklistIdx, lambdaEnvState>>
        /\ UNCHANGED <<pc, candidates, narrowRest>>
    BY <1>10 DEF ExhaustBudget, vars, unitVars, narrowVars
  <2>2. CandidateInv'
    BY <2>1 DEF CandidateInv, SoundInv, FromOutside
  <2> QED BY <2>1, <2>2, QuietSound DEF Ascending
<1> QED
  BY <1>1, <1>2, <1>3, <1>4, <1>5, <1>6, <1>7, <1>8, <1>9, <1>10 DEF Next, Engine

(* No execution enters a unit the analysis has not entered.                *)
LEMMA UnitsEntered ==
    ASSUME TypeInv, Nested, SoundInv, pc = "stable", NEW u \in Unit, u \notin Started,
           NEW b \in UnitBlocks(fn, u)
    PROVE  Reach(fn, b) = {}
<1>1. fn \in Function /\ \A v \in Unit : UnitBlocks(fn, v) \subseteq Block
  BY UnitFacts DEF TypeInv, TypeOK
<1>2. FuncBody \in Started /\ \A l \in Elems(lambdaWorklist) : l \in Started
  BY DEF Started, Nested, Elems, TypeInv, TypeOK
<1> DEFINE Unentered == UNION {UnitBlocks(fn, v) : v \in Unit \ Started}
           Bad == {x \in Unentered \X Store : x[2] \in Reach(fn, x[1])}
<1>3. Unentered \subseteq Block /\ b \in Unentered
  BY <1>1
<1>4. Bad = {}
  <2> SUFFICES ASSUME Bad # {} PROVE FALSE
    OBVIOUS
  <2>1. \A x \in Bad : x[1] \in Block /\ x[2] \in Reach(fn, x[1])
    BY <1>3
  <2>2. PICK x \in Bad : \A y \in Bad : ~(Depth(fn, y[1], y[2]) < Depth(fn, x[1], x[2]))
    <3> HIDE DEF Bad
    <3> QED BY <1>1, <2>1, LeastDepth
  <2> DEFINE a == x[1]
             c == x[2]
  <2>3. PICK v \in Unit \ Started : a \in UnitBlocks(fn, v)
    BY <2>2
  <2>4. c \in Reach(fn, a) /\ a \in Block
    BY <1>3, <2>2
  <2>5. ASSUME NEW p \in Block, NEW d \in Reach(fn, p), p \in Unentered
        PROVE  ~(Depth(fn, p, d) < Depth(fn, a, c))
    <3>1. d \in Store
      BY <1>1, <2>5, ReachAssumption
    <3>2. <<p, d>> \in Bad
      BY <2>5, <3>1
    <3> QED BY <2>2, <3>2
  <2> HIDE DEF Bad, a, c
  <2>6. c \in Store /\ (StartsAt(fn, a, c) \/ HasOrigin(fn, a, c))
    BY <1>1, <2>4, ReachAssumption
  <2>7. CASE StartsAt(fn, a, c)
    BY <1>1, <1>2, <2>3, <2>7, UnitFacts, OneUnit DEF StartsAt, Unit
  <2>8. CASE HasOrigin(fn, a, c)
    <3>1. PICK p \in Block : \E d \in Reach(fn, p) :
            /\ Depth(fn, p, d) < Depth(fn, a, c)
            /\ \/ EdgeStep(fn, p, d, a, c)
               \/ \E l \in Lambda : a = UnitEntry(fn, l) /\ LambdaStep(fn, p, d, l, c)
      BY <2>8 DEF HasOrigin
    <3>2. PICK d \in Reach(fn, p) :
            /\ Depth(fn, p, d) < Depth(fn, a, c)
            /\ \/ EdgeStep(fn, p, d, a, c)
               \/ \E l \in Lambda : a = UnitEntry(fn, l) /\ LambdaStep(fn, p, d, l, c)
      BY <3>1
    <3>3. p \notin Unentered
      BY <2>5, <3>2
    <3>4. PICK w \in Unit : p \in UnitBlocks(fn, w)
      BY <1>1, ReachAssumption
    <3>5. w \in Started
      BY <3>3, <3>4
    <3>6. CASE EdgeStep(fn, p, d, a, c)
      <4>1. a \in Elems(Successors(fn, p))
        BY <1>1, <2>6, <3>6, ReachAssumption DEF EdgeStep
      <4>2. a \in UnitBlocks(fn, w)
        BY <1>1, <3>4, <4>1, BlockFacts
      <4> QED BY <1>1, <2>3, <3>4, <3>5, <4>2, OneUnit
    <3>7. CASE \E l \in Lambda : a = UnitEntry(fn, l) /\ LambdaStep(fn, p, d, l, c)
      <4>1. PICK l \in Lambda : a = UnitEntry(fn, l) /\ LambdaStep(fn, p, d, l, c)
        BY <3>7
      <4>2. l \in Unit /\ v = l
        BY <1>1, <2>3, <4>1, UnitFacts, OneUnit DEF Unit
      <4>3. PICK j \in 0..worklistIdx : w = UnitNo(j)
        BY <3>5, StartedFacts
      <4>4. BlockDone(p)
        BY <3>4, <4>3 DEF SoundInv, DoneInv, UnitDone
      <4>5. l \in Elems(lambdaWorklist)
        BY <2>6, <4>1, <4>4 DEF BlockDone
      <4> QED BY <1>2, <2>3, <4>2, <4>5
    <3> QED BY <3>2, <3>6, <3>7
  <2> QED BY <2>6, <2>7, <2>8
<1> SUFFICES ASSUME NEW c \in Reach(fn, b)
             PROVE  FALSE
  OBVIOUS
<1>5. c \in Store
  BY <1>1, <1>3, ReachAssumption
<1>6. <<b, c>> \in Bad
  BY <1>3, <1>5
<1> QED BY <1>4, <1>6

(* The invariant implies that the result is sound.                         *)
LEMMA SoundAtEnd == TypeInv /\ Nested /\ SoundInv => SoundResult
<1> SUFFICES ASSUME TypeInv, Nested, SoundInv, pc = "stable",
                    NEW u \in Unit, NEW b \in UnitBlocks(fn, u)
             PROVE  Reach(fn, b) \subseteq Gamma(entrySets[b])
  BY DEF SoundResult
<1>1. CASE u \in Started
  <2>1. PICK j \in 0..worklistIdx : u = UnitNo(j)
    BY <1>1, StartedFacts
  <2>2. UnitDone(u)
    BY <2>1 DEF SoundInv, DoneInv
  <2> QED BY <2>2 DEF UnitDone, BlockDone
<1>2. CASE u \notin Started
  BY <1>2, UnitsEntered
<1> QED BY <1>1, <1>2

(* Soundness holds at first.                                               *)
LEMMA InitSound == Init => SoundInv
BY DEF Init, SoundInv, SeedInv, DoneInv, CandidateInv, Ascending

(* The states the engine hands out describe every store an execution       *)
(* enters a block with, for every graph, domain and program that meet its  *)
(* contract.                                                               *)
THEOREM Soundness == Spec => []SoundResult
<1> DEFINE Inv == TypeInv /\ WorklistExact /\ Nested /\ SettledInv /\ SoundInv
<1>1. Init => Inv
  BY InitType, InitNested, InitSettled, InitSound, ElemsEmpty DEF Init, WorklistExact
<1>2. Inv /\ [Next]_vars => Inv'
  BY NextType, NextWorklist, NextNested, NextSettled, NextSound
<1>3. Inv => SoundResult
  BY SoundAtEnd
<1> HIDE DEF Inv
<1> QED BY <1>1, <1>2, <1>3, PTL DEF Spec
=============================================================================
