-------------------------- MODULE EffectMap_proofs --------------------------
(***************************************************************************)
(* Proofs about EffectMap for every program, order of the functions and    *)
(* number of jobs: its type, and that FlattenEffectMap computes the        *)
(* transitive closure, effects with a cycle included as far as it ends;    *)
(* and, for more than one job, that no effect is lost from the passes to   *)
(* the names.                                                              *)
(***************************************************************************)
EXTENDS EffectMap, SequenceTheorems, FiniteSetTheorems, TLAPS

Elements(s) == {s[i] : i \in DOMAIN s}

(* Recording yields a map.                                                 *)
LEMMA RecordType ==
    ASSUME NEW map \in Map, NEW S, NEW f \in Value
    PROVE  Record(map, S, f) \in Map
BY DEF Record, Map

(* Merging yields a map.                                                   *)
LEMMA MergeType ==
    ASSUME NEW from \in Map, NEW to \in Map
    PROVE  Merge(from, to) \in Map
BY DEF Merge, Map

(* The empty map is a map.                                                 *)
LEMMA NoEffectsType == NoEffects \in Map
BY DEF NoEffects, Map

(* The nodes that are pushed are a sequence of exactly those nodes.        *)
LEMMA OrdersFact ==
    ASSUME NEW S \in SUBSET Value, NEW s \in Orders(S)
    PROVE  s \in Seq(Value) /\ Elements(s) = S
<1>1. IsFiniteSet(S)
    BY ValueAssumption, FS_Subset
<1>2. Cardinality(S) \in Nat
    BY <1>1, FS_CardinalityType
<1>3. s \in [1..Cardinality(S) -> S] /\ Elements(s) = S
    BY DEF Orders, Elements
<1>4. s \in [1..Cardinality(S) -> Value]
    BY <1>3
<1>5. s \in Seq(Value)
    BY <1>2, <1>4, IsASeq
<1> QED
    BY <1>3, <1>5

(* What a constructor's members affect has names.                          *)
LEMMA MemberEffectsType ==
    ASSUME TypeOK, NEW n \in Names
    PROVE  MemberEffects(n) \subseteq Names
<1>1. \A S \in SUBSET Value : MembersOf(S) \subseteq Names
    BY DEF MembersOf, Names
<1>2. \A S \in SUBSET Value : NameSet(S) \subseteq Names
    BY DEF NameSet, Names
<1>3. \A v \in Value : effectMap[v] \in SUBSET Value
    BY DEF TypeOK, Map
<1>4. Constructors \subseteq Value
    BY NameAssumption DEF Value
<1>5. \A v \in Value : MembersOf(effectMap[v]) \subseteq Names
    BY <1>1, <1>3
<1>6. \A c \in Constructors :
          NameSet(effectMap[c] \ Constructors) \cup MembersOf(effectMap[c]) \subseteq Names
    <2>1. \A c \in Constructors : effectMap[c] \ Constructors \in SUBSET Value
        BY <1>3, <1>4
    <2> QED
        BY <2>1, <1>2, <1>4, <1>5
<1>7. KeysNamed(n) \subseteq Value /\ Initialisers(n) \subseteq Constructors
    BY DEF KeysNamed, Initialisers
<1>8. ASSUME NEW x \in MemberEffects(n) PROVE x \in Names
    <2>1. CASE \E v \in KeysNamed(n) : x \in MembersOf(effectMap[v])
        BY <1>5, <1>7, <2>1
    <2>2. CASE \E c \in Initialisers(n) :
                  x \in NameSet(effectMap[c] \ Constructors) \cup MembersOf(effectMap[c])
        BY <1>6, <1>7, <2>2
    <2> QED
        BY <2>1, <2>2 DEF MemberEffects
<1> QED
    BY <1>8

(* What a name affects has names.                                          *)
LEMMA EffectsOfNameType ==
    ASSUME TypeOK, NEW n \in Names
    PROVE  EffectsOfName(n) \subseteq Names
<1>1. \A v \in Value : effectMap[v] \in SUBSET Value
    BY DEF TypeOK, Map
<1>2. \A v \in Value : NameSet(effectMap[v]) \subseteq Names
    BY <1>1 DEF NameSet, Names
<1>3. strEffectMap[n] \subseteq Names
    BY DEF TypeOK
<1> QED
    BY <1>2, <1>3 DEF EffectsOfName, KeysNamed

(* The types hold at first.                                                *)
LEMMA TypeInitial == Init => TypeOK
<1> SUFFICES ASSUME Init PROVE TypeOK
    OBVIOUS
<1>1. inlinedCount \in 0..InlineLimit
    BY LimitAssumption DEF Init
<1>2. stack \in Seq(Value)
    BY EmptySeq DEF Init
<1>3. {constEffects, inlineEffects, rangeEffects, effectMap, newEffectMap} \subseteq Map
    BY NoEffectsType DEF Init
<1>4. strEffectMap \in [Names -> SUBSET Names]
    BY DEF Init
<1>5. /\ calls \in [Function -> SUBSET Function]
      /\ loads \in [Function -> SUBSET GlobalVar]
      /\ contents \in [Function -> SUBSET Value]
    BY BodyAssumption DEF Init
<1> QED
    BY <1>1, <1>2, <1>3, <1>4, <1>5 DEF Init, TypeOK

(* Replacing loads keeps the types.                                        *)
LEMMA ReplaceLoadsType ==
    ASSUME TypeOK, NEW f \in Function, NEW S \in SUBSET loads[f], ReplaceLoads(f, S)
    PROVE  /\ loads' \in [Function -> SUBSET GlobalVar]
           /\ contents' \in [Function -> SUBSET Value]
<1>1. S \subseteq GlobalVar /\ S \subseteq Value
    BY DEF TypeOK, Value
<1>2. loads' = [loads EXCEPT ![f] = @ \ S] /\ contents' = [contents EXCEPT ![f] = @ \cup S]
    BY DEF ReplaceLoads
<1>3. loads[f] \ S \in SUBSET GlobalVar /\ contents[f] \cup S \in SUBSET Value
    BY <1>1 DEF TypeOK
<1> QED
    BY <1>2, <1>3 DEF TypeOK

(* Every step keeps the types.                                             *)
LEMMA TypeStep == TypeOK /\ [Next]_vars => TypeOK'
<1> SUFFICES ASSUME TypeOK, [Next]_vars PROVE TypeOK'
    OBVIOUS
<1> USE DEF TypeOK
<1>1. CASE StartConstantPropagation
    <2>1. effectMap' \in Map
        BY <1>1, MergeType DEF StartConstantPropagation, MergedBeforeConst
    <2> QED
        BY <1>1, <2>1 DEF StartConstantPropagation, code, recorded, flattening, Value
<1>2. ASSUME NEW f \in Function, PropagateConstants(f) PROVE TypeOK'
    <2>1. PICK S \in SUBSET loads[f] :
              ReplaceLoads(f, S) /\ constEffects' = Record(constEffects, S, f)
        BY <1>2 DEF PropagateConstants
    <2>2. constEffects' \in Map
        BY <2>1, RecordType DEF Value
    <2>3. /\ loads' \in [Function -> SUBSET GlobalVar]
          /\ contents' \in [Function -> SUBSET Value]
        BY <2>1, ReplaceLoadsType
    <2> QED
        BY <1>2, <2>2, <2>3 DEF PropagateConstants, flattening
<1>3. CASE EndConstantPropagation
    <2>1. effectMap' \in Map
        BY <1>3, MergeType DEF EndConstantPropagation
    <2> QED
        BY <1>3, <2>1 DEF EndConstantPropagation, code, recorded, flattening
<1>4. ASSUME NEW f \in Function, NEW g \in Function, Inline(f, g) PROVE TypeOK'
    <2>1. inlineEffects' \in Map
        BY <1>4, RecordType DEF Inline, Value
    <2>2. inlinedCount' \in 0..InlineLimit
        BY <1>4, LimitAssumption DEF Inline, CanRewrite
    <2>3. calls' \in [Function -> SUBSET Function] /\ loads' \in [Function -> SUBSET GlobalVar]
        <3>1. (calls[f] \ {g}) \cup calls[g] \in SUBSET Function
              /\ loads[f] \cup loads[g] \in SUBSET GlobalVar
            OBVIOUS
        <3> QED
            BY <1>4, <3>1 DEF Inline
    <2>4. contents' \in [Function -> SUBSET Value]
        <3>1. contents[f] \cup {g} \cup contents[g] \in SUBSET Value
            BY DEF Value
        <3> QED
            BY <1>4, <3>1 DEF Inline
    <2> QED
        BY <1>4, <2>1, <2>2, <2>3, <2>4 DEF Inline, flattening
<1>5. CASE NextCaller
    <2>1. inlinedCount' \in 0..InlineLimit
        BY <1>5, LimitAssumption DEF NextCaller
    <2>2. todo' \subseteq 1..Len(PostOrder) /\ stage' = "inline"
        BY <1>5 DEF NextCaller
    <2> QED
        BY <1>5, <2>1, <2>2 DEF NextCaller, code, recorded, flattening
<1>6. CASE EndFunctionInline
    <2>1. effectMap' \in Map
        BY <1>6, MergeType DEF EndFunctionInline
    <2> QED
        BY <1>6, <2>1 DEF EndFunctionInline, code, recorded, flattening, Value
<1>7. ASSUME NEW f \in Function, PropagateRanges(f) PROVE TypeOK'
    <2>1. PICK S \in SUBSET loads[f] :
              ReplaceLoads(f, S) /\ rangeEffects' = Record(rangeEffects, S, f)
        BY <1>7 DEF PropagateRanges
    <2>2. rangeEffects' \in Map
        BY <2>1, RecordType DEF Value
    <2>3. /\ loads' \in [Function -> SUBSET GlobalVar]
          /\ contents' \in [Function -> SUBSET Value]
        BY <2>1, ReplaceLoadsType
    <2> QED
        BY <1>7, <2>2, <2>3 DEF PropagateRanges, flattening
<1>8. CASE EndRangePropagation
    <2>1. effectMap' \in Map
        BY <1>8, MergeType DEF EndRangePropagation
    <2> QED
        BY <1>8, <2>1 DEF EndRangePropagation, code, recorded, flattening, Keys
<1>9. ASSUME NEW k \in Value, StartKey(k) PROVE TypeOK'
    <2>1. effectMap[k] \in SUBSET Value
        BY DEF Map
    <2>2. stack' \in Seq(Value)
        BY <1>9, <2>1, OrdersFact DEF StartKey
    <2>3. newEffectMap' \in Map
        BY <1>9, <2>1 DEF StartKey, Map
    <2> QED
        BY <1>9, <2>2, <2>3 DEF StartKey, code, recorded
<1>10. CASE PopNode
    <2>1. Head(stack) \in Value /\ Tail(stack) \in Seq(Value)
        BY <1>10, HeadTailProperties DEF PopNode
    <2>2. effectMap[Head(stack)] \in SUBSET Value
        BY <2>1 DEF Map
    <2>3. stack' \in Seq(Value)
        <3>1. PICK pushed \in Orders(effectMap[Head(stack)]) : stack' = pushed \o Tail(stack)
            BY <1>10 DEF PopNode
        <3>2. pushed \in Seq(Value)
            BY <2>2, OrdersFact
        <3> QED
            BY <2>1, <3>1, <3>2, ConcatProperties
    <2>4. newEffectMap' \in Map
        BY <1>10, <2>2 DEF PopNode, Map
    <2> QED
        BY <1>10, <2>3, <2>4 DEF PopNode, code, recorded
<1>11. CASE EndKey
    BY <1>11 DEF EndKey, code, recorded
<1>12. CASE EndFlatten
    BY <1>12 DEF EndFlatten, code, recorded, flattening
<1>13. CASE RewriteConstructors
    <2>1. strEffectMap' \in [Names -> SUBSET Names]
        <3>1. \A n \in Names : strEffectMap[n] \cup MemberEffects(n) \in SUBSET Names
            BY MemberEffectsType
        <3> QED
            BY <1>13, <3>1 DEF RewriteConstructors
    <2>2. effectMap' \in Map
        BY <1>13 DEF RewriteConstructors, Map
    <2> QED
        BY <1>13, <2>1, <2>2 DEF RewriteConstructors, code, recorded, flattening
<1>14. CASE ToNames
    <2>1. strEffectMap' \in [Names -> SUBSET Names]
        <3>1. \A n \in Names : WithoutIllegal(n, EffectsOfName(n)) \in SUBSET Names
            BY EffectsOfNameType DEF WithoutIllegal
        <3> QED
            BY <1>14, <3>1 DEF ToNames
    <2> QED
        BY <1>14, <2>1 DEF ToNames, code, recorded, flattening
<1>15. CASE UNCHANGED vars
    BY <1>15 DEF vars, code, recorded, flattening
<1> QED
    BY <1>1, <1>2, <1>3, <1>4, <1>5, <1>6, <1>7, <1>8, <1>9, <1>10, <1>11, <1>12,
       <1>13, <1>14, <1>15 DEF Next, Passes, Updates

(* Every variable keeps its type.                                          *)
THEOREM TypeCorrect == Spec => []TypeOK
BY TypeInitial, TypeStep, PTL DEF Spec

(* Where FlattenEffectMap is: the key it is at holds its own effects, only *)
(* what they lead to, and the effects of every node that is not waiting on *)
(* the stack.                                                              *)
InnerInv ==
    key # None =>
        /\ stage = "flatten" /\ key \notin todo
        /\ effectMap[key] \subseteq newEffectMap[key]
        /\ newEffectMap[key] \subseteq LeadsTo(key)
        /\ Elements(stack) \subseteq newEffectMap[key]
        /\ \A v \in newEffectMap[key] \ Elements(stack) :
              effectMap[v] \subseteq newEffectMap[key]

Inv == TypeOK /\ InnerInv /\ FlattenedIsClosure

(* What k's effects lead to holds its effects and theirs, and is the least *)
(* such set.                                                               *)
LEMMA LeadsToFacts ==
    ASSUME TypeOK, NEW k \in Value
    PROVE  /\ effectMap[k] \subseteq LeadsTo(k)
           /\ \A v \in LeadsTo(k) : effectMap[v] \subseteq LeadsTo(k)
           /\ \A S \in SUBSET Value :
                 effectMap[k] \subseteq S /\ ClosedUnderEffects(S) => LeadsTo(k) \subseteq S
<1>1. \A v \in Value : effectMap[v] \subseteq Value
    BY DEF TypeOK, Map
<1>2. effectMap[k] \subseteq LeadsTo(k)
    BY <1>1 DEF LeadsTo
<1>3. ASSUME NEW v \in LeadsTo(k), NEW w \in effectMap[v] PROVE w \in LeadsTo(k)
    <2>1. v \in Value /\ w \in Value
        BY <1>1, <1>3 DEF LeadsTo
    <2>2. ASSUME NEW S \in SUBSET Value, effectMap[k] \subseteq S, ClosedUnderEffects(S)
          PROVE  w \in S
        <3>1. v \in S
            BY <1>3, <2>2 DEF LeadsTo
        <3> QED
            BY <1>3, <2>2, <3>1 DEF ClosedUnderEffects
    <2> QED
        BY <2>1, <2>2 DEF LeadsTo
<1>4. \A S \in SUBSET Value :
          effectMap[k] \subseteq S /\ ClosedUnderEffects(S) => LeadsTo(k) \subseteq S
    BY DEF LeadsTo
<1> QED
    BY <1>2, <1>3, <1>4

(* The effects of the passes do not disturb the flattening.                *)
LEMMA QuietStep ==
    ASSUME Inv, TypeOK', key' = key, stack' = stack, todo' = todo, stage' = stage,
           newEffectMap' = newEffectMap, effectMap' = effectMap
    PROVE  Inv'
<1>1. \A k : LeadsTo(k)' = LeadsTo(k)
    BY DEF LeadsTo, ClosedUnderEffects
<1> QED
    BY <1>1 DEF Inv, InnerInv, FlattenedIsClosure, Keys

(* A step outside flattening.                                              *)
LEMMA BeforeStep ==
    ASSUME Inv, TypeOK', stage # "flatten", stage' # "flatten", key' = key
    PROVE  Inv'
BY DEF Inv, InnerInv, FlattenedIsClosure

(* A key starts with its effects, all of them on the stack.                *)
LEMMA StartKeyStep ==
    ASSUME Inv, TypeOK', NEW k \in Value, StartKey(k)
    PROVE  Inv'
<1> USE DEF Inv
<1>1. \A j : LeadsTo(j)' = LeadsTo(j)
    BY DEF StartKey, LeadsTo, ClosedUnderEffects
<1>2. effectMap[k] \in SUBSET Value /\ newEffectMap \in Map
    BY DEF TypeOK, Map
<1>3. Elements(stack') = effectMap[k]
    BY <1>2, OrdersFact DEF StartKey
<1>4. newEffectMap'[k] = effectMap[k]
    BY <1>2 DEF StartKey, Map
<1>5. InnerInv'
    <2>1. effectMap[k] \subseteq LeadsTo(k)
        BY LeadsToFacts
    <2> QED
        BY <1>1, <1>3, <1>4, <2>1 DEF StartKey, InnerInv, Elements
<1>6. FlattenedIsClosure'
    <2>1. ASSUME NEW j \in Keys(effectMap) \ (todo' \cup {key'})
          PROVE  newEffectMap'[j] = LeadsTo(j)
        <3>1. j # k /\ j \notin todo /\ j # key /\ j \in Value
            BY <2>1, ValueAssumption DEF StartKey, Keys
        <3>2. newEffectMap[j] = LeadsTo(j)
            BY <2>1, <3>1 DEF FlattenedIsClosure, StartKey
        <3> QED
            BY <3>1, <3>2, <1>2 DEF StartKey, Map
    <2> QED
        BY <2>1, <1>1 DEF FlattenedIsClosure, StartKey, Keys
<1> QED
    BY <1>5, <1>6

(* Replacing the top of the stack by nodes P.                              *)
LEMMA StackElements ==
    ASSUME NEW s \in Seq(Value), s # <<>>, NEW p \in Seq(Value)
    PROVE  /\ Elements(p \o Tail(s)) \subseteq Elements(p) \cup Elements(s)
           /\ Elements(p) \subseteq Elements(p \o Tail(s))
           /\ Elements(s) \subseteq {Head(s)} \cup Elements(p \o Tail(s))
           /\ Head(s) \in Elements(s)
<1> DEFINE t == Tail(s)
           r == p \o t
<1>1. /\ t \in Seq(Value) /\ Len(t) = Len(s) - 1
      /\ \A i \in 1..Len(t) : t[i] = s[i + 1]
      /\ Len(s) \in Nat /\ Len(s) > 0
    BY HeadTailProperties, LenProperties, EmptySeq
<1>2. /\ r \in Seq(Value) /\ Len(r) = Len(p) + Len(t) /\ Len(p) \in Nat /\ Len(t) \in Nat
      /\ \A i \in 1..(Len(p) + Len(t)) : r[i] = IF i <= Len(p) THEN p[i] ELSE t[i - Len(p)]
    BY <1>1, ConcatProperties, LenProperties
<1>3. /\ DOMAIN r = 1..(Len(p) + Len(t)) /\ DOMAIN p = 1..Len(p)
      /\ DOMAIN s = 1..(Len(t) + 1)
    BY <1>1, <1>2, LenProperties
<1> HIDE DEF t, r
<1>4. Elements(p) \subseteq Elements(r)
    BY <1>2, <1>3 DEF Elements
<1>5. \A i \in 1..Len(t) : Len(p) + i \in 1..(Len(p) + Len(t)) /\ r[Len(p) + i] = s[i + 1]
    BY <1>1, <1>2
<1>6. Elements(s) \subseteq {Head(s)} \cup Elements(r)
    <2>1. ASSUME NEW i \in DOMAIN s, i # 1 PROVE s[i] \in Elements(r)
        <3>1. i - 1 \in 1..Len(t) /\ (i - 1) + 1 = i
            BY <1>2, <1>3, <2>1
        <3>2. Len(p) + (i - 1) \in DOMAIN r /\ r[Len(p) + (i - 1)] = s[i]
            BY <1>3, <1>5, <3>1
        <3> QED
            BY <3>2 DEF Elements
    <2>2. Head(s) = s[1]
        OBVIOUS
    <2> QED
        BY <2>1, <2>2 DEF Elements
<1>7. Elements(r) \subseteq Elements(p) \cup Elements(s)
    <2>1. ASSUME NEW i \in DOMAIN r PROVE r[i] \in Elements(p) \cup Elements(s)
        <3>1. CASE i <= Len(p)
            BY <1>2, <1>3, <2>1, <3>1 DEF Elements
        <3>2. CASE i > Len(p)
            <4>1. i - Len(p) \in 1..Len(t) /\ (i - Len(p)) + 1 \in DOMAIN s
                BY <1>2, <1>3, <2>1, <3>2
            <4>2. r[i] = s[(i - Len(p)) + 1]
                <5>1. r[i] = t[i - Len(p)]
                    BY <1>2, <1>3, <2>1, <3>2
                <5> QED
                    BY <1>1, <4>1, <5>1
            <4> QED
                BY <4>1, <4>2 DEF Elements
        <3> QED
            BY <3>1, <3>2, <1>2, <1>3
    <2> QED
        BY <2>1 DEF Elements
<1>8. Head(s) \in Elements(s)
    BY <1>1, <1>3 DEF Elements
<1> QED
    BY <1>4, <1>6, <1>7, <1>8 DEF t, r

(* A popped node's effects are in the key's set and on the stack.          *)
LEMMA PopNodeStep ==
    ASSUME Inv, TypeOK', PopNode
    PROVE  Inv'
<1> USE DEF Inv
<1> DEFINE top == Head(stack)
           found == effectMap[top]
<1>1. \A j : LeadsTo(j)' = LeadsTo(j)
    BY DEF PopNode, LeadsTo, ClosedUnderEffects
<1>2. /\ key \in Value /\ key' = key /\ effectMap' = effectMap /\ todo' = todo
      /\ stage' = "flatten" /\ stage = "flatten"
    BY DEF PopNode, TypeOK
<1>3. stack \in Seq(Value) /\ stack # <<>> /\ top \in Value /\ found \in SUBSET Value
    BY HeadTailProperties DEF PopNode, TypeOK, Map
<1>4. newEffectMap \in Map
    BY DEF TypeOK
<1>5. /\ newEffectMap'[key] = newEffectMap[key] \cup found
      /\ \A j \in Value : j # key => newEffectMap'[j] = newEffectMap[j]
    BY <1>2, <1>4 DEF PopNode, Map
<1>6. PICK pushed \in Orders(found) : stack' = pushed \o Tail(stack)
    BY DEF PopNode
<1>7. pushed \in Seq(Value) /\ Elements(pushed) = found
    BY <1>3, OrdersFact
<1>8. /\ Elements(stack') \subseteq found \cup Elements(stack)
      /\ found \subseteq Elements(stack')
      /\ Elements(stack) \subseteq {top} \cup Elements(stack')
      /\ top \in Elements(stack)
    BY <1>3, <1>6, <1>7, StackElements
<1> HIDE DEF top, found
<1>9. /\ effectMap[key] \subseteq newEffectMap[key] /\ newEffectMap[key] \subseteq LeadsTo(key)
      /\ Elements(stack) \subseteq newEffectMap[key] /\ key \notin todo
      /\ \A v \in newEffectMap[key] \ Elements(stack) : effectMap[v] \subseteq newEffectMap[key]
    BY DEF InnerInv, PopNode
<1>10. found \subseteq LeadsTo(key)
    BY <1>2, <1>8, <1>9, LeadsToFacts DEF found
<1>11. \A v \in newEffectMap'[key] \ Elements(stack') : effectMap[v] \subseteq newEffectMap'[key]
    BY <1>5, <1>8, <1>9 DEF found
<1>12. InnerInv'
    BY <1>1, <1>2, <1>5, <1>8, <1>9, <1>10, <1>11 DEF InnerInv, Elements
<1>13. FlattenedIsClosure'
    <2>1. \A j \in Keys(effectMap) \ (todo \cup {key}) : newEffectMap[j] = LeadsTo(j)
        BY <1>2 DEF FlattenedIsClosure
    <2>2. Keys(effectMap)' = Keys(effectMap) /\ Keys(effectMap) \subseteq Value
        BY <1>2 DEF Keys
    <2> QED
        BY <1>1, <1>2, <1>5, <2>1, <2>2 DEF FlattenedIsClosure
<1> QED
    BY <1>12, <1>13

(* With an empty stack the key's set is closed.                            *)
LEMMA EndKeyStep ==
    ASSUME Inv, TypeOK', EndKey
    PROVE  Inv'
<1> USE DEF Inv
<1>1. \A j : LeadsTo(j)' = LeadsTo(j)
    BY DEF EndKey, LeadsTo, ClosedUnderEffects
<1>2. key \in Value /\ newEffectMap[key] \in SUBSET Value
    BY DEF EndKey, TypeOK, Map
<1>3. Elements(stack) = {}
    BY DEF EndKey, Elements
<1>4. newEffectMap[key] = LeadsTo(key)
    <2>1. ClosedUnderEffects(newEffectMap[key])
        BY <1>3 DEF EndKey, InnerInv, ClosedUnderEffects
    <2>2. effectMap[key] \subseteq newEffectMap[key] /\ newEffectMap[key] \subseteq LeadsTo(key)
        BY DEF EndKey, InnerInv
    <2> QED
        BY <1>2, <2>1, <2>2, LeadsToFacts
<1>5. FlattenedIsClosure'
    BY <1>1, <1>4 DEF EndKey, FlattenedIsClosure, Keys
<1>6. InnerInv'
    BY DEF EndKey, InnerInv
<1> QED
    BY <1>5, <1>6

(* The invariant holds at first.                                           *)
LEMMA Initial == Init => Inv
<1>1. Init => TypeOK
    BY TypeInitial
<1>2. Init => InnerInv /\ FlattenedIsClosure
    BY DEF Init, InnerInv, FlattenedIsClosure
<1> QED
    BY <1>1, <1>2 DEF Inv

(* Every step keeps the invariant.                                         *)
LEMMA Inductive == Inv /\ [Next]_vars => Inv'
<1> SUFFICES ASSUME Inv, [Next]_vars PROVE Inv'
    OBVIOUS
<1>0. TypeOK'
    BY TypeStep DEF Inv
<1>1. CASE StartConstantPropagation
    BY <1>0, <1>1, BeforeStep DEF StartConstantPropagation, flattening
<1>2. ASSUME NEW f \in Function, PropagateConstants(f) PROVE Inv'
    BY <1>0, <1>2, BeforeStep DEF PropagateConstants, flattening
<1>3. CASE EndConstantPropagation
    BY <1>0, <1>3, BeforeStep DEF EndConstantPropagation, flattening
<1>4. ASSUME NEW f \in Function, NEW g \in Function, Inline(f, g) PROVE Inv'
    BY <1>0, <1>4, BeforeStep DEF Inline, flattening
<1>5. CASE NextCaller
    BY <1>0, <1>5, BeforeStep DEF NextCaller, flattening
<1>6. CASE EndFunctionInline
    BY <1>0, <1>6, BeforeStep DEF EndFunctionInline, flattening
<1>7. ASSUME NEW f \in Function, PropagateRanges(f) PROVE Inv'
    BY <1>0, <1>7, BeforeStep DEF PropagateRanges, flattening
<1>8. CASE EndRangePropagation
    <2>1. key' = None
        BY <1>8 DEF EndRangePropagation, flattening, Inv, InnerInv
    <2>2. Keys(effectMap') \ todo' = {}
        BY <1>8 DEF EndRangePropagation
    <2>3. Keys(effectMap)' = Keys(effectMap')
        BY DEF Keys
    <2> QED
        BY <1>0, <2>1, <2>2, <2>3 DEF Inv, InnerInv, FlattenedIsClosure
<1>9. ASSUME NEW k \in Value, StartKey(k) PROVE Inv'
    BY <1>0, <1>9, StartKeyStep
<1>10. CASE PopNode
    BY <1>0, <1>10, PopNodeStep
<1>11. CASE EndKey
    BY <1>0, <1>11, EndKeyStep
<1>12. CASE EndFlatten
    BY <1>0, <1>12 DEF EndFlatten, flattening, Inv, InnerInv, FlattenedIsClosure
<1>13. CASE RewriteConstructors
    BY <1>0, <1>13, BeforeStep DEF RewriteConstructors, flattening
<1>14. CASE ToNames
    BY <1>0, <1>14, BeforeStep DEF ToNames, flattening
<1>15. CASE UNCHANGED vars
    BY <1>0, <1>15, QuietStep DEF vars, flattening
<1> QED
    BY <1>1, <1>2, <1>3, <1>4, <1>5, <1>6, <1>7, <1>8, <1>9, <1>10, <1>11, <1>12,
       <1>13, <1>14, <1>15 DEF Next, Passes, Updates

(* The inductive invariant of the flattening holds for ever.               *)
THEOREM Invariance == Spec => []Inv
BY Initial, Inductive, PTL DEF Spec

(* FlattenEffectMap leaves behind, for every key it has finished, exactly  *)
(* what a chain of effects leads to: for any effects, with cycles or not,  *)
(* and any order of the map, the sets and the stack.                       *)
THEOREM ClosureCorrect == Spec => []FlattenedIsClosure
<1>1. Inv => FlattenedIsClosure
    BY DEF Inv
<1> QED
    BY <1>1, Invariance, PTL

-----------------------------------------------------------------------------
(* No effect is lost on the way.                                           *)

(* The effects of v that are recorded anywhere, and what a chain of them   *)
(* leads to.                                                               *)
RecordedOf(v) == constEffects[v] \cup inlineEffects[v] \cup rangeEffects[v] \cup effectMap[v]
ClosedUnderRecorded(S) == \A v \in S : RecordedOf(v) \subseteq S
ReachedFrom(v) ==
    {f \in Value : \A S \in SUBSET Value :
        RecordedOf(v) \subseteq S /\ ClosedUnderRecorded(S) => f \in S}

Recording == {"start", "const", "inline", "range", "flatten"}

(* While the effects are recorded, merged and flattened, a chain of them   *)
(* leads from whatever is in a function's code to that function ...        *)
CodeCovered ==
    stage \in Recording =>
        \A f \in Function : \A v \in contents[f] : f \in ReachedFrom(v)

(* ... which a single map holds in the end: the maps of the passes are     *)
(* merged after the passes.  With one job the map of constant propagation  *)
(* is merged before, and its effects are lost.                             *)
Merged ==
    \A v \in Value :
        /\ Jobs # 1 /\ stage \in {"inline", "range", "flatten"} =>
               constEffects[v] \subseteq effectMap[v]
        /\ stage \in {"range", "flatten"} => inlineEffects[v] \subseteq effectMap[v]
        /\ stage = "flatten" => rangeEffects[v] \subseteq effectMap[v]

(* What is flattened holds the function itself.                            *)
Direct ==
    stage = "init" => \A f \in Function : \A v \in contents[f] : f \in effectMap[v]

(* Names take the place of functions, members that of constructors.        *)
Named ==
    stage = "names" =>
        \A f \in Function : \A v \in contents[f] :
            \A n \in NamesOf(v), m \in NamesOf(f) : m \in EffectsOfName(n)

CoverInv == CodeCovered /\ Merged /\ Direct /\ Named /\ EffectsCovered

(* A chain that leads on.                                                  *)
LEMMA ReachedFacts ==
    ASSUME TypeOK, NEW v \in Value
    PROVE  /\ RecordedOf(v) \subseteq ReachedFrom(v)
           /\ \A u \in ReachedFrom(v) : RecordedOf(u) \subseteq ReachedFrom(v)
<1>1. \A u \in Value : RecordedOf(u) \subseteq Value
    BY DEF TypeOK, Map, RecordedOf
<1>2. RecordedOf(v) \subseteq ReachedFrom(v)
    BY <1>1 DEF ReachedFrom
<1>3. ASSUME NEW u \in ReachedFrom(v), NEW w \in RecordedOf(u) PROVE w \in ReachedFrom(v)
    <2>1. u \in Value /\ w \in Value
        BY <1>1, <1>3 DEF ReachedFrom
    <2>2. ASSUME NEW S \in SUBSET Value, RecordedOf(v) \subseteq S, ClosedUnderRecorded(S)
          PROVE  w \in S
        <3>1. u \in S
            BY <1>3, <2>2 DEF ReachedFrom
        <3> QED
            BY <1>3, <2>2, <3>1 DEF ClosedUnderRecorded
    <2> QED
        BY <2>1, <2>2 DEF ReachedFrom
<1> QED
    BY <1>2, <1>3

(* ... in every state.                                                     *)
ReachedLaw ==
    \A v \in Value : /\ RecordedOf(v) \subseteq ReachedFrom(v)
                     /\ \A u \in ReachedFrom(v) : RecordedOf(u) \subseteq ReachedFrom(v)
LEMMA ReachedNow == TypeOK => ReachedLaw
BY ReachedFacts DEF ReachedLaw

LEMMA ReachedNext == TypeOK' => ReachedLaw'
BY ReachedNow, PTL

(* The more is recorded, the further it leads.                             *)
LEMMA ReachedGrows ==
    ASSUME \A v \in Value : RecordedOf(v) \subseteq RecordedOf(v)', NEW v \in Value
    PROVE  ReachedFrom(v) \subseteq ReachedFrom(v)'
<1> SUFFICES ASSUME NEW f \in ReachedFrom(v), NEW S \in SUBSET Value,
                    RecordedOf(v)' \subseteq S, ClosedUnderRecorded(S)'
             PROVE  f \in S
    BY DEF ReachedFrom
<1>1. RecordedOf(v) \subseteq S /\ ClosedUnderRecorded(S)
    BY DEF ClosedUnderRecorded
<1> QED
    BY <1>1 DEF ReachedFrom

(* Recording what comes into a function's code, from a value or with the   *)
(* body of another function, keeps the code covered.                       *)
LEMMA CoverStep ==
    ASSUME TypeOK, TypeOK', CodeCovered, stage \in Recording,
           \A v \in Value : RecordedOf(v) \subseteq RecordedOf(v)',
           \A f \in Function : \A v \in contents'[f] :
               \/ v \in contents[f]
               \/ f \in RecordedOf(v)'
               \/ \E g \in Function : v \in contents[g] /\ f \in RecordedOf(g)'
    PROVE  CodeCovered'
<1> SUFFICES ASSUME NEW f \in Function, NEW v \in contents'[f] PROVE f \in ReachedFrom(v)'
    BY DEF CodeCovered
<1>1. v \in Value
    BY DEF TypeOK
<1>2. CASE v \in contents[f]
    BY <1>1, <1>2, ReachedGrows DEF CodeCovered
<1>a. /\ RecordedOf(v)' \subseteq ReachedFrom(v)'
      /\ \A u \in ReachedFrom(v)' : RecordedOf(u)' \subseteq ReachedFrom(v)'
    BY <1>1, ReachedNext DEF ReachedLaw
<1>3. CASE f \in RecordedOf(v)'
    BY <1>3, <1>a
<1>4. ASSUME NEW g \in Function, v \in contents[g], f \in RecordedOf(g)' PROVE f \in ReachedFrom(v)'
    <2>1. g \in ReachedFrom(v)'
        BY <1>1, <1>4, ReachedGrows DEF CodeCovered
    <2> QED
        BY <1>4, <1>a, <2>1
<1> QED
    BY <1>2, <1>3, <1>4

(* What recording and merging do to the effects of one value.              *)
LEMMA RecordFact ==
    ASSUME NEW map, NEW S, NEW f, NEW v \in Value
    PROVE  map[v] \subseteq Record(map, S, f)[v] /\ (v \in S => f \in Record(map, S, f)[v])
BY DEF Record

LEMMA MergeFact ==
    ASSUME NEW from, NEW to, NEW v \in Value
    PROVE  Merge(from, to)[v] = to[v] \cup from[v]
BY DEF Merge

(* The other parts hold before the effects are flattened.                  *)
LEMMA StillRecording ==
    ASSUME CodeCovered', Merged', stage' \in Recording PROVE CoverInv'
BY DEF CoverInv, Direct, Named, EffectsCovered, Recording

(* Steps that leave the code alone and take no effect back.                *)
LEMMA CodeAlone ==
    ASSUME TypeOK, TypeOK', CodeCovered, stage \in Recording, UNCHANGED contents,
           \A v \in Value : RecordedOf(v) \subseteq RecordedOf(v)'
    PROVE  CodeCovered'
BY CoverStep

LEMMA NothingRecorded ==
    ASSUME CoverInv, TypeOK, TypeOK', UNCHANGED <<stage, contents, constEffects, inlineEffects,
                                                  rangeEffects, effectMap>>,
           stage \in Recording
    PROVE  CoverInv'
<1>1. \A v \in Value : RecordedOf(v) \subseteq RecordedOf(v)'
    BY DEF RecordedOf
<1>2. CodeCovered'
    BY <1>1, CodeAlone DEF CoverInv
<1>3. Merged'
    BY DEF CoverInv, Merged
<1> QED
    BY <1>2, <1>3, StillRecording

(* The map of a pass is merged into the effect map.                        *)
LEMMA MergeStep ==
    ASSUME CoverInv, TypeOK, TypeOK', stage \in Recording, stage' \in Recording,
           UNCHANGED <<contents, constEffects, inlineEffects, rangeEffects>>,
           \A v \in Value : effectMap[v] \subseteq effectMap'[v]
    PROVE  CodeCovered'
<1>1. \A v \in Value : RecordedOf(v) \subseteq RecordedOf(v)'
    BY DEF RecordedOf
<1> QED
    BY <1>1, CodeAlone DEF CoverInv

(* A pass folds some loads of a function and records it with each.         *)
LEMMA FoldStep ==
    ASSUME CoverInv, TypeOK, TypeOK', stage \in Recording, NEW f \in Function,
           NEW S \in SUBSET loads[f], ReplaceLoads(f, S),
           \A v \in Value : RecordedOf(v) \subseteq RecordedOf(v)' /\ (v \in S => f \in RecordedOf(v)')
    PROVE  CodeCovered'
<1>1. contents \in [Function -> SUBSET Value] /\ contents' = [contents EXCEPT ![f] = @ \cup S]
      /\ S \subseteq Value
    BY DEF ReplaceLoads, TypeOK, Value
<1>2. \A g \in Function : \A v \in contents'[g] : v \in contents[g] \/ (g = f /\ v \in S)
    BY <1>1
<1>3. \A g \in Function : \A v \in contents'[g] : v \in contents[g] \/ g \in RecordedOf(v)'
    BY <1>1, <1>2
<1> QED
    BY <1>3, CoverStep DEF CoverInv

LEMMA PassesCover == ASSUME CoverInv, TypeOK, TypeOK', Passes PROVE CoverInv'
<1>1. CASE StartConstantPropagation
    <2>1. \A v \in Value : effectMap[v] \subseteq effectMap'[v]
        BY <1>1, MergeFact DEF StartConstantPropagation, MergedBeforeConst
    <2>2. stage = "start" /\ stage' = "const" /\ UNCHANGED <<contents, constEffects, inlineEffects, rangeEffects>>
        BY <1>1 DEF StartConstantPropagation, code, recorded
    <2>3. CodeCovered'
        BY <2>1, <2>2, MergeStep DEF Recording
    <2>4. Merged'
        BY <2>2 DEF Merged
    <2> QED
        BY <2>2, <2>3, <2>4, StillRecording DEF Recording
<1>2. ASSUME NEW f \in Function, PropagateConstants(f) PROVE CoverInv'
    <2>1. PICK S \in SUBSET loads[f] :
              ReplaceLoads(f, S) /\ constEffects' = Record(constEffects, S, f)
        BY <1>2 DEF PropagateConstants
    <2>2. stage = "const" /\ stage' = "const" /\ UNCHANGED <<inlineEffects, rangeEffects, effectMap>>
        BY <1>2 DEF PropagateConstants
    <2>3. \A v \in Value : constEffects[v] \subseteq constEffects'[v] /\ (v \in S => f \in constEffects'[v])
        BY <2>1, RecordFact
    <2>4. \A v \in Value : RecordedOf(v) \subseteq RecordedOf(v)' /\ (v \in S => f \in RecordedOf(v)')
        BY <2>2, <2>3 DEF RecordedOf
    <2>5. CodeCovered'
        BY <2>1, <2>2, <2>4, FoldStep DEF Recording
    <2>6. Merged'
        BY <2>2 DEF Merged
    <2> QED
        BY <2>2, <2>5, <2>6, StillRecording DEF Recording
<1>3. CASE EndConstantPropagation
    <2>1. \A v \in Value : /\ effectMap[v] \subseteq effectMap'[v]
                           /\ Jobs # 1 => constEffects[v] \subseteq effectMap'[v]
        BY <1>3, MergeFact DEF EndConstantPropagation
    <2>2. stage = "const" /\ stage' = "inline" /\ UNCHANGED <<contents, constEffects, inlineEffects, rangeEffects>>
        BY <1>3 DEF EndConstantPropagation, code, recorded
    <2>3. CodeCovered'
        BY <2>1, <2>2, MergeStep DEF Recording
    <2>4. Merged'
        BY <2>1, <2>2 DEF Merged
    <2> QED
        BY <2>2, <2>3, <2>4, StillRecording DEF Recording
<1>4. ASSUME NEW f \in Function, NEW g \in Function, Inline(f, g) PROVE CoverInv'
    <2>1. /\ stage = "inline" /\ stage' = "inline" /\ UNCHANGED <<constEffects, rangeEffects, effectMap>>
          /\ inlineEffects' = Record(inlineEffects, {g}, f)
          /\ contents' = [contents EXCEPT ![f] = @ \cup {g} \cup contents[g]]
        BY <1>4 DEF Inline
    <2>2. \A v \in Value : inlineEffects[v] \subseteq inlineEffects'[v] /\ (v = g => f \in inlineEffects'[v])
        BY <2>1, RecordFact
    <2>3. \A v \in Value : RecordedOf(v) \subseteq RecordedOf(v)' /\ (v = g => f \in RecordedOf(v)')
        BY <2>1, <2>2 DEF RecordedOf
    <2>4. f \in RecordedOf(g)'
        BY <2>3 DEF Value
    <2>5. \A h \in Function : \A v \in contents'[h] :
              v \in contents[h] \/ (h = f /\ (v = g \/ v \in contents[g]))
        BY <2>1 DEF TypeOK
    <2>6. CodeCovered'
        <3>1. \A h \in Function : \A v \in contents'[h] :
                  \/ v \in contents[h]
                  \/ h \in RecordedOf(v)'
                  \/ \E k \in Function : v \in contents[k] /\ h \in RecordedOf(k)'
            BY <2>4, <2>5
        <3> QED
            BY <2>1, <2>3, <3>1, CoverStep DEF CoverInv, Recording
    <2>7. Merged'
        BY <2>1 DEF CoverInv, Merged
    <2> QED
        BY <2>1, <2>6, <2>7, StillRecording DEF Recording
<1>5. CASE NextCaller
    BY <1>5, NothingRecorded DEF NextCaller, code, recorded, Recording
<1>6. CASE EndFunctionInline
    <2>1. \A v \in Value : effectMap[v] \subseteq effectMap'[v] /\ inlineEffects[v] \subseteq effectMap'[v]
        BY <1>6, MergeFact DEF EndFunctionInline
    <2>2. stage = "inline" /\ stage' = "range" /\ UNCHANGED <<contents, constEffects, inlineEffects, rangeEffects>>
        BY <1>6 DEF EndFunctionInline, code, recorded
    <2>3. CodeCovered'
        BY <2>1, <2>2, MergeStep DEF Recording
    <2>4. Merged'
        BY <2>1, <2>2 DEF CoverInv, Merged
    <2> QED
        BY <2>2, <2>3, <2>4, StillRecording DEF Recording
<1>7. ASSUME NEW f \in Function, PropagateRanges(f) PROVE CoverInv'
    <2>1. PICK S \in SUBSET loads[f] :
              ReplaceLoads(f, S) /\ rangeEffects' = Record(rangeEffects, S, f)
        BY <1>7 DEF PropagateRanges
    <2>2. stage = "range" /\ stage' = "range" /\ UNCHANGED <<constEffects, inlineEffects, effectMap>>
        BY <1>7 DEF PropagateRanges
    <2>3. \A v \in Value : rangeEffects[v] \subseteq rangeEffects'[v] /\ (v \in S => f \in rangeEffects'[v])
        BY <2>1, RecordFact
    <2>4. \A v \in Value : RecordedOf(v) \subseteq RecordedOf(v)' /\ (v \in S => f \in RecordedOf(v)')
        BY <2>2, <2>3 DEF RecordedOf
    <2>5. CodeCovered'
        BY <2>1, <2>2, <2>4, FoldStep DEF Recording
    <2>6. Merged'
        BY <2>2 DEF CoverInv, Merged
    <2> QED
        BY <2>2, <2>5, <2>6, StillRecording DEF Recording
<1>8. CASE EndRangePropagation
    <2>1. \A v \in Value : effectMap[v] \subseteq effectMap'[v] /\ rangeEffects[v] \subseteq effectMap'[v]
        BY <1>8, MergeFact DEF EndRangePropagation
    <2>2. stage = "range" /\ stage' = "flatten" /\ UNCHANGED <<contents, constEffects, inlineEffects, rangeEffects>>
        BY <1>8 DEF EndRangePropagation, code, recorded
    <2>3. CodeCovered'
        BY <2>1, <2>2, MergeStep DEF Recording
    <2>4. Merged'
        BY <2>1, <2>2 DEF CoverInv, Merged
    <2> QED
        BY <2>2, <2>3, <2>4, StillRecording DEF Recording
<1> QED
    BY <1>1, <1>2, <1>3, <1>4, <1>5, <1>6, <1>7, <1>8 DEF Passes

(* The flattened map holds what a chain of effects leads to: whatever is   *)
(* in a function's code now has that function among its effects.           *)
LEMMA EndFlattenCover ==
    ASSUME Jobs # 1, CoverInv, Inv, TypeOK', EndFlatten PROVE CoverInv'
<1>1. /\ stage = "flatten" /\ stage' = "init" /\ key = None /\ todo = {}
      /\ effectMap' = newEffectMap /\ UNCHANGED contents
    BY DEF EndFlatten, code
<1>2. \A v \in Value : RecordedOf(v) = effectMap[v]
    BY <1>1 DEF CoverInv, Merged, RecordedOf
<1>3. \A v \in Value : ReachedFrom(v) = LeadsTo(v)
    <2>1. \A S \in SUBSET Value : ClosedUnderRecorded(S) <=> ClosedUnderEffects(S)
        BY <1>2 DEF ClosedUnderRecorded, ClosedUnderEffects
    <2> QED
        BY <1>2, <2>1 DEF ReachedFrom, LeadsTo
<1>4. ASSUME NEW f \in Function, NEW v \in contents[f] PROVE f \in newEffectMap[v]
    <2>1. v \in Value
        BY DEF Inv, TypeOK
    <2>2. f \in LeadsTo(v)
        BY <1>1, <1>3, <2>1 DEF CoverInv, CodeCovered, Recording
    <2>3. effectMap[v] # {}
        BY <2>2 DEF LeadsTo, ClosedUnderEffects
    <2>4. v \in Keys(effectMap) \ (todo \cup {key})
        BY <1>1, <2>1, <2>3, ValueAssumption DEF Keys
    <2>5. newEffectMap[v] = LeadsTo(v)
        BY <1>1, <2>4 DEF Inv, FlattenedIsClosure
    <2> QED
        BY <2>2, <2>5
<1> QED
    BY <1>1, <1>4 DEF CoverInv, CodeCovered, Merged, Direct, Named, EffectsCovered, Recording

(* The name of an effect is an effect of its key's name.                   *)
LEMMA NameSetFact ==
    ASSUME NEW S, NEW v \in S, Name[v] # Unnamed PROVE Name[v] \in NameSet(S)
BY DEF NameSet

(* What a constructor initialises stands for it, as a key and as an effect.*)
LEMMA MembersCover ==
    ASSUME TypeOK, NEW f \in Function, NEW v \in Value, f \in effectMap[v],
           NEW n \in NamesOf(v), NEW m \in NamesOf(f), v \in Constructors \/ f \in Constructors
    PROVE  n \in Names /\ m \in MemberEffects(n)
<1>1. CASE v \in Constructors
    <2>1. n \in Members[v] /\ v \in Initialisers(n)
        BY <1>1 DEF NamesOf, Initialisers
    <2>2. n \in Names
        BY <1>1, <2>1 DEF Names
    <2>3. CASE f \in Constructors
        <3>1. m \in MembersOf(effectMap[v])
            BY <2>3 DEF NamesOf, MembersOf
        <3> QED
            BY <2>1, <2>2, <3>1 DEF MemberEffects
    <2>4. CASE f \notin Constructors
        <3>1. m = Name[f] /\ m # Unnamed /\ f \in effectMap[v] \ Constructors
            BY <2>4 DEF NamesOf
        <3>2. m \in NameSet(effectMap[v] \ Constructors)
            BY <3>1, NameSetFact
        <3>3. m \in NameSet(effectMap[v] \ Constructors) \cup MembersOf(effectMap[v])
            BY <3>2
        <3>4. m \in UNION {NameSet(effectMap[c] \ Constructors) \cup MembersOf(effectMap[c]) :
                              c \in Initialisers(n)}
            BY <2>1, <3>3
        <3> QED
            BY <2>2, <3>4 DEF MemberEffects
    <2> QED
        BY <2>3, <2>4
<1>2. CASE v \notin Constructors /\ f \in Constructors
    <2>1. n = Name[v] /\ n # Unnamed
        BY <1>2 DEF NamesOf
    <2>2. v \in KeysNamed(n) /\ n \in Names
        BY <2>1 DEF KeysNamed, Names
    <2>3. m \in MembersOf(effectMap[v])
        BY <1>2 DEF NamesOf, MembersOf
    <2> QED
        BY <2>2, <2>3 DEF MemberEffects
<1> QED
    BY <1>1, <1>2

LEMMA RewriteCover ==
    ASSUME CoverInv, TypeOK, TypeOK', RewriteConstructors PROVE CoverInv'
<1>1. /\ stage = "init" /\ stage' = "names" /\ UNCHANGED contents
      /\ strEffectMap' = [n \in Names |-> strEffectMap[n] \cup MemberEffects(n)]
      /\ effectMap' = [v \in Value |-> IF v \in Constructors THEN {} ELSE effectMap[v] \ Constructors]
    BY DEF RewriteConstructors, code
<1>2. ASSUME NEW f \in Function, NEW v \in contents[f], NEW n \in NamesOf(v), NEW m \in NamesOf(f)
      PROVE  m \in strEffectMap'[n] \cup UNION {NameSet(effectMap'[u]) : u \in KeysNamed(n)}
    <2>1. v \in Value /\ f \in effectMap[v]
        BY <1>1 DEF TypeOK, CoverInv, Direct
    <2>2. CASE v \in Constructors \/ f \in Constructors
        <3>1. n \in Names /\ m \in MemberEffects(n)
            BY <2>1, <2>2, MembersCover
        <3> QED
            BY <1>1, <3>1
    <2>3. CASE v \notin Constructors /\ f \notin Constructors
        <3>1. n = Name[v] /\ n # Unnamed /\ m = Name[f] /\ m # Unnamed
            BY <2>3 DEF NamesOf
        <3>2. v \in KeysNamed(n) /\ f \in effectMap'[v]
            BY <1>1, <2>1, <2>3, <3>1 DEF KeysNamed
        <3>3. m \in NameSet(effectMap'[v])
            BY <3>1, <3>2, NameSetFact
        <3> QED
            BY <3>2, <3>3
    <2> QED
        BY <2>2, <2>3
<1>3. Named'
    <2>1. \A n : EffectsOfName(n)' = strEffectMap'[n] \cup UNION {NameSet(effectMap'[u]) : u \in KeysNamed(n)}
        BY DEF EffectsOfName
    <2> QED
        BY <1>1, <1>2, <2>1 DEF Named
<1> QED
    BY <1>1, <1>3 DEF CoverInv, CodeCovered, Merged, Direct, EffectsCovered, Recording

(* DropOutIllegalString takes no name away that something is recompiled    *)
(* under.                                                                  *)
LEMMA ToNamesCover ==
    ASSUME CoverInv, TypeOK, TypeOK', ToNames PROVE CoverInv'
<1>1. /\ stage = "names" /\ stage' = "done" /\ UNCHANGED contents
      /\ strEffectMap' = [n \in Names |-> WithoutIllegal(n, EffectsOfName(n))]
    BY DEF ToNames, code
<1>2. \A v \in Value : NamesOf(v) \subseteq Names \ {Unnamed, Box}
    <2>1. ASSUME NEW v \in Value, v \in Constructors PROVE NamesOf(v) \subseteq Names \ {Unnamed, Box}
        BY <2>1, NameAssumption DEF NamesOf, Names
    <2>2. ASSUME NEW v \in Value, v \notin Constructors PROVE NamesOf(v) \subseteq Names \ {Unnamed, Box}
        BY <2>2 DEF NamesOf, Names
    <2> QED
        BY <2>1, <2>2
<1>3. ASSUME NEW f \in Function, NEW v \in contents[f], NEW n \in NamesOf(v), NEW m \in NamesOf(f), n # m
      PROVE  m \in strEffectMap'[n]
    <2>1. v \in Value /\ f \in Value
        BY DEF TypeOK, Value
    <2>2. n \in Names \ {Unnamed, Box} /\ m \notin {Unnamed, Box, n}
        BY <1>2, <1>3, <2>1
    <2>3. m \in EffectsOfName(n)
        BY <1>1 DEF CoverInv, Named
    <2> QED
        BY <1>1, <2>2, <2>3 DEF WithoutIllegal
<1>4. EffectsCovered'
    BY <1>1, <1>3 DEF EffectsCovered, NamesOf
<1> QED
    BY <1>1, <1>4 DEF CoverInv, CodeCovered, Merged, Direct, Named, Recording

(* Whatever the passes do, in whatever order, nothing they optimised into  *)
(* a function is lost.                                                     *)
LEMMA CoverStart == Init => CoverInv
BY DEF Init, CoverInv, CodeCovered, Merged, Direct, Named, EffectsCovered

LEMMA CoverInductive == ASSUME Jobs # 1, CoverInv, Inv, Inv', [Next]_vars PROVE CoverInv'
<1>a. TypeOK /\ TypeOK'
    BY DEF Inv
<1>1. CASE Passes
    BY <1>1, <1>a, PassesCover
<1>2. CASE (\E k \in Value : StartKey(k)) \/ PopNode \/ EndKey
    <2>1. stage = "flatten" /\ UNCHANGED <<stage, contents, constEffects, inlineEffects, rangeEffects, effectMap>>
        BY <1>2 DEF StartKey, PopNode, EndKey, code, recorded
    <2> QED
        BY <1>a, <2>1, NothingRecorded DEF Recording
<1>3. CASE EndFlatten
    BY <1>3, <1>a, EndFlattenCover
<1>4. CASE RewriteConstructors
    BY <1>4, <1>a, RewriteCover
<1>5. CASE ToNames
    BY <1>5, <1>a, ToNamesCover
<1>6. CASE UNCHANGED vars
    <2>1. \A v : ReachedFrom(v)' = ReachedFrom(v)
        BY <1>6 DEF vars, code, recorded, ReachedFrom, RecordedOf, ClosedUnderRecorded
    <2>2. \A n : EffectsOfName(n)' = EffectsOfName(n)
        BY <1>6 DEF vars, EffectsOfName
    <2> QED
        BY <1>6, <2>1, <2>2 DEF vars, code, recorded, CoverInv, CodeCovered, Merged, Direct, Named, EffectsCovered
<1> QED
    BY <1>1, <1>2, <1>3, <1>4, <1>5, <1>6 DEF Next, Updates

(* With more than one job, whatever constant propagation, inlining and     *)
(* range propagation put into a function's code has that function, or the  *)
(* members it initialises, among the declarations that are recompiled with *)
(* it: for every program, effects with cycles included.  With one job the  *)
(* effects of constant propagation are lost, and no such thing holds.      *)
THEOREM NoEffectLost == ASSUME Jobs # 1 PROVE Spec => []EffectsCovered
<1>1. Init => CoverInv
    BY CoverStart
<1>2. Inv /\ Inv' /\ CoverInv /\ [Next]_vars => CoverInv'
    BY CoverInductive
<1>3. CoverInv => EffectsCovered
    BY DEF CoverInv
<1> QED
    BY <1>1, <1>2, <1>3, Invariance, PTL DEF Spec
=============================================================================
