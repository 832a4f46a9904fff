----------------------------- MODULE EffectMap -----------------------------
(***************************************************************************)
(* The optimisation effect map of an incremental compilation: which        *)
(* declaration was optimised into which other one.  Constant propagation,  *)
(* function inlining and range propagation record their effects while they *)
(* rewrite the functions (src/CHIR/Optimization), ToCHIR::Run merges,      *)
(* flattens and renames them (src/CHIR/CHIR.cpp), and the next compilation *)
(* recompiles every declaration that a changed one was optimised into.  An *)
(* effect that is lost on the way is a function that keeps stale code.     *)
(*                                                                         *)
(* A map is a total function to sets: the empty set stands for an absent   *)
(* key.  contents is a history variable: what each function's rewritten    *)
(* body was really made from.                                              *)
(***************************************************************************)
EXTENDS Naturals, FiniteSets, Sequences

CONSTANTS
    Function,      \* the global functions with a body
    GlobalVar,     \* the immutable global variables with an initializer
    Calls,         \* function -> the functions it calls that may be inlined
    Loads,         \* function -> the global variables it loads
    PostOrder,     \* postOrderSCCFunctionlist, without the skipped functions
    AlwaysInlined, \* the white list and the initialisers of member variables
    InlineLimit,   \* INLINED_COUNT_THRESHOLD
    Jobs,          \* opts.GetJobs()
    Name,          \* function or variable -> its raw mangled name
    Unnamed,       \* the empty name: added by the compiler, or a lambda
    Box,           \* "$BOX", the name of the functions of a box
    Constructors,  \* IsDesugaredNoneStaticConstructor
    Members,       \* constructor -> the names of its type's instance members
    None           \* no key

Value == Function \cup GlobalVar
Names == {Name[v] : v \in Value} \cup (UNION {Members[c] : c \in Constructors})

ASSUME ValueAssumption == /\ IsFiniteSet(Value) /\ None \notin Value
                          /\ Function \cap GlobalVar = {}
ASSUME BodyAssumption == /\ Calls \in [Function -> SUBSET Function]
                         /\ Loads \in [Function -> SUBSET GlobalVar]
                         /\ PostOrder \in Seq(Function)
                         /\ AlwaysInlined \subseteq Function
ASSUME LimitAssumption == InlineLimit \in Nat /\ Jobs \in Nat \ {0}
ASSUME NameAssumption ==
    /\ Constructors \subseteq Function
    /\ \A c \in Constructors : Name[c] = Unnamed /\ {Unnamed, Box} \cap Members[c] = {}

VARIABLES
    stage,          \* where the pipeline is
    todo,           \* what the stage's loop has still to visit
    calls,          \* the calls left in each function's body
    loads,          \* the loads left in each function's body
    inlinedCount,   \* inlinedCountMap of the function being inlined into
    constEffects,   \* ConstPropagation::effectMap
    inlineEffects,  \* FunctionInline::effectMap
    rangeEffects,   \* RangePropagation::effectMap
    effectMap,      \* ToCHIR::effectMap
    newEffectMap,   \* the map that FlattenEffectMap builds
    key,            \* the key it is at, or None
    stack,          \* and its stack
    strEffectMap,   \* ToCHIR::strEffectMap
    contents        \* history: what each function's code was made from

code == <<calls, loads, contents>>
recorded == <<constEffects, inlineEffects, rangeEffects>>
flattening == <<newEffectMap, key, stack>>
vars == <<stage, todo, code, inlinedCount, recorded, effectMap, flattening,
          strEffectMap>>

Map == [Value -> SUBSET Value]
NoEffects == [v \in Value |-> {}]
Keys(map) == {v \in Value : map[v] # {}}

(* map[v].emplace(f) for every v of S.                                     *)
Record(map, S, f) ==
    [v \in Value |-> IF v \in S THEN map[v] \cup {f} ELSE map[v]]

(* MergeEffectMap.                                                         *)
Merge(from, to) == [v \in Value |-> to[v] \cup from[v]]

(* pushToStack: the nodes of an unordered set, in any order.               *)
Orders(S) == {s \in [1..Cardinality(S) -> S] : {s[i] : i \in DOMAIN s} = S}

(***************************************************************************)
(* The passes.                                                             *)
(***************************************************************************)
Init ==
    /\ stage = "start" /\ todo = {}
    /\ calls = Calls /\ loads = Loads
    /\ contents = [f \in Function |-> {}]
    /\ inlinedCount = 0
    /\ constEffects = NoEffects /\ inlineEffects = NoEffects
    /\ rangeEffects = NoEffects /\ effectMap = NoEffects
    /\ newEffectMap = NoEffects /\ key = None /\ stack = <<>>
    /\ strEffectMap = [n \in Names |-> {}]

(* RunConstantPropagation: with one job the pass's map is merged before    *)
(* the pass runs.                                                          *)
MergedBeforeConst == IF Jobs = 1 THEN Merge(constEffects, effectMap)
                                 ELSE effectMap
StartConstantPropagation ==
    /\ stage = "start"
    /\ stage' = "const" /\ todo' = Function
    /\ effectMap' = MergedBeforeConst
    /\ UNCHANGED <<code, inlinedCount, recorded, flattening, strEffectMap>>

(* Some loads of f are known to be constant and are replaced.              *)
ReplaceLoads(f, S) ==
    /\ loads' = [loads EXCEPT ![f] = @ \ S]
    /\ contents' = [contents EXCEPT ![f] = @ \cup S]

PropagateConstants(f) ==
    /\ stage = "const" /\ f \in todo
    /\ todo' = todo \ {f}
    /\ \E S \in SUBSET loads[f] :
          /\ ReplaceLoads(f, S)
          /\ constEffects' = Record(constEffects, S, f)
    /\ UNCHANGED <<stage, calls, inlinedCount, inlineEffects, rangeEffects,
                   effectMap, flattening, strEffectMap>>

EndConstantPropagation ==
    /\ stage = "const" /\ todo = {}
    /\ stage' = "inline" /\ todo' = 1..Len(PostOrder)
    /\ effectMap' = IF Jobs = 1 THEN effectMap
                                ELSE Merge(constEffects, effectMap)
    /\ UNCHANGED <<code, inlinedCount, recorded, flattening, strEffectMap>>

(* The function of the list that RunFunctionInline is at.                  *)
Position == CHOOSE i \in todo : \A j \in todo : i <= j
Caller == PostOrder[Position]

(* Mutant of CanRewrite: the count is compared with <=.                    *)
CanRewriteOnceMore(f, g) ==
    /\ g # f
    /\ g \in AlwaysInlined \/ inlinedCount <= InlineLimit

CanRewrite(f, g) ==
    /\ g # f
    /\ g \in AlwaysInlined \/ inlinedCount < InlineLimit

(* DoFunctionInline: the callee's body is copied into the caller.  Whether *)
(* the callee is small enough is left open.                                *)
Inline(f, g) ==
    /\ stage = "inline" /\ todo # {} /\ f = Caller
    /\ g \in calls[f] /\ CanRewrite(f, g)
    /\ inlineEffects' = Record(inlineEffects, {g}, f)
    /\ calls' = [calls EXCEPT ![f] = (@ \ {g}) \cup calls[g]]
    /\ loads' = [loads EXCEPT ![f] = @ \cup loads[g]]
    /\ contents' = [contents EXCEPT ![f] = @ \cup {g} \cup contents[g]]
    /\ inlinedCount' = IF g \in AlwaysInlined THEN inlinedCount
                                              ELSE inlinedCount + 1
    /\ UNCHANGED <<stage, todo, constEffects, rangeEffects, effectMap,
                   flattening, strEffectMap>>

NextCaller ==
    /\ stage = "inline" /\ todo # {}
    /\ todo' = todo \ {Position} /\ inlinedCount' = 0
    /\ UNCHANGED <<stage, code, recorded, effectMap, flattening, strEffectMap>>

EndFunctionInline ==
    /\ stage = "inline" /\ todo = {}
    /\ stage' = "range" /\ todo' = Function
    /\ effectMap' = Merge(inlineEffects, effectMap)
    /\ UNCHANGED <<code, inlinedCount, recorded, flattening, strEffectMap>>

PropagateRanges(f) ==
    /\ stage = "range" /\ f \in todo
    /\ todo' = todo \ {f}
    /\ \E S \in SUBSET loads[f] :
          /\ ReplaceLoads(f, S)
          /\ rangeEffects' = Record(rangeEffects, S, f)
    /\ UNCHANGED <<stage, calls, inlinedCount, constEffects, inlineEffects,
                   effectMap, flattening, strEffectMap>>

EndRangePropagation ==
    /\ stage = "range" /\ todo = {}
    /\ stage' = "flatten"
    /\ effectMap' = Merge(rangeEffects, effectMap)
    /\ todo' = Keys(effectMap')
    /\ UNCHANGED <<code, inlinedCount, recorded, flattening, strEffectMap>>

(***************************************************************************)
(* FlattenEffectMap: for each key, everything that its effects lead to.    *)
(***************************************************************************)
StartKey(k) ==
    /\ stage = "flatten" /\ key = None /\ k \in todo
    /\ key' = k /\ todo' = todo \ {k}
    /\ newEffectMap' = [newEffectMap EXCEPT ![k] = effectMap[k]]
    /\ stack' \in Orders(effectMap[k])
    /\ UNCHANGED <<stage, code, inlinedCount, recorded, effectMap, strEffectMap>>

(* Mutant of PopNode: what it finds is merged but not visited.             *)
PopNodeOnly ==
    /\ stage = "flatten" /\ key # None /\ stack # <<>>
    /\ newEffectMap' =
          [newEffectMap EXCEPT ![key] = @ \cup effectMap[Head(stack)]]
    /\ stack' = Tail(stack)
    /\ UNCHANGED <<stage, todo, code, inlinedCount, recorded, effectMap, key,
                   strEffectMap>>

PopNode ==
    /\ stage = "flatten" /\ key # None /\ stack # <<>>
    /\ newEffectMap' =
          [newEffectMap EXCEPT ![key] = @ \cup effectMap[Head(stack)]]
    /\ \E pushed \in Orders(effectMap[Head(stack)]) :
          stack' = pushed \o Tail(stack)
    /\ UNCHANGED <<stage, todo, code, inlinedCount, recorded, effectMap, key,
                   strEffectMap>>

EndKey ==
    /\ stage = "flatten" /\ key # None /\ stack = <<>>
    /\ key' = None
    /\ UNCHANGED <<stage, todo, code, inlinedCount, recorded, effectMap,
                   newEffectMap, stack, strEffectMap>>

EndFlatten ==
    /\ stage = "flatten" /\ key = None /\ todo = {}
    /\ stage' = "init" /\ effectMap' = newEffectMap
    /\ UNCHANGED <<todo, code, inlinedCount, recorded, flattening, strEffectMap>>

(***************************************************************************)
(* UpdateEffectMapToString.                                                *)
(***************************************************************************)
MembersOf(S) == UNION {Members[c] : c \in S \cap Constructors}
NameSet(S) == {Name[v] : v \in S} \ {Unnamed}
KeysNamed(n) == {v \in Value : Name[v] = n /\ n # Unnamed}
Initialisers(n) == {c \in Constructors : n \in Members[c]}

(* UpdateOptEffectMapBecauseOfInit: a constructor stands for the instance  *)
(* members that it initialises, as an effect and as a key.                 *)
MemberEffectsOfKeys(n) ==  \* mutant: an effected constructor is erased only
    UNION {NameSet(effectMap[c] \ Constructors) : c \in Initialisers(n)}

MemberEffects(n) ==
    (UNION {MembersOf(effectMap[v]) : v \in KeysNamed(n)})
    \cup
    (UNION {NameSet(effectMap[c] \ Constructors) \cup MembersOf(effectMap[c]) :
              c \in Initialisers(n)})

RewriteConstructors ==
    /\ stage = "init" /\ stage' = "names"
    /\ strEffectMap' = [n \in Names |-> strEffectMap[n] \cup MemberEffects(n)]
    /\ effectMap' = [v \in Value |-> IF v \in Constructors THEN {}
                                     ELSE effectMap[v] \ Constructors]
    /\ UNCHANGED <<todo, code, inlinedCount, recorded, flattening>>

(* The loop of UpdateEffectMapToString, then DropOutIllegalString.         *)
EffectsOfName(n) ==
    strEffectMap[n] \cup UNION {NameSet(effectMap[v]) : v \in KeysNamed(n)}
WithoutIllegal(n, S) ==
    IF n \in {Unnamed, Box} THEN {} ELSE S \ {Unnamed, Box, n}

ToNames ==
    /\ stage = "names" /\ stage' = "done"
    /\ strEffectMap' = [n \in Names |-> WithoutIllegal(n, EffectsOfName(n))]
    /\ UNCHANGED <<todo, code, inlinedCount, recorded, effectMap, flattening>>

Passes ==
    \/ StartConstantPropagation
    \/ \E f \in Function : PropagateConstants(f)
    \/ EndConstantPropagation
    \/ \E f, g \in Function : Inline(f, g)
    \/ NextCaller
    \/ EndFunctionInline
    \/ \E f \in Function : PropagateRanges(f)
    \/ EndRangePropagation

Updates ==
    \/ \E k \in Value : StartKey(k)
    \/ PopNode
    \/ EndKey
    \/ EndFlatten
    \/ RewriteConstructors
    \/ ToNames

Next == Passes \/ Updates
Spec == Init /\ [][Next]_vars

(* The pipeline is sequential and its tasks run to completion.             *)
FairSpec == Spec /\ WF_vars(Next)

(***************************************************************************)
(* Properties.                                                             *)
(***************************************************************************)
(* The type of every variable.                                             *)
TypeOK ==
    /\ stage \in {"start", "const", "inline", "range", "flatten", "init",
                  "names", "done"}
    /\ todo \subseteq IF stage = "inline" THEN 1..Len(PostOrder) ELSE Value
    /\ calls \in [Function -> SUBSET Function]
    /\ loads \in [Function -> SUBSET GlobalVar]
    /\ contents \in [Function -> SUBSET Value]
    /\ inlinedCount \in 0..InlineLimit
    /\ {constEffects, inlineEffects, rangeEffects, effectMap, newEffectMap}
          \subseteq Map
    /\ key \in Value \cup {None}
    /\ stack \in Seq(Value)
    /\ strEffectMap \in [Names -> SUBSET Names]

(* Everything that a chain of effects leads to from k: the least set that  *)
(* holds k's own effects and is closed under effects.                      *)
ClosedUnderEffects(S) == \A v \in S : effectMap[v] \subseteq S
LeadsTo(k) ==
    {v \in Value : \A S \in SUBSET Value :
        effectMap[k] \subseteq S /\ ClosedUnderEffects(S) => v \in S}

(* FlattenEffectMap computes the transitive closure that its comment shows *)
(* by an example (CHIR.cpp:155): a key that was left behind holds exactly  *)
(* the declarations that a chain of effects leads to, in whatever order    *)
(* the stack and the map were walked.                                      *)
FlattenedIsClosure ==
    stage = "flatten" =>
        \A k \in Keys(effectMap) \ (todo \cup {key}) :
            newEffectMap[k] = LeadsTo(k)

(* The names under which a value is recompiled: a constructor is           *)
(* recompiled with the members it initialises; a value without a name has  *)
(* none of its own.                                                        *)
NamesOf(v) == IF v \in Constructors THEN Members[v]
              ELSE {Name[v]} \ {Unnamed, Box}

(* No lost effect: when the compilation is done, whatever ended up in a    *)
(* function's code, by folding a load, by inlining, by inlining a function *)
(* without a name, or by folding a load that inlining had copied, has that *)
(* function (or the members it initialises) among the declarations to be   *)
(* recompiled when it changes.                                             *)
EffectsCovered ==
    stage = "done" =>
        \A f \in Function : \A v \in contents[f] :
            \A n \in NamesOf(v), m \in NamesOf(f) :
                n # m => m \in strEffectMap[n]

(* Flattening ends and the map is written.  It needs effects without a     *)
(* cycle.                                                                  *)
Termination == <>(stage = "done")
=============================================================================
