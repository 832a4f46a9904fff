-------------------------- MODULE MCDataflowEngine --------------------------
(***************************************************************************)
(* A small instance of DataflowEngine: one integer variable of Top + 1     *)
(* values with wrapping arithmetic, the interval analysis of that variable *)
(* with branch refinement, and a family of functions over four shapes of   *)
(* control-flow graph with loops, a lambda and a lambda inside it.         *)
(* A program is a record; everything else is computed from it, the reached *)
(* configurations included, and TLC checks that this instance meets the    *)
(* contract of the engine before it explores the runs.                     *)
(***************************************************************************)
EXTENDS DataflowEngine, TLC

CONSTANTS
    Shapes,       \* shapes of control-flow graph
    MaxValue,     \* the largest value of the variable
    HeadOps, BodyOps, LambdaOps, \* what blocks b1, b2 and l0 may do
    Starts,       \* the value the function is called with
    LambdaAt,     \* the block that creates the lambda, or "none"
    Contexts      \* a subset of BOOLEAN: the kinds of analysis

MCBlock == {"b0", "b1", "b2", "b3", "l0", "l1", "m0"}
MCLambda == {"L", "M"}
MCStore == 0..MaxValue
TopState == <<0, MaxValue>>
MCBottom == <<1, 0>>
MCState == {s \in MCStore \X MCStore : s[1] <= s[2]} \cup {MCBottom}
MCGamma(s) == s[1]..s[2]

(* The programs; then one whose loop climbs to its bound in single steps,  *)
(* and one the engine refuses.                                             *)
Program ==
    [shape : Shapes, head : HeadOps, body : BodyOps, lambda : LambdaOps,
     at : LambdaAt, captures : BOOLEAN, bound : {2}, start : Starts,
     preserve : BOOLEAN, context : Contexts, huge : {FALSE}]
    \cup
    [shape : {"loop"}, head : {"inc"}, body : {"nop"}, lambda : {"nop"},
     at : {"none"}, captures : {FALSE}, bound : {MaxValue}, start : {1},
     preserve : {TRUE}, context : {FALSE}, huge : {FALSE}]
    \cup
    [shape : {"loop"}, head : {"nop"}, body : {"nop"}, lambda : {"nop"},
     at : {"none"}, captures : {FALSE}, bound : {2}, start : {0},
     preserve : {FALSE}, context : {FALSE}, huge : {TRUE}]

-----------------------------------------------------------------------------
(* Graphs.                                                                 *)
MCUnitBlocks(f, u) ==
    CASE u = "L" -> {"l0", "l1"}
      [] u = "M" -> {"m0"}
      [] OTHER -> {"b0", "b1", "b2", "b3"}

MCUnitEntry(f, u) ==
    CASE u = "L" -> "l0" [] u = "M" -> "m0" [] OTHER -> "b0"

BodySuccessors(shape, b) ==
    CASE shape = "loop" ->
            (CASE b = "b0" -> <<"b1">> [] b = "b1" -> <<"b2", "b3">>
               [] b = "b2" -> <<"b1">> [] OTHER -> <<>>)
      [] shape = "diamond" ->
            (CASE b = "b0" -> <<"b1", "b2">> [] b \in {"b1", "b2"} -> <<"b3">>
               [] OTHER -> <<>>)
      [] shape = "self" ->
            (CASE b = "b0" -> <<"b1">> [] b = "b1" -> <<"b1", "b2">> [] OTHER -> <<>>)
      [] shape = "entry" ->
            (CASE b = "b0" -> <<"b1">> [] b = "b1" -> <<"b0", "b2">> [] OTHER -> <<>>)

MCSuccessors(f, b) ==
    CASE b = "l0" -> <<"l0", "l1">>
      [] b \in {"l1", "m0"} -> <<>>
      [] OTHER -> BodySuccessors(f.shape, b)

MCTopologicalSort(f, u) ==
    CASE u = "L" -> <<"l0", "l1">>
      [] u = "M" -> <<"m0">>
      [] f.shape = "loop" -> <<"b0", "b1", "b2", "b3">>
      [] f.shape = "diamond" -> <<"b0", "b1", "b2", "b3">>
      [] OTHER -> <<"b0", "b1", "b2">>

MCLambdasIn(f, b) ==
    CASE b = f.at -> <<"L">> [] b = "l1" -> <<"M">> [] OTHER -> <<>>

MCSkipAnalysis(f) == f.huge
MCIsContextAnalysis(f) == f.context

-----------------------------------------------------------------------------
(* Executions: a block does one operation, then branches on x < bound.     *)
Op(f, b) ==
    CASE b = "b1" -> f.head [] b = "b2" -> f.body [] b = "l0" -> f.lambda
      [] OTHER -> "nop"

MCRun(f, b, c) ==
    CASE Op(f, b) = "nop" -> {c}
      [] Op(f, b) = "inc" -> {(c + 1) % (MaxValue + 1)}
      [] Op(f, b) = "zero" -> {0}
      [] Op(f, b) = "any" -> MCStore

Branches(f, b) == Len(MCSuccessors(f, b)) = 2

MCTakes(f, b, c) ==
    IF Branches(f, b)
    THEN {MCSuccessors(f, b)[IF c < f.bound THEN 1 ELSE 2]}
    ELSE Elems(MCSuccessors(f, b))

MCFuncStores(f) == {f.start}
MCInvoke(f, b, l, c) == IF f.captures THEN MCStore ELSE MCRun(f, b, c)

(* The configurations executions reach, layer by layer: what is new after  *)
(* each step.                                                              *)
StepsFrom(f, p) ==
    {<<t, d>> \in Elems(MCSuccessors(f, p[1])) \X MCRun(f, p[1], p[2]) :
        t \in MCTakes(f, p[1], d)}
    \cup UNION {{MCUnitEntry(f, l)} \X MCInvoke(f, p[1], l, p[2]) :
                  l \in Elems(MCLambdasIn(f, p[1]))}

Discover(f) ==
    LET layers[n \in 0..(7 * (MaxValue + 1))] ==
          IF n = 0 THEN <<{<<"b0", c>> : c \in MCFuncStores(f)}>>
          ELSE LET known == layers[n - 1]
                   new == UNION {StepsFrom(f, p) : p \in known[Len(known)]}
                             \ UNION Elems(known)
               IN  IF new = {} THEN known ELSE Append(known, new)
    IN  layers[7 * (MaxValue + 1)]

(* A function under analysis: its program and what executing it reaches.   *)
Explored == {p @@ [layers |-> Discover(p)] : p \in Program}
MCFunction == Explored
MCReach(f, b) == {c \in MCStore : \E n \in DOMAIN f.layers : <<b, c>> \in f.layers[n]}
MCDepth(f, b, c) == CHOOSE n \in DOMAIN f.layers : <<b, c>> \in f.layers[n]

-----------------------------------------------------------------------------
(* The interval analysis.                                                  *)
Hull(s, t) ==
    IF s = MCBottom THEN t ELSE IF t = MCBottom THEN s
    ELSE <<IF s[1] < t[1] THEN s[1] ELSE t[1], IF s[2] > t[2] THEN s[2] ELSE t[2]>>

Meet(s, t) ==
    LET m == <<IF s[1] > t[1] THEN s[1] ELSE t[1], IF s[2] < t[2] THEN s[2] ELSE t[2]>>
    IN  IF s = MCBottom \/ t = MCBottom \/ m[1] > m[2] THEN MCBottom ELSE m

MCJoin(s, t) == Hull(s, t)
MCJoinChanged(s, t) == Hull(s, t) # s

MCEffect(f, b, s) ==
    CASE s = MCBottom -> MCBottom
      [] Op(f, b) = "nop" -> s
      [] Op(f, b) = "zero" -> <<0, 0>>
      [] Op(f, b) = "any" -> TopState
      [] Op(f, b) = "inc" ->
            IF s[2] < MaxValue THEN <<s[1] + 1, s[2] + 1>>
            ELSE IF s[1] = MaxValue THEN <<0, 0>> ELSE TopState

Below(f) == <<0, f.bound - 1>>
FromBound(f) == <<f.bound, MaxValue>>

MCEdgeState(f, b, s, t) ==
    IF ~Branches(f, b) THEN s
    ELSE IF t = MCSuccessors(f, b)[1] THEN Meet(s, Below(f)) ELSE Meet(s, FromBound(f))

(* A branch that is no loop guard and whose condition is decided goes one  *)
(* way.                                                                    *)
MCTargets(f, b, s) ==
    LET e == MCEffect(f, b, s) IN
    IF f.shape # "diamond" \/ ~Branches(f, b) \/ b \in {"l0"} THEN MCSuccessors(f, b)
    ELSE IF Meet(e, Below(f)) = MCBottom THEN <<MCSuccessors(f, b)[2]>>
    ELSE IF Meet(e, FromBound(f)) = MCBottom THEN <<MCSuccessors(f, b)[1]>>
    ELSE MCSuccessors(f, b)

MCEnvAt(f, b, l, s) == MCEffect(f, b, s)
MCFuncEntryState(f) == <<f.start, f.start>>
MCLambdaEntryState(f, l, s) == IF f.captures THEN TopState ELSE s

(* Bounds that moved since the snapshot are given up, unless the value is  *)
(* marked preserveDuringBodyWidening.                                      *)
MCWiden(f, s, t) ==
    IF f.preserve \/ s = MCBottom \/ t = MCBottom THEN t
    ELSE <<IF t[1] < s[1] THEN 0 ELSE t[1], IF t[2] > s[2] THEN MaxValue ELSE t[2]>>

MCClearState(s) == IF s = MCBottom THEN s ELSE TopState

(* NarrowRangeValue: a value without information is replaced by a useful   *)
(* candidate only, and disjoint values are left alone.                     *)
Useful(t) == 4 * (t[2] - t[1] + 1) <= MaxValue + 1

MCNarrow(s, t) ==
    IF s = MCBottom \/ t = MCBottom \/ Meet(s, t) = MCBottom THEN s
    ELSE IF s = TopState /\ ~Useful(t) THEN s
    ELSE Meet(s, t)
=============================================================================
