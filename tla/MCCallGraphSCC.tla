--------------------------- MODULE MCCallGraphSCC ---------------------------
(***************************************************************************)
(* A function that nobody calls and three that call each other and         *)
(* themselves in every way, at most two calls in each body: every shape of *)
(* recursion of up to three functions, entered from either of two callees, *)
(* reachable or not.                                                       *)
(***************************************************************************)
EXTENDS CallGraphSCC, TLC

MCFunctions == <<"f", "g", "h", "k">>
AtMostTwo(callees) ==
    {<<>>} \cup {<<c>> : c \in callees}
        \cup {<<p[1], p[2]>> : p \in {q \in callees \X callees : q[1] # q[2]}}
MCCalls ==
    {[n \in Func |-> IF n = "f" THEN first ELSE rest[n]] :
         first \in AtMostTwo({"g", "h", Exit}),
         rest \in [Func \ {"f"} -> AtMostTwo(Func \ {"f"})]}
MCPrograms == [calls : MCCalls, addressTaken : {{}, {"g"}}]
=============================================================================
