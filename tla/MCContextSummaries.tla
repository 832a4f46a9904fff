------------------------- MODULE MCContextSummaries -------------------------
(***************************************************************************)
(* Programs for ContextSummaries.                                          *)
(***************************************************************************)
EXTENDS ContextSummaries, TLC

(* The contexts f1, f2 and f3 are argument lists of f.                     *)
MCFunctionOf == [c \in Context |-> CASE c \in {"f1", "f2", "f3"} -> "f" [] c = "g1" -> "g"
                                      [] c = "h1" -> "h" [] OTHER -> "a"]

(* f and g call each other, f calls itself and a leaf h; two roots enter   *)
(* the recursion from both ends, one of them calls f once more.            *)
MCCalls ==
    [n \in Node |->
        CASE n = "r1" -> {"f1"}
          [] n = "r2" -> {"g1", "h1", "f3"}
          [] n = "f1" -> {"g1", "f2"}
          [] n = "f2" -> {"h1"}
          [] n = "g1" -> {"f1"}
          [] OTHER -> {}]

(* Three programs in one: f calls itself with known numbers; a root calls  *)
(* f and the leaf h; another calls a closed-form recurrence a and g, which *)
(* calls through a pointer.                                                *)
MCCallsOfContest ==
    [n \in Node |->
        CASE n = "r1" -> {"f1"}
          [] n = "r2" -> {"f1", "h1"}
          [] n = "r3" -> {"a1", "g1"}
          [] n = "f1" -> {"f2"}
          [] n = "f2" -> {"f1"}
          [] n = "g1" -> {External}
          [] OTHER -> {}]

MCLocal ==
    [n \in Node |-> CASE n = "f1" -> {1} [] n \in {"f2", "h1"} -> {2}
                         [] n = "f3" -> {3} [] OTHER -> {}]

(* The least solution of the equations.                                    *)
MCReturns ==
    LET Step(now) == [n \in Node \cup {External} |->
            IF n = External THEN Value
            ELSE MCLocal[n] \cup UNION {now[c] : c \in Calls[n]}]
        iterate[k \in 0 .. 8] ==
            IF k = 0 THEN [n \in Node \cup {External} |-> {}] ELSE Step(iterate[k - 1])
    IN iterate[8]
=============================================================================
