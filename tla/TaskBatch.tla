----------------------------- MODULE TaskBatch -----------------------------
(***************************************************************************)
(* What Utils::TaskQueue promises to the passes that use it: the tasks     *)
(* handed to it are each executed once, at most Limit at a time, none is   *)
(* taken while a heavier one is left, and the call that waits for them     *)
(* returns when all of them have a result.  How threads, the mutex and the *)
(* joins bring this about is the business of TaskQueue.                    *)
(***************************************************************************)
EXTENDS Integers, FiniteSets

CONSTANTS
    Task,      \* what can be handed over
    Priority,  \* the weight of each task
    Limit      \* how many tasks may execute at the same time

VARIABLES
    waiting,   \* handed over, not yet taken
    executing, \* taken, no result yet
    done,      \* has its result
    returned   \* the call that waits has returned

vars == <<waiting, executing, done, returned>>

Init ==
    /\ waiting = {} /\ executing = {} /\ done = {}
    /\ returned = FALSE

(* AddTask, before the execution starts.                                   *)
Add(t) ==
    /\ t \notin waiting \cup executing \cup done
    /\ executing = {} /\ done = {} /\ ~returned
    /\ waiting' = waiting \cup {t}
    /\ UNCHANGED <<executing, done, returned>>

Take(t) ==
    /\ t \in waiting
    /\ \A u \in waiting : Priority[u] <= Priority[t]
    /\ Cardinality(executing) < Limit
    /\ ~returned
    /\ waiting' = waiting \ {t}
    /\ executing' = executing \cup {t}
    /\ UNCHANGED <<done, returned>>

Finish(t) ==
    /\ t \in executing
    /\ executing' = executing \ {t}
    /\ done' = done \cup {t}
    /\ UNCHANGED <<waiting, returned>>

Return ==
    /\ waiting = {} /\ executing = {}
    /\ returned' = TRUE
    /\ UNCHANGED <<waiting, executing, done>>

Next == Return \/ \E t \in Task : Add(t) \/ Take(t) \/ Finish(t)

Spec == Init /\ [][Next]_vars
=============================================================================
