---------------------------- MODULE MCTaskQueue ----------------------------
(***************************************************************************)
(* Four tasks of which two have the same priority.                         *)
(***************************************************************************)
EXTENDS TaskQueue, TLC

MCPriority ==
    [t \in Task |-> CASE t = "small" -> 1 [] t = "large" -> 3 [] OTHER -> 2]
=============================================================================
