---------------------------- MODULE MCEffectMap ----------------------------
(***************************************************************************)
(* main calls wrap and leaf; wrap, which has no name of its own, calls a   *)
(* constructor and leaf; the constructor calls leaf, which calls itself.   *)
(* leaf and main load a global variable.                                   *)
(***************************************************************************)
EXTENDS EffectMap, TLC

MCCalls == [f \in Function |->
    CASE f = "main" -> {"wrap"} [] f = "wrap" -> {"make", "leaf"}
      [] f = "make" -> {"leaf"} [] f = "leaf" -> {"leaf"}]
MCLoads == [f \in Function |-> IF f \in {"leaf", "main"} THEN {"limit"} ELSE {}]
MCPostOrder == <<"leaf", "make", "wrap", "main">>
MCName == [v \in Value |-> IF v \in {"wrap", "make"} THEN "" ELSE v]
MCMembers == [c \in Constructors |-> {"field"}]

(* Two functions that call each other: each is inlined into the other.     *)
CycleCalls == [f \in Function |->
    CASE f = "even" -> {"odd"} [] f = "odd" -> {"even"}]
CycleLoads == [f \in Function |-> {}]
CyclePostOrder == <<"even", "odd">>
CycleName == [v \in Value |-> v]
CycleMembers == [c \in Constructors |-> {}]
=============================================================================
