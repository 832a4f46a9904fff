---------------------------- MODULE CallGraphSCC ----------------------------
(***************************************************************************)
(* CallGraph and CallGraphAnalysis of                                      *)
(* src/CHIR/Analysis/CallGraphAnalysis.cpp: the order in which functions   *)
(* are inlined, callees before their callers, by Tarjan's strongly         *)
(* connected components on explicit stacks.  GetNextSCC suspends the       *)
(* traversal after each component; the stacks are what it resumes from.    *)
(***************************************************************************)
EXTENDS Integers, Sequences, FiniteSets

CONSTANTS
    Func,       \* the functions with a body
    functions,  \* GetGlobalFuncsWithBody, in order
    Entry,      \* the entry node, calling what nobody uses
    Exit,       \* the exit node, standing for functions without a body
    Programs    \* the programs to consider: see Program

Node == Func \cup {Entry, Exit}

(* What the graph is built from: the calls in each function's body, in     *)
(* order, and the functions used otherwise, as values.                     *)
Program == [calls : [Func -> Seq(Func \cup {Exit})], addressTaken : SUBSET Func]

ASSUME NodeAssumption ==
    /\ IsFiniteSet(Func)
    /\ Entry \notin Func /\ Exit \notin Func /\ Entry # Exit
ASSUME FunctionsAssumption ==
    /\ functions \in Seq(Func)
    /\ \A i, j \in DOMAIN functions : functions[i] = functions[j] => i = j
    /\ \A f \in Func : \E i \in DOMAIN functions : functions[i] = f
ASSUME ProgramsAssumption == Programs \subseteq Program

(* A visit number above all those given, for ~0U.                          *)
Numbered == 1..Cardinality(Node)
Done == Cardinality(Node) + 1
Unvisited == 0

VARIABLES
    program,          \* the package
    built,            \* how many functions are in the graph
    calledEdges,      \* the edges of each node, in order
    visitNum,         \* the counter of visits
    nodeVisitNumbers, \* the number of each visited node
    sccNodeStack,     \* visited nodes of no complete component
    visitStack,       \* the path of the traversal
    postOrderSCCFunctionlist, \* the nodes of the components found
    components        \* history: those components

stackVars == <<visitNum, nodeVisitNumbers, sccNodeStack, visitStack>>
listVars == <<postOrderSCCFunctionlist, components>>
vars == <<program, built, calledEdges, stackVars, listVars>>

InRange(x, s) == \E i \in DOMAIN s : s[i] = x

(* GetUsers of the function is not empty.                                  *)
Used(f) ==
    \/ f \in program.addressTaken
    \/ \E g \in Func : InRange(f, program.calls[g])

Init ==
    /\ program \in Programs
    /\ built = 0 /\ calledEdges = [n \in Node |-> <<>>]
    /\ visitNum = 0 /\ nodeVisitNumbers = [n \in Node |-> Unvisited]
    /\ sccNodeStack = <<>> /\ visitStack = <<>>
    /\ postOrderSCCFunctionlist = <<>> /\ components = {}

-----------------------------------------------------------------------------
(* The constructor of CallGraph, one function at a time: the entry node    *)
(* calls it if it has no user, and its node gets its calls.  An Invoke     *)
(* adds no edge, as GetAllPossibleCalleeOfInvoke finds no callee.          *)
AddToCallGraph ==
    LET f == functions[built + 1]
        edges == IF Used(f) THEN calledEdges
                 ELSE [calledEdges EXCEPT ![Entry] = Append(@, f)]
    IN  /\ built < Len(functions)
        /\ built' = built + 1
        /\ calledEdges' = [edges EXCEPT ![f] = program.calls[f]]
        /\ UNCHANGED <<program, stackVars, listVars>>

-----------------------------------------------------------------------------
GraphBuilt == built = Len(functions)

StackElement(n, minVisited) == [node |-> n, nextChild |-> 1, minVisited |-> minVisited]

(* DFSVisitOne, with the traversal's path as it is then.                   *)
DFSVisitOne(n, path) ==
    /\ visitNum' = visitNum + 1
    /\ nodeVisitNumbers' = [nodeVisitNumbers EXCEPT ![n] = visitNum']
    /\ sccNodeStack' = Append(sccNodeStack, n)
    /\ visitStack' = Append(path, StackElement(n, visitNum'))

BuildSCC ==
    /\ GraphBuilt /\ visitNum = 0
    /\ DFSVisitOne(Entry, visitStack)
    /\ UNCHANGED <<program, built, calledEdges, listVars>>

Depth == Len(visitStack)
Top == visitStack[Depth]
(* Mutated: the last call is not followed.                                 *)
HasChildButLast == visitStack # <<>> /\ Top.nextChild < Len(calledEdges[Top.node])
HasChild == visitStack # <<>> /\ Top.nextChild <= Len(calledEdges[Top.node])
Child == calledEdges[Top.node][Top.nextChild]
Advanced == [visitStack EXCEPT ![Depth].nextChild = @ + 1]

(* Mutated: a node of a complete component is visited again.               *)
UnvisitedOrDone(n) == nodeVisitNumbers[n] \in {Unvisited, Done}
NotVisited(n) == nodeVisitNumbers[n] = Unvisited

VisitNewChild ==
    /\ HasChild
    /\ NotVisited(Child)
    /\ DFSVisitOne(Child, Advanced)
    /\ UNCHANGED <<program, built, calledEdges, listVars>>

Least(m, n) == IF m > n THEN n ELSE m

(* Mutated: a seen child does not lower the number of its caller.          *)
Unlinked(path) == path

(* A child seen before lowers its caller's number; one of a complete       *)
(* component has a number too high to matter.                              *)
Linked(path) == [path EXCEPT ![Depth].minVisited = Least(@, nodeVisitNumbers[Child])]

VisitSeenChild ==
    /\ HasChild
    /\ ~NotVisited(Child)
    /\ visitStack' = Linked(Advanced)
    /\ UNCHANGED <<program, built, calledEdges, visitNum, nodeVisitNumbers,
                   sccNodeStack, listVars>>

(* The path without its last node, which hands its number to its caller.   *)
Propagated ==
    IF Depth = 1 THEN <<>>
    ELSE [SubSeq(visitStack, 1, Depth - 1) EXCEPT
              ![Depth - 1].minVisited = Least(@, Top.minVisited)]

Leaf == visitStack # <<>> /\ ~HasChild
IsRoot == Top.minVisited = nodeVisitNumbers[Top.node]

PopLeaf ==
    /\ Leaf /\ ~IsRoot
    /\ visitStack' = Propagated
    /\ UNCHANGED <<program, built, calledEdges, visitNum, nodeVisitNumbers,
                   sccNodeStack, listVars>>

(* currentSCC: the stack of nodes down to the component's first, reversed. *)
CurrentSCC ==
    LET n == Len(sccNodeStack)
        k == CHOOSE i \in 1..n : sccNodeStack[i] = Top.node
    IN  [i \in 1..(n - k + 1) |-> sccNodeStack[n + 1 - i]]

(* Mutated: the nodes keep their numbers.                                  *)
KeptNumbers == nodeVisitNumbers
DoneNumbers ==
    [n \in Node |-> IF InRange(n, CurrentSCC) THEN Done ELSE nodeVisitNumbers[n]]

(* A complete component leaves the stack, and BuildSCC lists its nodes.    *)
PopComponent ==
    /\ Leaf /\ IsRoot
    /\ visitStack' = Propagated
    /\ sccNodeStack' = SubSeq(sccNodeStack, 1, Len(sccNodeStack) - Len(CurrentSCC))
    /\ nodeVisitNumbers' = DoneNumbers
    /\ postOrderSCCFunctionlist' = postOrderSCCFunctionlist \o CurrentSCC
    /\ components' = components \cup {{CurrentSCC[i] : i \in DOMAIN CurrentSCC}}
    /\ UNCHANGED <<program, built, calledEdges, visitNum>>

-----------------------------------------------------------------------------
DFSVisitChildren == VisitNewChild \/ VisitSeenChild
GetNextSCC == DFSVisitChildren \/ PopLeaf \/ PopComponent
Next == AddToCallGraph \/ BuildSCC \/ GetNextSCC

Spec == Init /\ [][Next]_vars

-----------------------------------------------------------------------------
Listed == {postOrderSCCFunctionlist[i] : i \in DOMAIN postOrderSCCFunctionlist}
Finished == visitNum > 0 /\ visitStack = <<>>
Callees(n) == {calledEdges[n][i] : i \in DOMAIN calledEdges[n]}

(* The nodes n reaches, in at most as many steps as there are nodes.       *)
Reached(n) ==
    LET within[k \in Nat] ==
            IF k = 0 THEN {n}
            ELSE within[k - 1] \cup (UNION {Callees(m) : m \in within[k - 1]})
    IN  within[Cardinality(Node)]

TypeOK ==
    /\ program \in Programs
    /\ built \in 0..Len(functions)
    /\ calledEdges \in [Node -> Seq(Node)]
    /\ visitNum \in 0..Cardinality(Node)
    /\ nodeVisitNumbers \in [Node -> {Unvisited, Done} \cup Numbered]
    /\ sccNodeStack \in Seq(Node)
    /\ visitStack \in Seq([node : Node, nextChild : Nat \ {0}, minVisited : Numbered])
    /\ postOrderSCCFunctionlist \in Seq(Node)
    /\ components \subseteq SUBSET Node

(* A visited node is on the stack or listed, once and not both, however    *)
(* often the traversal was suspended and resumed.                          *)
ListedOnce ==
    LET all == sccNodeStack \o postOrderSCCFunctionlist
    IN  /\ \A i, j \in DOMAIN all : all[i] = all[j] => i = j
        /\ \A n \in Node : InRange(n, all) <=> nodeVisitNumbers[n] # Unvisited
        /\ \A n \in Node : n \in Listed <=> nodeVisitNumbers[n] = Done

(* What is listed together are exactly the nodes that call each other, so  *)
(* that a function is inlined after all the callees outside its recursion. *)
ComponentsExact ==
    \A C \in components : \A n \in C :
        C = {m \in Reached(n) : n \in Reached(m)}

(* No caller is listed before a callee of another component.               *)
CalleesFirst ==
    \A i \in DOMAIN postOrderSCCFunctionlist :
        LET n == postOrderSCCFunctionlist[i]
        IN  \A m \in Callees(n) :
                \/ \E j \in 1..i : postOrderSCCFunctionlist[j] = m
                \/ \E C \in components : {m, n} \subseteq C

(* Nothing that the entry node reaches is left out.                        *)
ReachableListed == Finished => Listed = Reached(Entry)
=============================================================================
