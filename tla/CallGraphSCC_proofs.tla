------------------------- MODULE CallGraphSCC_proofs -------------------------
(***************************************************************************)
(* Proofs about CallGraphSCC for every package: visited nodes are listed   *)
(* once, no caller before its callees; what is listed together calls each  *)
(* other, and all the entry reaches is listed.  The argument is Tarjan's:  *)
(* a node of the stack belongs to the deepest node of the path visited no  *)
(* later than it, and whatever the traversal has passed of its calls leads *)
(* no further back than the number of that owner says.  A node whose       *)
(* number is still its own therefore has all its callees above it on the   *)
(* stack or listed.                                                        *)
(* The second half connects the nodes: a path node reaches what was        *)
(* visited after it, a node of the stack reaches its owner.  What a node   *)
(* reaches is there every set closed under calls, which is what Reached    *)
(* computes by steps, as ReachedFact shows.                                *)
(***************************************************************************)
EXTENDS CallGraphSCC, FiniteSetTheorems, SequenceTheorems, WellFoundedInduction, TLAPS

Element == [node : Node, nextChild : Nat \ {0}, minVisited : Numbered]

(* The number of a node while it is on the stack.                          *)
OnStack(n) == nodeVisitNumbers[n] \in Numbered

(* The traversal begins when the graph is built; each visit has a number.  *)
CountInv ==
    /\ ~GraphBuilt => visitNum = 0
    /\ visitNum = Cardinality({n \in Node : nodeVisitNumbers[n] # Unvisited})
    /\ \A n \in Node : OnStack(n) => nodeVisitNumbers[n] <= visitNum

(* The stack holds the nodes with a number of their own, in their order.   *)
StackInv ==
    /\ \A i \in DOMAIN sccNodeStack : nodeVisitNumbers[sccNodeStack[i]] \in Numbered
    /\ \A i, j \in DOMAIN sccNodeStack : i < j => nodeVisitNumbers[sccNodeStack[i]] < nodeVisitNumbers[sccNodeStack[j]]
    /\ \A n \in Node : OnStack(n) => InRange(n, sccNodeStack)

(* The path is a part of the stack and begins where the stack does.        *)
PathInv ==
    /\ \A k \in DOMAIN visitStack :
           nodeVisitNumbers[visitStack[k].node] \in Numbered /\ visitStack[k].minVisited <= nodeVisitNumbers[visitStack[k].node]
    /\ \A k, l \in DOMAIN visitStack : k < l => nodeVisitNumbers[visitStack[k].node] < nodeVisitNumbers[visitStack[l].node]
    /\ visitStack # <<>> => nodeVisitNumbers[visitStack[1].node] = 1
    /\ visitStack = <<>> => sccNodeStack = <<>>

(* The e-th call of n was looked at.                                       *)
Passed(n, e) == \A k \in DOMAIN visitStack : visitStack[k].node = n => e < visitStack[k].nextChild

Owns(k, n) ==
    /\ nodeVisitNumbers[visitStack[k].node] <= nodeVisitNumbers[n]
    /\ \A l \in DOMAIN visitStack : k < l => nodeVisitNumbers[n] < nodeVisitNumbers[visitStack[l].node]

(* What was passed leads to a complete component or, on the stack, no      *)
(* further back than the owner's number.                                   *)
CalleeInv ==
    \A n \in Node : \A e \in DOMAIN calledEdges[n] :
        OnStack(n) /\ Passed(n, e) =>
            \/ nodeVisitNumbers[calledEdges[n][e]] = Done
            \/ /\ nodeVisitNumbers[calledEdges[n][e]] \in Numbered
               /\ \A k \in DOMAIN visitStack :
                      Owns(k, n) => visitStack[k].minVisited <= nodeVisitNumbers[calledEdges[n][e]]

(* The list holds the nodes of complete components, once.                  *)
ListInv ==
    /\ \A i, j \in DOMAIN postOrderSCCFunctionlist :
           postOrderSCCFunctionlist[i] = postOrderSCCFunctionlist[j] => i = j
    /\ \A n \in Node : InRange(n, postOrderSCCFunctionlist) <=> nodeVisitNumbers[n] = Done

IInv ==
    TypeOK /\ CountInv /\ StackInv /\ PathInv /\ CalleeInv /\ ListInv /\ CalleesFirst

-----------------------------------------------------------------------------
(* There are nodes, finitely many.                                         *)
LEMMA NodeFact ==
    /\ IsFiniteSet(Node) /\ Cardinality(Node) \in Nat /\ Cardinality(Node) >= 1
    /\ Entry \in Node /\ Exit \in Node /\ Done \notin Numbered /\ Unvisited \notin Numbered
    /\ Done # Unvisited
<1>1. IsFiniteSet(Node)
    <2>1. IsFiniteSet(Func \cup {Entry})
        BY NodeAssumption, FS_AddElement
    <2>2. IsFiniteSet((Func \cup {Entry}) \cup {Exit})
        BY <2>1, FS_AddElement
    <2>3. Node = (Func \cup {Entry}) \cup {Exit}
        BY DEF Node
    <2> QED
        BY <2>2, <2>3
<1>2. Entry \in Node /\ Exit \in Node
    BY DEF Node
<1>3. Cardinality(Node) \in Nat /\ Cardinality(Node) # 0
    BY <1>1, <1>2, FS_CardinalityType, FS_EmptySet
<1> QED
    BY <1>1, <1>2, <1>3 DEF Done, Numbered, Unvisited

(* The sequences of the model and their elements.                          *)
LEMMA TypeFact ==
    ASSUME TypeOK
    PROVE  /\ DOMAIN sccNodeStack = 1..Len(sccNodeStack) /\ Len(sccNodeStack) \in Nat
           /\ \A i \in DOMAIN sccNodeStack : sccNodeStack[i] \in Node
           /\ DOMAIN visitStack = 1..Len(visitStack) /\ Len(visitStack) \in Nat
           /\ \A k \in DOMAIN visitStack : visitStack[k] \in Element
           /\ DOMAIN postOrderSCCFunctionlist = 1..Len(postOrderSCCFunctionlist)
           /\ Len(postOrderSCCFunctionlist) \in Nat
           /\ \A i \in DOMAIN postOrderSCCFunctionlist : postOrderSCCFunctionlist[i] \in Node
           /\ \A n \in Node : /\ calledEdges[n] \in Seq(Node)
                              /\ DOMAIN calledEdges[n] = 1..Len(calledEdges[n])
                              /\ Len(calledEdges[n]) \in Nat
                              /\ \A e \in DOMAIN calledEdges[n] : calledEdges[n][e] \in Node
           /\ \A n \in Node : nodeVisitNumbers[n] \in {Unvisited, Done} \cup Numbered
           /\ visitNum \in Nat
<1>1. visitStack \in Seq(Element)
    BY DEF TypeOK, Element
<1>2. DOMAIN visitStack = 1..Len(visitStack) /\ Len(visitStack) \in Nat
      /\ \A k \in DOMAIN visitStack : visitStack[k] \in Element
    BY <1>1
<1>3. ASSUME NEW n \in Node
      PROVE  /\ calledEdges[n] \in Seq(Node)
             /\ DOMAIN calledEdges[n] = 1..Len(calledEdges[n]) /\ Len(calledEdges[n]) \in Nat
             /\ \A e \in DOMAIN calledEdges[n] : calledEdges[n][e] \in Node
    <2>1. calledEdges[n] \in Seq(Node)
        BY DEF TypeOK
    <2> QED
        BY <2>1
<1>4. DOMAIN sccNodeStack = 1..Len(sccNodeStack) /\ Len(sccNodeStack) \in Nat
      /\ \A i \in DOMAIN sccNodeStack : sccNodeStack[i] \in Node
    BY DEF TypeOK
<1>5. /\ DOMAIN postOrderSCCFunctionlist = 1..Len(postOrderSCCFunctionlist)
      /\ Len(postOrderSCCFunctionlist) \in Nat
      /\ \A i \in DOMAIN postOrderSCCFunctionlist : postOrderSCCFunctionlist[i] \in Node
    BY DEF TypeOK
<1>6. (\A n \in Node : nodeVisitNumbers[n] \in {Unvisited, Done} \cup Numbered) /\ visitNum \in Nat
    BY NodeFact DEF TypeOK
<1> QED
    BY <1>2, <1>3, <1>4, <1>5, <1>6

(* The top of the path and the call it is at.                              *)
LEMMA TopFact ==
    ASSUME TypeOK, visitStack # <<>>
    PROVE  /\ Depth \in DOMAIN visitStack /\ Depth >= 1
           /\ Top.node \in Node /\ Top.nextChild \in Nat \ {0} /\ Top.minVisited \in Numbered
           /\ HasChild => Child \in Node /\ Top.nextChild \in DOMAIN calledEdges[Top.node]
<1>1. Depth \in DOMAIN visitStack /\ Depth >= 1
    BY TypeFact DEF Depth, TypeOK
<1>2. Top \in Element
    BY <1>1, TypeFact DEF Top
<1>3. Top.node \in Node /\ Top.nextChild \in Nat \ {0} /\ Top.minVisited \in Numbered
    BY <1>2 DEF Element
<1>4. ASSUME HasChild PROVE Child \in Node /\ Top.nextChild \in DOMAIN calledEdges[Top.node]
    BY <1>3, <1>4, TypeFact DEF HasChild, Child
<1> QED
    BY <1>1, <1>3, <1>4

(* A new node is a node not yet counted.                                   *)
LEMMA CountFact ==
    ASSUME TypeOK, CountInv, NEW m \in Node, nodeVisitNumbers[m] = Unvisited
    PROVE  /\ visitNum + 1 \in Numbered
           /\ {n \in Node : [nodeVisitNumbers EXCEPT ![m] = visitNum + 1][n] # Unvisited}
                = {n \in Node : nodeVisitNumbers[n] # Unvisited} \cup {m}
           /\ Cardinality({n \in Node : nodeVisitNumbers[n] # Unvisited} \cup {m}) = visitNum + 1
<1> DEFINE V == {n \in Node : nodeVisitNumbers[n] # Unvisited}
<1>1. IsFiniteSet(V) /\ m \notin V /\ V \cup {m} \subseteq Node
    BY NodeFact, FS_Subset
<1>2. Cardinality(V \cup {m}) = visitNum + 1
    BY <1>1, FS_AddElement DEF CountInv
<1>3. Cardinality(V \cup {m}) <= Cardinality(Node)
    BY <1>1, NodeFact, FS_Subset
<1>4. visitNum + 1 \in Numbered
    BY <1>2, <1>3, NodeFact, TypeFact DEF Numbered
<1>5. {n \in Node : [nodeVisitNumbers EXCEPT ![m] = visitNum + 1][n] # Unvisited} = V \cup {m}
    BY <1>4, NodeFact DEF TypeOK
<1> QED
    BY <1>2, <1>4, <1>5

(* What a visit of m does to the stacks, with the path as it is then.      *)
LEMMA VisitFact ==
    ASSUME TypeOK, CountInv, NEW m \in Node, nodeVisitNumbers[m] = Unvisited,
           NEW path \in Seq(Element), DFSVisitOne(m, path)
    PROVE  /\ visitNum' = visitNum + 1 /\ visitNum' \in Numbered
           /\ nodeVisitNumbers'[m] = visitNum' /\ OnStack(m)'
           /\ \A n \in Node : n # m => nodeVisitNumbers'[n] = nodeVisitNumbers[n]
           /\ nodeVisitNumbers' \in [Node -> {Unvisited, Done} \cup Numbered]
           /\ sccNodeStack' \in Seq(Node) /\ Len(sccNodeStack') = Len(sccNodeStack) + 1
           /\ \A i \in 1..Len(sccNodeStack) : sccNodeStack'[i] = sccNodeStack[i]
           /\ sccNodeStack'[Len(sccNodeStack) + 1] = m
           /\ visitStack' \in Seq(Element) /\ Len(visitStack') = Len(path) + 1
           /\ \A k \in 1..Len(path) : visitStack'[k] = path[k]
           /\ visitStack'[Len(path) + 1] = StackElement(m, visitNum')
<1>1. /\ visitNum' = visitNum + 1 /\ visitNum' \in Numbered
    BY CountFact DEF DFSVisitOne
<1>2. nodeVisitNumbers' = [nodeVisitNumbers EXCEPT ![m] = visitNum']
    BY DEF DFSVisitOne
<1>3. /\ nodeVisitNumbers' \in [Node -> {Unvisited, Done} \cup Numbered]
      /\ nodeVisitNumbers'[m] = visitNum' /\ OnStack(m)' /\ \A n \in Node : n # m => nodeVisitNumbers'[n] = nodeVisitNumbers[n]
    BY <1>1, <1>2 DEF TypeOK, OnStack
<1>4. /\ sccNodeStack' \in Seq(Node) /\ Len(sccNodeStack') = Len(sccNodeStack) + 1
      /\ \A i \in 1..Len(sccNodeStack) : sccNodeStack'[i] = sccNodeStack[i]
      /\ sccNodeStack'[Len(sccNodeStack) + 1] = m
    BY DEF DFSVisitOne, TypeOK
<1>5. StackElement(m, visitNum') \in Element
    BY <1>1 DEF StackElement, Element
<1>6. /\ visitStack' \in Seq(Element) /\ Len(visitStack') = Len(path) + 1
      /\ \A k \in 1..Len(path) : visitStack'[k] = path[k]
      /\ visitStack'[Len(path) + 1] = StackElement(m, visitNum')
    BY <1>5 DEF DFSVisitOne
<1> QED
    BY <1>1, <1>3, <1>4, <1>6

(* The path after the traversal has passed one more call.                  *)
LEMMA AdvancedFact ==
    ASSUME TypeOK, visitStack # <<>>
    PROVE  /\ Advanced \in Seq(Element) /\ Len(Advanced) = Len(visitStack)
           /\ \A k \in DOMAIN visitStack :
                  /\ Advanced[k].node = visitStack[k].node
                  /\ Advanced[k].minVisited = visitStack[k].minVisited
                  /\ Advanced[k].nextChild =
                         IF k = Depth THEN visitStack[k].nextChild + 1 ELSE visitStack[k].nextChild
<1>1. Depth \in 1..Len(visitStack) /\ visitStack \in Seq(Element)
    BY TopFact, TypeFact DEF TypeOK, Element
<1>2. Top \in Element /\ [Top EXCEPT !.nextChild = @ + 1] \in Element
    <2>1. Top \in Element
        BY <1>1, TypeFact DEF Top
    <2> QED
        BY <2>1 DEF Element
<1>3. Advanced = [visitStack EXCEPT ![Depth] = [Top EXCEPT !.nextChild = @ + 1]]
    BY <1>1 DEF Advanced, Top
<1> DEFINE El == [Top EXCEPT !.nextChild = @ + 1]
<1>4. /\ Advanced \in Seq(Element) /\ Len(Advanced) = Len(visitStack)
      /\ \A k \in DOMAIN visitStack : Advanced[k] = IF k = Depth THEN El ELSE visitStack[k]
    <2> HIDE DEF El
    <2>1. El \in Element /\ Advanced = [visitStack EXCEPT ![Depth] = El]
        BY <1>2, <1>3 DEF El
    <2> QED
        BY <1>1, <2>1, TypeFact
<1>5. El.node = Top.node /\ El.minVisited = Top.minVisited /\ El.nextChild = Top.nextChild + 1
    BY <1>2 DEF Element
<1> QED
    BY <1>1, <1>4, <1>5 DEF Top

-----------------------------------------------------------------------------
(* Before the first visit there is nothing on the stacks or in the list.   *)
LEMMA NothingVisited ==
    ASSUME IInv, visitNum = 0
    PROVE  /\ \A n \in Node : nodeVisitNumbers[n] = Unvisited
           /\ sccNodeStack = <<>> /\ visitStack = <<>> /\ postOrderSCCFunctionlist = <<>>
<1>1. \A n \in Node : nodeVisitNumbers[n] = Unvisited
    <2> DEFINE V == {n \in Node : nodeVisitNumbers[n] # Unvisited}
    <2>1. IsFiniteSet(V) /\ Cardinality(V) = 0
        BY NodeFact, FS_Subset DEF IInv, CountInv
    <2>2. V = {}
        BY <2>1, FS_EmptySet
    <2> QED
        BY <2>2
<1>2. sccNodeStack = <<>>
    <2>1. \A i \in DOMAIN sccNodeStack : FALSE
        BY <1>1, TypeFact, NodeFact DEF IInv, StackInv, OnStack
    <2>2. Len(sccNodeStack) = 0
        BY <2>1, TypeFact DEF IInv
    <2> QED
        BY <2>2, EmptySeq DEF IInv, TypeOK
<1>3. visitStack = <<>>
    <2>1. \A k \in DOMAIN visitStack : FALSE
        BY <1>1, TypeFact, NodeFact DEF IInv, PathInv, OnStack, Element
    <2>2. Len(visitStack) = 0
        <3>1. DOMAIN visitStack = 1..Len(visitStack) /\ Len(visitStack) \in Nat
            BY TypeFact DEF IInv
        <3> QED
            BY <2>1, <3>1
    <2> QED
        BY <2>2, EmptySeq DEF IInv, TypeOK
<1>4. postOrderSCCFunctionlist = <<>>
    <2>1. \A i \in DOMAIN postOrderSCCFunctionlist : FALSE
        BY <1>1, TypeFact, NodeFact DEF IInv, ListInv, InRange
    <2>2. Len(postOrderSCCFunctionlist) = 0
        BY <2>1, TypeFact DEF IInv
    <2> QED
        BY <2>2, EmptySeq DEF IInv, TypeOK
<1> QED
    BY <1>1, <1>2, <1>3, <1>4

(* The invariant holds at first.                                           *)
LEMMA Initial == Init => IInv
<1> SUFFICES ASSUME Init PROVE IInv
    OBVIOUS
<1> USE DEF Init
<1>0. \A n \in Node : nodeVisitNumbers[n] = Unvisited /\ ~OnStack(n)
    BY NodeFact DEF OnStack
<1>1. TypeOK
    <2>1. /\ built \in 0..Len(functions) /\ visitNum \in 0..Cardinality(Node)
        BY FunctionsAssumption, NodeFact
    <2>2. calledEdges \in [Node -> Seq(Node)]
        BY EmptySeq
    <2> QED
        BY <2>1, <2>2, EmptySeq DEF TypeOK
<1>2. CountInv
    <2>1. {n \in Node : nodeVisitNumbers[n] # Unvisited} = {}
        BY <1>0
    <2> QED
        BY <1>0, <2>1, FS_EmptySet DEF CountInv
<1>3. StackInv /\ PathInv
    BY <1>0 DEF StackInv, PathInv
<1>4. CalleeInv /\ ListInv /\ CalleesFirst
    BY <1>0, NodeFact DEF CalleeInv, ListInv, CalleesFirst, InRange
<1> QED
    BY <1>1, <1>2, <1>3, <1>4 DEF IInv

(* The order of the list depends on nothing but the calls, the list and    *)
(* the components.                                                         *)
LEMMA OrderKept ==
    ASSUME CalleesFirst, UNCHANGED <<calledEdges, postOrderSCCFunctionlist, components>>
    PROVE  CalleesFirst'
BY DEF CalleesFirst, Callees

(* The graph grows before anything is visited.                             *)
LEMMA AddPreserves == ASSUME IInv, AddToCallGraph PROVE IInv'
<1> DEFINE f == functions[built + 1]
           edges == IF Used(f) THEN calledEdges
                    ELSE [calledEdges EXCEPT ![Entry] = Append(@, f)]
<1>1. /\ built < Len(functions) /\ built' = built + 1
      /\ calledEdges' = [edges EXCEPT ![f] = program.calls[f]]
      /\ UNCHANGED <<program, visitNum, nodeVisitNumbers, sccNodeStack, visitStack,
                     postOrderSCCFunctionlist, components>>
    BY DEF AddToCallGraph, stackVars, listVars
<1>2. visitNum = 0
    BY <1>1 DEF IInv, CountInv, GraphBuilt
<1>3. /\ \A n \in Node : nodeVisitNumbers[n] = Unvisited /\ ~OnStack(n)
      /\ sccNodeStack = <<>> /\ visitStack = <<>> /\ postOrderSCCFunctionlist = <<>>
    BY <1>2, NothingVisited, NodeFact DEF OnStack
<1>4. built + 1 \in 1..Len(functions) /\ f \in Func
    BY <1>1, FunctionsAssumption DEF IInv, TypeOK
<1>5. calledEdges' \in [Node -> Seq(Node)]
    <2>1. program.calls[f] \in Seq(Func \cup {Exit}) /\ f \in Node
        BY <1>4, ProgramsAssumption DEF IInv, TypeOK, Program, Node
    <2>2. program.calls[f] \in Seq(Node)
        BY <2>1, SeqMonotonic DEF Node
    <2>3. calledEdges[Entry] \in Seq(Node)
        BY NodeFact DEF IInv, TypeOK
    <2>4. Append(calledEdges[Entry], f) \in Seq(Node)
        BY <2>1, <2>3
    <2>5. edges \in [Node -> Seq(Node)]
        BY <2>4 DEF IInv, TypeOK
    <2> HIDE DEF edges, f
    <2> QED
        BY <1>1, <2>2, <2>5
<1>6. TypeOK'
    <2>1. built' \in 0..Len(functions)
        BY <1>1, <1>4, FunctionsAssumption
    <2> HIDE DEF f, edges
    <2> QED
        BY <1>1, <1>5, <2>1 DEF IInv, TypeOK
<1> HIDE DEF f, edges
<1>7. CountInv'
    BY <1>1, <1>2 DEF IInv, CountInv, GraphBuilt, OnStack
<1>8. StackInv' /\ PathInv' /\ ListInv'
    BY <1>1 DEF IInv, StackInv, PathInv, ListInv, OnStack, InRange
<1>9. CalleeInv' /\ CalleesFirst'
    BY <1>1, <1>3 DEF CalleeInv, CalleesFirst, OnStack
<1> QED
    BY <1>6, <1>7, <1>8, <1>9 DEF IInv

(* The numbers and the path after a visit of m.                            *)
LEMMA VisitPathFact ==
    ASSUME IInv, NEW m \in Node, nodeVisitNumbers[m] = Unvisited,
           NEW path \in Seq(Element), DFSVisitOne(m, path), Len(path) = Len(visitStack),
           \A k \in DOMAIN visitStack :
               /\ path[k].node = visitStack[k].node
               /\ path[k].minVisited = visitStack[k].minVisited
    PROVE  /\ \A n \in Node : n # m => (OnStack(n)' <=> OnStack(n))
           /\ ~OnStack(m) /\ Len(visitStack) \in Nat /\ visitNum \in Nat
           /\ \A n \in Node : OnStack(n) => nodeVisitNumbers[n] \in Nat /\ nodeVisitNumbers[n] <= visitNum
           /\ DOMAIN visitStack' = 1..(Len(visitStack) + 1) /\ DOMAIN visitStack = 1..Len(visitStack)
           /\ \A k \in 1..Len(visitStack) :
                  /\ visitStack'[k].node = visitStack[k].node
                  /\ visitStack'[k].minVisited = visitStack[k].minVisited
                  /\ visitStack[k].node \in Node /\ visitStack[k].node # m
                  /\ visitStack[k].minVisited \in Nat
           /\ visitStack'[Len(visitStack) + 1].node = m
           /\ visitStack'[Len(visitStack) + 1].minVisited = visitNum'
           /\ visitStack'[Len(visitStack) + 1].nextChild = 1
<1> DEFINE d == Len(visitStack)
<1>1. /\ visitNum' = visitNum + 1 /\ visitNum' \in Numbered
      /\ nodeVisitNumbers'[m] = visitNum' /\ OnStack(m)'
      /\ \A n \in Node : n # m => nodeVisitNumbers'[n] = nodeVisitNumbers[n]
      /\ nodeVisitNumbers' \in [Node -> {Unvisited, Done} \cup Numbered]
      /\ sccNodeStack' \in Seq(Node) /\ Len(sccNodeStack') = Len(sccNodeStack) + 1
      /\ \A i \in 1..Len(sccNodeStack) : sccNodeStack'[i] = sccNodeStack[i]
      /\ sccNodeStack'[Len(sccNodeStack) + 1] = m
      /\ visitStack' \in Seq(Element) /\ Len(visitStack') = Len(path) + 1
      /\ \A k \in 1..Len(path) : visitStack'[k] = path[k]
      /\ visitStack'[Len(path) + 1] = StackElement(m, visitNum')
    BY VisitFact DEF IInv
<1>2. \A n \in Node : n # m => (OnStack(n)' <=> OnStack(n))
    BY <1>1 DEF OnStack
<1>3. ~OnStack(m) /\ d \in Nat /\ visitNum \in Nat
    BY NodeFact, TypeFact DEF IInv, OnStack
<1>4. \A n \in Node : OnStack(n) => nodeVisitNumbers[n] \in Nat /\ nodeVisitNumbers[n] <= visitNum
    BY <1>3 DEF IInv, CountInv, OnStack, Numbered
<1>5. /\ DOMAIN visitStack' = 1..(d + 1) /\ DOMAIN visitStack = 1..d
      /\ \A k \in 1..d : /\ visitStack'[k].node = visitStack[k].node
                         /\ visitStack'[k].minVisited = visitStack[k].minVisited
                         /\ visitStack[k].node \in Node /\ visitStack[k].node # m
                         /\ visitStack[k].minVisited \in Nat
      /\ visitStack'[d + 1].node = m /\ visitStack'[d + 1].minVisited = visitNum'
      /\ visitStack'[d + 1].nextChild = 1
    <2>1. DOMAIN visitStack' = 1..(d + 1) /\ DOMAIN visitStack = 1..d
        BY <1>1, TypeFact DEF IInv
    <2>2. ASSUME NEW k \in 1..d
          PROVE  /\ visitStack'[k].node = visitStack[k].node
                 /\ visitStack'[k].minVisited = visitStack[k].minVisited
                 /\ visitStack[k].node \in Node /\ visitStack[k].node # m
                 /\ visitStack[k].minVisited \in Nat
        <3>1. k \in DOMAIN visitStack /\ visitStack'[k] = path[k]
            BY <1>1, <2>1
        <3>2. visitStack[k] \in Element
            BY <3>1, TypeFact DEF IInv
        <3>3. visitStack[k].node \in Node /\ visitStack[k].minVisited \in Nat
            BY <3>2 DEF Element, Numbered
        <3>4. nodeVisitNumbers[visitStack[k].node] \in Numbered
            BY <3>1 DEF IInv, PathInv
        <3> QED
            BY <1>3, <3>1, <3>3, <3>4 DEF OnStack
    <2>3. /\ visitStack'[d + 1].node = m /\ visitStack'[d + 1].minVisited = visitNum'
          /\ visitStack'[d + 1].nextChild = 1
        BY <1>1 DEF StackElement
    <2> QED
        BY <2>1, <2>2, <2>3
<1> QED
    BY <1>2, <1>3, <1>4, <1>5

(* A node is visited: its number is above all others, so it owns itself    *)
(* and nothing else.                                                       *)
LEMMA VisitPreserves ==
    ASSUME IInv, GraphBuilt, NEW m \in Node, nodeVisitNumbers[m] = Unvisited,
           NEW path \in Seq(Element), DFSVisitOne(m, path),
           UNCHANGED <<program, built, calledEdges, listVars>>,
           Len(path) = Len(visitStack),
           \A k \in DOMAIN visitStack :
               /\ path[k].node = visitStack[k].node
               /\ path[k].minVisited = visitStack[k].minVisited
               /\ path[k].nextChild # visitStack[k].nextChild =>
                      /\ path[k].nextChild = visitStack[k].nextChild + 1
                      /\ calledEdges[visitStack[k].node][visitStack[k].nextChild] = m,
           visitStack = <<>> => visitNum = 0
    PROVE  IInv'
<1> DEFINE d == Len(visitStack)
<1>1. /\ visitNum' = visitNum + 1 /\ visitNum' \in Numbered
      /\ nodeVisitNumbers'[m] = visitNum' /\ OnStack(m)'
      /\ \A n \in Node : n # m => nodeVisitNumbers'[n] = nodeVisitNumbers[n]
      /\ nodeVisitNumbers' \in [Node -> {Unvisited, Done} \cup Numbered]
      /\ sccNodeStack' \in Seq(Node) /\ Len(sccNodeStack') = Len(sccNodeStack) + 1
      /\ \A i \in 1..Len(sccNodeStack) : sccNodeStack'[i] = sccNodeStack[i]
      /\ sccNodeStack'[Len(sccNodeStack) + 1] = m
      /\ visitStack' \in Seq(Element) /\ Len(visitStack') = Len(path) + 1
      /\ \A k \in 1..Len(path) : visitStack'[k] = path[k]
      /\ visitStack'[Len(path) + 1] = StackElement(m, visitNum')
    BY VisitFact DEF IInv
<1>2. \A n \in Node : n # m => (OnStack(n)' <=> OnStack(n))
    BY VisitPathFact
<1>3. ~OnStack(m) /\ d \in Nat /\ visitNum \in Nat
    BY VisitPathFact
<1>4. \A n \in Node : OnStack(n) => nodeVisitNumbers[n] \in Nat /\ nodeVisitNumbers[n] <= visitNum
    BY VisitPathFact
<1>5. /\ DOMAIN visitStack' = 1..(d + 1) /\ DOMAIN visitStack = 1..d
      /\ \A k \in 1..d : /\ visitStack'[k].node = visitStack[k].node
                         /\ visitStack'[k].minVisited = visitStack[k].minVisited
                         /\ visitStack[k].node \in Node /\ visitStack[k].node # m
                         /\ visitStack[k].minVisited \in Nat
      /\ visitStack'[d + 1].node = m /\ visitStack'[d + 1].minVisited = visitNum'
      /\ visitStack'[d + 1].nextChild = 1
    BY VisitPathFact
<1>6. TypeOK'
    <2>1. visitNum' \in 0..Cardinality(Node)
        BY <1>1, NodeFact DEF Numbered
    <2>2. visitStack' \in Seq([node : Node, nextChild : Nat \ {0}, minVisited : Numbered])
        BY <1>1 DEF Element
    <2>3. /\ program' \in Programs /\ built' \in 0..Len(functions)
          /\ calledEdges' \in [Node -> Seq(Node)]
          /\ postOrderSCCFunctionlist' \in Seq(Node) /\ components' \subseteq SUBSET Node
        BY DEF IInv, TypeOK, listVars
    <2> QED
        BY <1>1, <2>1, <2>2, <2>3 DEF TypeOK
<1>7. CountInv'
    <2>1. {n \in Node : nodeVisitNumbers[n] # Unvisited}' = {n \in Node : nodeVisitNumbers[n] # Unvisited} \cup {m}
        BY <1>1, NodeFact
    <2>2. visitNum' = Cardinality({n \in Node : nodeVisitNumbers[n] # Unvisited}')
        BY <1>1, <2>1, CountFact DEF IInv
    <2>3. \A n \in Node : OnStack(n)' => nodeVisitNumbers'[n] <= visitNum'
        BY <1>1, <1>2, <1>3, <1>4
    <2>4. GraphBuilt'
        BY DEF GraphBuilt
    <2> QED
        BY <2>2, <2>3, <2>4 DEF CountInv
<1>8. StackInv'
    <2> DEFINE z == Len(sccNodeStack)
    <2>1. DOMAIN sccNodeStack' = 1..(z + 1) /\ DOMAIN sccNodeStack = 1..z /\ z \in Nat
        BY <1>1, TypeFact DEF IInv
    <2>2. \A i \in 1..z : /\ sccNodeStack'[i] = sccNodeStack[i] /\ sccNodeStack[i] \in Node
                          /\ sccNodeStack[i] # m /\ nodeVisitNumbers[sccNodeStack[i]] \in Numbered
        BY <1>1, <1>3, <2>1, TypeFact DEF IInv, StackInv, OnStack
    <2>3. \A i \in DOMAIN sccNodeStack' : nodeVisitNumbers'[sccNodeStack'[i]] \in Numbered
        BY <1>1, <1>2, <2>1, <2>2
    <2>4. ASSUME NEW i \in DOMAIN sccNodeStack', NEW j \in DOMAIN sccNodeStack', i < j
          PROVE  nodeVisitNumbers'[sccNodeStack'[i]] < nodeVisitNumbers'[sccNodeStack'[j]]
        <3>1. i \in 1..z /\ nodeVisitNumbers'[sccNodeStack'[i]] = nodeVisitNumbers[sccNodeStack[i]]
            BY <1>1, <2>1, <2>2, <2>4
        <3>2. CASE j = z + 1
            <4>1. sccNodeStack'[j] = m /\ nodeVisitNumbers'[m] = visitNum + 1
                BY <1>1, <3>2
            <4>2. nodeVisitNumbers[sccNodeStack[i]] \in Nat /\ nodeVisitNumbers[sccNodeStack[i]] <= visitNum
                BY <1>4, <2>2, <3>1 DEF OnStack
            <4> QED
                BY <1>3, <3>1, <4>1, <4>2
        <3>3. CASE j \in 1..z
            BY <1>1, <2>1, <2>2, <2>4, <3>1, <3>3 DEF IInv, StackInv
        <3> QED
            BY <2>1, <3>2, <3>3
    <2>5. \A n \in Node : OnStack(n)' => InRange(n, sccNodeStack')
        <3> SUFFICES ASSUME NEW n \in Node, OnStack(n)' PROVE \E i \in DOMAIN sccNodeStack' : sccNodeStack'[i] = n
            BY DEF InRange
        <3>1. CASE n = m
            BY <1>1, <2>1, <3>1
        <3>2. CASE n # m
            <4>1. PICK i \in 1..z : sccNodeStack[i] = n
                <5>1. OnStack(n)
                    BY <1>2, <3>2
                <5>2. InRange(n, sccNodeStack)
                    BY <5>1 DEF IInv, StackInv
                <5> QED
                    BY <2>1, <5>2 DEF InRange
            <4> QED
                BY <2>1, <2>2, <4>1
        <3> QED
            BY <3>1, <3>2
    <2> QED
        BY <2>3, <2>4, <2>5 DEF StackInv, InRange
<1>9. PathInv'
    <2>1. \A k \in DOMAIN visitStack' :
              nodeVisitNumbers'[visitStack'[k].node] \in Numbered /\ visitStack'[k].minVisited <= nodeVisitNumbers'[visitStack'[k].node]
        BY <1>1, <1>2, <1>3, <1>5 DEF IInv, PathInv
    <2>2. ASSUME NEW k \in DOMAIN visitStack', NEW l \in DOMAIN visitStack', k < l
          PROVE  nodeVisitNumbers'[visitStack'[k].node] < nodeVisitNumbers'[visitStack'[l].node]
        <3>1. k \in 1..d /\ nodeVisitNumbers'[visitStack'[k].node] = nodeVisitNumbers[visitStack[k].node]
            BY <1>1, <1>5, <2>2
        <3>2. CASE l = d + 1
            <4>1. nodeVisitNumbers'[visitStack'[l].node] = visitNum + 1
                BY <1>1, <1>5, <3>2
            <4>2. nodeVisitNumbers[visitStack[k].node] \in Numbered /\ visitStack[k].node \in Node
                BY <1>5, <3>1 DEF IInv, PathInv
            <4>3. /\ nodeVisitNumbers[visitStack[k].node] \in Nat
                  /\ nodeVisitNumbers[visitStack[k].node] <= visitNum
                BY <1>4, <4>2 DEF OnStack
            <4> QED
                BY <1>3, <3>1, <4>1, <4>3
        <3>3. CASE l \in 1..d
            BY <1>1, <1>5, <2>2, <3>1, <3>3 DEF IInv, PathInv
        <3> QED
            BY <1>5, <3>2, <3>3
    <2>3. nodeVisitNumbers'[visitStack'[1].node] = 1
        <3>1. CASE visitStack = <<>>
            BY <1>1, <1>5, <3>1
        <3>2. CASE visitStack # <<>>
            <4>1. d >= 1
                BY <3>2, TypeFact, EmptySeq DEF IInv, TypeOK
            <4> QED
                BY <1>1, <1>3, <1>5, <3>2, <4>1 DEF IInv, PathInv
        <3> QED
            BY <3>1, <3>2
    <2>4. visitStack' # <<>>
        BY <1>1, <1>3
    <2> QED
        BY <2>1, <2>2, <2>3, <2>4 DEF PathInv
<1>10. CalleeInv'
    <2> SUFFICES ASSUME NEW n \in Node, NEW e \in DOMAIN calledEdges[n],
                        OnStack(n)', Passed(n, e)'
                 PROVE  \/ nodeVisitNumbers'[calledEdges[n][e]] = Done
                        \/ /\ nodeVisitNumbers'[calledEdges[n][e]] \in Numbered
                           /\ \A k \in DOMAIN visitStack' :
                                  Owns(k, n)' => visitStack'[k].minVisited <= nodeVisitNumbers'[calledEdges[n][e]]
        BY DEF CalleeInv
    <2> DEFINE c == calledEdges[n][e]
    <2>1. n # m /\ OnStack(n) /\ c \in Node /\ e \in Nat /\ e >= 1
        BY <1>2, <1>3, <1>5, TypeFact DEF IInv, Passed
    <2>2. CASE Passed(n, e)
        <3>1. c # m
            BY <2>1, <2>2, <1>3, NodeFact DEF IInv, CalleeInv
        <3>2. CASE nodeVisitNumbers[c] = Done
            BY <1>1, <2>1, <3>1, <3>2
        <3>3. CASE nodeVisitNumbers[c] # Done
            <4>1. /\ OnStack(c)
                  /\ \A k \in DOMAIN visitStack : Owns(k, n) => visitStack[k].minVisited <= nodeVisitNumbers[c]
                BY <2>1, <2>2, <3>3 DEF IInv, CalleeInv, OnStack
            <4>2. ASSUME NEW k \in DOMAIN visitStack', Owns(k, n)'
                  PROVE  k \in 1..d /\ Owns(k, n)
                <5>1. k # d + 1
                    <6> SUFFICES ASSUME k = d + 1 PROVE FALSE
                        OBVIOUS
                    <6>1. nodeVisitNumbers'[visitStack'[d + 1].node] <= nodeVisitNumbers'[n]
                        BY <4>2 DEF Owns
                    <6>2. visitNum + 1 <= nodeVisitNumbers[n]
                        BY <1>1, <1>5, <2>1, <6>1
                    <6>3. nodeVisitNumbers[n] \in Nat /\ nodeVisitNumbers[n] <= visitNum
                        BY <1>4, <2>1
                    <6> QED
                        BY <1>3, <6>2, <6>3
                <5>2. k \in 1..d
                    BY <1>3, <1>5, <5>1
                <5>3. nodeVisitNumbers[visitStack[k].node] <= nodeVisitNumbers[n]
                    BY <1>1, <1>5, <2>1, <4>2, <5>2 DEF Owns
                <5>4. ASSUME NEW l \in DOMAIN visitStack, k < l
                      PROVE  nodeVisitNumbers[n] < nodeVisitNumbers[visitStack[l].node]
                    <6>1. l \in 1..d /\ l \in DOMAIN visitStack'
                        BY <1>3, <1>5
                    <6>2. nodeVisitNumbers'[n] < nodeVisitNumbers'[visitStack'[l].node]
                        BY <4>2, <5>4, <6>1 DEF Owns
                    <6> QED
                        BY <1>1, <1>5, <2>1, <6>1, <6>2
                <5> QED
                    BY <5>2, <5>3, <5>4 DEF Owns
            <4>3. OnStack(c)' /\ nodeVisitNumbers'[c] = nodeVisitNumbers[c]
                BY <1>1, <1>2, <2>1, <3>1, <4>1
            <4>4. ASSUME NEW k \in DOMAIN visitStack', Owns(k, n)'
                  PROVE  visitStack'[k].minVisited <= nodeVisitNumbers'[c]
                BY <1>5, <4>1, <4>2, <4>3, <4>4
            <4> QED
                BY <4>3, <4>4 DEF OnStack
        <3> QED
            BY <3>2, <3>3
    <2>3. CASE ~Passed(n, e)
        <3>1. PICK k \in DOMAIN visitStack : visitStack[k].node = n /\ ~(e < visitStack[k].nextChild)
            BY <2>3 DEF Passed
        <3>2. e < path[k].nextChild
            BY <1>1, <1>5, <3>1 DEF Passed
        <3>3. c = m
            <4>1. e \in Nat /\ visitStack[k].nextChild \in Nat
                BY <2>1, <3>1, TypeFact DEF IInv, Element
            <4>2. path[k].nextChild # visitStack[k].nextChild
                BY <3>1, <3>2
            <4>3. path[k].nextChild = visitStack[k].nextChild + 1 /\ calledEdges[n][visitStack[k].nextChild] = m
                BY <3>1, <4>2
            <4>4. e = visitStack[k].nextChild
                BY <3>1, <3>2, <4>1, <4>3
            <4> QED
                BY <4>3, <4>4
        <3>4. ASSUME NEW l \in DOMAIN visitStack' PROVE visitStack'[l].minVisited <= visitNum'
            <4>1. CASE l = d + 1
                BY <1>1, <1>3, <1>5, <4>1
            <4>2. CASE l \in 1..d
                <5>1. /\ nodeVisitNumbers[visitStack[l].node] \in Numbered
                      /\ visitStack[l].minVisited <= nodeVisitNumbers[visitStack[l].node]
                    BY <1>5, <4>2 DEF IInv, PathInv
                <5>2. /\ nodeVisitNumbers[visitStack[l].node] \in Nat
                      /\ nodeVisitNumbers[visitStack[l].node] <= visitNum
                    BY <1>4, <1>5, <4>2, <5>1 DEF OnStack
                <5> QED
                    BY <1>1, <1>3, <1>5, <4>2, <5>1, <5>2
            <4> QED
                BY <1>3, <1>5, <4>1, <4>2
        <3> QED
            BY <1>1, <3>3, <3>4
    <2> QED
        BY <2>2, <2>3
<1>11. ListInv'
    <2>1. postOrderSCCFunctionlist' = postOrderSCCFunctionlist
        BY DEF listVars
    <2>2. nodeVisitNumbers'[m] # Done
        BY <1>1, NodeFact
    <2>3. \A n \in Node : InRange(n, postOrderSCCFunctionlist) <=> nodeVisitNumbers'[n] = Done
        BY <1>1, <2>2, NodeFact DEF IInv, ListInv
    <2> QED
        BY <2>1, <2>3 DEF IInv, ListInv, InRange
<1>12. CalleesFirst'
    <2>1. UNCHANGED <<calledEdges, postOrderSCCFunctionlist, components>>
        BY DEF listVars
    <2>2. CalleesFirst
        BY DEF IInv
    <2> QED
        BY <2>1, <2>2, OrderKept
<1> QED
    BY <1>6, <1>7, <1>8, <1>9, <1>10, <1>11, <1>12 DEF IInv

-----------------------------------------------------------------------------
(* The numbers of the model, as numbers.                                   *)
LEMMA NumberFact ==
    ASSUME IInv
    PROVE  /\ \A n \in Node : nodeVisitNumbers[n] \in Nat
           /\ \A x \in Numbered : x \in Nat /\ x >= 1 /\ x < Done
           /\ \A k \in DOMAIN visitStack :
                  /\ visitStack[k].node \in Node /\ visitStack[k].nextChild \in Nat
                  /\ visitStack[k].minVisited \in Numbered
                  /\ OnStack(visitStack[k].node)
                  /\ visitStack[k].minVisited <= nodeVisitNumbers[visitStack[k].node]
<1>1. Done \in Nat /\ Unvisited \in Nat /\ \A x \in Numbered : x \in Nat /\ x >= 1 /\ x < Done
    BY NodeFact DEF Done, Unvisited, Numbered
<1>2. \A n \in Node : nodeVisitNumbers[n] \in Nat
    BY <1>1, TypeFact DEF IInv
<1>3. ASSUME NEW k \in DOMAIN visitStack
      PROVE  /\ visitStack[k].node \in Node /\ visitStack[k].nextChild \in Nat
             /\ visitStack[k].minVisited \in Numbered
             /\ OnStack(visitStack[k].node)
             /\ visitStack[k].minVisited <= nodeVisitNumbers[visitStack[k].node]
    <2>1. visitStack[k] \in Element
        BY TypeFact DEF IInv
    <2>2. /\ visitStack[k].node \in Node /\ visitStack[k].nextChild \in Nat
          /\ visitStack[k].minVisited \in Numbered
        BY <2>1 DEF Element
    <2> QED
        BY <2>2 DEF IInv, PathInv, OnStack
<1> QED
    BY <1>1, <1>2, <1>3

(* The path after the traversal has seen the child.                        *)
LEMMA SeenFact ==
    ASSUME IInv, VisitSeenChild
    PROVE  /\ visitStack' \in Seq(Element) /\ Len(visitStack') = Len(visitStack)
           /\ \A k \in DOMAIN visitStack :
                  /\ visitStack'[k].node = visitStack[k].node
                  /\ visitStack'[k].minVisited <= visitStack[k].minVisited
                  /\ k # Depth => visitStack'[k] = visitStack[k]
           /\ visitStack'[Depth].nextChild = Top.nextChild + 1
           /\ visitStack'[Depth].minVisited <= nodeVisitNumbers[Child]
<1>1. visitStack # <<>> /\ Child \in Node /\ Depth \in DOMAIN visitStack
    BY TopFact DEF IInv, VisitSeenChild, NotVisited, HasChild
<1>2. /\ Advanced \in Seq(Element) /\ Len(Advanced) = Len(visitStack)
      /\ \A k \in DOMAIN visitStack :
             /\ Advanced[k].node = visitStack[k].node
             /\ Advanced[k].minVisited = visitStack[k].minVisited
             /\ Advanced[k].nextChild =
                    IF k = Depth THEN visitStack[k].nextChild + 1 ELSE visitStack[k].nextChild
    BY <1>1, AdvancedFact DEF IInv
<1>3. \A k \in DOMAIN visitStack : k # Depth => Advanced[k] = visitStack[k]
    BY DEF Advanced
<1> DEFINE A == Advanced[Depth]
           El == [A EXCEPT !.minVisited = Least(@, nodeVisitNumbers[Child])]
<1>4. DOMAIN Advanced = DOMAIN visitStack /\ DOMAIN visitStack = 1..Len(visitStack) /\ Len(visitStack) \in Nat
    BY <1>2, TypeFact DEF IInv
<1>5. A \in Element
    BY <1>1, <1>2, <1>4
<1>6. visitStack' = [Advanced EXCEPT ![Depth] = El]
    BY <1>1, <1>4 DEF VisitSeenChild, Linked
<1>7. /\ nodeVisitNumbers[Child] \in Nat /\ A.minVisited \in Numbered
      /\ (nodeVisitNumbers[Child] \in Numbered \/ nodeVisitNumbers[Child] = Done)
    BY <1>1, <1>5, NumberFact, TypeFact DEF IInv, VisitSeenChild, NotVisited, Element
<1>8. Least(A.minVisited, nodeVisitNumbers[Child]) \in Numbered
    BY <1>7, NumberFact DEF Least
<1>9. /\ El \in Element /\ El.node = A.node /\ El.nextChild = A.nextChild
      /\ El.minVisited = Least(A.minVisited, nodeVisitNumbers[Child])
    BY <1>5, <1>8 DEF Element
<1>10. El.minVisited <= A.minVisited /\ El.minVisited <= nodeVisitNumbers[Child]
    BY <1>7, <1>9, NumberFact DEF Least
<1> HIDE DEF A, El
<1>11. /\ visitStack' \in Seq(Element) /\ Len(visitStack') = Len(visitStack)
       /\ \A k \in DOMAIN visitStack : visitStack'[k] = IF k = Depth THEN El ELSE Advanced[k]
    BY <1>1, <1>2, <1>4, <1>6, <1>9
<1>12. A.node = Top.node /\ A.minVisited = Top.minVisited /\ A.nextChild = Top.nextChild + 1
    BY <1>1, <1>2 DEF A, Top
<1>13. ASSUME NEW k \in DOMAIN visitStack
       PROVE  /\ visitStack'[k].node = visitStack[k].node
              /\ visitStack'[k].minVisited <= visitStack[k].minVisited
              /\ k # Depth => visitStack'[k] = visitStack[k]
    <2>1. visitStack[k].minVisited \in Nat
        BY NumberFact
    <2>2. CASE k = Depth
        BY <1>1, <1>9, <1>10, <1>11, <1>12, <2>2 DEF Top
    <2>3. CASE k # Depth
        BY <1>3, <1>11, <2>1, <2>3
    <2> QED
        BY <2>2, <2>3
<1> QED
    BY <1>1, <1>9, <1>10, <1>11, <1>12, <1>13

(* It hands on its own number or that of the child.                        *)
LEMMA SeenMin ==
    ASSUME IInv, VisitSeenChild
    PROVE  \/ visitStack'[Depth].minVisited = Top.minVisited
           \/ visitStack'[Depth].minVisited = nodeVisitNumbers[Child]
<1>1. visitStack # <<>> /\ Depth \in DOMAIN visitStack
    BY TopFact DEF IInv, VisitSeenChild, NotVisited, HasChild
<1>2. /\ Advanced \in Seq(Element) /\ Len(Advanced) = Len(visitStack)
      /\ Advanced[Depth].minVisited = Top.minVisited
    BY <1>1, AdvancedFact DEF IInv, Top
<1>3. Depth \in DOMAIN Advanced /\ Advanced[Depth] \in Element
    BY <1>1, <1>2, TypeFact DEF IInv
<1> DEFINE A == Advanced[Depth]
           El == [A EXCEPT !.minVisited = Least(@, nodeVisitNumbers[Child])]
<1>4. visitStack'[Depth] = El
    BY <1>3 DEF VisitSeenChild, Linked
<1>5. El.minVisited = Least(A.minVisited, nodeVisitNumbers[Child])
    BY <1>3 DEF Element
<1> QED
    BY <1>2, <1>4, <1>5 DEF Least

(* A seen child: no other call was passed, and its number is accounted for *)
(* by the top of the path, which owns itself.                              *)
LEMMA SeenPreserves == ASSUME IInv, VisitSeenChild PROVE IInv'
<1> DEFINE d == Depth
<1>1. /\ UNCHANGED <<program, built, calledEdges, visitNum, nodeVisitNumbers, sccNodeStack,
                     postOrderSCCFunctionlist, components>>
      /\ nodeVisitNumbers[Child] # Unvisited
    BY DEF VisitSeenChild, NotVisited, listVars
<1>2. /\ visitStack' \in Seq(Element) /\ Len(visitStack') = Len(visitStack)
      /\ \A k \in DOMAIN visitStack :
             /\ visitStack'[k].node = visitStack[k].node
             /\ visitStack'[k].minVisited <= visitStack[k].minVisited
             /\ k # Depth => visitStack'[k] = visitStack[k]
      /\ visitStack'[d].nextChild = Top.nextChild + 1
      /\ visitStack'[d].minVisited <= nodeVisitNumbers[Child]
    BY SeenFact
<1>3. /\ visitStack # <<>> /\ d \in DOMAIN visitStack /\ Child \in Node
      /\ Top.nextChild \in DOMAIN calledEdges[Top.node] /\ Top.nextChild \in Nat
    BY TopFact DEF IInv, VisitSeenChild, NotVisited, HasChild
<1>4. /\ DOMAIN visitStack' = DOMAIN visitStack /\ DOMAIN visitStack = 1..d /\ d \in Nat
      /\ visitStack' # <<>>
    BY <1>2, <1>3, TypeFact DEF IInv, Depth
<1>5. \A k \in DOMAIN visitStack : visitStack'[k].minVisited \in Nat
    <2>1. \A k \in DOMAIN visitStack : visitStack'[k] \in Element
        BY <1>2, <1>4
    <2> QED
        BY <2>1, NumberFact DEF Element
<1>6. TypeOK'
    <2>1. visitStack' \in Seq([node : Node, nextChild : Nat \ {0}, minVisited : Numbered])
        BY <1>2 DEF Element
    <2> QED
        BY <1>1, <2>1 DEF IInv, TypeOK
<1>7. CountInv' /\ StackInv' /\ ListInv'
    BY <1>1 DEF IInv, CountInv, StackInv, ListInv, GraphBuilt, OnStack, InRange
<1>8. CalleesFirst'
    <2>1. CalleesFirst
        BY DEF IInv
    <2> QED
        BY <1>1, <2>1, OrderKept
<1>9. PathInv'
    <2>1. ASSUME NEW k \in DOMAIN visitStack'
          PROVE  /\ nodeVisitNumbers'[visitStack'[k].node] \in Numbered
                 /\ visitStack'[k].minVisited <= nodeVisitNumbers'[visitStack'[k].node]
        <3>1. k \in DOMAIN visitStack
            BY <1>4
        <3>2. /\ nodeVisitNumbers[visitStack[k].node] \in Numbered
              /\ nodeVisitNumbers[visitStack[k].node] \in Nat
              /\ visitStack[k].minVisited \in Nat
              /\ visitStack[k].minVisited <= nodeVisitNumbers[visitStack[k].node]
            BY <3>1, NumberFact DEF OnStack
        <3> QED
            BY <1>1, <1>2, <1>5, <3>1, <3>2
    <2>2. ASSUME NEW k \in DOMAIN visitStack', NEW l \in DOMAIN visitStack', k < l
          PROVE  nodeVisitNumbers'[visitStack'[k].node] < nodeVisitNumbers'[visitStack'[l].node]
        <3>1. nodeVisitNumbers[visitStack[k].node] < nodeVisitNumbers[visitStack[l].node]
            BY <1>4, <2>2 DEF IInv, PathInv
        <3> QED
            BY <1>1, <1>2, <1>4, <3>1
    <2>3. nodeVisitNumbers'[visitStack'[1].node] = 1
        BY <1>1, <1>2, <1>3, <1>4 DEF IInv, PathInv
    <2> QED
        BY <1>4, <2>1, <2>2, <2>3 DEF PathInv
<1>10. CalleeInv'
    <2> SUFFICES ASSUME NEW n \in Node, NEW e \in DOMAIN calledEdges[n], OnStack(n)', Passed(n, e)'
                 PROVE  \/ nodeVisitNumbers'[calledEdges[n][e]] = Done
                        \/ /\ nodeVisitNumbers'[calledEdges[n][e]] \in Numbered
                           /\ \A k \in DOMAIN visitStack' :
                                  Owns(k, n)' => visitStack'[k].minVisited <= nodeVisitNumbers'[calledEdges[n][e]]
        BY <1>1 DEF CalleeInv
    <2> DEFINE c == calledEdges[n][e]
    <2>1. c \in Node /\ e \in Nat /\ nodeVisitNumbers[c] \in Nat /\ OnStack(n)
        BY <1>1, TypeFact, NumberFact DEF IInv, OnStack
    <2>2. ASSUME NEW k \in DOMAIN visitStack', Owns(k, n)'
          PROVE  k \in DOMAIN visitStack /\ Owns(k, n)
        <3>1. nodeVisitNumbers[visitStack[k].node] <= nodeVisitNumbers[n]
            BY <1>1, <1>2, <1>4, <2>2 DEF Owns
        <3>2. ASSUME NEW l \in DOMAIN visitStack, k < l
              PROVE  nodeVisitNumbers[n] < nodeVisitNumbers[visitStack[l].node]
            <4>1. nodeVisitNumbers'[n] < nodeVisitNumbers'[visitStack'[l].node]
                BY <1>4, <2>2, <3>2 DEF Owns
            <4> QED
                BY <1>1, <1>2, <4>1
        <3> QED
            BY <1>4, <3>1, <3>2 DEF Owns
    <2>3. CASE Passed(n, e)
        <3>1. CASE nodeVisitNumbers[c] = Done
            BY <1>1, <3>1
        <3>2. CASE nodeVisitNumbers[c] # Done
            <4>1. /\ nodeVisitNumbers[c] \in Numbered
                  /\ \A k \in DOMAIN visitStack : Owns(k, n) => visitStack[k].minVisited <= nodeVisitNumbers[c]
                BY <2>1, <2>3, <3>2 DEF IInv, CalleeInv
            <4>2. ASSUME NEW k \in DOMAIN visitStack', Owns(k, n)'
                  PROVE  visitStack'[k].minVisited <= nodeVisitNumbers[c]
                <5>1. /\ k \in DOMAIN visitStack /\ visitStack[k].minVisited <= nodeVisitNumbers[c]
                      /\ visitStack'[k].minVisited <= visitStack[k].minVisited
                    BY <1>2, <2>2, <4>1, <4>2
                <5>2. visitStack[k].minVisited \in Nat /\ visitStack'[k].minVisited \in Nat
                    BY <1>5, <5>1, NumberFact
                <5> QED
                    BY <2>1, <5>1, <5>2
            <4> QED
                BY <1>1, <4>1, <4>2
        <3> QED
            BY <3>1, <3>2
    <2>4. CASE ~Passed(n, e)
        <3>1. PICK k \in DOMAIN visitStack : visitStack[k].node = n /\ ~(e < visitStack[k].nextChild)
            BY <2>4 DEF Passed
        <3>2. e < visitStack'[k].nextChild
            BY <1>2, <1>4, <3>1 DEF Passed
        <3>3. k = d
            BY <1>2, <3>1, <3>2
        <3>4. n = Top.node /\ e = Top.nextChild
            BY <1>2, <1>3, <2>1, <3>1, <3>2, <3>3 DEF Top
        <3>5. c = Child
            BY <3>4 DEF Child
        <3>6. \A l \in DOMAIN visitStack : Owns(l, n) => l = d
            BY <1>3, <1>4, <3>4, NumberFact DEF Owns, Top
        <3>7. nodeVisitNumbers[c] = Done \/ nodeVisitNumbers[c] \in Numbered
            BY <1>1, <2>1, <3>5, TypeFact DEF IInv
        <3> QED
            BY <1>1, <1>2, <2>2, <3>5, <3>6, <3>7
    <2> QED
        BY <2>3, <2>4
<1> QED
    BY <1>6, <1>7, <1>8, <1>9, <1>10 DEF IInv

-----------------------------------------------------------------------------
(* The path without its top.                                               *)
LEMMA PropagatedFact ==
    ASSUME IInv, visitStack # <<>>
    PROVE  /\ Propagated \in Seq(Element) /\ DOMAIN Propagated = 1..(Depth - 1)
           /\ Depth \in Nat /\ Depth >= 1 /\ DOMAIN visitStack = 1..Depth
           /\ (Propagated = <<>> <=> Depth = 1)
           /\ \A k \in 1..(Depth - 1) :
                  /\ Propagated[k].node = visitStack[k].node
                  /\ Propagated[k].nextChild = visitStack[k].nextChild
                  /\ Propagated[k].minVisited \in Numbered
                  /\ Propagated[k].minVisited <= visitStack[k].minVisited
                  /\ k = Depth - 1 => Propagated[k].minVisited <= Top.minVisited
<1>1. /\ Depth \in Nat /\ Depth >= 1 /\ DOMAIN visitStack = 1..Depth
      /\ visitStack \in Seq(Element) /\ Len(visitStack) = Depth
    BY TopFact, TypeFact DEF IInv, Depth, TypeOK, Element
<1>2. CASE Depth = 1
    <2>1. Propagated = <<>>
        BY <1>2 DEF Propagated
    <2>2. Propagated \in Seq(Element) /\ DOMAIN Propagated = 1..0
        BY <2>1, EmptySeq
    <2> QED
        BY <1>1, <1>2, <2>1, <2>2
<1>3. CASE Depth # 1
    <2> DEFINE p == Depth - 1
               base == SubSeq(visitStack, 1, p)
               El == [base[p] EXCEPT !.minVisited = Least(@, Top.minVisited)]
    <2>1. p \in 1..Depth /\ p \in Nat /\ p >= 1
        BY <1>1, <1>3
    <2>2. base \in Seq(Element) /\ Len(base) = p /\ DOMAIN base = 1..p
          /\ \A k \in 1..p : base[k] = visitStack[k]
        BY <1>1, <2>1
    <2>3. base[p] = visitStack[p] /\ visitStack[p] \in Element
        BY <1>1, <2>1, <2>2
    <2>4. Top.minVisited \in Numbered /\ visitStack[p].minVisited \in Numbered
        BY <1>1, <2>1, NumberFact DEF Top
    <2>5. /\ Least(visitStack[p].minVisited, Top.minVisited) \in Numbered
          /\ Least(visitStack[p].minVisited, Top.minVisited) <= visitStack[p].minVisited
          /\ Least(visitStack[p].minVisited, Top.minVisited) <= Top.minVisited
        BY <2>4, NumberFact DEF Least
    <2>6. /\ El \in Element /\ El.node = visitStack[p].node /\ El.nextChild = visitStack[p].nextChild
          /\ El.minVisited = Least(visitStack[p].minVisited, Top.minVisited)
        BY <2>3, <2>5 DEF Element
    <2>7. Propagated = [base EXCEPT ![p] = El]
        BY <1>3, <2>1, <2>2 DEF Propagated
    <2> HIDE DEF El
    <2>8. /\ Propagated \in Seq(Element) /\ Len(Propagated) = p
          /\ \A k \in 1..p : Propagated[k] = IF k = p THEN El ELSE visitStack[k]
        <3> HIDE DEF base
        <3> QED
            BY <2>1, <2>2, <2>6, <2>7
    <2>9. DOMAIN Propagated = 1..p /\ Propagated # <<>>
        BY <2>1, <2>8
    <2>10. ASSUME NEW k \in 1..p
           PROVE  /\ Propagated[k].node = visitStack[k].node
                  /\ Propagated[k].nextChild = visitStack[k].nextChild
                  /\ Propagated[k].minVisited \in Numbered
                  /\ Propagated[k].minVisited <= visitStack[k].minVisited
                  /\ k = p => Propagated[k].minVisited <= Top.minVisited
        <3>1. visitStack[k].minVisited \in Numbered /\ visitStack[k].minVisited \in Nat
            BY <1>1, <2>1, NumberFact
        <3>2. CASE k = p
            BY <2>5, <2>6, <2>8, <3>2
        <3>3. CASE k # p
            BY <2>8, <3>1, <3>3
        <3> QED
            BY <3>2, <3>3
    <2> QED
        BY <1>1, <1>3, <2>8, <2>9, <2>10
<1> QED
    BY <1>2, <1>3

(* The caller has its own number or that of the top.                       *)
LEMMA PropagatedMin ==
    ASSUME IInv, visitStack # <<>>, NEW k \in 1..(Depth - 1)
    PROVE  \/ Propagated[k].minVisited = visitStack[k].minVisited
           \/ k = Depth - 1 /\ Propagated[k].minVisited = Top.minVisited
<1> DEFINE p == Depth - 1
           base == SubSeq(visitStack, 1, p)
           El == [base[p] EXCEPT !.minVisited = Least(@, Top.minVisited)]
<1>a. TypeOK
    BY DEF IInv
<1>b. Depth \in Nat /\ Len(visitStack) = Depth
    BY <1>a, TypeFact DEF Depth
<1>c. visitStack \in Seq(Element)
    BY <1>a DEF TypeOK, Element
<1>1. /\ Depth \in Nat /\ Depth # 1 /\ p \in 1..Depth /\ visitStack \in Seq(Element) /\ Len(visitStack) = Depth
    BY <1>b, <1>c
<1>2. /\ Len(base) = p /\ DOMAIN base = 1..p /\ \A i \in 1..p : base[i] = visitStack[i]
      /\ base[p] = visitStack[p] /\ visitStack[p] \in Element
    BY <1>1
<1>3. Propagated = [base EXCEPT ![p] = El]
    BY <1>1 DEF Propagated
<1>4. El.minVisited = Least(visitStack[p].minVisited, Top.minVisited)
    BY <1>2 DEF Element
<1> HIDE DEF El, base
<1>5. Propagated[k] = IF k = p THEN El ELSE visitStack[k]
    BY <1>2, <1>3
<1> QED
    BY <1>4, <1>5 DEF Least

(* All calls of the top were passed, and those passed after it has left    *)
(* the path were passed before.                                            *)
LEMMA LeafFact ==
    ASSUME IInv, Leaf
    PROVE  /\ \A e \in DOMAIN calledEdges[Top.node] : e < Top.nextChild
           /\ \A k \in 1..(Depth - 1) : nodeVisitNumbers[visitStack[k].node] < nodeVisitNumbers[Top.node]
           /\ \A n \in Node : \A e \in DOMAIN calledEdges[n] :
                  (\A k \in 1..(Depth - 1) : visitStack[k].node = n => e < visitStack[k].nextChild)
                      => Passed(n, e)
<1>1. /\ Depth \in Nat /\ Depth >= 1 /\ DOMAIN visitStack = 1..Depth
    BY PropagatedFact DEF Leaf
<1>2. Top.node \in Node /\ Top.nextChild \in Nat
    BY TopFact DEF IInv, Leaf
<1>3. ASSUME NEW e \in DOMAIN calledEdges[Top.node] PROVE e < Top.nextChild
    <2>1. /\ DOMAIN calledEdges[Top.node] = 1..Len(calledEdges[Top.node])
          /\ Len(calledEdges[Top.node]) \in Nat
        BY <1>2, TypeFact DEF IInv
    <2>2. ~(Top.nextChild <= Len(calledEdges[Top.node]))
        BY DEF Leaf, HasChild
    <2> QED
        BY <1>2, <2>1, <2>2
<1>4. ASSUME NEW k \in 1..(Depth - 1)
      PROVE  nodeVisitNumbers[visitStack[k].node] < nodeVisitNumbers[Top.node]
    BY <1>1 DEF IInv, PathInv, Top
<1>5. ASSUME NEW n \in Node, NEW e \in DOMAIN calledEdges[n],
             \A k \in 1..(Depth - 1) : visitStack[k].node = n => e < visitStack[k].nextChild
      PROVE  Passed(n, e)
    <2> SUFFICES ASSUME NEW k \in DOMAIN visitStack, visitStack[k].node = n
                 PROVE  e < visitStack[k].nextChild
        BY DEF Passed
    <2>1. CASE k = Depth
        BY <1>3, <2>1 DEF Top
    <2>2. CASE k # Depth
        BY <1>1, <1>5, <2>2
    <2> QED
        BY <2>1, <2>2
<1> QED
    BY <1>3, <1>4, <1>5

(* A node that is no root leaves the path; its caller now owns what it     *)
(* owned, with the smaller of their numbers.                               *)
LEMMA PopLeafPreserves == ASSUME IInv, PopLeaf PROVE IInv'
<1> DEFINE d == Depth
<1>1. /\ UNCHANGED <<program, built, calledEdges, visitNum, nodeVisitNumbers, sccNodeStack,
                     postOrderSCCFunctionlist, components>>
      /\ visitStack' = Propagated /\ Leaf /\ visitStack # <<>> /\ ~IsRoot
    BY DEF PopLeaf, Leaf, listVars
<1>2. /\ visitStack' \in Seq(Element) /\ DOMAIN visitStack' = 1..(d - 1)
      /\ d \in Nat /\ d >= 1 /\ DOMAIN visitStack = 1..d
      /\ (visitStack' = <<>> <=> d = 1)
      /\ \A k \in 1..(d - 1) :
             /\ visitStack'[k].node = visitStack[k].node
             /\ visitStack'[k].nextChild = visitStack[k].nextChild
             /\ visitStack'[k].minVisited \in Numbered
             /\ visitStack'[k].minVisited <= visitStack[k].minVisited
             /\ k = d - 1 => visitStack'[k].minVisited <= Top.minVisited
    BY <1>1, PropagatedFact
<1>3. d # 1
    <2> SUFFICES ASSUME d = 1 PROVE FALSE
        OBVIOUS
    <2>1. nodeVisitNumbers[Top.node] = 1
        BY <1>1 DEF IInv, PathInv, Top
    <2>2. Top.minVisited \in Numbered /\ Top.minVisited <= nodeVisitNumbers[Top.node]
        BY <1>2, NumberFact DEF Top
    <2>3. Top.minVisited = 1
        BY <2>1, <2>2, NumberFact
    <2> QED
        BY <1>1, <2>1, <2>3 DEF IsRoot
<1>4. \A k \in 1..d : /\ visitStack[k].node \in Node /\ nodeVisitNumbers[visitStack[k].node] \in Nat
                      /\ nodeVisitNumbers[visitStack[k].node] \in Numbered
                      /\ visitStack[k].minVisited \in Nat
                      /\ visitStack[k].minVisited <= nodeVisitNumbers[visitStack[k].node]
    BY <1>2, NumberFact DEF OnStack
<1>5. \A k \in 1..(d - 1) : k \in 1..d /\ visitStack'[k].minVisited \in Nat
    BY <1>2, NumberFact
<1>6. TypeOK'
    <2>1. visitStack' \in Seq([node : Node, nextChild : Nat \ {0}, minVisited : Numbered])
        BY <1>2 DEF Element
    <2> QED
        BY <1>1, <2>1 DEF IInv, TypeOK
<1>7. CountInv' /\ StackInv' /\ ListInv'
    BY <1>1 DEF IInv, CountInv, StackInv, ListInv, GraphBuilt, OnStack, InRange
<1>8. CalleesFirst'
    <2>1. CalleesFirst
        BY DEF IInv
    <2> QED
        BY <1>1, <2>1, OrderKept
<1>9. PathInv'
    <2>1. ASSUME NEW k \in DOMAIN visitStack'
          PROVE  /\ nodeVisitNumbers'[visitStack'[k].node] \in Numbered
                 /\ visitStack'[k].minVisited <= nodeVisitNumbers'[visitStack'[k].node]
        <3>1. /\ k \in 1..(d - 1) /\ k \in 1..d /\ visitStack'[k].minVisited \in Nat
              /\ visitStack'[k].node = visitStack[k].node
              /\ visitStack'[k].minVisited <= visitStack[k].minVisited
            BY <1>2, <1>5
        <3> QED
            BY <1>1, <1>4, <3>1
    <2>2. ASSUME NEW k \in DOMAIN visitStack', NEW l \in DOMAIN visitStack', k < l
          PROVE  nodeVisitNumbers'[visitStack'[k].node] < nodeVisitNumbers'[visitStack'[l].node]
        <3>1. k \in 1..(d - 1) /\ l \in 1..(d - 1) /\ k \in DOMAIN visitStack /\ l \in DOMAIN visitStack
            BY <1>2
        <3>2. nodeVisitNumbers[visitStack[k].node] < nodeVisitNumbers[visitStack[l].node]
            BY <2>2, <3>1 DEF IInv, PathInv
        <3> QED
            BY <1>1, <1>2, <3>1, <3>2
    <2>3. nodeVisitNumbers'[visitStack'[1].node] = 1
        <3>1. 1 \in 1..(d - 1) /\ nodeVisitNumbers[visitStack[1].node] = 1
            BY <1>1, <1>2, <1>3 DEF IInv, PathInv
        <3> QED
            BY <1>1, <1>2, <3>1
    <2>4. visitStack' # <<>>
        BY <1>2, <1>3
    <2> QED
        BY <2>1, <2>2, <2>3, <2>4 DEF PathInv
<1>10. CalleeInv'
    <2> SUFFICES ASSUME NEW n \in Node, NEW e \in DOMAIN calledEdges[n], OnStack(n)', Passed(n, e)'
                 PROVE  \/ nodeVisitNumbers'[calledEdges[n][e]] = Done
                        \/ /\ nodeVisitNumbers'[calledEdges[n][e]] \in Numbered
                           /\ \A k \in DOMAIN visitStack' :
                                  Owns(k, n)' => visitStack'[k].minVisited <= nodeVisitNumbers'[calledEdges[n][e]]
        BY <1>1 DEF CalleeInv
    <2> DEFINE c == calledEdges[n][e]
    <2>1. /\ c \in Node /\ e \in Nat /\ nodeVisitNumbers[c] \in Nat /\ nodeVisitNumbers[n] \in Nat
          /\ OnStack(n)
        BY <1>1, TypeFact, NumberFact DEF IInv, OnStack
    <2>2. Passed(n, e)
        <3>1. \A k \in 1..(d - 1) : visitStack[k].node = n => e < visitStack[k].nextChild
            BY <1>2 DEF Passed
        <3> QED
            BY <1>1, <3>1, LeafFact
    <2>3. CASE nodeVisitNumbers[c] = Done
        BY <1>1, <2>3
    <2>4. CASE nodeVisitNumbers[c] # Done
        <3>1. /\ nodeVisitNumbers[c] \in Numbered
              /\ \A k \in DOMAIN visitStack : Owns(k, n) => visitStack[k].minVisited <= nodeVisitNumbers[c]
            BY <2>1, <2>2, <2>4 DEF IInv, CalleeInv
        <3>2. ASSUME NEW k \in DOMAIN visitStack', Owns(k, n)'
              PROVE  visitStack'[k].minVisited <= nodeVisitNumbers[c]
            <4>1. /\ k \in 1..(d - 1) /\ k \in 1..d
                  /\ nodeVisitNumbers[visitStack[k].node] <= nodeVisitNumbers[n]
                BY <1>1, <1>2, <1>5, <3>2 DEF Owns
            <4>2. ASSUME NEW l \in 1..(d - 1), k < l
                  PROVE  nodeVisitNumbers[n] < nodeVisitNumbers[visitStack[l].node]
                <5>1. nodeVisitNumbers'[n] < nodeVisitNumbers'[visitStack'[l].node]
                    BY <1>2, <3>2, <4>2 DEF Owns
                <5> QED
                    BY <1>1, <1>2, <5>1
            <4>3. CASE nodeVisitNumbers[n] < nodeVisitNumbers[Top.node]
                <5>1. Owns(k, n)
                    BY <1>2, <4>1, <4>2, <4>3 DEF Owns, Top
                <5>2. visitStack[k].minVisited <= nodeVisitNumbers[c]
                    BY <1>2, <3>1, <4>1, <5>1
                <5> QED
                    BY <1>2, <1>4, <1>5, <2>1, <4>1, <5>2
            <4>4. CASE ~(nodeVisitNumbers[n] < nodeVisitNumbers[Top.node])
                <5>1. d \in 1..d /\ nodeVisitNumbers[Top.node] \in Nat
                    BY <1>2, <1>4 DEF Top
                <5>2. Owns(d, n)
                    BY <1>2, <2>1, <4>4, <5>1 DEF Owns, Top
                <5>3. Top.minVisited <= nodeVisitNumbers[c] /\ Top.minVisited \in Nat
                    BY <1>2, <1>4, <3>1, <5>1, <5>2 DEF Top
                <5>4. k = d - 1
                    <6> SUFFICES ASSUME k # d - 1 PROVE FALSE
                        OBVIOUS
                    <6>1. d - 1 \in 1..(d - 1) /\ k < d - 1
                        BY <1>2, <4>1
                    <6>2. nodeVisitNumbers[n] < nodeVisitNumbers[visitStack[d - 1].node]
                        BY <4>2, <6>1
                    <6>3. nodeVisitNumbers[visitStack[d - 1].node] < nodeVisitNumbers[Top.node]
                        BY <1>1, <6>1, LeafFact
                    <6>4. nodeVisitNumbers[visitStack[d - 1].node] \in Nat
                        BY <1>4, <1>5, <6>1
                    <6> QED
                        BY <2>1, <4>4, <5>1, <6>2, <6>3, <6>4
                <5>5. visitStack'[k].minVisited <= Top.minVisited
                    BY <1>2, <4>1, <5>4
                <5> QED
                    BY <1>5, <2>1, <4>1, <5>3, <5>5
            <4> QED
                BY <4>3, <4>4
        <3> QED
            BY <1>1, <3>1, <3>2
    <2> QED
        BY <2>3, <2>4
<1> QED
    BY <1>6, <1>7, <1>8, <1>9, <1>10 DEF IInv

-----------------------------------------------------------------------------
(* The nodes of a complete component: those visited since the root.        *)
Popped(n) == OnStack(n) /\ nodeVisitNumbers[Top.node] <= nodeVisitNumbers[n]

LEMMA ComponentFact ==
    ASSUME IInv, visitStack # <<>>,
           NEW rest, rest = SubSeq(sccNodeStack, 1, Len(sccNodeStack) - Len(CurrentSCC))
    PROVE  /\ CurrentSCC \in Seq(Node) /\ Len(CurrentSCC) \in Nat
           /\ DOMAIN CurrentSCC = 1..Len(CurrentSCC)
           /\ \A i, j \in DOMAIN CurrentSCC : CurrentSCC[i] = CurrentSCC[j] => i = j
           /\ \A n \in Node : InRange(n, CurrentSCC) <=> Popped(n)
           /\ rest \in Seq(Node)
           /\ Len(rest) \in Nat /\ Len(rest) < Len(sccNodeStack) /\ DOMAIN rest = 1..Len(rest)
           /\ \A i \in DOMAIN rest : i \in DOMAIN sccNodeStack /\ rest[i] = sccNodeStack[i] /\ ~Popped(rest[i])
           /\ \A n \in Node : OnStack(n) /\ ~Popped(n) => InRange(n, rest)
<1> DEFINE z == Len(sccNodeStack)
           k == CHOOSE i \in 1..z : sccNodeStack[i] = Top.node
           w == z - k + 1
           scc == [i \in 1..w |-> sccNodeStack[z + 1 - i]]
<1>1. /\ z \in Nat /\ DOMAIN sccNodeStack = 1..z /\ \A i \in 1..z : sccNodeStack[i] \in Node
      /\ sccNodeStack \in Seq(Node)
    BY TypeFact DEF IInv, TypeOK
<1>2. /\ \A i \in 1..z : nodeVisitNumbers[sccNodeStack[i]] \in Numbered
      /\ \A i, j \in 1..z : i < j => nodeVisitNumbers[sccNodeStack[i]] < nodeVisitNumbers[sccNodeStack[j]]
      /\ \A n \in Node : OnStack(n) => \E i \in 1..z : sccNodeStack[i] = n
    BY <1>1 DEF IInv, StackInv, InRange
<1>3. \A i \in 1..z : nodeVisitNumbers[sccNodeStack[i]] \in Nat
    BY <1>1, NumberFact
<1>4. Top.node \in Node /\ OnStack(Top.node) /\ nodeVisitNumbers[Top.node] \in Nat
    BY PropagatedFact, NumberFact DEF Top
<1>5. k \in 1..z /\ sccNodeStack[k] = Top.node
    BY <1>2, <1>4
<1> HIDE DEF k
<1>6. w \in Nat /\ w >= 1 /\ w <= z
    BY <1>1, <1>5
<1>7. CurrentSCC = scc
    BY DEF CurrentSCC, k
<1>8. \A i \in 1..w : z + 1 - i \in k..z /\ z + 1 - i \in 1..z
    BY <1>1, <1>5
<1>9. CurrentSCC \in Seq(Node) /\ Len(CurrentSCC) = w /\ DOMAIN CurrentSCC = 1..w
      /\ \A i \in 1..w : CurrentSCC[i] = sccNodeStack[z + 1 - i]
    <2>1. scc \in [1..w -> Node]
        BY <1>1, <1>8
    <2>2. scc \in Seq(Node) /\ Len(scc) = w /\ DOMAIN scc = 1..w
        <3>1. DOMAIN scc = 1..w
            OBVIOUS
        <3> HIDE DEF scc, w
        <3>2. scc \in Seq(Node)
            BY <1>6, <2>1
        <3>3. Len(scc) = w
            BY <1>6, <3>1, <3>2
        <3> QED
            BY <3>1, <3>2, <3>3
    <2> QED
        BY <1>7, <2>2
<1>10. ASSUME NEW i \in 1..w, NEW j \in 1..w, CurrentSCC[i] = CurrentSCC[j] PROVE i = j
    <2> DEFINE a == z + 1 - i
               b == z + 1 - j
    <2>1. a \in 1..z /\ b \in 1..z /\ sccNodeStack[a] = sccNodeStack[b]
        BY <1>8, <1>9, <1>10
    <2>2. ~(a < b) /\ ~(b < a)
        BY <1>2, <1>3, <2>1
    <2> QED
        BY <1>1, <2>1, <2>2
<1>11. \A i \in 1..z : Popped(sccNodeStack[i]) <=> i >= k
    <2> SUFFICES ASSUME NEW i \in 1..z PROVE Popped(sccNodeStack[i]) <=> i >= k
        OBVIOUS
    <2>1. OnStack(sccNodeStack[i]) /\ nodeVisitNumbers[sccNodeStack[i]] \in Nat
        BY <1>2, <1>3 DEF OnStack
    <2>2. CASE i < k
        BY <1>1, <1>2, <1>4, <1>5, <2>1, <2>2 DEF Popped
    <2>3. CASE i = k
        BY <1>4, <1>5, <2>1, <2>3 DEF Popped
    <2>4. CASE i > k
        BY <1>1, <1>2, <1>4, <1>5, <2>1, <2>4 DEF Popped
    <2> QED
        BY <1>1, <1>5, <2>2, <2>3, <2>4
<1>12. ASSUME NEW n \in Node PROVE InRange(n, CurrentSCC) <=> Popped(n)
    <2>1. ASSUME InRange(n, CurrentSCC) PROVE Popped(n)
        <3>1. PICK i \in 1..w : CurrentSCC[i] = n
            BY <1>9, <2>1 DEF InRange
        <3>2. z + 1 - i \in 1..z /\ z + 1 - i >= k /\ sccNodeStack[z + 1 - i] = n
            BY <1>5, <1>8, <1>9, <3>1
        <3> QED
            BY <1>11, <3>2
    <2>2. ASSUME Popped(n) PROVE InRange(n, CurrentSCC)
        <3>1. PICK i \in 1..z : sccNodeStack[i] = n
            BY <1>2, <2>2 DEF Popped
        <3>2. i >= k
            BY <1>11, <2>2, <3>1
        <3>3. z + 1 - i \in 1..w /\ z + 1 - (z + 1 - i) = i
            BY <1>1, <1>5, <3>2
        <3>4. CurrentSCC[z + 1 - i] = n
            BY <1>9, <3>1, <3>3
        <3> QED
            BY <1>9, <3>3, <3>4 DEF InRange
    <2> QED
        BY <2>1, <2>2
<1>13. /\ rest = SubSeq(sccNodeStack, 1, k - 1) /\ k - 1 \in Nat /\ k - 1 < z
    BY <1>1, <1>5, <1>9
<1>14. /\ rest \in Seq(Node) /\ Len(rest) = k - 1 /\ DOMAIN rest = 1..(k - 1)
       /\ \A i \in 1..(k - 1) : rest[i] = sccNodeStack[i]
    <2>1. 1 \in Int /\ k - 1 \in Int /\ \A i \in 1..(k - 1) : sccNodeStack[i] \in Node
        BY <1>1, <1>5
    <2>2. /\ rest \in Seq(Node) /\ Len(rest) = IF 1 <= k - 1 THEN k - 1 - 1 + 1 ELSE 0
          /\ \A i \in 1..(k - 1 - 1 + 1) : rest[i] = sccNodeStack[1 + i - 1]
        BY <1>13, <2>1, SubSeqProperties
    <2>3. k \in Nat /\ k >= 1 /\ k - 1 - 1 + 1 = k - 1
        BY <1>1, <1>5
    <2>4. Len(rest) = k - 1
        <3>1. CASE k = 1
            BY <2>2, <3>1
        <3>2. CASE k # 1
            <4>1. 1 <= k - 1
                BY <2>3, <3>2
            <4>2. Len(rest) = k - 1 - 1 + 1
                BY <2>2, <4>1
            <4> QED
                BY <2>3, <4>2
        <3> QED
            BY <3>1, <3>2
    <2>5. ASSUME NEW i \in 1..(k - 1) PROVE rest[i] = sccNodeStack[i]
        <3>1. i \in 1..(k - 1 - 1 + 1) /\ 1 + i - 1 = i
            BY <2>3
        <3> QED
            BY <2>2, <3>1
    <2> QED
        BY <2>2, <2>4, <2>5
<1>15. ASSUME NEW i \in DOMAIN rest
       PROVE  i \in DOMAIN sccNodeStack /\ rest[i] = sccNodeStack[i] /\ ~Popped(rest[i])
    <2>1. i \in 1..z /\ ~(i >= k)
        BY <1>1, <1>5, <1>14
    <2> QED
        BY <1>1, <1>11, <1>14, <2>1
<1>16. ASSUME NEW n \in Node, OnStack(n), ~Popped(n) PROVE InRange(n, rest)
    <2>1. PICK i \in 1..z : sccNodeStack[i] = n
        BY <1>2, <1>16
    <2>2. i \in 1..(k - 1)
        BY <1>1, <1>5, <1>11, <1>16, <2>1
    <2> QED
        BY <1>14, <2>1, <2>2 DEF InRange
<1> QED
    BY <1>6, <1>9, <1>10, <1>12, <1>13, <1>14, <1>15, <1>16

(* A complete component is listed: the root's number is its own, so that   *)
(* what its nodes call is among them or listed.                            *)
LEMMA PopComponentPreserves == ASSUME IInv, PopComponent PROVE IInv'
<1> DEFINE d == Depth
           scc == CurrentSCC
           list == postOrderSCCFunctionlist
           C == {scc[i] : i \in DOMAIN scc}
           z == Len(list)
<1>1. /\ UNCHANGED <<program, built, calledEdges, visitNum>>
      /\ visitStack' = Propagated /\ Leaf /\ visitStack # <<>> /\ IsRoot
      /\ sccNodeStack' = SubSeq(sccNodeStack, 1, Len(sccNodeStack) - Len(scc))
      /\ nodeVisitNumbers' =
             [n \in Node |-> IF InRange(n, scc) THEN Done ELSE nodeVisitNumbers[n]]
      /\ postOrderSCCFunctionlist' = list \o scc
      /\ components' = components \cup {C}
    BY DEF PopComponent, DoneNumbers, Leaf
<1>2. /\ visitStack' \in Seq(Element) /\ DOMAIN visitStack' = 1..(d - 1)
      /\ d \in Nat /\ d >= 1 /\ DOMAIN visitStack = 1..d
      /\ (visitStack' = <<>> <=> d = 1)
      /\ \A k \in 1..(d - 1) :
             /\ visitStack'[k].node = visitStack[k].node
             /\ visitStack'[k].nextChild = visitStack[k].nextChild
             /\ visitStack'[k].minVisited \in Numbered
             /\ visitStack'[k].minVisited <= visitStack[k].minVisited
    BY <1>1, PropagatedFact
<1>3. /\ scc \in Seq(Node) /\ Len(scc) \in Nat /\ DOMAIN scc = 1..Len(scc)
      /\ \A i, j \in DOMAIN scc : scc[i] = scc[j] => i = j
      /\ \A n \in Node : InRange(n, scc) <=> Popped(n)
      /\ sccNodeStack' \in Seq(Node)
      /\ Len(sccNodeStack') \in Nat /\ Len(sccNodeStack') < Len(sccNodeStack)
      /\ DOMAIN sccNodeStack' = 1..Len(sccNodeStack')
      /\ \A i \in DOMAIN sccNodeStack' : /\ i \in DOMAIN sccNodeStack
                                         /\ sccNodeStack'[i] = sccNodeStack[i]
                                         /\ ~Popped(sccNodeStack'[i])
      /\ \A n \in Node : OnStack(n) /\ ~Popped(n) => InRange(n, sccNodeStack')
    BY <1>1, ComponentFact
<1> HIDE DEF scc
<1>4. /\ Top.node \in Node /\ nodeVisitNumbers[Top.node] \in Nat /\ Popped(Top.node)
      /\ d \in DOMAIN visitStack
    <2>1. d \in DOMAIN visitStack
        BY <1>2
    <2>2. Top.node \in Node /\ OnStack(Top.node)
        BY <2>1, NumberFact DEF Top
    <2>3. nodeVisitNumbers[Top.node] \in Nat
        BY <2>2, NumberFact
    <2> QED
        BY <2>1, <2>2, <2>3 DEF Popped
<1>5. \A n \in Node : nodeVisitNumbers'[n] = IF Popped(n) THEN Done ELSE nodeVisitNumbers[n]
    BY <1>1, <1>3
<1>6. \A n \in Node : (OnStack(n)' <=> OnStack(n) /\ ~Popped(n))
    BY <1>5, NodeFact DEF OnStack
<1>7. \A k \in 1..(d - 1) : /\ k \in DOMAIN visitStack /\ visitStack[k].node \in Node
                            /\ ~Popped(visitStack[k].node)
                            /\ OnStack(visitStack[k].node)
                            /\ nodeVisitNumbers'[visitStack'[k].node] = nodeVisitNumbers[visitStack[k].node]
                            /\ nodeVisitNumbers[visitStack[k].node] \in Nat
                            /\ visitStack[k].minVisited \in Nat /\ visitStack'[k].minVisited \in Nat
                            /\ visitStack[k].minVisited <= nodeVisitNumbers[visitStack[k].node]
    <2> SUFFICES ASSUME NEW k \in 1..(d - 1)
                 PROVE  /\ k \in DOMAIN visitStack /\ visitStack[k].node \in Node
                        /\ ~Popped(visitStack[k].node)
                        /\ OnStack(visitStack[k].node)
                        /\ nodeVisitNumbers'[visitStack'[k].node] = nodeVisitNumbers[visitStack[k].node]
                        /\ nodeVisitNumbers[visitStack[k].node] \in Nat
                        /\ visitStack[k].minVisited \in Nat /\ visitStack'[k].minVisited \in Nat
                        /\ visitStack[k].minVisited <= nodeVisitNumbers[visitStack[k].node]
        OBVIOUS
    <2>1. /\ k \in DOMAIN visitStack /\ visitStack[k].node \in Node
          /\ OnStack(visitStack[k].node)
          /\ nodeVisitNumbers[visitStack[k].node] \in Nat
          /\ visitStack[k].minVisited \in Nat /\ visitStack'[k].minVisited \in Nat
          /\ visitStack[k].minVisited <= nodeVisitNumbers[visitStack[k].node]
        <3>1. k \in DOMAIN visitStack /\ visitStack'[k].minVisited \in Numbered
            BY <1>2
        <3> QED
            BY <3>1, NumberFact
    <2>2. ~Popped(visitStack[k].node)
        BY <1>1, <1>4, <2>1, LeafFact DEF Popped
    <2> QED
        BY <1>2, <1>5, <2>1, <2>2
<1>8. TypeOK'
    <2>1. visitStack' \in Seq([node : Node, nextChild : Nat \ {0}, minVisited : Numbered])
        BY <1>2 DEF Element
    <2>2. nodeVisitNumbers' \in [Node -> {Unvisited, Done} \cup Numbered]
        BY <1>1 DEF IInv, TypeOK
    <2>3. list \in Seq(Node) /\ components \subseteq SUBSET Node
        BY DEF IInv, TypeOK
    <2>4. postOrderSCCFunctionlist' \in Seq(Node)
        BY <1>1, <1>3, <2>3
    <2>5. C \in SUBSET Node
        BY <1>3
    <2>6. components' \subseteq SUBSET Node
        BY <1>1, <2>3, <2>5
    <2> QED
        BY <1>1, <1>3, <2>1, <2>2, <2>4, <2>6 DEF IInv, TypeOK
<1>9. CountInv'
    <2>1. \A n \in Node : nodeVisitNumbers'[n] # Unvisited <=> nodeVisitNumbers[n] # Unvisited
        BY <1>5, NodeFact DEF Popped, OnStack
    <2>2. {n \in Node : nodeVisitNumbers'[n] # Unvisited} = {n \in Node : nodeVisitNumbers[n] # Unvisited}
        BY <2>1
    <2>3. visitNum' = Cardinality({n \in Node : nodeVisitNumbers'[n] # Unvisited})
        BY <1>1, <2>2 DEF IInv, CountInv
    <2>4. \A n \in Node : OnStack(n)' => nodeVisitNumbers'[n] <= visitNum'
        BY <1>1, <1>5, <1>6 DEF IInv, CountInv
    <2>5. ~GraphBuilt' => visitNum' = 0
        BY <1>1 DEF IInv, CountInv, GraphBuilt
    <2> QED
        BY <2>3, <2>4, <2>5 DEF CountInv
<1>10. StackInv'
    <2>1. \A i \in DOMAIN sccNodeStack' :
              /\ i \in DOMAIN sccNodeStack /\ sccNodeStack'[i] \in Node
              /\ sccNodeStack'[i] = sccNodeStack[i]
              /\ nodeVisitNumbers'[sccNodeStack'[i]] = nodeVisitNumbers[sccNodeStack[i]]
              /\ nodeVisitNumbers[sccNodeStack[i]] \in Numbered
        BY <1>3, <1>5, TypeFact DEF IInv, StackInv
    <2>2. ASSUME NEW i \in DOMAIN sccNodeStack', NEW j \in DOMAIN sccNodeStack', i < j
          PROVE  nodeVisitNumbers'[sccNodeStack'[i]] < nodeVisitNumbers'[sccNodeStack'[j]]
        <3>1. nodeVisitNumbers[sccNodeStack[i]] < nodeVisitNumbers[sccNodeStack[j]]
            BY <2>1, <2>2 DEF IInv, StackInv
        <3> QED
            BY <2>1, <3>1
    <2>3. \A n \in Node : OnStack(n)' => InRange(n, sccNodeStack')
        BY <1>3, <1>6
    <2>4. \A n \in Node : OnStack(n)' => InRange(n, sccNodeStack)'
        BY <2>3 DEF InRange
    <2> QED
        BY <2>1, <2>2, <2>4 DEF StackInv
<1>11. PathInv'
    <2>1. ASSUME NEW k \in DOMAIN visitStack'
          PROVE  /\ nodeVisitNumbers'[visitStack'[k].node] \in Numbered
                 /\ visitStack'[k].minVisited <= nodeVisitNumbers'[visitStack'[k].node]
        BY <1>2, <1>7 DEF OnStack
    <2>2. ASSUME NEW k \in DOMAIN visitStack', NEW l \in DOMAIN visitStack', k < l
          PROVE  nodeVisitNumbers'[visitStack'[k].node] < nodeVisitNumbers'[visitStack'[l].node]
        <3>1. k \in 1..(d - 1) /\ l \in 1..(d - 1) /\ k \in DOMAIN visitStack /\ l \in DOMAIN visitStack
            BY <1>2
        <3>2. nodeVisitNumbers[visitStack[k].node] < nodeVisitNumbers[visitStack[l].node]
            BY <2>2, <3>1 DEF IInv, PathInv
        <3> QED
            BY <1>7, <3>1, <3>2
    <2>3. visitStack' # <<>> => nodeVisitNumbers'[visitStack'[1].node] = 1
        <3> SUFFICES ASSUME visitStack' # <<>> PROVE nodeVisitNumbers'[visitStack'[1].node] = 1
            OBVIOUS
        <3>1. 1 \in 1..(d - 1) /\ nodeVisitNumbers[visitStack[1].node] = 1
            BY <1>1, <1>2 DEF IInv, PathInv
        <3> QED
            BY <1>7, <3>1
    <2>4. visitStack' = <<>> => sccNodeStack' = <<>>
        <3> SUFFICES ASSUME visitStack' = <<>> PROVE sccNodeStack' = <<>>
            OBVIOUS
        <3>1. nodeVisitNumbers[Top.node] = 1
            BY <1>1, <1>2 DEF IInv, PathInv, Top
        <3>2. ASSUME NEW i \in DOMAIN sccNodeStack' PROVE FALSE
            <4>1. /\ i \in DOMAIN sccNodeStack /\ sccNodeStack'[i] \in Node
                  /\ nodeVisitNumbers[sccNodeStack'[i]] \in Numbered
                  /\ ~Popped(sccNodeStack'[i])
                BY <1>3, TypeFact DEF IInv, StackInv
            <4>2. nodeVisitNumbers[sccNodeStack'[i]] >= 1
                BY <4>1, NumberFact
            <4> QED
                BY <3>1, <4>1, <4>2 DEF Popped, OnStack
        <3>3. Len(sccNodeStack') = 0
            BY <1>3, <3>2
        <3> QED
            BY <1>3, <3>3, EmptySeq
    <2> QED
        BY <2>1, <2>2, <2>3, <2>4 DEF PathInv
<1>12. CalleeInv'
    <2> SUFFICES ASSUME NEW n \in Node, NEW e \in DOMAIN calledEdges[n], OnStack(n)', Passed(n, e)'
                 PROVE  \/ nodeVisitNumbers'[calledEdges[n][e]] = Done
                        \/ /\ nodeVisitNumbers'[calledEdges[n][e]] \in Numbered
                           /\ \A k \in DOMAIN visitStack' :
                                  Owns(k, n)' => visitStack'[k].minVisited <= nodeVisitNumbers'[calledEdges[n][e]]
        BY <1>1 DEF CalleeInv
    <2> DEFINE c == calledEdges[n][e]
    <2>1. /\ c \in Node /\ e \in Nat /\ nodeVisitNumbers[c] \in Nat /\ nodeVisitNumbers[n] \in Nat
          /\ OnStack(n) /\ ~Popped(n)
        BY <1>6, TypeFact, NumberFact DEF IInv
    <2>2. Passed(n, e)
        <3>1. \A k \in 1..(d - 1) : visitStack[k].node = n => e < visitStack[k].nextChild
            BY <1>2 DEF Passed
        <3> QED
            BY <1>1, <3>1, LeafFact
    <2>3. nodeVisitNumbers'[n] = nodeVisitNumbers[n] /\ nodeVisitNumbers[n] < nodeVisitNumbers[Top.node]
        BY <1>4, <1>5, <2>1 DEF Popped
    <2>4. CASE nodeVisitNumbers[c] = Done \/ Popped(c)
        BY <1>5, <2>1, <2>4
    <2>5. CASE nodeVisitNumbers[c] # Done /\ ~Popped(c)
        <3>1. /\ nodeVisitNumbers[c] \in Numbered /\ nodeVisitNumbers'[c] = nodeVisitNumbers[c]
              /\ \A k \in DOMAIN visitStack : Owns(k, n) => visitStack[k].minVisited <= nodeVisitNumbers[c]
            BY <1>5, <2>1, <2>2, <2>5 DEF IInv, CalleeInv
        <3>2. ASSUME NEW k \in DOMAIN visitStack', Owns(k, n)'
              PROVE  visitStack'[k].minVisited <= nodeVisitNumbers[c]
            <4>1. k \in 1..(d - 1) /\ nodeVisitNumbers[visitStack[k].node] <= nodeVisitNumbers[n]
                BY <1>2, <1>7, <2>3, <3>2 DEF Owns
            <4>2. ASSUME NEW l \in DOMAIN visitStack, k < l
                  PROVE  nodeVisitNumbers[n] < nodeVisitNumbers[visitStack[l].node]
                <5>1. CASE l = d
                    BY <2>3, <5>1 DEF Top
                <5>2. CASE l # d
                    <6>1. l \in 1..(d - 1) /\ l \in DOMAIN visitStack'
                        BY <1>2, <5>2
                    <6>2. nodeVisitNumbers'[n] < nodeVisitNumbers'[visitStack'[l].node]
                        BY <3>2, <4>2, <6>1 DEF Owns
                    <6> QED
                        BY <1>7, <2>3, <6>1, <6>2
                <5> QED
                    BY <5>1, <5>2
            <4>3. Owns(k, n)
                BY <4>1, <4>2 DEF Owns
            <4>4. visitStack[k].minVisited <= nodeVisitNumbers[c]
                BY <1>7, <3>1, <4>1, <4>3
            <4> QED
                BY <1>2, <1>7, <2>1, <4>1, <4>4
        <3> QED
            BY <3>1, <3>2
    <2> QED
        BY <2>4, <2>5
<1>13. /\ z \in Nat /\ DOMAIN list = 1..z /\ list \in Seq(Node)
       /\ DOMAIN postOrderSCCFunctionlist' = 1..(z + Len(scc))
       /\ \A i \in 1..z : postOrderSCCFunctionlist'[i] = list[i] /\ list[i] \in Node /\ nodeVisitNumbers[list[i]] = Done
       /\ \A i \in 1..Len(scc) : postOrderSCCFunctionlist'[z + i] = scc[i] /\ scc[i] \in Node /\ Popped(scc[i])
    <2>1. z \in Nat /\ DOMAIN list = 1..z /\ list \in Seq(Node) /\ \A i \in 1..z : list[i] \in Node
        BY TypeFact DEF IInv, TypeOK
    <2>2. /\ DOMAIN postOrderSCCFunctionlist' = 1..(z + Len(scc))
          /\ \A i \in 1..z : postOrderSCCFunctionlist'[i] = list[i]
          /\ \A i \in 1..Len(scc) : postOrderSCCFunctionlist'[z + i] = scc[i] /\ scc[i] \in Node
        BY <1>1, <1>3, <2>1
    <2>3. \A i \in 1..z : nodeVisitNumbers[list[i]] = Done
        BY <2>1 DEF IInv, ListInv, InRange
    <2>4. \A i \in 1..Len(scc) : Popped(scc[i])
        BY <1>3, <2>2 DEF InRange
    <2> QED
        BY <2>1, <2>2, <2>3, <2>4
<1>14. ListInv'
    <2>1. ASSUME NEW i \in DOMAIN postOrderSCCFunctionlist', NEW j \in DOMAIN postOrderSCCFunctionlist',
                 postOrderSCCFunctionlist'[i] = postOrderSCCFunctionlist'[j]
          PROVE  i = j
        <3>1. CASE i \in 1..z /\ j \in 1..z
            BY <1>13, <2>1, <3>1 DEF IInv, ListInv
        <3>2. CASE i \notin 1..z /\ j \notin 1..z
            <4>1. PICK a \in 1..Len(scc) : i = z + a
                <5>1. i - z \in 1..Len(scc) /\ i = z + (i - z)
                    BY <1>3, <1>13, <3>2
                <5> QED
                    BY <5>1
            <4>2. PICK b \in 1..Len(scc) : j = z + b
                <5>1. j - z \in 1..Len(scc) /\ j = z + (j - z)
                    BY <1>3, <1>13, <3>2
                <5> QED
                    BY <5>1
            <4>3. scc[a] = scc[b]
                BY <1>13, <2>1, <4>1, <4>2
            <4> QED
                BY <1>3, <4>1, <4>2, <4>3
        <3>3. ASSUME NEW a \in 1..z, NEW b \in 1..Len(scc), list[a] = scc[b] PROVE FALSE
            BY <1>13, <3>3, NodeFact DEF Popped, OnStack
        <3>4. \A a \in DOMAIN postOrderSCCFunctionlist' : a \notin 1..z => a - z \in 1..Len(scc) /\ a = z + (a - z)
            BY <1>3, <1>13
        <3> QED
            BY <1>13, <2>1, <3>1, <3>2, <3>3, <3>4
    <2>2. ASSUME NEW n \in Node
          PROVE  (\E i \in DOMAIN postOrderSCCFunctionlist' : postOrderSCCFunctionlist'[i] = n)
                     <=> nodeVisitNumbers'[n] = Done
        <3>1. ASSUME NEW i \in DOMAIN postOrderSCCFunctionlist', postOrderSCCFunctionlist'[i] = n
              PROVE  nodeVisitNumbers'[n] = Done
            <4>1. CASE i \in 1..z
                BY <1>5, <1>13, <3>1, <4>1
            <4>2. CASE i \notin 1..z
                <5>1. i - z \in 1..Len(scc) /\ i = z + (i - z)
                    BY <1>3, <1>13, <4>2
                <5> QED
                    BY <1>5, <1>13, <3>1, <5>1
            <4> QED
                BY <4>1, <4>2
        <3>2. ASSUME nodeVisitNumbers'[n] = Done
              PROVE  \E i \in DOMAIN postOrderSCCFunctionlist' : postOrderSCCFunctionlist'[i] = n
            <4>1. CASE Popped(n)
                <5>1. PICK i \in 1..Len(scc) : scc[i] = n
                    BY <1>3, <4>1 DEF InRange
                <5>2. z + i \in DOMAIN postOrderSCCFunctionlist'
                    BY <1>3, <1>13
                <5> QED
                    BY <1>13, <5>1, <5>2
            <4>2. CASE ~Popped(n)
                <5>1. PICK i \in 1..z : list[i] = n
                    BY <1>5, <1>13, <3>2, <4>2 DEF IInv, ListInv, InRange
                <5>2. i \in DOMAIN postOrderSCCFunctionlist'
                    BY <1>3, <1>13
                <5> QED
                    BY <1>13, <5>1, <5>2
            <4> QED
                BY <4>1, <4>2
        <3> QED
            BY <3>1, <3>2
    <2>3. \A n \in Node : InRange(n, postOrderSCCFunctionlist)' <=> nodeVisitNumbers'[n] = Done
        BY <2>2 DEF InRange
    <2> QED
        BY <2>1, <2>3 DEF ListInv
<1>15. CalleesFirst'
    <2> SUFFICES ASSUME NEW i \in DOMAIN postOrderSCCFunctionlist',
                        NEW e \in DOMAIN calledEdges[postOrderSCCFunctionlist'[i]]
                 PROVE  \/ \E j \in 1..i : postOrderSCCFunctionlist'[j]
                                               = calledEdges[postOrderSCCFunctionlist'[i]][e]
                        \/ \E D \in components' :
                               {calledEdges[postOrderSCCFunctionlist'[i]][e], postOrderSCCFunctionlist'[i]} \subseteq D
        <3>1. calledEdges' = calledEdges
            BY <1>1
        <3> QED
            BY <3>1 DEF CalleesFirst, Callees
    <2> DEFINE n == postOrderSCCFunctionlist'[i]
               m == calledEdges[n][e]
    <2>1. CASE i \in 1..z
        <3>1. n = list[i] /\ i \in DOMAIN list /\ m \in Callees(list[i])
            BY <1>13, <2>1 DEF Callees
        <3>2. \/ \E j \in 1..i : list[j] = m
              \/ \E D \in components : {m, n} \subseteq D
            BY <3>1 DEF IInv, CalleesFirst
        <3>3. \A j \in 1..i : j \in 1..z
            BY <1>13, <2>1
        <3> QED
            BY <1>1, <1>13, <3>2, <3>3
    <2>2. CASE i \notin 1..z
        <3>1. i - z \in 1..Len(scc) /\ i = z + (i - z) /\ \A j \in 1..z : j \in 1..i
            <4>1. i \in 1..(z + Len(scc)) /\ z \in Nat /\ Len(scc) \in Nat
                BY <1>3, <1>13
            <4> QED
                BY <2>2, <4>1
        <3>2. n = scc[i - z] /\ n \in Node /\ Popped(n) /\ n \in C
            BY <1>3, <1>13, <3>1
        <3>3. /\ m \in Node /\ OnStack(n) /\ nodeVisitNumbers[m] \in Nat /\ nodeVisitNumbers[n] \in Nat
              /\ nodeVisitNumbers[Top.node] <= nodeVisitNumbers[n]
            BY <3>2, TypeFact, NumberFact DEF IInv, Popped
        <3>4. Passed(n, e)
            <4>1. \A k \in 1..(d - 1) : visitStack[k].node # n
                BY <1>7, <3>2
            <4>2. e \in DOMAIN calledEdges[n]
                OBVIOUS
            <4> HIDE DEF n
            <4> QED
                BY <1>1, <3>2, <4>1, <4>2, LeafFact
        <3>5. Owns(d, n)
            BY <1>2, <3>3 DEF Owns, Top
        <3>6. CASE nodeVisitNumbers[m] = Done
            <4>1. PICK j \in 1..z : list[j] = m
                BY <1>13, <3>3, <3>6 DEF IInv, ListInv, InRange
            <4> QED
                BY <1>13, <3>1, <4>1
        <3>7. CASE nodeVisitNumbers[m] # Done
            <4>1. nodeVisitNumbers[m] \in Numbered /\ visitStack[d].minVisited <= nodeVisitNumbers[m]
                <5>1. e \in DOMAIN calledEdges[n] /\ m = calledEdges[n][e]
                    OBVIOUS
                <5> HIDE DEF n, m
                <5>2. CalleeInv
                    BY DEF IInv
                <5> QED
                    BY <1>4, <3>2, <3>3, <3>4, <3>5, <3>7, <5>1, <5>2 DEF CalleeInv
            <4>2. Popped(m)
                BY <1>1, <4>1 DEF Popped, OnStack, IsRoot, Top
            <4>3. m \in C
                BY <1>3, <3>3, <4>2 DEF InRange
            <4>4. C \in components' /\ {m, n} \subseteq C
                BY <1>1, <3>2, <4>3
            <4> QED
                BY <4>4
        <3> QED
            BY <3>6, <3>7
    <2> QED
        BY <2>1, <2>2
<1> QED
    BY <1>8, <1>9, <1>10, <1>11, <1>12, <1>14, <1>15 DEF IInv

-----------------------------------------------------------------------------
(* Every step keeps the invariant.                                         *)
LEMMA Step == IInv /\ [Next]_vars => IInv'
<1> SUFFICES ASSUME IInv, [Next]_vars PROVE IInv'
    OBVIOUS
<1>1. CASE AddToCallGraph
    BY <1>1, AddPreserves
<1>2. CASE BuildSCC
    <2>1. visitNum = 0 /\ GraphBuilt /\ DFSVisitOne(Entry, visitStack)
          /\ UNCHANGED <<program, built, calledEdges, listVars>>
        BY <1>2 DEF BuildSCC
    <2>2. nodeVisitNumbers[Entry] = Unvisited /\ visitStack = <<>>
        BY <2>1, NothingVisited, NodeFact
    <2>3. visitStack \in Seq(Element) /\ Entry \in Node
        BY NodeFact DEF IInv, TypeOK, Element
    <2> QED
        BY <2>1, <2>2, <2>3, VisitPreserves
<1>3. CASE VisitNewChild
    <2>1. /\ HasChild /\ nodeVisitNumbers[Child] = Unvisited /\ DFSVisitOne(Child, Advanced)
          /\ UNCHANGED <<program, built, calledEdges, listVars>>
        BY <1>3 DEF VisitNewChild, NotVisited
    <2>2. /\ visitStack # <<>> /\ Child \in Node /\ Depth \in DOMAIN visitStack
          /\ \A k \in DOMAIN visitStack : visitStack[k].nextChild \in Nat
        BY <2>1, TopFact, NumberFact DEF IInv, HasChild
    <2>3. GraphBuilt
        <3>1. visitNum # 0
            BY <2>2, NothingVisited
        <3> QED
            BY <3>1 DEF IInv, CountInv
    <2>4. /\ Advanced \in Seq(Element) /\ Len(Advanced) = Len(visitStack)
          /\ \A k \in DOMAIN visitStack :
                 /\ Advanced[k].node = visitStack[k].node
                 /\ Advanced[k].minVisited = visitStack[k].minVisited
                 /\ Advanced[k].nextChild =
                        IF k = Depth THEN visitStack[k].nextChild + 1 ELSE visitStack[k].nextChild
        BY <2>2, AdvancedFact DEF IInv
    <2>5. ASSUME NEW k \in DOMAIN visitStack
          PROVE  /\ Advanced[k].node = visitStack[k].node
                 /\ Advanced[k].minVisited = visitStack[k].minVisited
                 /\ Advanced[k].nextChild # visitStack[k].nextChild =>
                        /\ Advanced[k].nextChild = visitStack[k].nextChild + 1
                        /\ calledEdges[visitStack[k].node][visitStack[k].nextChild] = Child
        BY <2>4 DEF Child, Top
    <2> HIDE DEF Child, Advanced
    <2> QED
        BY <2>1, <2>2, <2>3, <2>4, <2>5, VisitPreserves
<1>4. CASE VisitSeenChild
    BY <1>4, SeenPreserves
<1>5. CASE PopLeaf
    BY <1>5, PopLeafPreserves
<1>6. CASE PopComponent
    BY <1>6, PopComponentPreserves
<1>7. CASE UNCHANGED vars
    <2>1. UNCHANGED <<program, built, calledEdges, visitNum, nodeVisitNumbers, sccNodeStack,
                      visitStack, postOrderSCCFunctionlist, components>>
        BY <1>7 DEF vars, stackVars, listVars
    <2>2. TypeOK' /\ CountInv' /\ StackInv'
        BY <2>1 DEF IInv, TypeOK, CountInv, StackInv, GraphBuilt, OnStack, InRange
    <2>3. PathInv' /\ ListInv'
        BY <2>1 DEF IInv, PathInv, ListInv, InRange
    <2>4. CalleeInv'
        <3>1. \A n, e : Passed(n, e)' <=> Passed(n, e)
            BY <2>1 DEF Passed
        <3>2. \A k, n : Owns(k, n)' <=> Owns(k, n)
            BY <2>1 DEF Owns
        <3> QED
            BY <2>1, <3>1, <3>2 DEF IInv, CalleeInv, OnStack
    <2>5. CalleesFirst'
        <3>1. CalleesFirst
            BY DEF IInv
        <3> QED
            BY <2>1, <3>1, OrderKept DEF vars, listVars
    <2> QED
        BY <2>2, <2>3, <2>4, <2>5 DEF IInv
<1> QED
    BY <1>1, <1>2, <1>3, <1>4, <1>5, <1>6, <1>7 DEF Next, GetNextSCC, DFSVisitChildren

LEMMA Invariance == Spec => []IInv
    BY Initial, Step, PTL DEF Spec

(* What the stacks and the list hold together, from what each holds.       *)
LEMMA ListedFact == IInv => ListedOnce
<1> SUFFICES ASSUME IInv PROVE ListedOnce
    OBVIOUS
<1> DEFINE list == postOrderSCCFunctionlist
           all == sccNodeStack \o list
           y == Len(sccNodeStack)
           z == Len(list)
<1>1. /\ y \in Nat /\ z \in Nat /\ DOMAIN all = 1..(y + z)
      /\ DOMAIN sccNodeStack = 1..y /\ DOMAIN list = 1..z
      /\ \A i \in 1..y : all[i] = sccNodeStack[i] /\ sccNodeStack[i] \in Node
      /\ \A i \in 1..z : all[y + i] = list[i] /\ list[i] \in Node
    <2>1. /\ y \in Nat /\ z \in Nat /\ DOMAIN sccNodeStack = 1..y /\ DOMAIN list = 1..z
          /\ sccNodeStack \in Seq(Node) /\ list \in Seq(Node)
          /\ \A i \in 1..y : sccNodeStack[i] \in Node
          /\ \A i \in 1..z : list[i] \in Node
        BY TypeFact DEF IInv, TypeOK
    <2> QED
        BY <2>1
<1>2. \A i \in 1..y : nodeVisitNumbers[sccNodeStack[i]] \in Numbered
    BY <1>1 DEF IInv, StackInv
<1>3. \A i \in 1..z : nodeVisitNumbers[list[i]] = Done
    BY <1>1 DEF IInv, ListInv, InRange
<1> HIDE DEF all
<1>4. ASSUME NEW i \in DOMAIN all
      PROVE  (i \in 1..y) \/ (\E a \in 1..z : i = y + a)
    <2>1. i \notin 1..y => i - y \in 1..z /\ i = y + (i - y)
        BY <1>1
    <2> QED
        BY <2>1
<1>5. ASSUME NEW i \in DOMAIN all, NEW j \in DOMAIN all, all[i] = all[j] PROVE i = j
    <2>1. CASE i \in 1..y /\ j \in 1..y
        <3>1. /\ sccNodeStack[i] = sccNodeStack[j]
              /\ nodeVisitNumbers[sccNodeStack[i]] \in Nat
            BY <1>1, <1>5, <2>1, NumberFact
        <3>2. ~(i < j) /\ ~(j < i)
            BY <1>1, <2>1, <3>1 DEF IInv, StackInv
        <3> QED
            BY <1>1, <2>1, <3>2
    <2>2. CASE i \in 1..y /\ j \notin 1..y
        BY <1>1, <1>2, <1>3, <1>4, <1>5, <2>2, NodeFact
    <2>3. CASE i \notin 1..y /\ j \in 1..y
        BY <1>1, <1>2, <1>3, <1>4, <1>5, <2>3, NodeFact
    <2>4. CASE i \notin 1..y /\ j \notin 1..y
        <3>1. PICK a \in 1..z : i = y + a
            BY <1>4, <2>4
        <3>2. PICK b \in 1..z : j = y + b
            BY <1>4, <2>4
        <3>3. list[a] = list[b]
            BY <1>1, <1>5, <3>1, <3>2
        <3>4. a = b
            BY <1>1, <3>3 DEF IInv, ListInv
        <3> QED
            BY <3>1, <3>2, <3>4
    <2> QED
        BY <2>1, <2>2, <2>3, <2>4
<1>6. ASSUME NEW n \in Node PROVE InRange(n, all) <=> nodeVisitNumbers[n] # Unvisited
    <2>1. ASSUME NEW i \in DOMAIN all, all[i] = n PROVE nodeVisitNumbers[n] # Unvisited
        BY <1>1, <1>2, <1>3, <1>4, <2>1, NodeFact
    <2>2. CASE nodeVisitNumbers[n] \in Numbered
        <3>1. PICK i \in 1..y : sccNodeStack[i] = n
            BY <1>1, <2>2 DEF IInv, StackInv, OnStack, InRange
        <3>2. i \in DOMAIN all
            BY <1>1
        <3> QED
            BY <1>1, <2>1, <3>1, <3>2 DEF InRange
    <2>3. CASE nodeVisitNumbers[n] = Done
        <3>1. PICK i \in 1..z : list[i] = n
            BY <1>1, <2>3 DEF IInv, ListInv, InRange
        <3>2. y + i \in DOMAIN all
            BY <1>1
        <3> QED
            BY <1>1, <2>1, <3>1, <3>2 DEF InRange
    <2>4. CASE nodeVisitNumbers[n] = Unvisited
        BY <2>1, <2>4 DEF InRange
    <2> QED
        BY <2>2, <2>3, <2>4, TypeFact DEF IInv
<1>7. \A n \in Node : n \in Listed <=> nodeVisitNumbers[n] = Done
    BY DEF IInv, ListInv, InRange, Listed
<1> QED
    BY <1>5, <1>6, <1>7 DEF ListedOnce, all

-----------------------------------------------------------------------------
(* What a node reaches, without paths: whatever is in every set that holds *)
(* it and is closed under calls.                                           *)
Closed(S) == \A n \in S : Callees(n) \subseteq S
Reaches(n, m) == \A S \in SUBSET Node : n \in S /\ Closed(S) => m \in S

(* The table that Reached(n) looks up.                                     *)
IsWithin(n, w) ==
    w = [k \in Nat |-> IF k = 0 THEN {n}
                       ELSE w[k - 1] \cup (UNION {Callees(m) : m \in w[k - 1]})]

LEMMA ReachedTable ==
    ASSUME NEW n PROVE Reached(n) = (CHOOSE w : IsWithin(n, w))[Cardinality(Node)]
BY DEF Reached, IsWithin

(* What calls and is called are nodes.                                     *)
LEMMA CalleesFact == ASSUME TypeOK, NEW n \in Node PROVE Callees(n) \subseteq Node
BY TypeFact DEF Callees

(* Every non-empty set of numbers has a least one.                         *)
LEMMA LeastNumber ==
    ASSUME NEW Bad \in SUBSET Nat, Bad # {}
    PROVE  \E k \in Bad : k = 0 \/ (k - 1 \in Nat /\ k - 1 \notin Bad)
<1> DEFINE R == OpToRel(<, Nat)
<1>1. PICK k \in Bad : \A j \in Bad : ~(<<j, k>> \in R)
    BY NatLessThanWellFounded, WFMin
<1>2. \A j \in Nat, i \in Nat : j < i => <<j, i>> \in R
    BY DEF OpToRel
<1> HIDE DEF R
<1>3. CASE k # 0
    <2>1. k - 1 \in Nat /\ k - 1 < k /\ k \in Nat
        BY <1>3
    <2> QED
        BY <1>1, <1>2, <2>1
<1> QED
    BY <1>1, <1>3

(* There is such a table: the ends of the paths of k steps, each a call or *)
(* none.                                                                   *)
LEMMA TableExists == ASSUME TypeOK, NEW n \in Node PROVE \E w : IsWithin(n, w)
<1> DEFINE Path(k, m) == \E p \in [0..k -> Node] :
                            /\ p[0] = n /\ p[k] = m
                            /\ \A i \in 0..(k - 1) : p[i + 1] = p[i] \/ p[i + 1] \in Callees(p[i])
           w == [k \in Nat |-> {m \in Node : Path(k, m)}]
<1>1. ASSUME NEW k \in Nat
      PROVE  w[k] = IF k = 0 THEN {n}
                    ELSE w[k - 1] \cup (UNION {Callees(m) : m \in w[k - 1]})
    <2>1. CASE k = 0
        <3>1. ASSUME NEW m \in Node, Path(k, m) PROVE m = n
            BY <2>1, <3>1
        <3>2. Path(k, n)
            <4>1. [i \in 0..0 |-> n] \in [0..0 -> Node] /\ 0..(0 - 1) = {} /\ 0 \in 0..0
                OBVIOUS
            <4> QED
                BY <2>1, <4>1
        <3> HIDE DEF Path
        <3> QED
            BY <2>1, <3>1, <3>2
    <2>2. CASE k # 0
        <3>1. /\ k - 1 \in Nat /\ 0..(k - 1) \subseteq 0..k /\ k - 1 \in 0..(k - 1)
              /\ 0 \in 0..(k - 1) /\ (k - 1) + 1 = k /\ k \in 0..k /\ k \notin 0..(k - 1)
              /\ \A i \in 0..((k - 1) - 1) : i \in 0..(k - 1) /\ i + 1 \in 0..(k - 1)
              /\ \A i \in 0..(k - 1) : i = k - 1 \/ i \in 0..((k - 1) - 1)
              /\ \A i \in 0..k : i = k \/ i \in 0..(k - 1)
            BY <2>2
        <3>2. ASSUME NEW m \in Node, Path(k, m)
              PROVE  \E l \in Node : Path(k - 1, l) /\ (m = l \/ m \in Callees(l))
            <4>1. PICK p \in [0..k -> Node] :
                      /\ p[0] = n /\ p[k] = m
                      /\ \A i \in 0..(k - 1) : p[i + 1] = p[i] \/ p[i + 1] \in Callees(p[i])
                BY <3>2
            <4> DEFINE q == [i \in 0..(k - 1) |-> p[i]]
            <4>2. q \in [0..(k - 1) -> Node] /\ \A i \in 0..(k - 1) : q[i] = p[i]
                BY <3>1, <4>1
            <4> HIDE DEF q
            <4>3. /\ q[0] = n /\ q[k - 1] = p[k - 1] /\ p[k - 1] \in Node
                  /\ \A i \in 0..((k - 1) - 1) : q[i + 1] = q[i] \/ q[i + 1] \in Callees(q[i])
                BY <3>1, <4>1, <4>2
            <4>4. Path(k - 1, p[k - 1])
                BY <4>2, <4>3
            <4>5. m = p[k - 1] \/ m \in Callees(p[k - 1])
                BY <3>1, <4>1
            <4> HIDE DEF Path
            <4> QED
                BY <4>3, <4>4, <4>5
        <3>3. ASSUME NEW l \in Node, Path(k - 1, l), NEW m \in Node, m = l \/ m \in Callees(l)
              PROVE  Path(k, m)
            <4>1. PICK q \in [0..(k - 1) -> Node] :
                      /\ q[0] = n /\ q[k - 1] = l
                      /\ \A i \in 0..((k - 1) - 1) : q[i + 1] = q[i] \/ q[i + 1] \in Callees(q[i])
                BY <3>3
            <4> DEFINE p == [i \in 0..k |-> IF i = k THEN m ELSE q[i]]
            <4>2. /\ p \in [0..k -> Node] /\ p[k] = m /\ \A i \in 0..(k - 1) : p[i] = q[i]
                BY <3>1, <4>1
            <4> HIDE DEF p
            <4>3. p[0] = n
                BY <3>1, <4>1, <4>2
            <4>4. ASSUME NEW i \in 0..(k - 1) PROVE p[i + 1] = p[i] \/ p[i + 1] \in Callees(p[i])
                <5>1. CASE i = k - 1
                    BY <3>1, <3>3, <4>1, <4>2, <5>1
                <5>2. CASE i \in 0..((k - 1) - 1)
                    BY <3>1, <4>1, <4>2, <5>2
                <5> QED
                    BY <3>1, <5>1, <5>2
            <4> QED
                BY <4>2, <4>3, <4>4
        <3>4. \A l \in Node : Callees(l) \subseteq Node
            BY CalleesFact
        <3> HIDE DEF Path
        <3>5. /\ w[k] = {m \in Node : Path(k, m)}
              /\ w[k - 1] = {m \in Node : Path(k - 1, m)}
            BY <3>1
        <3> HIDE DEF w
        <3>6. w[k] = w[k - 1] \cup (UNION {Callees(m) : m \in w[k - 1]})
            BY <3>2, <3>3, <3>4, <3>5
        <3> QED
            BY <2>2, <3>6
    <2> QED
        BY <2>1, <2>2
<1>2. DOMAIN w = Nat /\ w = [k \in Nat |-> w[k]]
    OBVIOUS
<1> HIDE DEF w
<1>3. w = [k \in Nat |-> IF k = 0 THEN {n} ELSE w[k - 1] \cup (UNION {Callees(m) : m \in w[k - 1]})]
    BY <1>1, <1>2
<1> QED
    BY <1>3 DEF IsWithin

(* The table grows by calls until it is closed, which it is when all nodes *)
(* are in it: Reached(n) is what n reaches.                                *)
LEMMA ReachedFact ==
    ASSUME TypeOK, NEW n \in Node
    PROVE  Reached(n) = {m \in Node : Reaches(n, m)}
<1> DEFINE N == Cardinality(Node)
           w == CHOOSE v : IsWithin(n, v)
<1>1. /\ w[0] = {n}
      /\ \A k \in Nat : k # 0 => w[k] = w[k - 1] \cup (UNION {Callees(m) : m \in w[k - 1]})
    <2>1. IsWithin(n, w)
        BY TableExists
    <2> HIDE DEF w
    <2> QED
        BY <2>1 DEF IsWithin
<1>2. Reached(n) = w[N] /\ N \in Nat /\ IsFiniteSet(Node)
    BY ReachedTable, NodeFact
<1> HIDE DEF w
<1>3. ASSUME NEW S \in SUBSET Node, n \in S, Closed(S), NEW k \in Nat PROVE w[k] \subseteq S
    <2> DEFINE Bad == {j \in Nat : ~(w[j] \subseteq S)}
    <2>1. ASSUME Bad # {} PROVE FALSE
        <3>1. PICK j \in Bad : j = 0 \/ (j - 1 \in Nat /\ j - 1 \notin Bad)
            <4>1. Bad \in SUBSET Nat
                OBVIOUS
            <4> HIDE DEF Bad
            <4> QED
                BY <2>1, <4>1, LeastNumber
        <3>2. CASE j = 0
            BY <1>1, <1>3, <3>2
        <3>3. CASE j # 0
            <4>1. w[j - 1] \subseteq S
                BY <3>1, <3>3
            <4>2. w[j] = w[j - 1] \cup (UNION {Callees(m) : m \in w[j - 1]})
                BY <1>1, <3>3
            <4>3. w[j] \subseteq S
                BY <1>3, <4>1, <4>2 DEF Closed
            <4> QED
                BY <4>3
        <3> QED
            BY <3>2, <3>3
    <2> QED
        BY <2>1
<1>4. \A k \in Nat : w[k] \subseteq Node
    <2>1. Closed(Node)
        BY CalleesFact DEF Closed
    <2> QED
        BY <1>3, <2>1
<1>5. \A k \in Nat : Closed(w[k]) \/ k + 1 <= Cardinality(w[k])
    <2> DEFINE Good(k) == Closed(w[k]) \/ k + 1 <= Cardinality(w[k])
               Bad == {k \in Nat : ~Good(k)}
    <2>1. ASSUME Bad # {} PROVE FALSE
        <3>1. PICK j \in Bad : j = 0 \/ (j - 1 \in Nat /\ j - 1 \notin Bad)
            <4>1. Bad \in SUBSET Nat
                OBVIOUS
            <4> HIDE DEF Bad
            <4> QED
                BY <2>1, <4>1, LeastNumber
        <3>2. CASE j = 0
            <4>1. Cardinality(w[0]) = 1
                BY <1>1, FS_Singleton
            <4>2. Good(0)
                BY <4>1
            <4> QED
                BY <3>1, <3>2, <4>2
        <3>3. CASE j # 0
            <4> DEFINE i == j - 1
            <4>1. i \in Nat /\ j \in Nat /\ j = i + 1 /\ Good(i) /\ ~Good(j)
                BY <3>1, <3>3
            <4>2. w[j] = w[i] \cup (UNION {Callees(m) : m \in w[i]})
                BY <1>1, <3>3
            <4>3. CASE Closed(w[i])
                <5>1. w[j] = w[i]
                    BY <4>2, <4>3 DEF Closed
                <5> QED
                    BY <4>1, <4>3, <5>1
            <4>4. CASE ~Closed(w[i])
                <5>1. w[i] \subseteq w[j] /\ w[i] # w[j]
                    BY <4>2, <4>4 DEF Closed
                <5>2. IsFiniteSet(w[j]) /\ IsFiniteSet(w[i])
                    BY <1>2, <1>4, <4>1, FS_Subset
                <5>3. /\ Cardinality(w[i]) \in Nat /\ Cardinality(w[j]) \in Nat
                      /\ Cardinality(w[i]) < Cardinality(w[j])
                    BY <5>1, <5>2, FS_Subset, FS_CardinalityType
                <5>4. i + 1 <= Cardinality(w[i])
                    BY <4>1, <4>4
                <5>5. j + 1 <= Cardinality(w[j])
                    BY ONLY <4>1, <5>3, <5>4
                <5> QED
                    BY <4>1, <5>5
            <4> QED
                BY <4>3, <4>4
        <3> QED
            BY <3>2, <3>3
    <2> QED
        BY <2>1
<1>6. Closed(w[N])
    <2>1. /\ w[N] \subseteq Node /\ Cardinality(w[N]) <= N /\ Cardinality(w[N]) \in Nat
        BY <1>2, <1>4, FS_Subset, FS_CardinalityType
    <2>2. ~(N + 1 <= Cardinality(w[N]))
        BY <1>2, <2>1
    <2> QED
        BY <1>2, <1>5, <2>2
<1>7. n \in w[N]
    <2> DEFINE Bad == {k \in Nat : n \notin w[k]}
    <2>1. ASSUME Bad # {} PROVE FALSE
        <3>1. PICK j \in Bad : j = 0 \/ (j - 1 \in Nat /\ j - 1 \notin Bad)
            <4>1. Bad \in SUBSET Nat
                OBVIOUS
            <4> HIDE DEF Bad
            <4> QED
                BY <2>1, <4>1, LeastNumber
        <3> QED
            BY <1>1, <3>1
    <2> QED
        BY <1>2, <2>1
<1>8. \A m \in Node : m \in w[N] <=> Reaches(n, m)
    BY <1>2, <1>3, <1>4, <1>6, <1>7 DEF Reaches
<1> QED
    BY <1>2, <1>4, <1>8

(* A node reaches itself, what it calls, and what they reach; the calls    *)
(* being what they are.                                                    *)
LEMMA ReachesFact ==
    /\ \A n : Reaches(n, n)
    /\ \A n, m, l : Reaches(n, m) /\ Reaches(m, l) => Reaches(n, l)
    /\ \A n, m : m \in Callees(n) => Reaches(n, m)
BY DEF Reaches, Closed

LEMMA ReachesKept ==
    ASSUME UNCHANGED calledEdges
    PROVE  /\ \A n, m : Reaches(n, m)' <=> Reaches(n, m)
           /\ \A n : Callees(n)' = Callees(n)
<1>1. \A n : Callees(n)' = Callees(n)
    BY DEF Callees
<1>2. \A S : Closed(S)' <=> Closed(S)
    BY <1>1 DEF Closed
<1> QED
    BY <1>1, <1>2 DEF Reaches

-----------------------------------------------------------------------------
(* A path node reaches every node of the stack visited after it; a node of *)
(* the stack reaches its owner, and so every path node after that one; and *)
(* the number of a path node is that of a node it reaches.                 *)
ConnInv ==
    /\ \A n \in Node : \A k \in DOMAIN visitStack :
           OnStack(n) /\ nodeVisitNumbers[visitStack[k].node] <= nodeVisitNumbers[n]
               => Reaches(visitStack[k].node, n)
    /\ \A n \in Node : \A k \in DOMAIN visitStack :
           /\ OnStack(n)
           /\ \A l \in DOMAIN visitStack : k < l => nodeVisitNumbers[n] < nodeVisitNumbers[visitStack[l].node]
           => Reaches(n, visitStack[k].node)
    /\ \A k \in DOMAIN visitStack : \E x \in Node :
           nodeVisitNumbers[x] = visitStack[k].minVisited /\ Reaches(visitStack[k].node, x)

(* The traversal begins at the entry and follows calls.                    *)
EntryInv ==
    /\ visitNum > 0 => nodeVisitNumbers[Entry] # Unvisited
    /\ visitNum = 0 => components = {}
    /\ \A n \in Node : nodeVisitNumbers[n] # Unvisited => Reaches(Entry, n)
    /\ \A C \in components : \A n \in C : nodeVisitNumbers[n] = Done

(* A component holds what its nodes reach and are reached from.            *)
ComponentsInv ==
    \A C \in components : \A n \in C : \A m \in Node :
        m \in C <=> Reaches(n, m) /\ Reaches(m, n)

JInv == ConnInv /\ EntryInv /\ ComponentsInv

DoneNodes == {n \in Node : nodeVisitNumbers[n] = Done}

(* What is done calls only what is done.                                   *)
LEMMA DoneClosed == IInv /\ EntryInv => Closed(DoneNodes)
<1> SUFFICES ASSUME IInv, EntryInv, NEW n \in Node, nodeVisitNumbers[n] = Done, NEW m \in Callees(n)
             PROVE  m \in DoneNodes
    BY DEF Closed, DoneNodes
<1> DEFINE list == postOrderSCCFunctionlist
<1>1. m \in Node
    BY CalleesFact DEF IInv
<1>2. PICK i \in DOMAIN list : list[i] = n
    BY DEF IInv, ListInv, InRange
<1>3. \/ \E j \in 1..i : list[j] = m
      \/ \E C \in components : {m, n} \subseteq C
    BY <1>2 DEF IInv, CalleesFirst
<1>4. \A j \in 1..i : j \in DOMAIN list
    BY <1>2, TypeFact DEF IInv
<1>5. nodeVisitNumbers[m] = Done
    BY <1>1, <1>3, <1>4 DEF IInv, ListInv, InRange, EntryInv
<1> QED
    BY <1>1, <1>5 DEF DoneNodes

(* The components stay what they are.                                      *)
LEMMA ComponentsKept ==
    ASSUME ComponentsInv, UNCHANGED <<calledEdges, components>> PROVE ComponentsInv'
<1>1. \A n, m : Reaches(n, m)' <=> Reaches(n, m)
    BY ReachesKept
<1> HIDE DEF Reaches
<1> QED
    BY <1>1 DEF ComponentsInv

(* Before the first visit there is nothing to connect.                     *)
LEMMA InitialConn == Init => JInv
<1> SUFFICES ASSUME Init PROVE JInv
    OBVIOUS
<1>1. ConnInv
    BY DEF Init, ConnInv
<1>2. EntryInv /\ ComponentsInv
    BY NodeFact DEF Init, EntryInv, ComponentsInv
<1> QED
    BY <1>1, <1>2 DEF JInv

LEMMA AddConn == ASSUME IInv, JInv, AddToCallGraph PROVE JInv'
<1>1. /\ built < Len(functions)
      /\ UNCHANGED <<visitNum, nodeVisitNumbers, visitStack, components>>
    BY DEF AddToCallGraph, stackVars, listVars
<1>2. visitNum = 0
    BY <1>1 DEF IInv, CountInv, GraphBuilt
<1>3. /\ \A n \in Node : nodeVisitNumbers[n] = Unvisited
      /\ visitStack = <<>> /\ components = {}
    BY <1>2, NothingVisited DEF JInv, EntryInv
<1>4. ConnInv'
    BY <1>1, <1>3 DEF ConnInv
<1>5. EntryInv' /\ ComponentsInv'
    BY <1>1, <1>2, <1>3 DEF EntryInv, ComponentsInv
<1> QED
    BY <1>4, <1>5 DEF JInv

(* A visited node is called by the top of the path, or is the entry.       *)
LEMMA VisitConn ==
    ASSUME IInv, JInv, NEW m \in Node, nodeVisitNumbers[m] = Unvisited,
           NEW path \in Seq(Element), DFSVisitOne(m, path),
           UNCHANGED <<calledEdges, components>>,
           Len(path) = Len(visitStack),
           \A k \in DOMAIN visitStack :
               /\ path[k].node = visitStack[k].node
               /\ path[k].minVisited = visitStack[k].minVisited,
           visitStack = <<>> => m = Entry /\ visitNum = 0,
           visitStack # <<>> => m \in Callees(Top.node)
    PROVE  JInv'
<1> DEFINE d == Len(visitStack)
<1>1. /\ visitNum' = visitNum + 1 /\ visitNum' \in Numbered
      /\ nodeVisitNumbers'[m] = visitNum' /\ OnStack(m)'
      /\ \A n \in Node : n # m => nodeVisitNumbers'[n] = nodeVisitNumbers[n]
    BY VisitFact DEF IInv
<1>2. /\ \A n \in Node : n # m => (OnStack(n)' <=> OnStack(n))
      /\ ~OnStack(m) /\ d \in Nat /\ visitNum \in Nat
      /\ \A n \in Node : OnStack(n) => nodeVisitNumbers[n] \in Nat /\ nodeVisitNumbers[n] <= visitNum
    BY VisitPathFact
<1>3. /\ DOMAIN visitStack' = 1..(d + 1) /\ DOMAIN visitStack = 1..d
      /\ \A k \in 1..d : /\ visitStack'[k].node = visitStack[k].node
                         /\ visitStack'[k].minVisited = visitStack[k].minVisited
                         /\ visitStack[k].node \in Node /\ visitStack[k].node # m
                         /\ visitStack[k].minVisited \in Nat
      /\ visitStack'[d + 1].node = m /\ visitStack'[d + 1].minVisited = visitNum'
    BY VisitPathFact
<1>4. /\ \A n, l : Reaches(n, l)' <=> Reaches(n, l)
      /\ \A n : Reaches(n, n)
      /\ \A n, l, o : Reaches(n, l) /\ Reaches(l, o) => Reaches(n, o)
      /\ \A n, l : l \in Callees(n) => Reaches(n, l)
    BY ReachesFact, ReachesKept
<1> HIDE DEF Reaches
<1>5. /\ \A k \in 1..d : OnStack(visitStack[k].node)
      /\ \A k, l \in 1..d : k < l => nodeVisitNumbers[visitStack[k].node] < nodeVisitNumbers[visitStack[l].node]
      /\ visitStack # <<>> => d \in 1..d /\ Top.node = visitStack[d].node /\ d >= 1
    BY <1>3, NumberFact, TopFact DEF IInv, PathInv, Top, Depth
<1>6. ASSUME NEW n \in Node, OnStack(n) PROVE Reaches(n, m)
    <2>1. visitStack # <<>>
        BY <1>2, <1>6, NothingVisited, NodeFact DEF OnStack
    <2>2. \A l \in DOMAIN visitStack : ~(d < l)
        BY <1>2, <1>3
    <2>3. Reaches(n, Top.node)
        BY <1>3, <1>5, <1>6, <2>1, <2>2 DEF JInv, ConnInv
    <2> QED
        BY <1>4, <2>1, <2>3
<1>7. ASSUME NEW n \in Node, OnStack(n)' PROVE n = m \/ (n # m /\ OnStack(n) /\ nodeVisitNumbers'[n] = nodeVisitNumbers[n])
    BY <1>1, <1>2, <1>7
<1>8. ASSUME NEW n \in Node, NEW k \in 1..(d + 1), OnStack(n)',
             nodeVisitNumbers'[visitStack'[k].node] <= nodeVisitNumbers'[n]
      PROVE  Reaches(visitStack'[k].node, n)
    <2>1. CASE k = d + 1
        <3>1. visitNum + 1 <= nodeVisitNumbers'[n]
            BY <1>1, <1>3, <1>8, <2>1
        <3>2. n = m
            BY <1>2, <1>7, <1>8, <3>1
        <3> QED
            BY <1>3, <1>4, <2>1, <3>2
    <2>2. CASE k # d + 1
        <3>1. k \in 1..d /\ k \in DOMAIN visitStack
            BY <1>2, <1>3, <2>2
        <3>2. /\ visitStack'[k].node = visitStack[k].node /\ OnStack(visitStack[k].node)
              /\ visitStack[k].node \in Node
              /\ nodeVisitNumbers'[visitStack'[k].node] = nodeVisitNumbers[visitStack[k].node]
            BY <1>1, <1>3, <1>5, <3>1
        <3>3. CASE n = m
            BY <1>6, <3>2, <3>3
        <3>4. CASE n # m
            BY <1>7, <1>8, <3>1, <3>2, <3>4 DEF JInv, ConnInv
        <3> QED
            BY <3>3, <3>4
    <2> QED
        BY <2>1, <2>2
<1>9. ASSUME NEW n \in Node, NEW k \in 1..(d + 1), OnStack(n)',
             \A l \in 1..(d + 1) : k < l => nodeVisitNumbers'[n] < nodeVisitNumbers'[visitStack'[l].node]
      PROVE  Reaches(n, visitStack'[k].node)
    <2>1. CASE k = d + 1
        BY <1>3, <1>4, <1>6, <1>7, <1>9, <2>1
    <2>2. CASE k # d + 1
        <3>1. k \in 1..d /\ k < d + 1 /\ d + 1 \in 1..(d + 1)
            BY <1>2, <2>2
        <3>2. nodeVisitNumbers'[n] < visitNum + 1
            BY <1>1, <1>3, <1>9, <3>1
        <3>3. n # m /\ OnStack(n) /\ nodeVisitNumbers'[n] = nodeVisitNumbers[n]
            BY <1>1, <1>2, <1>7, <1>9, <3>2
        <3>4. ASSUME NEW l \in 1..d, k < l PROVE nodeVisitNumbers[n] < nodeVisitNumbers[visitStack[l].node]
            <4>1. l \in 1..(d + 1)
                BY <1>2
            <4> QED
                BY <1>1, <1>3, <1>9, <3>3, <3>4, <4>1
        <3> QED
            BY <1>3, <3>1, <3>3, <3>4 DEF JInv, ConnInv
    <2> QED
        BY <2>1, <2>2
<1>10. ASSUME NEW k \in 1..(d + 1)
       PROVE  \E x \in Node : nodeVisitNumbers'[x] = visitStack'[k].minVisited /\ Reaches(visitStack'[k].node, x)
    <2>1. CASE k = d + 1
        BY <1>1, <1>3, <1>4, <2>1
    <2>2. CASE k # d + 1
        <3>1. k \in 1..d /\ k \in DOMAIN visitStack
            BY <1>2, <1>3, <2>2
        <3>2. PICK x \in Node : nodeVisitNumbers[x] = visitStack[k].minVisited /\ Reaches(visitStack[k].node, x)
            BY <3>1 DEF JInv, ConnInv
        <3>3. x # m
            BY <1>2, <3>1, <3>2, NumberFact DEF OnStack
        <3> QED
            BY <1>1, <1>3, <3>1, <3>2, <3>3
    <2> QED
        BY <2>1, <2>2
<1>11. ConnInv'
    <2>1. \A n \in Node : \A k \in DOMAIN visitStack' :
              OnStack(n)' /\ nodeVisitNumbers'[visitStack'[k].node] <= nodeVisitNumbers'[n]
                  => Reaches(visitStack'[k].node, n)
        BY <1>3, <1>8
    <2>2. \A n \in Node : \A k \in DOMAIN visitStack' :
              /\ OnStack(n)'
              /\ \A l \in DOMAIN visitStack' : k < l => nodeVisitNumbers'[n] < nodeVisitNumbers'[visitStack'[l].node]
              => Reaches(n, visitStack'[k].node)
        BY <1>3, <1>9
    <2>3. \A k \in DOMAIN visitStack' : \E x \in Node :
              nodeVisitNumbers'[x] = visitStack'[k].minVisited /\ Reaches(visitStack'[k].node, x)
        BY <1>3, <1>10
    <2> QED
        BY <1>4, <2>1, <2>2, <2>3 DEF ConnInv
<1>12. EntryInv'
    <2>1. nodeVisitNumbers'[Entry] # Unvisited
        <3>1. CASE m = Entry
            BY <1>1, <3>1, NodeFact
        <3>2. CASE m # Entry
            <4>1. visitNum # 0
                BY <3>2, NothingVisited
            <4>2. visitNum > 0
                BY <1>2, <4>1
            <4> QED
                BY <1>1, <3>2, <4>2, NodeFact DEF JInv, EntryInv
        <3> QED
            BY <3>1, <3>2
    <2>2. Reaches(Entry, m)
        <3>1. CASE visitStack = <<>>
            BY <1>4, <3>1
        <3>2. CASE visitStack # <<>>
            <4>1. Top.node \in Node /\ nodeVisitNumbers[Top.node] # Unvisited
                BY <1>3, <1>5, <3>2, NodeFact DEF OnStack
            <4>2. Reaches(Entry, Top.node)
                BY <4>1 DEF JInv, EntryInv
            <4> QED
                BY <1>4, <3>2, <4>2
        <3> QED
            BY <3>1, <3>2
    <2>3. \A n \in Node : nodeVisitNumbers'[n] # Unvisited => Reaches(Entry, n)
        BY <1>1, <2>2 DEF JInv, EntryInv
    <2>4. \A C \in components : \A n \in C : nodeVisitNumbers'[n] = Done
        <3>1. \A C \in components : \A n \in C : nodeVisitNumbers[n] = Done /\ n \in Node
            BY DEF IInv, TypeOK, JInv, EntryInv
        <3>2. Unvisited # Done
            BY NodeFact
        <3> QED
            BY <1>1, <3>1, <3>2
    <2>5. visitNum' # 0
        BY <1>1, <1>2
    <2> QED
        BY <1>4, <2>1, <2>3, <2>4, <2>5 DEF EntryInv
<1>13. ComponentsInv'
    BY ComponentsKept DEF JInv
<1> QED
    BY <1>11, <1>12, <1>13 DEF JInv

(* A seen child lowers the number of the top to that of a node it calls.   *)
LEMMA SeenConn == ASSUME IInv, JInv, VisitSeenChild PROVE JInv'
<1> DEFINE d == Depth
<1>1. /\ UNCHANGED <<calledEdges, visitNum, nodeVisitNumbers, components>>
      /\ visitStack # <<>> /\ HasChild /\ nodeVisitNumbers[Child] # Unvisited
    BY DEF VisitSeenChild, NotVisited, HasChild, listVars
<1>2. /\ visitStack' \in Seq(Element) /\ Len(visitStack') = Len(visitStack)
      /\ \A k \in DOMAIN visitStack :
             /\ visitStack'[k].node = visitStack[k].node
             /\ k # d => visitStack'[k] = visitStack[k]
      /\ \/ visitStack'[d].minVisited = Top.minVisited
         \/ visitStack'[d].minVisited = nodeVisitNumbers[Child]
    BY SeenFact, SeenMin
<1>3. d \in DOMAIN visitStack /\ Child \in Node /\ Child \in Callees(Top.node)
    BY <1>1, TopFact DEF IInv, Child, Callees
<1>4. DOMAIN visitStack' = DOMAIN visitStack
    BY <1>2, TypeFact DEF IInv
<1>5. /\ \A n, l : Reaches(n, l)' <=> Reaches(n, l)
      /\ \A n, l : l \in Callees(n) => Reaches(n, l)
    BY <1>1, ReachesFact, ReachesKept
<1> HIDE DEF Reaches
<1>6. ASSUME NEW k \in DOMAIN visitStack
      PROVE  \E x \in Node : nodeVisitNumbers[x] = visitStack'[k].minVisited /\ Reaches(visitStack[k].node, x)
    <2>1. PICK x \in Node : nodeVisitNumbers[x] = visitStack[k].minVisited /\ Reaches(visitStack[k].node, x)
        BY DEF JInv, ConnInv
    <2>2. CASE k = d
        BY <1>2, <1>3, <1>5, <2>1, <2>2 DEF Top
    <2>3. CASE k # d
        BY <1>2, <2>1, <2>3
    <2> QED
        BY <2>2, <2>3
<1>7. ConnInv'
    <2>1. \A n \in Node : OnStack(n)' <=> OnStack(n)
        BY <1>1 DEF OnStack
    <2> QED
        BY <1>1, <1>2, <1>4, <1>5, <1>6, <2>1 DEF JInv, ConnInv
<1>8. EntryInv' /\ ComponentsInv'
    BY <1>1, <1>5, ComponentsKept DEF JInv, EntryInv
<1> QED
    BY <1>7, <1>8 DEF JInv

(* A node that is no root reaches a node of the stack visited before it,   *)
(* and so does all it owned: they reach their new owner.                   *)
LEMMA PopLeafConn == ASSUME IInv, JInv, PopLeaf PROVE JInv'
<1> DEFINE d == Depth
<1>1. /\ UNCHANGED <<calledEdges, visitNum, nodeVisitNumbers, components>>
      /\ visitStack' = Propagated /\ Leaf /\ visitStack # <<>> /\ ~IsRoot
    BY DEF PopLeaf, Leaf, listVars
<1>2. /\ DOMAIN visitStack' = 1..(d - 1) /\ d \in Nat /\ d >= 1 /\ DOMAIN visitStack = 1..d
      /\ \A k \in 1..(d - 1) : visitStack'[k].node = visitStack[k].node
      /\ \A k \in 1..(d - 1) : \/ visitStack'[k].minVisited = visitStack[k].minVisited
                               \/ k = d - 1 /\ visitStack'[k].minVisited = Top.minVisited
    BY <1>1, PropagatedFact, PropagatedMin
<1>3. /\ \A n, l : Reaches(n, l)' <=> Reaches(n, l)
      /\ \A n, l, o : Reaches(n, l) /\ Reaches(l, o) => Reaches(n, o)
    BY <1>1, ReachesFact, ReachesKept
<1> HIDE DEF Reaches
<1>4. /\ \A k \in 1..d : /\ visitStack[k].node \in Node /\ OnStack(visitStack[k].node)
                         /\ nodeVisitNumbers[visitStack[k].node] \in Nat
      /\ \A k, l \in 1..d : k < l => nodeVisitNumbers[visitStack[k].node] < nodeVisitNumbers[visitStack[l].node]
      /\ d \in 1..d /\ Top = visitStack[d]
      /\ \A k \in 1..(d - 1) : k \in 1..d
    <2>1. /\ d \in 1..d /\ Top = visitStack[d] /\ \A k \in 1..(d - 1) : k \in 1..d
        BY <1>2 DEF Top
    <2>2. \A k \in 1..d : /\ visitStack[k].node \in Node /\ OnStack(visitStack[k].node)
                         /\ nodeVisitNumbers[visitStack[k].node] \in Nat
        BY <1>2, NumberFact
    <2>3. \A k, l \in 1..d : k < l => nodeVisitNumbers[visitStack[k].node] < nodeVisitNumbers[visitStack[l].node]
        BY <1>2 DEF IInv, PathInv
    <2> QED
        BY <2>1, <2>2, <2>3
<1>5. PICK x \in Node : nodeVisitNumbers[x] = Top.minVisited /\ Reaches(Top.node, x)
    BY <1>2, <1>4 DEF JInv, ConnInv
<1>6. OnStack(x) /\ nodeVisitNumbers[x] < nodeVisitNumbers[Top.node]
    <2>1. /\ Top.minVisited \in Numbered /\ Top.minVisited \in Nat
          /\ Top.minVisited <= nodeVisitNumbers[Top.node] /\ nodeVisitNumbers[Top.node] \in Nat
        BY <1>2, <1>4, NumberFact
    <2>2. Top.minVisited # nodeVisitNumbers[Top.node]
        BY <1>1 DEF IsRoot
    <2> QED
        BY <1>5, <2>1, <2>2 DEF OnStack
<1>7. \A n \in Node : (OnStack(n)' <=> OnStack(n)) /\ nodeVisitNumbers[n] \in Nat
    BY <1>1, NumberFact DEF OnStack
<1>8. ASSUME NEW n \in Node, NEW k \in 1..(d - 1), OnStack(n),
             \A l \in 1..(d - 1) : k < l => nodeVisitNumbers[n] < nodeVisitNumbers[visitStack[l].node]
      PROVE  Reaches(n, visitStack[k].node)
    <2>1. CASE nodeVisitNumbers[n] < nodeVisitNumbers[Top.node]
        <3>1. \A l \in 1..d : k < l => nodeVisitNumbers[n] < nodeVisitNumbers[visitStack[l].node]
            BY <1>2, <1>4, <1>8, <2>1
        <3> QED
            BY <1>2, <1>4, <1>8, <3>1 DEF JInv, ConnInv
    <2>2. CASE ~(nodeVisitNumbers[n] < nodeVisitNumbers[Top.node])
        <3>1. k = d - 1
            <4>1. SUFFICES ASSUME k # d - 1 PROVE FALSE
                OBVIOUS
            <4>2. k < d - 1 /\ d - 1 \in 1..(d - 1) /\ d - 1 < d
                BY <1>2, <4>1
            <4>3. /\ nodeVisitNumbers[n] < nodeVisitNumbers[visitStack[d - 1].node]
                  /\ nodeVisitNumbers[visitStack[d - 1].node] < nodeVisitNumbers[Top.node]
                BY <1>4, <1>8, <4>2
            <4> QED
                BY <1>4, <1>7, <2>2, <4>2, <4>3
        <3>2. Reaches(n, Top.node)
            <4>1. \A l \in 1..d : ~(d < l)
                BY <1>2
            <4> QED
                BY <1>2, <1>4, <1>8, <4>1 DEF JInv, ConnInv
        <3>3. Reaches(x, visitStack[k].node)
            <4>1. \A l \in 1..d : k < l => l = d
                BY <1>2, <3>1
            <4> QED
                BY <1>2, <1>4, <1>6, <4>1 DEF JInv, ConnInv
        <3> QED
            BY <1>3, <1>5, <3>2, <3>3
    <2> QED
        BY <2>1, <2>2
<1>9. ASSUME NEW k \in 1..(d - 1)
      PROVE  \E y \in Node : nodeVisitNumbers[y] = visitStack'[k].minVisited /\ Reaches(visitStack[k].node, y)
    <2>1. CASE visitStack'[k].minVisited = visitStack[k].minVisited
        BY <1>2, <1>4, <2>1 DEF JInv, ConnInv
    <2>2. CASE k = d - 1 /\ visitStack'[k].minVisited = Top.minVisited
        <3>1. k < d
            BY <1>2, <2>2
        <3>2. nodeVisitNumbers[visitStack[k].node] <= nodeVisitNumbers[Top.node]
            BY <1>4, <3>1
        <3>3. Reaches(visitStack[k].node, Top.node)
            BY <1>2, <1>4, <3>2 DEF JInv, ConnInv
        <3> QED
            BY <1>3, <1>5, <2>2, <3>3
    <2> QED
        BY <1>2, <2>1, <2>2
<1>10. ASSUME NEW n \in Node, NEW k \in 1..(d - 1), OnStack(n),
              nodeVisitNumbers[visitStack[k].node] <= nodeVisitNumbers[n]
       PROVE  Reaches(visitStack[k].node, n)
    BY <1>2, <1>4, <1>10 DEF JInv, ConnInv
<1>11. ConnInv'
    <2>1. \A n \in Node : \A k \in DOMAIN visitStack' :
              OnStack(n)' /\ nodeVisitNumbers'[visitStack'[k].node] <= nodeVisitNumbers'[n]
                  => Reaches(visitStack'[k].node, n)
        BY <1>1, <1>2, <1>7, <1>10
    <2>2. \A n \in Node : \A k \in DOMAIN visitStack' :
              /\ OnStack(n)'
              /\ \A l \in DOMAIN visitStack' : k < l => nodeVisitNumbers'[n] < nodeVisitNumbers'[visitStack'[l].node]
              => Reaches(n, visitStack'[k].node)
        BY <1>1, <1>2, <1>7, <1>8
    <2>3. \A k \in DOMAIN visitStack' : \E y \in Node :
              nodeVisitNumbers'[y] = visitStack'[k].minVisited /\ Reaches(visitStack'[k].node, y)
        BY <1>1, <1>2, <1>9
    <2> QED
        BY <1>3, <2>1, <2>2, <2>3 DEF ConnInv
<1>12. EntryInv' /\ ComponentsInv'
    BY <1>1, <1>3, ComponentsKept DEF JInv, EntryInv
<1> QED
    BY <1>11, <1>12 DEF JInv

LEMMA DoneClosedNext == IInv' /\ EntryInv' => Closed(DoneNodes)'
BY DoneClosed, PTL

(* The nodes of a complete component reach the root and are reached from   *)
(* it; what else they reach was done before and does not reach them.       *)
LEMMA PopComponentConn == ASSUME IInv, JInv, PopComponent PROVE JInv'
<1> DEFINE d == Depth
           scc == CurrentSCC
           C == {scc[i] : i \in DOMAIN scc}
<1>1. /\ UNCHANGED <<calledEdges, visitNum>>
      /\ visitStack' = Propagated /\ Leaf /\ visitStack # <<>> /\ IsRoot
      /\ nodeVisitNumbers' =
             [n \in Node |-> IF InRange(n, scc) THEN Done ELSE nodeVisitNumbers[n]]
      /\ components' = components \cup {C}
    BY DEF PopComponent, DoneNumbers, Leaf
<1>2. /\ DOMAIN visitStack' = 1..(d - 1) /\ d \in Nat /\ d >= 1 /\ DOMAIN visitStack = 1..d
      /\ \A k \in 1..(d - 1) : visitStack'[k].node = visitStack[k].node
      /\ \A k \in 1..(d - 1) : visitStack'[k].minVisited <= visitStack[k].minVisited
      /\ \A k \in 1..(d - 1) : \/ visitStack'[k].minVisited = visitStack[k].minVisited
                               \/ visitStack'[k].minVisited = Top.minVisited
    BY <1>1, PropagatedFact, PropagatedMin
<1>3. /\ DOMAIN scc = 1..Len(scc) /\ scc \in Seq(Node)
      /\ \A n \in Node : InRange(n, scc) <=> Popped(n)
    BY <1>1, ComponentFact
<1>4. C \subseteq Node /\ \A n \in Node : n \in C <=> Popped(n)
    BY <1>3 DEF InRange
<1> HIDE DEF C
<1>5. /\ \A n, l : Reaches(n, l)' <=> Reaches(n, l)
      /\ \A n : Reaches(n, n)
      /\ \A n, l, o : Reaches(n, l) /\ Reaches(l, o) => Reaches(n, o)
      /\ \A n : Callees(n)' = Callees(n)
    BY <1>1, ReachesFact, ReachesKept
<1>6. /\ d \in 1..d /\ Top = visitStack[d] /\ \A k \in 1..(d - 1) : k \in 1..d
      /\ \A k \in 1..d : /\ visitStack[k].node \in Node /\ OnStack(visitStack[k].node)
                         /\ visitStack[k].minVisited \in Numbered /\ visitStack[k].minVisited \in Nat
                         /\ visitStack[k].minVisited <= nodeVisitNumbers[visitStack[k].node]
      /\ \A k \in 1..(d - 1) : nodeVisitNumbers[visitStack[k].node] < nodeVisitNumbers[Top.node]
    <2>1. /\ d \in 1..d /\ Top = visitStack[d] /\ \A k \in 1..(d - 1) : k \in 1..d
        BY <1>2 DEF Top
    <2>2. \A k \in 1..d : /\ visitStack[k].node \in Node /\ OnStack(visitStack[k].node)
                          /\ visitStack[k].minVisited \in Numbered /\ visitStack[k].minVisited \in Nat
                          /\ visitStack[k].minVisited <= nodeVisitNumbers[visitStack[k].node]
        BY <1>2, NumberFact
    <2>3. \A k \in 1..(d - 1) : nodeVisitNumbers[visitStack[k].node] < nodeVisitNumbers[Top.node]
        BY <1>1, LeafFact
    <2> QED
        BY <2>1, <2>2, <2>3
<1>7. /\ \A n \in Node : nodeVisitNumbers[n] \in Nat
      /\ \A n \in Node : nodeVisitNumbers'[n] = IF Popped(n) THEN Done ELSE nodeVisitNumbers[n]
      /\ \A n \in Node : OnStack(n)' <=> OnStack(n) /\ nodeVisitNumbers[n] < nodeVisitNumbers[Top.node]
    <2>1. \A n \in Node : nodeVisitNumbers[n] \in Nat
        BY NumberFact
    <2>2. \A n \in Node : nodeVisitNumbers'[n] = IF Popped(n) THEN Done ELSE nodeVisitNumbers[n]
        BY <1>1, <1>3
    <2>3. Top.node \in Node
        BY <1>6
    <2> QED
        BY <2>1, <2>2, <2>3, NodeFact DEF OnStack, Popped
<1>8. \A n \in Node : OnStack(n)' => OnStack(n) /\ nodeVisitNumbers'[n] = nodeVisitNumbers[n]
    BY <1>6, <1>7, NodeFact DEF OnStack
<1>9. \A k \in 1..(d - 1) : OnStack(visitStack[k].node)'
                            /\ nodeVisitNumbers'[visitStack[k].node] = nodeVisitNumbers[visitStack[k].node]
    <2> SUFFICES ASSUME NEW k \in 1..(d - 1)
                 PROVE  /\ OnStack(visitStack[k].node)'
                        /\ nodeVisitNumbers'[visitStack[k].node] = nodeVisitNumbers[visitStack[k].node]
        OBVIOUS
    <2> DEFINE p == visitStack[k].node
    <2>1. p \in Node /\ OnStack(p) /\ nodeVisitNumbers[p] < nodeVisitNumbers[Top.node]
        BY <1>6
    <2>2. nodeVisitNumbers'[p] = nodeVisitNumbers[p]
        <3>1. nodeVisitNumbers[p] \in Nat /\ nodeVisitNumbers[Top.node] \in Nat
            BY <1>6, <1>7, <2>1
        <3>2. ~Popped(p)
            BY <2>1, <3>1 DEF Popped
        <3> QED
            BY <1>7, <2>1, <3>2
    <2>3. nodeVisitNumbers'[p] \in Numbered
        BY <2>1, <2>2 DEF OnStack
    <2> HIDE DEF p
    <2>4. visitStack[k].node = p
        BY DEF p
    <2> QED
        BY <1>2, <2>2, <2>3, <2>4 DEF OnStack
<1> HIDE DEF Reaches
<1>10. ASSUME NEW n \in Node, NEW k \in 1..(d - 1), OnStack(n)',
              nodeVisitNumbers'[visitStack'[k].node] <= nodeVisitNumbers'[n]
       PROVE  Reaches(visitStack'[k].node, n)
    BY <1>2, <1>6, <1>8, <1>9, <1>10 DEF JInv, ConnInv
<1>11. ASSUME NEW n \in Node, NEW k \in 1..(d - 1), OnStack(n)',
              \A l \in 1..(d - 1) : k < l => nodeVisitNumbers'[n] < nodeVisitNumbers'[visitStack'[l].node]
       PROVE  Reaches(n, visitStack'[k].node)
    <2>1. ASSUME NEW l \in 1..d, k < l PROVE nodeVisitNumbers[n] < nodeVisitNumbers[visitStack[l].node]
        <3>1. CASE l = d
            BY <1>6, <1>7, <1>11, <3>1
        <3>2. CASE l # d
            <4>1. l \in 1..(d - 1)
                BY <1>2, <3>2
            <4> QED
                BY <1>2, <1>8, <1>9, <1>11, <2>1, <4>1
        <3> QED
            BY <3>1, <3>2
    <2> QED
        BY <1>2, <1>6, <1>8, <1>11, <2>1 DEF JInv, ConnInv
<1>12. ASSUME NEW k \in 1..(d - 1)
       PROVE  \E x \in Node : nodeVisitNumbers'[x] = visitStack'[k].minVisited /\ Reaches(visitStack'[k].node, x)
    <2>1. /\ visitStack[k].minVisited < nodeVisitNumbers[Top.node]
          /\ nodeVisitNumbers[Top.node] = Top.minVisited
        <3>1. /\ nodeVisitNumbers[visitStack[k].node] \in Nat /\ nodeVisitNumbers[Top.node] \in Nat
              /\ visitStack[k].minVisited \in Nat
            BY <1>6, <1>7
        <3> QED
            BY <1>1, <1>6, <3>1 DEF IsRoot
    <2>2. visitStack'[k].minVisited = visitStack[k].minVisited
        <3>1. visitStack[k].minVisited \in Nat /\ Top.minVisited \in Nat
            BY <1>6
        <3> QED
            BY <1>2, <2>1, <3>1
    <2>3. PICK x \in Node : nodeVisitNumbers[x] = visitStack[k].minVisited /\ Reaches(visitStack[k].node, x)
        BY <1>2, <1>6 DEF JInv, ConnInv
    <2>4. OnStack(x)'
        BY <1>6, <1>7, <2>1, <2>3 DEF OnStack
    <2> QED
        BY <1>2, <1>8, <2>2, <2>3, <2>4
<1>13. ConnInv'
    <2>1. \A n \in Node : \A k \in DOMAIN visitStack' :
              OnStack(n)' /\ nodeVisitNumbers'[visitStack'[k].node] <= nodeVisitNumbers'[n]
                  => Reaches(visitStack'[k].node, n)
        BY <1>2, <1>10
    <2>2. \A n \in Node : \A k \in DOMAIN visitStack' :
              /\ OnStack(n)'
              /\ \A l \in DOMAIN visitStack' : k < l => nodeVisitNumbers'[n] < nodeVisitNumbers'[visitStack'[l].node]
              => Reaches(n, visitStack'[k].node)
        BY <1>2, <1>11
    <2>3. \A k \in DOMAIN visitStack' : \E x \in Node :
              nodeVisitNumbers'[x] = visitStack'[k].minVisited /\ Reaches(visitStack'[k].node, x)
        BY <1>2, <1>12
    <2> QED
        BY <1>5, <2>1, <2>2, <2>3 DEF ConnInv
<1>14. EntryInv'
    <2>1. visitNum # 0
        BY <1>1, NothingVisited
    <2>2. \A n \in Node : nodeVisitNumbers'[n] # Unvisited <=> nodeVisitNumbers[n] # Unvisited
        BY <1>7, NodeFact DEF Popped, OnStack
    <2>3. \A D \in components : \A n \in D : nodeVisitNumbers'[n] = Done
        BY <1>7, NodeFact DEF IInv, TypeOK, JInv, EntryInv, Popped, OnStack
    <2>4. \A n \in C : nodeVisitNumbers'[n] = Done
        BY <1>4, <1>7
    <2>5. \A D \in components' : \A n \in D : nodeVisitNumbers'[n] = Done
        BY <1>1, <2>3, <2>4
    <2>6. visitNum' = visitNum /\ Entry \in Node
        BY <1>1, NodeFact
    <2> QED
        BY <1>5, <2>1, <2>2, <2>5, <2>6 DEF JInv, EntryInv
<1>15. ASSUME NEW n \in C PROVE Reaches(n, Top.node) /\ Reaches(Top.node, n)
    <2>1. n \in Node /\ OnStack(n) /\ nodeVisitNumbers[Top.node] <= nodeVisitNumbers[n]
        BY <1>4 DEF Popped
    <2>2. \A l \in 1..d : ~(d < l)
        BY <1>2
    <2> QED
        BY <1>2, <1>6, <2>1, <2>2 DEF JInv, ConnInv
<1>16. ASSUME NEW n \in C, NEW m \in Node, Reaches(n, m), Reaches(m, n) PROVE m \in C
    <2>1. Closed(DoneNodes)
        BY DoneClosed DEF JInv
    <2>2. Closed(DoneNodes \cup C)
        <3>1. Closed(DoneNodes)'
            BY <1>14, DoneClosedNext, PopComponentPreserves
        <3>2. DoneNodes' = DoneNodes \cup C
            BY <1>4, <1>7 DEF DoneNodes
        <3> QED
            BY <1>5, <3>1, <3>2 DEF Closed
    <2>3. DoneNodes \in SUBSET Node /\ DoneNodes \cup C \in SUBSET Node
        BY <1>4 DEF DoneNodes
    <2>4. m \in DoneNodes \cup C
        BY <1>16, <2>2, <2>3 DEF Reaches
    <2>5. n \notin DoneNodes
        BY <1>4, NodeFact DEF DoneNodes, Popped, OnStack
    <2>6. m \notin DoneNodes
        BY <1>16, <2>1, <2>3, <2>5 DEF Reaches
    <2> QED
        BY <2>4, <2>6
<1>17. ComponentsInv'
    <2>1. \A D \in components : \A n \in D : \A m \in Node : m \in D <=> Reaches(n, m) /\ Reaches(m, n)
        BY DEF JInv, ComponentsInv
    <2>2. \A n \in C : \A m \in Node : m \in C <=> Reaches(n, m) /\ Reaches(m, n)
        BY <1>5, <1>15, <1>16
    <2> QED
        BY <1>1, <1>5, <2>1, <2>2 DEF ComponentsInv
<1> QED
    BY <1>13, <1>14, <1>17 DEF JInv

-----------------------------------------------------------------------------
LEMMA StepConn == IInv /\ JInv /\ [Next]_vars => JInv'
<1> SUFFICES ASSUME IInv, JInv, [Next]_vars PROVE JInv'
    OBVIOUS
<1>1. CASE AddToCallGraph
    BY <1>1, AddConn
<1>2. CASE BuildSCC
    <2>1. visitNum = 0 /\ DFSVisitOne(Entry, visitStack) /\ UNCHANGED <<calledEdges, components>>
        BY <1>2 DEF BuildSCC, listVars
    <2>2. nodeVisitNumbers[Entry] = Unvisited /\ visitStack = <<>>
        BY <2>1, NothingVisited, NodeFact
    <2>3. visitStack \in Seq(Element) /\ Entry \in Node
        BY NodeFact DEF IInv, TypeOK, Element
    <2> QED
        BY <2>1, <2>2, <2>3, VisitConn
<1>3. CASE VisitNewChild
    <2>1. /\ HasChild /\ nodeVisitNumbers[Child] = Unvisited /\ DFSVisitOne(Child, Advanced)
          /\ UNCHANGED <<calledEdges, components>>
        BY <1>3 DEF VisitNewChild, NotVisited, listVars
    <2>2. visitStack # <<>> /\ Child \in Node /\ Child \in Callees(Top.node)
        BY <2>1, TopFact DEF IInv, HasChild, Child, Callees
    <2>3. /\ Advanced \in Seq(Element) /\ Len(Advanced) = Len(visitStack)
          /\ \A k \in DOMAIN visitStack :
                 /\ Advanced[k].node = visitStack[k].node
                 /\ Advanced[k].minVisited = visitStack[k].minVisited
        BY <2>2, AdvancedFact DEF IInv
    <2> HIDE DEF Child, Advanced, Top
    <2> QED
        BY <2>1, <2>2, <2>3, VisitConn
<1>4. CASE VisitSeenChild
    BY <1>4, SeenConn
<1>5. CASE PopLeaf
    BY <1>5, PopLeafConn
<1>6. CASE PopComponent
    BY <1>6, PopComponentConn
<1>7. CASE UNCHANGED vars
    <2>1. UNCHANGED <<calledEdges, visitNum, nodeVisitNumbers, visitStack, components>>
        BY <1>7 DEF vars, stackVars, listVars
    <2>2. \A n, m : Reaches(n, m)' <=> Reaches(n, m)
        BY <2>1, ReachesKept
    <2> HIDE DEF Reaches
    <2>3. ConnInv'
        BY <2>1, <2>2 DEF JInv, ConnInv, OnStack
    <2> QED
        BY <2>1, <2>2, <2>3 DEF JInv, EntryInv, ComponentsInv
<1> QED
    BY <1>1, <1>2, <1>3, <1>4, <1>5, <1>6, <1>7 DEF Next, GetNextSCC, DFSVisitChildren

LEMMA InvarianceConn == Spec => [](IInv /\ JInv)
    BY Initial, Step, InitialConn, StepConn, PTL DEF Spec

(* What the checked properties say, from what is reached without paths.    *)
LEMMA ExactFact == IInv /\ JInv => ComponentsExact
<1> SUFFICES ASSUME IInv, JInv, NEW C \in components, NEW n \in C
             PROVE  C = {m \in Reached(n) : n \in Reached(m)}
    BY DEF ComponentsExact
<1>1. C \subseteq Node /\ n \in Node
    BY DEF IInv, TypeOK
<1>2. \A m \in Node : Reached(m) = {l \in Node : Reaches(m, l)}
    BY ReachedFact DEF IInv
<1>3. \A m \in Node : m \in C <=> Reaches(n, m) /\ Reaches(m, n)
    BY DEF JInv, ComponentsInv
<1> HIDE DEF Reached, Reaches
<1> QED
    BY <1>1, <1>2, <1>3

LEMMA AllFact == IInv /\ JInv => ReachableListed
<1> SUFFICES ASSUME IInv, JInv, visitNum > 0, visitStack = <<>> PROVE Listed = Reached(Entry)
    BY DEF ReachableListed, Finished
<1>1. Reached(Entry) = {n \in Node : Reaches(Entry, n)}
    BY ReachedFact, NodeFact DEF IInv
<1>2. Listed = DoneNodes
    <2>1. \A n \in Node : n \in Listed <=> nodeVisitNumbers[n] = Done
        BY DEF IInv, ListInv, Listed, InRange
    <2>2. Listed \subseteq Node
        BY TypeFact DEF IInv, Listed
    <2> QED
        BY <2>1, <2>2 DEF DoneNodes
<1>3. \A n \in Node : n \in DoneNodes <=> nodeVisitNumbers[n] # Unvisited
    <2>1. \A n \in Node : ~OnStack(n)
        BY DEF IInv, StackInv, PathInv, InRange
    <2> QED
        BY <2>1, TypeFact, NodeFact DEF IInv, OnStack, DoneNodes
<1>4. Entry \in DoneNodes
    BY <1>3, NodeFact DEF JInv, EntryInv
<1>5. Closed(DoneNodes) /\ DoneNodes \in SUBSET Node
    BY DoneClosed DEF JInv, DoneNodes
<1>6. \A n \in Node : Reaches(Entry, n) => n \in DoneNodes
    BY <1>4, <1>5 DEF Reaches
<1>7. \A n \in DoneNodes : Reaches(Entry, n)
    BY <1>3, <1>5 DEF JInv, EntryInv
<1> QED
    BY <1>1, <1>2, <1>5, <1>6, <1>7

(* The stacks, the path and the list keep their types, for every package.  *)
THEOREM TypeCorrect == Spec => []TypeOK
    BY Invariance, PTL DEF IInv

(* However the traversal is suspended, a visited node waits on the stack   *)
(* or is listed, once.                                                     *)
THEOREM NodesAreListedOnce == Spec => []ListedOnce
    BY Invariance, ListedFact, PTL

(* A function is listed after all it calls outside its own component.      *)
THEOREM CalleesComeFirst == Spec => []CalleesFirst
<1>1. IInv => CalleesFirst
    BY DEF IInv
<1> QED
    BY <1>1, Invariance, PTL

(* Nodes are listed together exactly if they call each other, directly or  *)
(* not: a function is inlined after all callees outside its own recursion. *)
THEOREM ComponentsAreExact == Spec => []ComponentsExact
    BY InvarianceConn, ExactFact, PTL

(* When the traversal has ended, what it listed is what the entry reaches. *)
THEOREM ReachableAreListed == Spec => []ReachableListed
    BY InvarianceConn, AllFact, PTL
=============================================================================
