-------------------------- MODULE TaskQueue_proofs --------------------------
(***************************************************************************)
(* Proofs about TaskQueue for any number of tasks, priorities and threads. *)
(* The inductive invariant says who may hold the mutex and what a thread   *)
(* knows while it does; from it follow the safety properties and that the  *)
(* queue implements TaskBatch.                                             *)
(***************************************************************************)
EXTENDS TaskQueue, FiniteSetTheorems, TLAPS

(* The mutex is held by the thread inside the critical section.            *)
MutexInv == \A w \in Thread : pc[w] \in {"locked", "copied"} <=> mutex = w

(* What a thread has in hand: nothing, the head of the queue, or a task    *)
(* it alone has.                                                           *)
HandInv ==
    \A w \in Thread :
        /\ pc[w] = "copied" => \E t \in Top(tasks) : task[w] = {t}
        /\ pc[w] = "run" => \E t \in Task : task[w] = {t}
        /\ pc[w] \notin {"copied", "run"} => task[w] = {}

(* Where the main thread is determines which threads there are.            *)
MainInv ==
    /\ main = "adding" => ~isStarted /\ created = 0 /\ fixedThreadsNum = 0 /\ ready = {}
    /\ main \in {"creating", "joining"} => fixedThreadsNum > 0
    /\ main = "joining" => created = fixedThreadsNum
    /\ main = "returned" => tasks = {} /\ joined = created

ThreadInv ==
    \A w \in Thread :
        /\ pc[w] = "none" <=> w > created
        /\ w <= joined => pc[w] = "exited"

(* No thread is lost while there is work: as long as a task is queued, all *)
(* the threads created are still executing DoTask.                         *)
NoIdleThread ==
    \A w \in Thread : pc[w] = "exited" => tasks = {}

Inv == TypeOK /\ MutexInv /\ HandInv /\ MainInv /\ ThreadInv /\ NoIdleThread /\ RunsOnce

(* There is at least one thread, and None is none of them.                 *)
LEMMA LimitFact == ThreadLimit \in Nat /\ ThreadLimit >= 1 /\ None \notin Thread
BY ThreadsAssumption DEF ThreadLimit, None, Thread

(* The heaviest tasks of a queue are in it.                                *)
LEMMA TopFact == \A q : Top(q) \subseteq q
BY DEF Top

(* The invariant holds at first.                                           *)
LEMMA Initial == Init => Inv
<1> SUFFICES ASSUME Init PROVE Inv
    OBVIOUS
<1> USE LimitFact DEF Init
<1>1. TypeOK
    <2>1. 0 \in 0..ThreadLimit /\ 0 \in 0..0 /\ 0 \in Nat
        OBVIOUS
    <2> QED
        BY <2>1 DEF TypeOK
<1>2. MutexInv /\ HandInv /\ MainInv /\ ThreadInv /\ NoIdleThread
    BY DEF MutexInv, HandInv, MainInv, ThreadInv, NoIdleThread, Thread
<1>3. RunsOnce
    BY DEF RunsOnce, Running
<1> QED
    BY <1>1, <1>2, <1>3 DEF Inv

(* The steps of the main thread.                                           *)
LEMMA MainPreserves == Inv /\ Main => Inv'
<1> SUFFICES ASSUME Inv, Main PROVE Inv'
    OBVIOUS
<1> USE LimitFact
<1>a. TypeOK /\ MutexInv /\ HandInv /\ MainInv /\ ThreadInv /\ NoIdleThread /\ RunsOnce
    BY DEF Inv
<1>1. ASSUME NEW t \in Task, AddTask(t) PROVE Inv'
    <2> USE <1>1, <1>a DEF AddTask, mainVars, threadVars
    <2>0. \A w \in Thread : pc[w] = "none"
        BY DEF MainInv, ThreadInv, Thread
    <2>1. TypeOK'
        BY DEF TypeOK
    <2>2. MutexInv' /\ MainInv' /\ ThreadInv'
        BY DEF MutexInv, MainInv, ThreadInv
    <2>3. HandInv' /\ NoIdleThread'
        BY <2>0 DEF HandInv, NoIdleThread
    <2>4. RunsOnce'
        BY <2>0 DEF RunsOnce, Running, MainInv
    <2> QED
        BY <2>1, <2>2, <2>3, <2>4 DEF Inv
<1>2. CASE RunNothing
    <2> USE <1>2, <1>a DEF RunNothing, queueVars, threadVars
    <2>1. TypeOK'
        BY DEF TypeOK
    <2>2. MutexInv' /\ HandInv' /\ ThreadInv' /\ NoIdleThread'
        BY DEF MutexInv, HandInv, ThreadInv, NoIdleThread
    <2>3. MainInv'
        BY DEF MainInv, TypeOK
    <2>4. RunsOnce'
        BY DEF RunsOnce, Running
    <2> QED
        BY <2>1, <2>2, <2>3, <2>4 DEF Inv
<1>3. CASE StartCreating
    <2> USE <1>3, <1>a DEF StartCreating, threadVars
    <2>0. ThreadsFor(Cardinality(tasks)) \in 1..ThreadLimit
        <3>1. IsFiniteSet(tasks)
            BY TaskAssumption, FS_Subset DEF TypeOK
        <3>2. Cardinality(tasks) \in Nat /\ Cardinality(tasks) # 0
            BY <3>1, FS_CardinalityType, FS_EmptySet
        <3> QED
            BY <3>2 DEF ThreadsFor
    <2>1. TypeOK'
        BY <2>0 DEF TypeOK, MainInv
    <2>2. MutexInv' /\ HandInv' /\ ThreadInv' /\ NoIdleThread'
        BY DEF MutexInv, HandInv, ThreadInv, NoIdleThread
    <2>3. MainInv'
        BY <2>0 DEF MainInv
    <2>4. RunsOnce'
        BY DEF RunsOnce, Running
    <2> QED
        BY <2>1, <2>2, <2>3, <2>4 DEF Inv
<1>4. CASE CreateThread
    <2> USE <1>4, <1>a DEF CreateThread, queueVars
    <2>0. created + 1 \in Thread /\ pc[created + 1] = "none"
        BY DEF TypeOK, ThreadInv, Thread
    <2>1. TypeOK'
        BY <2>0 DEF TypeOK
    <2>2. MutexInv' /\ HandInv' /\ NoIdleThread'
        BY <2>0 DEF MutexInv, HandInv, NoIdleThread, TypeOK
    <2>3. MainInv' /\ ThreadInv'
        BY <2>0 DEF MainInv, ThreadInv, TypeOK, Thread
    <2>4. RunsOnce'
        BY <2>0 DEF RunsOnce, Running, TypeOK
    <2> QED
        BY <2>1, <2>2, <2>3, <2>4 DEF Inv
<1>5. CASE StartWaiting
    <2> USE <1>5, <1>a DEF StartWaiting, queueVars, threadVars
    <2>1. TypeOK'
        BY DEF TypeOK
    <2>2. MutexInv' /\ HandInv' /\ MainInv' /\ ThreadInv' /\ NoIdleThread'
        BY DEF MutexInv, HandInv, MainInv, ThreadInv, NoIdleThread
    <2>3. RunsOnce'
        BY DEF RunsOnce, Running
    <2> QED
        BY <2>1, <2>2, <2>3 DEF Inv
<1>6. CASE JoinThread
    <2> USE <1>6, <1>a DEF JoinThread, queueVars, threadVars
    <2>1. TypeOK'
        BY DEF TypeOK
    <2>2. MutexInv' /\ HandInv' /\ MainInv' /\ NoIdleThread'
        BY DEF MutexInv, HandInv, MainInv, NoIdleThread
    <2>3. ThreadInv'
        BY DEF ThreadInv, TypeOK, Thread
    <2>4. RunsOnce'
        BY DEF RunsOnce, Running
    <2> QED
        BY <2>1, <2>2, <2>3, <2>4 DEF Inv
<1>7. CASE ReturnFromWait
    <2> USE <1>7, <1>a DEF ReturnFromWait, queueVars, threadVars
    <2>0. tasks = {}
        <3>1. 1 \in Thread /\ 1 <= joined
            BY DEF MainInv, TypeOK, Thread
        <3> QED
            BY <3>1 DEF ThreadInv, NoIdleThread
    <2>1. TypeOK'
        BY DEF TypeOK
    <2>2. MutexInv' /\ HandInv' /\ MainInv' /\ ThreadInv' /\ NoIdleThread'
        BY <2>0 DEF MutexInv, HandInv, MainInv, ThreadInv, NoIdleThread
    <2>3. RunsOnce'
        BY DEF RunsOnce, Running
    <2> QED
        BY <2>1, <2>2, <2>3 DEF Inv
<1> QED
    BY <1>1, <1>2, <1>3, <1>4, <1>5, <1>6, <1>7 DEF Main

(* The steps of a thread.                                                  *)
LEMMA ThreadPreserves ==
    ASSUME NEW w \in Thread, Inv, DoTask(w) PROVE Inv'
<1> USE LimitFact
<1>a. TypeOK /\ MutexInv /\ HandInv /\ MainInv /\ ThreadInv /\ NoIdleThread /\ RunsOnce
    BY DEF Inv
<1>b. main = "creating" \/ main = "joining" \/ main = "returned"
    BY <1>a DEF DoTask, Lock, Exit, CopyTop, PopAndUnlock, RunTask, MainInv, ThreadInv,
                TypeOK, Thread
<1>1. CASE Lock(w)
    <2> USE <1>1, <1>a DEF Lock, queueVars, mainVars
    <2>1. TypeOK'
        BY DEF TypeOK
    <2>2. MutexInv' /\ HandInv' /\ NoIdleThread'
        BY DEF MutexInv, HandInv, NoIdleThread, TypeOK
    <2>3. MainInv' /\ ThreadInv'
        BY DEF MainInv, ThreadInv, TypeOK
    <2>4. RunsOnce'
        BY DEF RunsOnce, Running, TypeOK
    <2> QED
        BY <2>1, <2>2, <2>3, <2>4 DEF Inv
<1>2. CASE Exit(w)
    <2> USE <1>2, <1>a DEF Exit, queueVars, mainVars
    <2>1. TypeOK'
        BY DEF TypeOK
    <2>2. MutexInv' /\ HandInv' /\ NoIdleThread'
        BY DEF MutexInv, HandInv, NoIdleThread, TypeOK
    <2>3. MainInv' /\ ThreadInv'
        BY DEF MainInv, ThreadInv, TypeOK
    <2>4. RunsOnce'
        BY DEF RunsOnce, Running, TypeOK
    <2> QED
        BY <2>1, <2>2, <2>3, <2>4 DEF Inv
<1>3. CASE CopyTop(w)
    <2> USE <1>3, <1>a DEF CopyTop, queueVars, mainVars
    <2>0. PICK t \in Top(tasks) : task' = [task EXCEPT ![w] = {t}]
        OBVIOUS
    <2>1. TypeOK'
        BY <2>0, TopFact DEF TypeOK
    <2>2. MutexInv' /\ HandInv' /\ NoIdleThread'
        BY <2>0 DEF MutexInv, HandInv, NoIdleThread, TypeOK
    <2>3. MainInv' /\ ThreadInv'
        BY DEF MainInv, ThreadInv, TypeOK
    <2>4. RunsOnce'
        BY <2>0 DEF RunsOnce, Running, TypeOK
    <2> QED
        BY <2>1, <2>2, <2>3, <2>4 DEF Inv
<1>4. CASE PopAndUnlock(w)
    <2> USE <1>4, <1>a DEF PopAndUnlock, mainVars
    <2>0. PICK t \in Top(tasks) : task[w] = {t} /\ tasks' = tasks \ {t}
        BY DEF HandInv
    <2>t. t \in tasks
        BY TopFact
    <2>1. TypeOK'
        BY <2>0 DEF TypeOK
    <2>2. MutexInv'
        BY DEF MutexInv, TypeOK
    <2>3. HandInv'
        BY <2>0, <2>t DEF HandInv, MutexInv, TypeOK
    <2>4. MainInv' /\ ThreadInv' /\ NoIdleThread'
        BY <1>b, <2>0, <2>t DEF MainInv, ThreadInv, NoIdleThread, TypeOK
    <2>5. RunsOnce'
        <3>1. t \notin Running /\ t \notin ready
            BY <1>b, <2>t, TopFact DEF RunsOnce, NoIdleThread, MainInv
        <3>2. pc'[w] = "run" /\ \A v \in Thread \ {w} : pc'[v] = pc[v]
            BY DEF TypeOK
        <3>3. \A v \in Thread \ {w} : pc[v] = "run" => t \notin task[v]
            BY <3>1 DEF Running
        <3>4. \A u, v \in Thread :
                  u # v /\ pc'[u] = "run" /\ pc'[v] = "run" => task[u] \cap task[v] = {}
            BY <2>0, <3>2, <3>3 DEF RunsOnce
        <3>5. Running' \subseteq Running \cup {t}
            BY <2>0, <3>2 DEF Running
        <3> QED
            BY <2>0, <3>1, <3>4, <3>5 DEF RunsOnce
    <2> QED
        BY <2>1, <2>2, <2>3, <2>4, <2>5 DEF Inv
<1>5. CASE RunTask(w)
    <2> USE <1>5, <1>a DEF RunTask, queueVars, mainVars
    <2>0. PICK t \in Task : task[w] = {t}
        BY DEF HandInv
    <2>1. TypeOK'
        BY DEF TypeOK
    <2>2. MutexInv' /\ HandInv' /\ NoIdleThread'
        BY DEF MutexInv, HandInv, NoIdleThread, TypeOK
    <2>3. MainInv' /\ ThreadInv'
        BY <1>b DEF MainInv, ThreadInv, TypeOK
    <2>4. RunsOnce'
        BY <2>0 DEF RunsOnce, Running, TypeOK
    <2> QED
        BY <2>1, <2>2, <2>3, <2>4 DEF Inv
<1> QED
    BY <1>1, <1>2, <1>3, <1>4, <1>5 DEF DoTask

(* The inductive invariant of the queue holds for ever.                    *)
LEMMA Invariance == Spec => []Inv
<1>1. Inv /\ [Next]_vars => Inv'
    <2> SUFFICES ASSUME Inv, [Next]_vars PROVE Inv'
        OBVIOUS
    <2>1. CASE Main
        BY <2>1, MainPreserves
    <2>2. ASSUME NEW w \in Thread, DoTask(w) PROVE Inv'
        BY <2>2, ThreadPreserves
    <2>3. CASE UNCHANGED vars
        BY <2>3 DEF vars, queueVars, mainVars, threadVars, Inv, TypeOK, MutexInv, HandInv,
                    MainInv, ThreadInv, NoIdleThread, RunsOnce, Running
    <2> QED
        BY <2>1, <2>2, <2>3 DEF Next
<1> QED
    BY Initial, <1>1, PTL DEF Spec

-----------------------------------------------------------------------------
(* The variables keep their types, with any number of tasks and threads.   *)
THEOREM TypeCorrect == Spec => []TypeOK
BY Invariance, PTL DEF Inv

(* Every task is executed by one thread, once.                             *)
THEOREM OnceCorrect == Spec => []RunsOnce
BY Invariance, PTL DEF Inv

(* No thread leaves while a task is queued.                                *)
THEOREM NoIdleCorrect == Spec => []NoIdleThread
BY Invariance, PTL DEF Inv

(* The invariant implies that all tasks are done on return.                *)
LEMMA Quiet == Inv => QuietOnReturn
<1> SUFFICES ASSUME Inv, main = "returned" PROVE QuietOnReturn
    BY DEF QuietOnReturn
<1>1. \A w \in Thread : pc[w] \in {"none", "exited"}
    BY LimitFact DEF Inv, MainInv, ThreadInv, TypeOK, Thread
<1>2. Running = {}
    BY <1>1 DEF Running
<1> QED
    BY <1>1, <1>2 DEF Inv, MainInv, QuietOnReturn

(* When the wait returns nothing is queued, nothing runs, no thread is     *)
(* left.                                                                   *)
THEOREM QuietCorrect == Spec => []QuietOnReturn
BY Invariance, Quiet, PTL

-----------------------------------------------------------------------------
(* TaskQueue implements TaskBatch.                                         *)

(* There are ThreadLimit threads.                                          *)
LEMMA ThreadsFinite == IsFiniteSet(Thread) /\ Cardinality(Thread) = ThreadLimit
BY LimitFact, FS_Interval DEF Thread

(* A thread that has not taken a task leaves room for one more.            *)
LEMMA Room ==
    ASSUME Inv, NEW w \in Thread, pc[w] # "run"
    PROVE  Cardinality(Running) < ThreadLimit
<1> DEFINE R == {v \in Thread : pc[v] = "run"}
           hand == [v \in R |-> CHOOSE t \in Task : task[v] = {t}]
<1>1. \A v \in R : hand[v] \in Task /\ task[v] = {hand[v]}
    BY DEF Inv, HandInv
<1>2. Running = {hand[v] : v \in R}
    <2>1. \A t \in Running : \E v \in R : t = hand[v]
        BY <1>1 DEF Running
    <2>2. \A v \in R : hand[v] \in Running
        BY <1>1 DEF Running
    <2> HIDE DEF R, hand
    <2> QED
        BY <2>1, <2>2
<1>3. hand \in Surjection(R, Running)
    <2>1. hand \in [R -> Running]
        BY <1>2
    <2> QED
        BY <1>2, <2>1 DEF Surjection
<1>4. IsFiniteSet(Thread \ {w}) /\ Cardinality(Thread \ {w}) = ThreadLimit - 1
    BY ThreadsFinite, FS_RemoveElement
<1>5. R \subseteq Thread \ {w}
    OBVIOUS
<1>6. IsFiniteSet(R) /\ Cardinality(R) <= Cardinality(Thread \ {w})
    BY <1>4, <1>5, FS_Subset
<1> HIDE DEF R, hand
<1>7. Cardinality(Running) <= Cardinality(R)
    BY <1>3, <1>6, FS_Surjection
<1>8. IsFiniteSet(Running)
    BY <1>3, <1>6, FS_Surjection
<1>9. Cardinality(Running) \in Nat /\ Cardinality(R) \in Nat
    BY <1>6, <1>8, FS_CardinalityType
<1> QED
    BY <1>4, <1>6, <1>7, <1>9, LimitFact

(* The queue starts as the empty batch.                                    *)
LEMMA InitialBatch == Init => Batch!Init
BY DEF Init, Batch!Init, Running

(* A step of the main thread is a step of the batch or a stutter.          *)
LEMMA MainSimulates ==
    ASSUME Inv, Main
    PROVE  [Batch!Next]_(Batch!vars)
<1>a. TypeOK /\ MainInv /\ ThreadInv /\ RunsOnce
    BY DEF Inv
<1>1. ASSUME NEW t \in Task, AddTask(t) PROVE Batch!Add(t)
    <2>1. Running = {} /\ Running' = {}
        BY <1>1, <1>a, LimitFact DEF AddTask, threadVars, MainInv, ThreadInv, Running, Thread
    <2>2. ready = {} /\ ready' = ready /\ main' = main
        BY <1>1, <1>a DEF AddTask, mainVars, threadVars, MainInv
    <2> QED
        BY <1>1, <2>1, <2>2 DEF AddTask, Added, Batch!Add
<1>2. CASE RunNothing \/ ReturnFromWait
    <2>1. Inv'
        BY MainPreserves
    <2>q. QuietOnReturn'
        BY <2>1, Quiet, PTL
    <2>2. tasks' = {} /\ Running' = {} /\ main' = "returned"
        BY <1>2, <2>q DEF RunNothing, ReturnFromWait, QuietOnReturn
    <2>3. tasks' = tasks /\ Running' = Running /\ ready' = ready
        BY <1>2 DEF RunNothing, ReturnFromWait, queueVars, threadVars, Running
    <2> QED
        BY <2>2, <2>3 DEF Batch!Return, Batch!Next
<1>3. CASE StartCreating \/ StartWaiting \/ JoinThread
    BY <1>3 DEF StartCreating, StartWaiting, JoinThread, queueVars, threadVars, Running,
                Batch!vars
<1>4. CASE CreateThread
    <2>1. created + 1 \in Thread /\ pc[created + 1] = "none"
        BY <1>4, <1>a, LimitFact DEF CreateThread, TypeOK, ThreadInv, Thread
    <2>2. Running' = Running
        BY <1>4, <1>a, <2>1 DEF CreateThread, Running, TypeOK
    <2> QED
        BY <1>4, <2>2 DEF CreateThread, queueVars, Batch!vars
<1> QED
    BY <1>1, <1>2, <1>3, <1>4 DEF Main, Batch!Next

(* A step of a thread is a step of the batch or a stutter.                 *)
LEMMA ThreadSimulates ==
    ASSUME NEW w \in Thread, Inv, DoTask(w)
    PROVE  [Batch!Next]_(Batch!vars)
<1>a. TypeOK /\ HandInv /\ MainInv /\ ThreadInv /\ RunsOnce
    BY DEF Inv
<1>1. CASE Lock(w) \/ Exit(w) \/ CopyTop(w)
    <2>1. pc[w] # "run" /\ pc'[w] # "run" /\ \A v \in Thread \ {w} : pc'[v] = pc[v]
        BY <1>1, <1>a DEF Lock, Exit, CopyTop, TypeOK
    <2>2. \A v \in Thread \ {w} : task'[v] = task[v]
        BY <1>1, <1>a DEF Lock, Exit, CopyTop, TypeOK
    <2>3. Running' = Running
        BY <2>1, <2>2 DEF Running
    <2> QED
        BY <1>1, <2>3 DEF Lock, Exit, CopyTop, queueVars, mainVars, Batch!vars
<1>2. CASE PopAndUnlock(w)
    <2>1. PICK t \in Top(tasks) : task[w] = {t} /\ tasks' = tasks \ {t}
        BY <1>2, <1>a DEF HandInv, PopAndUnlock
    <2>2. t \in Task /\ t \in tasks /\ \A u \in tasks : Priority[u] <= Priority[t]
        BY <1>a DEF Top, TypeOK
    <2>3. Running' = Running \cup {t}
        BY <1>2, <1>a, <2>1 DEF PopAndUnlock, Running, TypeOK
    <2>4. main # "returned"
        BY <1>a, <2>2 DEF MainInv
    <2>5. Batch!Cardinality(Running) < ThreadLimit
        <3>1. Cardinality(Running) < ThreadLimit
            BY <1>2, Room DEF PopAndUnlock
        <3> QED
            BY <3>1 DEF Cardinality, Batch!Cardinality
    <2>6. Batch!Take(t)
        BY <1>2, <2>1, <2>2, <2>3, <2>4, <2>5 DEF PopAndUnlock, mainVars, Batch!Take
    <2> QED
        BY <2>2, <2>6 DEF Batch!Next
<1>3. CASE RunTask(w)
    <2>1. PICK t \in Task : task[w] = {t}
        BY <1>3, <1>a DEF HandInv, RunTask
    <2>2. t \in Running
        BY <1>3, <2>1 DEF RunTask, Running
    <2>3. \A v \in Thread \ {w} : pc[v] = "run" => t \notin task[v]
        BY <1>3, <1>a, <2>1 DEF RunTask, RunsOnce
    <2>4. pc'[w] # "run" /\ \A v \in Thread \ {w} : pc'[v] = pc[v] /\ task'[v] = task[v]
        BY <1>3, <1>a DEF RunTask, TypeOK
    <2>5. Running' = Running \ {t}
        BY <2>1, <2>3, <2>4 DEF Running
    <2>6. Batch!Finish(t)
        BY <1>3, <2>1, <2>2, <2>5 DEF RunTask, queueVars, mainVars, Batch!Finish
    <2> QED
        BY <2>6 DEF Batch!Next
<1> QED
    BY <1>1, <1>2, <1>3 DEF DoTask

(* The thread pool implements the abstract batch: at most ThreadLimit      *)
(* tasks at a time, each once, heavier ones first, all done on return.     *)
THEOREM Implementation == Spec => ImplementsBatch
<1>1. Inv /\ [Next]_vars => [Batch!Next]_(Batch!vars)
    <2> SUFFICES ASSUME Inv, [Next]_vars PROVE [Batch!Next]_(Batch!vars)
        OBVIOUS
    <2>1. CASE Main
        BY <2>1, MainSimulates
    <2>2. ASSUME NEW w \in Thread, DoTask(w) PROVE [Batch!Next]_(Batch!vars)
        BY <2>2, ThreadSimulates
    <2>3. CASE UNCHANGED vars
        BY <2>3 DEF vars, queueVars, mainVars, threadVars, Running, Batch!vars
    <2> QED
        BY <2>1, <2>2, <2>3 DEF Next
<1> QED
    BY Invariance, InitialBatch, <1>1, PTL DEF Spec, ImplementsBatch, Batch!Spec
=============================================================================
