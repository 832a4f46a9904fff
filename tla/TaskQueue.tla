----------------------------- MODULE TaskQueue -----------------------------
(***************************************************************************)
(* Utils::TaskQueue of include/cangjie/Utils/TaskQueue.h, the thread pool  *)
(* of every parallel pass of the compiler (range analysis, constant and    *)
(* range propagation, checkers, AST to CHIR, code generation, mangling).   *)
(*                                                                         *)
(* One main thread adds the tasks, then creates the threads, does          *)
(* something else when it called RunInBackground, and joins them.  Each    *)
(* thread locks the mutex, leaves if the queue is empty, and otherwise     *)
(* pops the head, unlocks and runs it.                                     *)
(***************************************************************************)
EXTENDS Integers, FiniteSets

CONSTANTS
    Task,        \* the tasks the client may add
    Priority,    \* the priority it gives each of them
    threadsNum   \* the constructor's argument

ASSUME TaskAssumption == IsFiniteSet(Task) /\ Priority \in [Task -> Nat]
ASSUME ThreadsAssumption == threadsNum \in Nat

(* The constructor replaces 0 by 1.                                        *)
ThreadLimit == IF threadsNum > 0 THEN threadsNum ELSE 1

Thread == 1..ThreadLimit
None == 0

VARIABLES
    main,       \* where the main thread is
    isStarted,  \* tasks may no longer be added
    tasks,      \* the priority queue
    fixedThreadsNum, \* how many threads CreateThreads creates
    created,    \* how many it has
    joined,     \* how many have been joined
    mutex,      \* the thread that holds it, or None
    pc,         \* where each thread is
    task,       \* the task each thread has popped, as a set
    calls,      \* how often each task's function was called
    ready       \* the tasks whose future has a result

queueVars == <<isStarted, tasks>>
mainVars == <<main, fixedThreadsNum, created, joined>>
threadVars == <<mutex, pc, task, calls, ready>>
vars == <<queueVars, mainVars, threadVars>>

(* The tasks handed to AddTask.                                            *)
Added == tasks \cup ready \cup (UNION {task[w] : w \in Thread})

Init ==
    /\ main = "adding" /\ isStarted = FALSE /\ tasks = {}
    /\ fixedThreadsNum = 0 /\ created = 0 /\ joined = 0
    /\ mutex = None
    /\ pc = [w \in Thread |-> "none"] /\ task = [w \in Thread |-> {}]
    /\ calls = [t \in Task |-> 0] /\ ready = {}

-----------------------------------------------------------------------------
(* The main thread.                                                        *)

(* "Do not add new tasks while executing."                                 *)
AddTask(t) ==
    /\ main = "adding"
    /\ ~isStarted
    /\ t \notin Added
    /\ tasks' = tasks \cup {t}
    /\ UNCHANGED <<isStarted, mainVars, threadVars>>

(* RunInBackground and RunAndWaitForAllTasksCompleted do nothing when      *)
(* there is no task.                                                       *)
RunNothing ==
    /\ main = "adding"
    /\ tasks = {}
    /\ main' = "returned"
    /\ UNCHANGED <<queueVars, fixedThreadsNum, created, joined, threadVars>>

(* No more threads than tasks.                                             *)
ThreadsFor(n) == IF n < ThreadLimit THEN n ELSE ThreadLimit

StartCreating ==
    /\ main = "adding"
    /\ tasks # {}
    /\ isStarted' = TRUE
    /\ fixedThreadsNum' = ThreadsFor(Cardinality(tasks))
    /\ main' = "creating"
    /\ UNCHANGED <<tasks, created, joined, threadVars>>

(* Mutated: one thread too many.                                           *)
CreateThreadTooMany ==
    /\ main = "creating"
    /\ created <= fixedThreadsNum
    /\ created' = created + 1
    /\ pc' = [pc EXCEPT ![created'] = "poll"]
    /\ UNCHANGED <<queueVars, main, fixedThreadsNum, joined, mutex, task, calls, ready>>

(* Threads created earlier are already running.                            *)
CreateThread ==
    /\ main = "creating"
    /\ created < fixedThreadsNum
    /\ created' = created + 1
    /\ pc' = [pc EXCEPT ![created'] = "poll"]
    /\ UNCHANGED <<queueVars, main, fixedThreadsNum, joined, mutex, task, calls, ready>>

(* WaitForAllTasksCompleted begins, at once or after other work.           *)
StartWaiting ==
    /\ main = "creating"
    /\ created = fixedThreadsNum
    /\ main' = "joining"
    /\ UNCHANGED <<queueVars, fixedThreadsNum, created, joined, threadVars>>

(* Mutated: the threads are detached.                                      *)
DetachThread ==
    /\ main = "joining"
    /\ joined < created
    /\ joined' = joined + 1
    /\ UNCHANGED <<queueVars, main, fixedThreadsNum, created, threadVars>>

(* join returns when the thread has left DoTask.                           *)
JoinThread ==
    /\ main = "joining"
    /\ joined < created
    /\ pc[joined + 1] = "exited"
    /\ joined' = joined + 1
    /\ UNCHANGED <<queueVars, main, fixedThreadsNum, created, threadVars>>

ReturnFromWait ==
    /\ main = "joining"
    /\ joined = created
    /\ main' = "returned"
    /\ UNCHANGED <<queueVars, fixedThreadsNum, created, joined, threadVars>>

Main ==
    \/ \E t \in Task : AddTask(t)
    \/ RunNothing \/ StartCreating \/ CreateThread \/ StartWaiting
    \/ JoinThread \/ ReturnFromWait

-----------------------------------------------------------------------------
(* DoTask.                                                                 *)

(* Mutated: the lock is not taken.                                         *)
LockNothing(w) ==
    /\ pc[w] = "poll"
    /\ pc' = [pc EXCEPT ![w] = "locked"]
    /\ UNCHANGED <<queueVars, mainVars, mutex, task, calls, ready>>

Lock(w) ==
    /\ pc[w] = "poll"
    /\ mutex = None
    /\ mutex' = w
    /\ pc' = [pc EXCEPT ![w] = "locked"]
    /\ UNCHANGED <<queueVars, mainVars, task, calls, ready>>

(* Mutated: the lock is kept on the way out.                               *)
ExitLocked(w) ==
    /\ pc[w] = "locked"
    /\ tasks = {}
    /\ pc' = [pc EXCEPT ![w] = "exited"]
    /\ UNCHANGED <<queueVars, mainVars, mutex, task, calls, ready>>

(* No task is left: the lock is released on the way out.                   *)
Exit(w) ==
    /\ pc[w] = "locked"
    /\ tasks = {}
    /\ mutex' = None
    /\ pc' = [pc EXCEPT ![w] = "exited"]
    /\ UNCHANGED <<queueVars, mainVars, task, calls, ready>>

(* Mutated: the order of Task::operator< is turned round.                  *)
Lightest(q) == {t \in q : \A u \in q : Priority[t] <= Priority[u]}

(* What std::priority_queue may have at its top.                           *)
Top(q) == {t \in q : \A u \in q : Priority[u] <= Priority[t]}

(* The top is copied, under the lock.                                      *)
CopyTop(w) ==
    /\ pc[w] = "locked"
    /\ tasks # {}
    /\ \E t \in Top(tasks) : task' = [task EXCEPT ![w] = {t}]
    /\ pc' = [pc EXCEPT ![w] = "copied"]
    /\ UNCHANGED <<queueVars, mainVars, mutex, calls, ready>>

(* The head is removed, whatever it is, and the mutex unlocked.            *)
PopAndUnlock(w) ==
    /\ pc[w] = "copied"
    /\ \E t \in Top(tasks) :
        /\ task[w] \subseteq Top(tasks) => t \in task[w]
        /\ tasks' = tasks \ {t}
    /\ mutex' = None
    /\ pc' = [pc EXCEPT ![w] = "run"]
    /\ UNCHANGED <<isStarted, mainVars, task, calls, ready>>

(* The task's function runs to its end and its future gets the result.     *)
RunTask(w) ==
    /\ pc[w] = "run"
    /\ calls' = [t \in Task |-> IF t \in task[w] THEN calls[t] + 1 ELSE calls[t]]
    /\ ready' = ready \cup task[w]
    /\ task' = [task EXCEPT ![w] = {}]
    /\ pc' = [pc EXCEPT ![w] = "poll"]
    /\ UNCHANGED <<queueVars, mainVars, mutex>>

DoTask(w) == Lock(w) \/ Exit(w) \/ CopyTop(w) \/ PopAndUnlock(w) \/ RunTask(w)

Next == Main \/ \E w \in Thread : DoTask(w)

Spec == Init /\ [][Next]_vars

(* The operating system schedules every thread, hands a free mutex to a    *)
(* thread that keeps waiting for it, and tasks end.                        *)
FairSpec ==
    /\ Spec
    /\ WF_vars(RunNothing \/ StartCreating \/ CreateThread \/ StartWaiting
               \/ JoinThread \/ ReturnFromWait)
    /\ \A w \in Thread : WF_vars(Exit(w) \/ CopyTop(w) \/ PopAndUnlock(w) \/ RunTask(w))
    /\ \A w \in Thread : SF_vars(Lock(w))

-----------------------------------------------------------------------------
(* The tasks popped and not yet run to their end.                          *)
Running == UNION {task[w] : w \in {v \in Thread : pc[v] = "run"}}

(* The variables have the types of the fields they stand for.              *)
TypeOK ==
    /\ main \in {"adding", "creating", "joining", "returned"}
    /\ isStarted \in BOOLEAN
    /\ tasks \subseteq Task
    /\ fixedThreadsNum \in 0..ThreadLimit
    /\ created \in 0..fixedThreadsNum
    /\ joined \in 0..created
    /\ mutex \in Thread \cup {None}
    /\ pc \in [Thread -> {"none", "poll", "locked", "copied", "run", "exited"}]
    /\ task \in [Thread -> SUBSET Task]
    /\ calls \in [Task -> Nat]
    /\ ready \subseteq Task

(* Although every thread reads the head and removes it in two steps, each  *)
(* task is executed by one thread, once: a packaged_task called again      *)
(* throws, and the passes rewrite the function a task is for.              *)
RunsOnce ==
    /\ \A t \in Task : calls[t] = IF t \in ready THEN 1 ELSE 0
    /\ \A v, w \in Thread :
           v # w /\ pc[v] = "run" /\ pc[w] = "run" => task[v] \cap task[w] = {}
    /\ Running \cap (tasks \cup ready) = {} /\ tasks \cap ready = {}

(* The callers take the result of every future and merge what the tasks    *)
(* wrote without a lock as soon as the wait returns: by then no task is    *)
(* queued or running and no thread is left.                                *)
QuietOnReturn ==
    main = "returned" =>
        /\ tasks = {} /\ Running = {}
        /\ \A w \in Thread : pc[w] \in {"none", "exited"}

(* The queue is a TaskBatch: exactly once, never more than ThreadLimit at  *)
(* a time, heavier tasks first, and all done on return.                    *)
Batch == INSTANCE TaskBatch WITH
             Limit <- ThreadLimit, waiting <- tasks, executing <- Running,
             done <- ready, returned <- (main = "returned")
ImplementsBatch == Batch!Spec

(* The call that waits for the tasks returns.                              *)
Termination == <>(main = "returned")
=============================================================================
