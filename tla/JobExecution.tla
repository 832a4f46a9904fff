---------------------------- MODULE JobExecution ----------------------------
(***************************************************************************)
(* Job::Execute of src/Driver/Job.cpp: the driver runs batches of tools    *)
(* (opt, llc, ar, ld, copies into the cache), each in a child process or,  *)
(* for the copies, on a thread of its own.  A semaphore counts the tools   *)
(* that may run at once, a batch starts when the previous one succeeded,   *)
(* and the main thread polls the children it started.                      *)
(*                                                                         *)
(* A handler on another thread (Ctrl-C on Windows; on Unix a SIGINT that   *)
(* the kernel delivers to a copying thread) may delete the temporary files *)
(* at any moment and leave the process; the main thread deletes them when  *)
(* it is done.  TempFileManager::isDeleted keeps the two apart.            *)
(***************************************************************************)
EXTENDS Integers, Sequences, FiniteSets

CONSTANTS
    Cmd,         \* the commands; each has a command string of its own
    commandList, \* the batches of commands, in order
    Internal,    \* commands of ToolType::INTERNAL_IMPLEMENTED
    Slots        \* the semaphore's count, set from the options

ASSUME CmdAssumption == IsFiniteSet(Cmd) /\ Internal \subseteq Cmd
ASSUME SlotsAssumption == Slots \in Nat \ {0}

(* The tools of a job differ in their input or output files, so no command *)
(* string occurs twice and the map of childWorkers has one entry for each. *)
Position == UNION {{b} \X (1..Len(commandList[b])) : b \in 1..Len(commandList)}
CommandAt(p) == commandList[p[1]][p[2]]
ASSUME ListAssumption ==
    /\ commandList \in Seq(Seq(Cmd))
    /\ \A p, q \in Position : CommandAt(p) = CommandAt(q) => p = q

Process == {"main", "handler"}

VARIABLES
    main,         \* where the main thread is
    batch,        \* the batch it is executing
    next,         \* the next command of that batch
    childWorkers, \* the commands of which it holds a future
    count,        \* the semaphore
    pending,      \* childWorkers that this round of CheckExecuteResult has not seen
    totalTasks,   \* childWorkers when the round began
    returnIfAny,  \* the argument returnIfAnyToolFinished
    success,      \* the local variable of CheckExecuteResult
    result,       \* what Job::Execute returned
    child,        \* what has become of each command
    isDeleted,    \* TempFileManager::isDeleted
    deleter,      \* where each process is in DeleteTempFiles
    late          \* history: commands started after the deletion began

checkVars == <<pending, totalTasks, returnIfAny, success>>
jobVars == <<batch, next, childWorkers, count>>
deleteVars == <<isDeleted, deleter>>
vars == <<main, jobVars, checkVars, result, child, deleteVars, late>>

Exited == \E p \in Process : deleter[p] = "exited"

Init ==
    /\ main = "slot" /\ batch = 1 /\ next = 1
    /\ childWorkers = {} /\ count = Slots
    /\ pending = {} /\ totalTasks = {} /\ returnIfAny = FALSE /\ success = TRUE
    /\ result = TRUE
    /\ child = [c \in Cmd |-> "none"]
    /\ isDeleted = "not_deleted" /\ deleter = [p \in Process |-> "no"]
    /\ late = {}

-----------------------------------------------------------------------------
(* The children.  A process may fail; the copy reports success whatever    *)
(* happened to its streams.  A process outlives the driver, a thread does  *)
(* not.                                                                    *)

FinishProcess(c) ==
    /\ c \notin Internal
    /\ child[c] = "running"
    /\ \E outcome \in {"ok", "failed"} : child' = [child EXCEPT ![c] = outcome]
    /\ UNCHANGED <<main, jobVars, checkVars, result, deleteVars, late>>

FinishThread(c) ==
    /\ c \in Internal /\ ~Exited
    /\ child[c] = "running"
    /\ child' = [child EXCEPT ![c] = "ok"]
    /\ UNCHANGED <<main, jobVars, checkVars, result, deleteVars, late>>

-----------------------------------------------------------------------------
(* CheckExecuteResult.                                                     *)

CheckExecuteResult(any) ==
    /\ main' = "check"
    /\ pending' = childWorkers /\ totalTasks' = childWorkers
    /\ returnIfAny' = any /\ success' = TRUE

Return(value) == main' = "unwind" /\ result' = value

(* GetState of a thread's future waits for the thread.                     *)
HasState(c) == c \notin Internal \/ child[c] # "running"

(* Mutated: a failed command keeps its slot.                               *)
CollectKeepingSlot(c) ==
    /\ childWorkers' = childWorkers \ {c}
    /\ count' = IF child[c] = "ok" THEN count + 1 ELSE count
    /\ success' = (success /\ child[c] = "ok")

(* Mutated: the last command inspected decides.                            *)
CollectLast(c) ==
    /\ childWorkers' = childWorkers \ {c}
    /\ count' = count + 1
    /\ success' = (child[c] = "ok")

(* A finished command leaves the map and gives its slot back.              *)
Collect(c) ==
    /\ childWorkers' = childWorkers \ {c}
    /\ count' = count + 1
    /\ success' = (success /\ child[c] = "ok")

(* Mutated: what has not succeeded yet counts as failed.                   *)
KeepAsFailed == UNCHANGED <<childWorkers, count>> /\ success' = FALSE

(* A running command stays in the map.                                     *)
Keep == UNCHANGED <<childWorkers, count, success>>

(* One entry of the map, in whichever order its keys are.                  *)
Inspect(c) ==
    /\ main = "check" /\ ~Exited
    /\ c \in pending
    /\ HasState(c)
    /\ pending' = pending \ {c}
    /\ IF child[c] = "running" THEN Keep ELSE Collect(c)
    /\ UNCHANGED <<main, batch, next, totalTasks, returnIfAny, result, child,
                   deleteVars, late>>

RoundOver == main = "check" /\ pending = {} /\ ~Exited
Leaves == childWorkers = {} \/ (returnIfAny /\ childWorkers # totalTasks)

(* Some children are still running: another round after the sleep.         *)
CheckAgain ==
    /\ RoundOver /\ ~Leaves
    /\ pending' = childWorkers /\ totalTasks' = childWorkers
    /\ UNCHANGED <<main, jobVars, returnIfAny, success, result, child, deleteVars, late>>

(* Back in Job::Execute: the loop that waits for a slot, or the next batch. *)
CheckSucceeded ==
    /\ RoundOver /\ Leaves /\ success
    /\ main' = "slot"
    /\ IF returnIfAny THEN UNCHANGED <<batch, next>>
       ELSE batch' = batch + 1 /\ next' = 1
    /\ UNCHANGED <<childWorkers, count, checkVars, result, child, deleteVars, late>>

CheckFailed ==
    /\ RoundOver /\ Leaves /\ ~success
    /\ Return(FALSE)
    /\ UNCHANGED <<jobVars, checkVars, child, deleteVars, late>>

-----------------------------------------------------------------------------
(* Job::Execute and Tool::Execute.                                         *)

InBatch == batch <= Len(commandList) /\ next <= Len(commandList[batch])
Current == commandList[batch][next]

WaitForSlot ==
    /\ main = "slot" /\ ~Exited
    /\ InBatch
    /\ count = 0
    /\ CheckExecuteResult(TRUE)
    /\ UNCHANGED <<jobVars, result, child, deleteVars, late>>

SlotAvailable ==
    /\ main = "slot" /\ ~Exited
    /\ InBatch
    /\ count # 0
    /\ main' = "execute"
    /\ UNCHANGED <<jobVars, checkVars, result, child, deleteVars, late>>

(* Mutated: the next batch starts beside the children of this one.         *)
BatchStartedAll ==
    /\ main = "slot" /\ ~Exited
    /\ batch <= Len(commandList) /\ next > Len(commandList[batch])
    /\ batch' = batch + 1 /\ next' = 1
    /\ UNCHANGED <<main, childWorkers, count, checkVars, result, child, deleteVars, late>>

(* The end of a batch; an empty one has nothing to wait for.               *)
BatchStarted ==
    /\ main = "slot" /\ ~Exited
    /\ batch <= Len(commandList) /\ next > Len(commandList[batch])
    /\ CheckExecuteResult(FALSE)
    /\ UNCHANGED <<jobVars, result, child, deleteVars, late>>

AllBatchesDone ==
    /\ main = "slot" /\ ~Exited
    /\ batch > Len(commandList)
    /\ Return(TRUE)
    /\ UNCHANGED <<jobVars, checkVars, child, deleteVars, late>>

(* Mutated: the commands go on until the files are all gone.               *)
NotYetDeleted == isDeleted # "deleted"
NotDeleted == isDeleted = "not_deleted"

(* Nothing was deleted when Tool::Execute looked.                          *)
MayRun ==
    /\ main = "execute" /\ ~Exited
    /\ NotDeleted
    /\ main' = "acquire"
    /\ UNCHANGED <<jobVars, checkVars, result, child, deleteVars, late>>

(* Otherwise it returns no future, and Job::Execute reads the error        *)
(* message of that future: undefined.                                      *)
NoFuture ==
    /\ main = "execute" /\ ~Exited
    /\ ~NotDeleted
    /\ main' = "null"
    /\ UNCHANGED <<jobVars, checkVars, result, child, deleteVars, late>>

(* The read gives some string and the job fails, or the process dies.      *)
ReadNullFuture ==
    /\ main = "null" /\ ~Exited
    /\ \/ Return(FALSE) /\ UNCHANGED deleter
       \/ deleter' = [deleter EXCEPT !["main"] = "exited"] /\ UNCHANGED <<main, result>>
    /\ UNCHANGED <<jobVars, checkVars, child, isDeleted, late>>

Acquire ==
    /\ main = "acquire" /\ ~Exited
    /\ count > 0
    /\ count' = count - 1
    /\ main' = "spawn"
    /\ UNCHANGED <<batch, next, childWorkers, checkVars, result, child, deleteVars, late>>

(* Mutated: the future is dropped, and the slot with it.                   *)
Forget(c) == UNCHANGED childWorkers
Watch(c) == childWorkers' = childWorkers \cup {c}

(* The child starts and its future is added to childWorkers.               *)
Spawn ==
    /\ main = "spawn" /\ ~Exited
    /\ child' = [child EXCEPT ![Current] = "running"]
    /\ Watch(Current)
    /\ late' = IF isDeleted = "not_deleted" THEN late ELSE late \cup {Current}
    /\ next' = next + 1
    /\ main' = "slot"
    /\ UNCHANGED <<batch, count, checkVars, result, deleteVars>>

(* Mutated: the slot is released for the error, and again for its future.  *)
SpawnFailedTwice ==
    /\ main = "spawn" /\ ~Exited
    /\ Current \notin Internal
    /\ count' = count + 2
    /\ Return(FALSE)
    /\ UNCHANGED <<batch, next, childWorkers, checkVars, child, deleteVars, late>>

(* posix_spawn failed: an ErrorFuture with a message.                      *)
SpawnFailed ==
    /\ main = "spawn" /\ ~Exited
    /\ Current \notin Internal
    /\ count' = count + 1
    /\ Return(FALSE)
    /\ UNCHANGED <<batch, next, childWorkers, checkVars, child, deleteVars, late>>

(* childWorkers is destroyed: the future of a std::async waits for its     *)
(* thread, a process is left to itself.                                    *)
Unwind ==
    /\ main = "unwind" /\ ~Exited
    /\ \A c \in childWorkers : HasState(c)
    /\ main' = "returned"
    /\ UNCHANGED <<jobVars, checkVars, result, child, deleteVars, late>>

-----------------------------------------------------------------------------
(* TempFileManager::DeleteTempFiles, by the handler at any moment and by   *)
(* the main thread after the job.                                          *)

MayDelete(p) == p = "handler" \/ main = "returned"

(* Mutated: the flag is read, and written only by the walk.                *)
Mark == UNCHANGED isDeleted
MarkDeleting == isDeleted' = "deleting"

(* isDeleted.exchange(DELETING): whoever comes second waits for the first. *)
BeginDeleting(p) ==
    /\ ~Exited
    /\ MayDelete(p)
    /\ deleter[p] = "no"
    /\ MarkDeleting
    /\ deleter' = [deleter EXCEPT ![p] =
                       IF isDeleted = "not_deleted" THEN "deleting" ELSE "waiting"]
    /\ UNCHANGED <<main, jobVars, checkVars, result, child, late>>

(* The recorded files and directories are gone.                            *)
FinishDeleting(p) ==
    /\ ~Exited
    /\ deleter[p] = "deleting"
    /\ isDeleted' = "deleted"
    /\ deleter' = [deleter EXCEPT ![p] = "done"]
    /\ UNCHANGED <<main, jobVars, checkVars, result, child, late>>

(* IsDeleted reads the flag a bounded number of times and then answers     *)
(* TRUE whatever it read.                                                  *)
StopWaiting(p) ==
    /\ ~Exited
    /\ deleter[p] = "waiting"
    /\ deleter' = [deleter EXCEPT ![p] = "done"]
    /\ UNCHANGED <<main, jobVars, checkVars, result, child, isDeleted, late>>

(* _exit in the handler, the return from main in the main thread.          *)
Exit(p) ==
    /\ ~Exited
    /\ deleter[p] = "done"
    /\ deleter' = [deleter EXCEPT ![p] = "exited"]
    /\ UNCHANGED <<main, jobVars, checkVars, result, child, isDeleted, late>>

Delete(p) == BeginDeleting(p) \/ FinishDeleting(p) \/ StopWaiting(p) \/ Exit(p)

-----------------------------------------------------------------------------
Check == (\E c \in Cmd : Inspect(c)) \/ CheckAgain \/ CheckSucceeded \/ CheckFailed
Execute ==
    \/ WaitForSlot \/ SlotAvailable \/ BatchStarted \/ AllBatchesDone
    \/ MayRun \/ NoFuture \/ ReadNullFuture \/ Acquire \/ Spawn \/ SpawnFailed \/ Unwind
Main == Check \/ Execute \/ Delete("main")
Finish(c) == FinishProcess(c) \/ FinishThread(c)

Next == Main \/ Delete("handler") \/ (\E c \in Cmd : Finish(c))

Spec == Init /\ [][Next]_vars

(* The main thread runs, every tool comes to an end, and a handler that    *)
(* has begun goes on.                                                      *)
FairSpec ==
    /\ Spec
    /\ WF_vars(Main)
    /\ WF_vars(FinishDeleting("handler") \/ StopWaiting("handler") \/ Exit("handler"))
    /\ \A c \in Cmd : WF_vars(Finish(c))

-----------------------------------------------------------------------------
Where == {"slot", "check", "execute", "null", "acquire", "spawn", "unwind", "returned"}

(* Each variable has its type.                                             *)
TypeOK ==
    /\ main \in Where
    /\ batch \in 1..(Len(commandList) + 1) /\ next \in Nat \ {0}
    /\ childWorkers \subseteq Cmd /\ count \in 0..Slots
    /\ pending \subseteq childWorkers /\ totalTasks \subseteq Cmd
    /\ returnIfAny \in BOOLEAN /\ success \in BOOLEAN /\ result \in BOOLEAN
    /\ child \in [Cmd -> {"none", "running", "ok", "failed"}]
    /\ isDeleted \in {"not_deleted", "deleting", "deleted"}
    /\ deleter \in [Process -> {"no", "deleting", "waiting", "done", "exited"}]
    /\ late \subseteq Cmd

(* Slots and futures account for each other: every slot is free, held by a *)
(* future in childWorkers, or held by the command about to be started.  So *)
(* the main thread never blocks in Acquire ("we must ensure that there is  *)
(* still available slot", Job.cpp:107), never waits for a slot with no     *)
(* child to give one back, and no more tools run than there are slots.     *)
Starting == IF main = "spawn" THEN 1 ELSE 0
SlotsAccounted ==
    /\ count + Cardinality(childWorkers) + Starting = Slots
    /\ main = "acquire" => count > 0
    /\ Cardinality({c \in Cmd : child[c] = "running"}) <= Slots

(* A tool of a batch is started only when every tool of the batches before *)
(* it has succeeded, however many rounds the polling took and whichever    *)
(* of them saw a failure.                                                  *)
BatchesInOrder ==
    \A p, q \in Position :
        (p[1] < q[1] /\ child[CommandAt(q)] # "none") => child[CommandAt(p)] = "ok"

(* Job::Execute reports success exactly when all tools succeeded: a round  *)
(* that saw one failure and then others succeed still fails the job, and a *)
(* job that fails has a tool that failed or was never started, not one     *)
(* that a check found running and that succeeded later.                    *)
ResultIsExact ==
    main \in {"unwind", "returned"} =>
        (result <=> \A p \in Position : child[CommandAt(p)] = "ok")

(* The handler and the main thread never delete the files at once, and the *)
(* main thread does not begin while a thread that it started still copies. *)
DeletionIsExclusive ==
    /\ ~(deleter["main"] = "deleting" /\ deleter["handler"] = "deleting")
    /\ deleter["main"] # "no" /\ ~Exited => \A c \in Internal : child[c] # "running"

(* Tool::Execute looks at isDeleted before it takes a slot, so a deletion  *)
(* that begins in between does not stop the command, but it does stop all  *)
(* the others.                                                             *)
AtMostOneLate == Cardinality(late) <= 1

(* Whatever fails, the driver comes to an end.                             *)
Termination == <>Exited
=============================================================================
