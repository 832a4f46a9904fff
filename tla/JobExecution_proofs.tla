------------------------- MODULE JobExecution_proofs -------------------------
(***************************************************************************)
(* Proofs about JobExecution for any batches of commands, any number of    *)
(* slots and any moment at which a handler deletes the temporary files.    *)
(* The inductive invariant places the main thread in its list of commands: *)
(* what stands before that place was started, what was started and is no   *)
(* longer watched succeeded unless the failure is on its way to the        *)
(* caller, and the watched commands are the slots in use.                  *)
(***************************************************************************)
EXTENDS JobExecution, FiniteSetTheorems, TLAPS

(* A slot is in use by a command that is watched or about to be started.   *)
SlotInv ==
    /\ count + Cardinality(childWorkers) + Starting = Slots
    /\ main \in {"execute", "acquire"} => count > 0

(* Where the main thread stands in the list.                               *)
PlaceInv ==
    /\ main \in {"execute", "null", "acquire", "spawn"} => InBatch
    /\ main = "slot" /\ batch <= Len(commandList) =>
           next <= Len(commandList[batch]) + 1
    /\ main = "check" =>
           batch <= Len(commandList) /\ (InBatch \/ ~returnIfAny)
    /\ main = "check" /\ ~returnIfAny => next > Len(commandList[batch])

Before(p) == p[1] < batch \/ (p[1] = batch /\ p[2] < next)

(* The commands before that place, and no others, were started; those      *)
(* still watched are of the same batch.                                    *)
StartedInv ==
    /\ \A p \in Position : child[CommandAt(p)] # "none" <=> Before(p)
    /\ \A c \in childWorkers :
           \E p \in Position : p[1] = batch /\ CommandAt(p) = c /\ child[c] # "none"
    /\ \A c \in Cmd : child[c] = "running" => c \in childWorkers

(* A failure that was seen and is on its way to the caller.                *)
Failing ==
    \/ main = "check" /\ ~success
    \/ main \in {"unwind", "returned"} /\ ~result

(* The earlier batches succeeded; in this one, what is watched no longer   *)
(* has succeeded or the failure was seen.                                  *)
OutcomeInv ==
    /\ \A p \in Position : p[1] < batch => child[CommandAt(p)] = "ok"
    /\ \A c \in Cmd : child[c] # "none" /\ c \notin childWorkers => child[c] = "ok" \/ Failing
    /\ main = "unwind" /\ result => batch > Len(commandList)
    /\ main = "returned" /\ result => batch > Len(commandList)

(* A failure has a cause that does not go away: a command that failed, or  *)
(* one that was never started.                                             *)
Missed == \E p \in Position : child[CommandAt(p)] \in {"none", "failed"}
FailInv == Failing => Missed

(* The command that is about to be started is the only one that a deletion *)
(* can overtake.                                                           *)
LateInv ==
    /\ main \in {"acquire", "spawn"} => late = {}
    /\ late # {} => isDeleted # "not_deleted"
    /\ late = {} \/ \E c \in Cmd : late = {c}

(* Nobody deletes before the flag is set, and the main thread not before   *)
(* its copying threads are done.                                           *)
DeleteInv ==
    /\ isDeleted = "not_deleted" => main # "null" /\ \A p \in Process : deleter[p] = "no"
    /\ ~(deleter["main"] = "deleting" /\ deleter["handler"] = "deleting")
    /\ deleter["main"] \in {"deleting", "waiting", "done"} => main = "returned"
    /\ main = "returned" => \A c \in Internal : child[c] # "running"

IInv ==
    TypeOK /\ SlotInv /\ PlaceInv /\ StartedInv /\ OutcomeInv /\ LateInv /\ DeleteInv

(* A position is a batch of the list and a command of that batch.          *)
LEMMA PositionFact ==
    /\ \A p \in Position : p[1] \in 1..Len(commandList) /\ p[2] \in 1..Len(commandList[p[1]])
    /\ \A b \in 1..Len(commandList) : \A n \in 1..Len(commandList[b]) : <<b, n>> \in Position
    /\ \A p \in Position : CommandAt(p) \in Cmd
    /\ Len(commandList) \in Nat
    /\ \A b \in 1..Len(commandList) : Len(commandList[b]) \in Nat
<1>1. Len(commandList) \in Nat /\ \A b \in 1..Len(commandList) : commandList[b] \in Seq(Cmd)
    BY ListAssumption
<1>2. \A b \in 1..Len(commandList) : Len(commandList[b]) \in Nat
    BY <1>1
<1>3. \A p \in Position : p[1] \in 1..Len(commandList) /\ p[2] \in 1..Len(commandList[p[1]])
    BY DEF Position
<1>4. \A b \in 1..Len(commandList) : \A n \in 1..Len(commandList[b]) : <<b, n>> \in Position
    BY DEF Position
<1>5. \A p \in Position : CommandAt(p) \in Cmd
    BY <1>1, <1>3 DEF CommandAt
<1> QED
    BY <1>1, <1>2, <1>3, <1>4, <1>5

(* The command the main thread is about to execute stands at its place and *)
(* was not started before.                                                 *)
LEMMA CurrentFact ==
    ASSUME TypeOK, StartedInv, InBatch
    PROVE  /\ <<batch, next>> \in Position /\ CommandAt(<<batch, next>>) = Current
           /\ Current \in Cmd /\ child[Current] = "none" /\ Current \notin childWorkers
<1>1. batch \in 1..Len(commandList) /\ next \in 1..Len(commandList[batch])
    BY PositionFact DEF TypeOK, InBatch
<1>2. <<batch, next>> \in Position /\ CommandAt(<<batch, next>>) = Current
    BY <1>1, PositionFact DEF CommandAt, Current
<1>3. ~Before(<<batch, next>>)
    BY <1>1 DEF Before
<1> QED
    BY <1>2, <1>3, PositionFact DEF StartedInv

(* The watched commands are finitely many.                                 *)
LEMMA WorkersFact ==
    ASSUME TypeOK
    PROVE  IsFiniteSet(childWorkers) /\ Cardinality(childWorkers) \in Nat
BY CmdAssumption, FS_Subset, FS_CardinalityType DEF TypeOK

(* The invariant holds at first.                                           *)
LEMMA Initial == Init => IInv
<1> SUFFICES ASSUME Init PROVE IInv
    OBVIOUS
<1> USE DEF Init
<1>1. TypeOK
    <2>1. 1 \in 1..(Len(commandList) + 1) /\ Slots \in 0..Slots
        BY PositionFact, SlotsAssumption
    <2>2. main \in Where /\ batch \in 1..(Len(commandList) + 1) /\ next \in Nat \ {0}
        BY <2>1 DEF Where
    <2>3. count \in 0..Slots
        BY <2>1
    <2>4. /\ childWorkers \subseteq Cmd /\ pending \subseteq childWorkers
          /\ totalTasks \subseteq Cmd /\ late \subseteq Cmd
        OBVIOUS
    <2>5. returnIfAny \in BOOLEAN /\ success \in BOOLEAN /\ result \in BOOLEAN
        OBVIOUS
    <2>6. /\ child \in [Cmd -> {"none", "running", "ok", "failed"}]
          /\ isDeleted \in {"not_deleted", "deleting", "deleted"}
          /\ deleter \in [Process -> {"no", "deleting", "waiting", "done", "exited"}]
        OBVIOUS
    <2> QED
        BY <2>2, <2>3, <2>4, <2>5, <2>6 DEF TypeOK
<1>2. SlotInv
    BY FS_EmptySet, SlotsAssumption DEF SlotInv, Starting
<1>3. PlaceInv
    BY PositionFact DEF PlaceInv
<1>4. StartedInv
    BY PositionFact DEF StartedInv, Before
<1>5. OutcomeInv /\ LateInv /\ DeleteInv
    BY CmdAssumption, PositionFact DEF OutcomeInv, Failing, LateInv, DeleteInv, Process
<1> QED
    BY <1>1, <1>2, <1>3, <1>4, <1>5 DEF IInv

(* A command finishes: a failure is not seen before its future is read.    *)
LEMMA FinishPreserves == ASSUME IInv, NEW c \in Cmd, Finish(c) PROVE IInv'
<1>1. PICK outcome \in {"ok", "failed"} :
          /\ child[c] = "running" /\ child' = [child EXCEPT ![c] = outcome]
          /\ UNCHANGED <<main, jobVars, checkVars, result, deleteVars, late>>
    BY DEF Finish, FinishProcess, FinishThread
<1> USE <1>1 DEF IInv, jobVars, checkVars, deleteVars
<1>2. TypeOK'
    BY DEF TypeOK
<1>3. SlotInv' /\ PlaceInv'
    BY DEF SlotInv, Starting, PlaceInv, InBatch
<1>4. StartedInv'
    BY PositionFact DEF StartedInv, Before, TypeOK
<1>5. OutcomeInv'
    BY PositionFact DEF OutcomeInv, Failing, StartedInv, TypeOK, CommandAt
<1>6. LateInv' /\ DeleteInv'
    BY CmdAssumption DEF LateInv, DeleteInv, TypeOK
<1> QED
    BY <1>2, <1>3, <1>4, <1>5, <1>6

(* A deletion changes nothing that the job knows.                          *)
LEMMA DeletePreserves == ASSUME IInv, NEW p \in Process, Delete(p) PROVE IInv'
<1>1. UNCHANGED <<main, jobVars, checkVars, result, child, late>>
    BY DEF Delete, BeginDeleting, MarkDeleting, FinishDeleting, StopWaiting, Exit
<1>2. isDeleted # "not_deleted" => isDeleted' # "not_deleted"
    BY DEF Delete, BeginDeleting, MarkDeleting, FinishDeleting, StopWaiting, Exit
<1> USE <1>1 DEF IInv, jobVars, checkVars
<1>3. TypeOK'
    BY DEF TypeOK, Delete, BeginDeleting, MarkDeleting, FinishDeleting, StopWaiting, Exit
<1>4. SlotInv' /\ PlaceInv'
    BY DEF SlotInv, Starting, PlaceInv, InBatch
<1>5. StartedInv' /\ OutcomeInv'
    BY DEF StartedInv, Before, OutcomeInv, Failing
<1>6. LateInv'
    BY <1>2 DEF LateInv
<1>7. DeleteInv'
    <2>1. CASE BeginDeleting(p)
        BY <2>1 DEF DeleteInv, BeginDeleting, MarkDeleting, MayDelete, TypeOK, Process
    <2>2. CASE FinishDeleting(p) \/ StopWaiting(p) \/ Exit(p)
        BY <2>2 DEF DeleteInv, FinishDeleting, StopWaiting, Exit, TypeOK, Process
    <2> QED
        BY <2>1, <2>2 DEF Delete
<1> QED
    BY <1>3, <1>4, <1>5, <1>6, <1>7

(* A future is read: a finished command gives its slot back.               *)
LEMMA InspectPreserves == ASSUME IInv, NEW c \in Cmd, Inspect(c) PROVE IInv'
<1> USE DEF IInv, jobVars, checkVars, deleteVars
<1>0. /\ main = "check" /\ c \in pending /\ c \in childWorkers
      /\ pending' = pending \ {c} /\ child[c] # "none"
      /\ UNCHANGED <<main, batch, next, totalTasks, returnIfAny, result, child, deleteVars, late>>
    BY PositionFact DEF Inspect, Collect, TypeOK, StartedInv
<1> USE <1>0
<1>1. CASE child[c] = "running"
    <2> USE <1>1
    <2>1. UNCHANGED <<childWorkers, count, success>>
        BY DEF Inspect, Keep
    <2>2. TypeOK' /\ SlotInv' /\ PlaceInv'
        BY <2>1 DEF TypeOK, SlotInv, Starting, PlaceInv, InBatch
    <2>3. StartedInv' /\ OutcomeInv' /\ LateInv' /\ DeleteInv'
        BY <2>1 DEF StartedInv, Before, OutcomeInv, Failing, LateInv, DeleteInv
    <2> QED
        BY <2>2, <2>3
<1>2. CASE child[c] # "running"
    <2> USE <1>2
    <2>1. /\ childWorkers' = childWorkers \ {c} /\ count' = count + 1
          /\ success' = (success /\ child[c] = "ok")
        BY DEF Inspect, Collect
    <2>2. Cardinality(childWorkers') = Cardinality(childWorkers) - 1
        BY <2>1, WorkersFact, FS_RemoveElement
    <2>3. SlotInv'
        BY <2>1, <2>2, WorkersFact, SlotsAssumption DEF SlotInv, Starting, TypeOK
    <2>4. count' \in 0..Slots
        <3>1. Cardinality(childWorkers) >= 1 /\ count \in Nat /\ Slots \in Nat
            <4>1. Cardinality(childWorkers) # 0
                BY WorkersFact, FS_EmptySet
            <4> QED
                BY <4>1, WorkersFact, SlotsAssumption DEF TypeOK
        <3> QED
            BY <2>1, <3>1, WorkersFact DEF SlotInv, Starting
    <2>5. TypeOK'
        <3>1. success' \in BOOLEAN
            BY <2>1
        <3> QED
            BY <2>1, <2>4, <3>1 DEF TypeOK
    <2>6. PlaceInv' /\ LateInv' /\ DeleteInv'
        BY DEF PlaceInv, InBatch, LateInv, DeleteInv
    <2>7. StartedInv'
        BY <2>1 DEF StartedInv, Before
    <2>8. OutcomeInv'
        <3>1. success' \/ ~success'
            BY <2>1
        <3>2. child[c] = "ok" \/ Failing'
            BY <2>1 DEF Failing
        <3>3. Failing => Failing'
            BY <2>1 DEF Failing
        <3> QED
            BY <2>1, <3>2, <3>3 DEF OutcomeInv
    <2> QED
        BY <2>3, <2>5, <2>6, <2>7, <2>8
<1> QED
    BY <1>1, <1>2

(* A round is over: what was seen goes on to the caller or another round   *)
(* begins.                                                                 *)
LEMMA RoundPreserves ==
    ASSUME IInv, CheckAgain \/ CheckSucceeded \/ CheckFailed PROVE IInv'
<1> USE DEF IInv, jobVars, checkVars, deleteVars
<1>0. main = "check" /\ UNCHANGED <<childWorkers, count, child, deleteVars, late>>
    BY DEF CheckAgain, CheckSucceeded, CheckFailed, RoundOver
<1> USE <1>0
<1>1. CASE CheckAgain
    <2> USE <1>1 DEF CheckAgain
    <2>1. TypeOK' /\ SlotInv' /\ PlaceInv'
        BY DEF TypeOK, SlotInv, Starting, PlaceInv, InBatch
    <2>2. StartedInv' /\ OutcomeInv' /\ LateInv' /\ DeleteInv'
        BY DEF StartedInv, Before, OutcomeInv, Failing, LateInv, DeleteInv
    <2> QED
        BY <2>1, <2>2
<1>2. CASE CheckSucceeded
    <2>0. /\ main' = "slot" /\ success /\ ~Failing
          /\ UNCHANGED <<childWorkers, count, checkVars, result, child, deleteVars, late>>
        BY <1>2 DEF CheckSucceeded, Failing
    <2> USE <2>0
    <2>1. CASE returnIfAny
        <3>1. UNCHANGED <<batch, next>> /\ InBatch
            BY <1>2, <2>1 DEF CheckSucceeded, PlaceInv
        <3>2. TypeOK' /\ SlotInv'
            BY <3>1 DEF TypeOK, SlotInv, Starting, Where
        <3>3. PlaceInv'
            <4>1. next \in Nat /\ Len(commandList[batch]) \in Nat /\ next <= Len(commandList[batch])
                BY <3>1, PositionFact DEF TypeOK, InBatch
            <4> QED
                BY <3>1, <4>1 DEF PlaceInv
        <3>4. StartedInv' /\ OutcomeInv' /\ LateInv' /\ DeleteInv'
            BY <3>1 DEF StartedInv, Before, OutcomeInv, Failing, LateInv, DeleteInv
        <3> QED
            BY <3>2, <3>3, <3>4
    <2>2. CASE ~returnIfAny
        <3>1. /\ batch' = batch + 1 /\ next' = 1 /\ childWorkers = {}
              /\ batch \in 1..Len(commandList) /\ next > Len(commandList[batch])
            BY <1>2, <2>2, PositionFact DEF CheckSucceeded, Leaves, PlaceInv, TypeOK
        <3>2. TypeOK' /\ SlotInv'
            BY <3>1, PositionFact DEF TypeOK, SlotInv, Starting, Where
        <3>3. PlaceInv'
            BY <3>1, PositionFact DEF PlaceInv
        <3>4. \A p \in Position : Before(p)' <=> Before(p)
            BY <3>1, PositionFact DEF Before, TypeOK
        <3>5. StartedInv'
            BY <3>1, <3>4 DEF StartedInv
        <3>6. \A p \in Position : p[1] < batch' => child[CommandAt(p)] = "ok"
            <4> SUFFICES ASSUME NEW p \in Position, p[1] < batch'
                         PROVE  child[CommandAt(p)] = "ok"
                OBVIOUS
            <4>1. Before(p)
                BY <3>1, PositionFact DEF Before, TypeOK
            <4>2. child[CommandAt(p)] # "none" /\ CommandAt(p) \in Cmd
                BY <4>1, PositionFact DEF StartedInv
            <4> QED
                BY <4>2, <3>1 DEF OutcomeInv
        <3>7. OutcomeInv' /\ LateInv' /\ DeleteInv'
            BY <3>6 DEF OutcomeInv, Failing, LateInv, DeleteInv
        <3> QED
            BY <3>2, <3>3, <3>5, <3>7
    <2>3. returnIfAny \/ ~returnIfAny
        OBVIOUS
    <2> QED
        BY <2>1, <2>2, <2>3
<1>3. CASE CheckFailed
    <2>0. /\ main' = "unwind" /\ result' = FALSE /\ Failing'
          /\ UNCHANGED <<jobVars, checkVars, child, deleteVars, late>>
        BY <1>3 DEF CheckFailed, Return, Failing
    <2> USE <2>0
    <2>1. TypeOK' /\ SlotInv' /\ PlaceInv'
        BY DEF TypeOK, SlotInv, Starting, PlaceInv, Where
    <2>2. StartedInv' /\ OutcomeInv' /\ LateInv' /\ DeleteInv'
        BY DEF StartedInv, Before, OutcomeInv, LateInv, DeleteInv
    <2> QED
        BY <2>1, <2>2
<1> QED
    BY <1>1, <1>2, <1>3

(* The main thread goes to check its children.                             *)
LEMMA GoToCheckPreserves == ASSUME IInv, WaitForSlot \/ BatchStarted PROVE IInv'
<1> USE DEF IInv, jobVars, checkVars, deleteVars
<1>1. /\ main = "slot" /\ main' = "check"
      /\ pending' = childWorkers /\ totalTasks' = childWorkers
      /\ returnIfAny' \in BOOLEAN /\ success' = TRUE
      /\ UNCHANGED <<jobVars, result, child, deleteVars, late>>
    BY DEF WaitForSlot, BatchStarted, CheckExecuteResult
<1> USE <1>1
<1>2. TypeOK' /\ SlotInv'
    BY DEF TypeOK, SlotInv, Starting, Where
<1>3. PlaceInv'
    BY DEF PlaceInv, InBatch, WaitForSlot, BatchStarted, CheckExecuteResult
<1>4. StartedInv' /\ OutcomeInv' /\ LateInv' /\ DeleteInv'
    BY DEF StartedInv, Before, OutcomeInv, Failing, LateInv, DeleteInv
<1> QED
    BY <1>2, <1>3, <1>4

(* The steps that only move the main thread.                               *)
LEMMA MovePreserves ==
    ASSUME IInv, SlotAvailable \/ MayRun \/ NoFuture \/ AllBatchesDone \/ Unwind \/ ReadNullFuture
    PROVE  IInv'
<1> USE DEF IInv, jobVars, checkVars, deleteVars
<1>1. CASE SlotAvailable \/ MayRun \/ NoFuture
    <2>1. UNCHANGED <<jobVars, checkVars, result, child, deleteVars, late>>
        BY <1>1 DEF SlotAvailable, MayRun, NoFuture, NotDeleted
    <2>2. /\ main' \in {"execute", "acquire", "null"} /\ main \in {"slot", "execute"}
          /\ count > 0 /\ InBatch
        BY <1>1 DEF SlotAvailable, MayRun, NoFuture, NotDeleted, SlotInv, PlaceInv, TypeOK
    <2> USE <2>1, <2>2
    <2>3. TypeOK' /\ SlotInv' /\ PlaceInv'
        BY DEF TypeOK, SlotInv, Starting, PlaceInv, InBatch, Where
    <2>4. StartedInv' /\ OutcomeInv'
        BY DEF StartedInv, Before, OutcomeInv, Failing
    <2>5. LateInv' /\ DeleteInv'
        BY <1>1 DEF LateInv, DeleteInv, SlotAvailable, MayRun, NoFuture, NotDeleted
    <2> QED
        BY <2>3, <2>4, <2>5
<1>2. CASE AllBatchesDone
    <2>1. /\ main = "slot" /\ main' = "unwind" /\ result' = TRUE /\ batch > Len(commandList)
          /\ UNCHANGED <<jobVars, checkVars, child, deleteVars, late>>
        BY <1>2 DEF AllBatchesDone, Return
    <2> USE <2>1
    <2>2. TypeOK' /\ SlotInv' /\ PlaceInv'
        BY DEF TypeOK, SlotInv, Starting, PlaceInv, Where
    <2>3. StartedInv' /\ OutcomeInv' /\ LateInv' /\ DeleteInv'
        BY DEF StartedInv, Before, OutcomeInv, Failing, LateInv, DeleteInv
    <2> QED
        BY <2>2, <2>3
<1>3. CASE Unwind
    <2>1. /\ main = "unwind" /\ main' = "returned"
          /\ \A c \in Internal : child[c] # "running"
          /\ UNCHANGED <<jobVars, checkVars, result, child, deleteVars, late>>
        BY <1>3, CmdAssumption DEF Unwind, HasState, StartedInv
    <2> USE <2>1
    <2>2. TypeOK' /\ SlotInv' /\ PlaceInv'
        BY DEF TypeOK, SlotInv, Starting, PlaceInv, Where
    <2>3. StartedInv' /\ OutcomeInv' /\ LateInv' /\ DeleteInv'
        BY DEF StartedInv, Before, OutcomeInv, Failing, LateInv, DeleteInv
    <2> QED
        BY <2>2, <2>3
<1>4. CASE ReadNullFuture
    <2>1. /\ main = "null" /\ UNCHANGED <<jobVars, checkVars, child, isDeleted, late>>
          /\ \/ main' = "unwind" /\ result' = FALSE /\ UNCHANGED deleter
             \/ UNCHANGED <<main, result>> /\ deleter' = [deleter EXCEPT !["main"] = "exited"]
        BY <1>4 DEF ReadNullFuture, Return
    <2> USE <2>1
    <2>2. TypeOK'
        BY DEF TypeOK, Where, Process
    <2>3. SlotInv' /\ PlaceInv'
        BY DEF SlotInv, Starting, PlaceInv, InBatch
    <2>4. StartedInv' /\ OutcomeInv' /\ LateInv'
        BY DEF StartedInv, Before, OutcomeInv, Failing, LateInv
    <2>5. DeleteInv'
        BY DEF DeleteInv, TypeOK, Process
    <2> QED
        BY <2>2, <2>3, <2>4, <2>5
<1> QED
    BY <1>1, <1>2, <1>3, <1>4

(* A slot is taken, and then either a child has it or it is given back.    *)
LEMMA StartPreserves == ASSUME IInv, Acquire \/ Spawn \/ SpawnFailed PROVE IInv'
<1> USE DEF IInv, jobVars, checkVars, deleteVars
<1>1. CASE Acquire
    <2>1. /\ main = "acquire" /\ main' = "spawn" /\ count > 0 /\ count' = count - 1
          /\ UNCHANGED <<batch, next, childWorkers, checkVars, result, child, deleteVars, late>>
        BY <1>1 DEF Acquire
    <2> USE <2>1
    <2>2. TypeOK'
        BY SlotsAssumption DEF TypeOK, Where
    <2>3. SlotInv' /\ PlaceInv'
        BY WorkersFact, SlotsAssumption DEF SlotInv, Starting, PlaceInv, InBatch, TypeOK
    <2>4. StartedInv' /\ OutcomeInv' /\ LateInv' /\ DeleteInv'
        BY DEF StartedInv, Before, OutcomeInv, Failing, LateInv, DeleteInv
    <2> QED
        BY <2>2, <2>3, <2>4
<1>2. CASE Spawn
    <2>1. /\ main = "spawn" /\ main' = "slot" /\ next' = next + 1
          /\ child' = [child EXCEPT ![Current] = "running"]
          /\ childWorkers' = childWorkers \cup {Current}
          /\ late' = (IF isDeleted = "not_deleted" THEN late ELSE late \cup {Current})
          /\ UNCHANGED <<batch, count, checkVars, result, deleteVars>>
        BY <1>2 DEF Spawn, Watch
    <2>2. /\ <<batch, next>> \in Position /\ CommandAt(<<batch, next>>) = Current
          /\ Current \in Cmd /\ child[Current] = "none" /\ Current \notin childWorkers
        BY <2>1, CurrentFact DEF PlaceInv
    <2>3. batch \in 1..Len(commandList) /\ next \in 1..Len(commandList[batch])
        BY <2>2, PositionFact
    <2>4. Cardinality(childWorkers') = Cardinality(childWorkers) + 1
        BY <2>1, <2>2, WorkersFact, FS_AddElement
    <2>5. TypeOK'
        BY <2>1, <2>2 DEF TypeOK, Where
    <2>6. SlotInv' /\ PlaceInv'
        BY <2>1, <2>3, <2>4, PositionFact, WorkersFact, SlotsAssumption
            DEF SlotInv, Starting, PlaceInv, TypeOK
    <2>7. StartedInv'
        <3>1. ASSUME NEW p \in Position
              PROVE  child'[CommandAt(p)] # "none" <=> Before(p)'
            <4>1. CASE p = <<batch, next>>
                BY <2>1, <2>2, <2>3, <4>1 DEF Before, TypeOK
            <4>2. CASE p # <<batch, next>>
                <5>1. CommandAt(p) # Current /\ CommandAt(p) \in Cmd
                    BY <2>2, <4>2, ListAssumption, PositionFact
                <5>2. p[1] # batch \/ p[2] # next
                    BY <4>2, <2>3, PositionFact DEF Position
                <5>3. Before(p)' <=> Before(p)
                    BY <2>1, <2>3, <5>2, PositionFact DEF Before
                <5> QED
                    BY <2>1, <5>1, <5>3 DEF StartedInv, TypeOK
            <4> QED
                BY <4>1, <4>2
        <3>2. \A c \in childWorkers' :
                  \E p \in Position : p[1] = batch' /\ CommandAt(p) = c /\ child'[c] # "none"
            BY <2>1, <2>2 DEF StartedInv, TypeOK
        <3>3. \A c \in Cmd : child'[c] = "running" => c \in childWorkers'
            BY <2>1, <2>2 DEF StartedInv, TypeOK
        <3> QED
            BY <3>1, <3>2, <3>3 DEF StartedInv, CommandAt
    <2>8. OutcomeInv'
        BY <2>1, <2>2, PositionFact DEF OutcomeInv, Failing, TypeOK, CommandAt
    <2>9. LateInv' /\ DeleteInv'
        BY <2>1, <2>2 DEF LateInv, DeleteInv
    <2> QED
        BY <2>5, <2>6, <2>7, <2>8, <2>9
<1>3. CASE SpawnFailed
    <2>1. /\ main = "spawn" /\ main' = "unwind" /\ result' = FALSE /\ count' = count + 1
          /\ UNCHANGED <<batch, next, childWorkers, checkVars, child, deleteVars, late>>
        BY <1>3 DEF SpawnFailed, Return
    <2> USE <2>1
    <2>2. count' \in 0..Slots
        BY WorkersFact, SlotsAssumption DEF SlotInv, Starting, TypeOK
    <2>3. TypeOK'
        BY <2>2 DEF TypeOK, Where
    <2>4. SlotInv' /\ PlaceInv'
        BY WorkersFact, SlotsAssumption DEF SlotInv, Starting, PlaceInv, TypeOK
    <2>5. StartedInv' /\ OutcomeInv' /\ LateInv' /\ DeleteInv'
        BY DEF StartedInv, Before, OutcomeInv, Failing, LateInv, DeleteInv
    <2> QED
        BY <2>3, <2>4, <2>5
<1> QED
    BY <1>1, <1>2, <1>3

(* A step that changes nothing keeps the invariant.                        *)
LEMMA StutterPreserves == ASSUME IInv, UNCHANGED vars PROVE IInv'
<1> USE DEF vars, IInv, jobVars, checkVars, deleteVars
<1>1. TypeOK' /\ SlotInv' /\ PlaceInv'
    BY DEF TypeOK, SlotInv, Starting, PlaceInv, InBatch
<1>2. StartedInv' /\ OutcomeInv' /\ LateInv' /\ DeleteInv'
    BY DEF StartedInv, Before, OutcomeInv, Failing, LateInv, DeleteInv
<1> QED
    BY <1>1, <1>2

(* The invariant always holds.                                             *)
LEMMA Invariance == Spec => []IInv
<1>1. IInv /\ [Next]_vars => IInv'
    <2> SUFFICES ASSUME IInv, [Next]_vars PROVE IInv'
        OBVIOUS
    <2>1. CASE Main
        <3>1. Delete("main") => IInv'
            BY DeletePreserves DEF Process
        <3> QED
            BY <2>1, <3>1, InspectPreserves, RoundPreserves, GoToCheckPreserves,
               MovePreserves, StartPreserves DEF Main, Check, Execute
    <2>2. CASE Delete("handler")
        BY <2>2, DeletePreserves DEF Process
    <2>3. CASE \E c \in Cmd : Finish(c)
        BY <2>3, FinishPreserves
    <2> QED
        BY <2>1, <2>2, <2>3, StutterPreserves DEF Next
<1> QED
    BY <1>1, Initial, PTL DEF Spec

(* A failure on its way to the caller keeps its cause: nothing is started  *)
(* any more, and a command that failed has ended.                          *)
LEMMA CauseStays ==
    ASSUME TypeOK, Missed,
           \/ UNCHANGED child
           \/ \E c \in Cmd : child[c] = "running" /\ \E o \in {"ok", "failed"} :
                  child' = [child EXCEPT ![c] = o]
    PROVE  Missed'
<1>1. PICK p \in Position : child[CommandAt(p)] \in {"none", "failed"}
    BY DEF Missed
<1>2. CommandAt(p) \in Cmd
    BY PositionFact
<1>3. child'[CommandAt(p)] = child[CommandAt(p)]
    BY <1>1, <1>2 DEF TypeOK
<1> QED
    BY <1>1, <1>3 DEF Missed, CommandAt

(* Every failure has a cause: a check fails for a command that failed, the *)
(* other two ways out leave the current command unstarted.                 *)
LEMMA FailureCaused ==
    ASSUME IInv, FailInv, [Next]_vars
    PROVE  FailInv'
<1> USE DEF IInv, jobVars, checkVars, deleteVars
<1>1. UNCHANGED <<main, success, result, child>> => FailInv'
    BY CauseStays DEF FailInv, Failing
<1>2. ASSUME NEW c \in Cmd, Finish(c) PROVE FailInv'
    <2>1. /\ child[c] = "running" /\ \E o \in {"ok", "failed"} : child' = [child EXCEPT ![c] = o]
          /\ UNCHANGED <<main, success, result>>
        BY <1>2 DEF Finish, FinishProcess, FinishThread
    <2> QED
        BY <2>1, CauseStays DEF FailInv, Failing
<1>3. ASSUME NEW p \in Process, Delete(p) PROVE FailInv'
    <2>1. UNCHANGED <<main, success, result, child>>
        BY <1>3 DEF Delete, BeginDeleting, FinishDeleting, StopWaiting, Exit
    <2> QED
        BY <2>1, <1>1
<1>4. ASSUME NEW c \in Cmd, Inspect(c) PROVE FailInv'
    <2>1. main = "check" /\ c \in childWorkers /\ UNCHANGED <<main, result, child>>
        BY <1>4 DEF Inspect, TypeOK
    <2>2. success' = success \/ (child[c] # "running" /\ success' = (success /\ child[c] = "ok"))
        BY <1>4 DEF Inspect, Keep, Collect
    <2>3. CASE child[c] \in {"none", "failed"}
        <3>1. PICK p \in Position : CommandAt(p) = c
            BY <2>1 DEF StartedInv
        <3> QED
            BY <2>1, <2>3, <3>1 DEF FailInv, Missed, CommandAt
    <2>4. CASE child[c] \notin {"none", "failed"}
        <3>1. child[c] \in {"running", "ok"} /\ success \in BOOLEAN
            BY <2>4 DEF TypeOK
        <3>2. success' = success
            BY <2>2, <3>1
        <3> QED
            BY <2>1, <3>2, <1>1
    <2> QED
        BY <2>3, <2>4
<1>5. CASE CheckAgain \/ CheckSucceeded \/ CheckFailed
    <2>1. CASE CheckAgain
        BY <2>1, <1>1 DEF CheckAgain
    <2>2. CASE CheckSucceeded
        BY <2>2 DEF CheckSucceeded, FailInv, Failing
    <2>3. CASE CheckFailed
        <3>1. Failing /\ UNCHANGED child
            BY <2>3 DEF CheckFailed, RoundOver, Failing
        <3> QED
            BY <3>1, CauseStays DEF FailInv
    <2> QED
        BY <1>5, <2>1, <2>2, <2>3
<1>6. CASE WaitForSlot \/ BatchStarted \/ SlotAvailable \/ MayRun \/ NoFuture \/ AllBatchesDone
           \/ Acquire \/ Spawn
    BY <1>6 DEF WaitForSlot, BatchStarted, CheckExecuteResult, SlotAvailable, MayRun, NoFuture,
       AllBatchesDone, Return, Acquire, Spawn, FailInv, Failing
<1>7. CASE Unwind
    <2>1. (Failing' <=> Failing) /\ UNCHANGED child
        BY <1>7 DEF Unwind, Failing
    <2> QED
        BY <2>1, CauseStays DEF FailInv
<1>8. CASE ReadNullFuture \/ SpawnFailed
    <2>1. main \in {"null", "spawn"} /\ UNCHANGED child
        BY <1>8 DEF ReadNullFuture, SpawnFailed
    <2>2. <<batch, next>> \in Position /\ child[CommandAt(<<batch, next>>)] = "none"
        BY <2>1, CurrentFact DEF PlaceInv
    <2>3. Missed
        BY <2>2 DEF Missed
    <2> QED
        BY <2>1, <2>3, CauseStays DEF FailInv
<1>9. CASE UNCHANGED vars
    BY <1>9, <1>1 DEF vars
<1>10. CASE Main
    BY <1>10, <1>3, <1>4, <1>5, <1>6, <1>7, <1>8 DEF Main, Check, Execute, Process
<1>11. CASE Delete("handler")
    BY <1>11, <1>3 DEF Process
<1> QED
    BY <1>2, <1>9, <1>10, <1>11 DEF Next

(* Every failure always has its cause.                                     *)
LEMMA FailuresHaveCauses == Spec => []FailInv
<1>1. Init => FailInv
    BY DEF Init, FailInv, Failing
<1> QED
    BY <1>1, FailureCaused, Invariance, PTL DEF Spec

(* The variables keep their types: in particular the semaphore never       *)
(* counts more slots than it was given.                                    *)
THEOREM TypeCorrect == Spec => []TypeOK
BY Invariance, PTL DEF IInv

(* Slots and futures account for each other: Acquire never blocks and no   *)
(* more tools run than there are slots.                                    *)
THEOREM SlotsAreAccounted == Spec => []SlotsAccounted
<1>1. IInv => SlotsAccounted
    <2> SUFFICES ASSUME IInv PROVE SlotsAccounted
        OBVIOUS
    <2> DEFINE Running == {c \in Cmd : child[c] = "running"}
    <2>1. Running \subseteq childWorkers
        BY DEF IInv, StartedInv
    <2>2. IsFiniteSet(childWorkers) /\ Cardinality(childWorkers) \in Nat
        BY WorkersFact DEF IInv
    <2>3. Cardinality(Running) <= Cardinality(childWorkers) /\ Cardinality(Running) \in Nat
        BY <2>1, <2>2, FS_Subset, FS_CardinalityType
    <2>4. Cardinality(childWorkers) <= Slots
        BY <2>2, SlotsAssumption DEF IInv, SlotInv, Starting, TypeOK
    <2>5. Cardinality(Running) <= Slots
        BY <2>2, <2>3, <2>4, SlotsAssumption
    <2> QED
        BY <2>5 DEF SlotsAccounted, IInv, SlotInv
<1> QED
    BY <1>1, Invariance, PTL

(* A tool starts only when every tool of the earlier batches succeeded.    *)
THEOREM BatchesAreInOrder == Spec => []BatchesInOrder
<1>1. IInv => BatchesInOrder
    <2> SUFFICES ASSUME IInv, NEW p \in Position, NEW q \in Position,
                        p[1] < q[1], child[CommandAt(q)] # "none"
                 PROVE  child[CommandAt(p)] = "ok"
        BY DEF BatchesInOrder
    <2>1. p[1] < batch
        BY PositionFact DEF IInv, StartedInv, Before, TypeOK
    <2> QED
        BY <2>1 DEF IInv, OutcomeInv
<1> QED
    BY <1>1, Invariance, PTL

(* Job::Execute returns TRUE when every command succeeded and only then:   *)
(* no failure is forgotten between rounds and none is made up.             *)
THEOREM ResultIsRight == Spec => []ResultIsExact
<1>1. IInv /\ FailInv => ResultIsExact
    <2> SUFFICES ASSUME IInv, FailInv, main \in {"unwind", "returned"}
                 PROVE  result <=> \A p \in Position : child[CommandAt(p)] = "ok"
        BY DEF ResultIsExact
    <2>1. ASSUME result, NEW p \in Position
          PROVE  child[CommandAt(p)] = "ok"
        <3>1. batch > Len(commandList)
            BY <2>1 DEF IInv, OutcomeInv
        <3>2. child[CommandAt(p)] # "none" /\ CommandAt(p) \in Cmd
            BY <3>1, PositionFact DEF IInv, StartedInv, Before, TypeOK
        <3>3. CommandAt(p) \notin childWorkers
            BY <3>1, PositionFact DEF IInv, StartedInv, TypeOK
        <3>4. ~Failing
            BY <2>1 DEF Failing
        <3> QED
            BY <3>2, <3>3, <3>4 DEF IInv, OutcomeInv
    <2>2. ASSUME ~result
          PROVE  \E p \in Position : child[CommandAt(p)] # "ok"
        <3>1. Missed
            BY <2>2 DEF FailInv, Failing
        <3> QED
            BY <3>1 DEF Missed
    <2> QED
        BY <2>1, <2>2
<1> QED
    BY <1>1, Invariance, FailuresHaveCauses, PTL

(* The handler and the main thread never delete the files together, and    *)
(* the main thread not while its own threads copy.                         *)
THEOREM DeletionIsAlwaysExclusive == Spec => []DeletionIsExclusive
<1>1. IInv => DeletionIsExclusive
    BY DEF IInv, TypeOK, DeleteInv, DeletionIsExclusive, Exited, Process
<1> QED
    BY <1>1, Invariance, PTL

(* A deletion lets at most one more command start.                         *)
THEOREM OneLateAtMost == Spec => []AtMostOneLate
<1>1. IInv => AtMostOneLate
    BY FS_EmptySet, FS_Singleton DEF IInv, LateInv, AtMostOneLate
<1> QED
    BY <1>1, Invariance, PTL
=============================================================================
