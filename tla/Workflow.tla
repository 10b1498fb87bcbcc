------------------------------ MODULE Workflow ------------------------------
(***************************************************************************)
(* One workflow of orchestration.Manager, from the creation of the        *)
(* resource row to its last status, with everything that touches it: the  *)
(* request that submits it, the goroutines of the reply consumer, the     *)
(* operators' task replays, the compensation loop, the task broker and    *)
(* the workers.  Workflows of different resources share no row, so one is *)
(* enough.                                                                *)
(*                                                                        *)
(* The code runs no transaction across statements and takes no lock, so   *)
(* an action is ONE SQL statement or ONE broker call, and the processes   *)
(* interleave between any two of them.  The one exception is CompInFlight, *)
(* which reads the rows of tasks and asks the broker about each in a step. *)
(***************************************************************************)
EXTENDS Naturals, FiniteSets

CONSTANTS
  NumSteps,        \* steps of the workflow: 3 for a VPC, 2 for a subnet or a PCCN
  Submitter,       \* the HTTP request that creates the resource
  Consumers,       \* goroutines of the reply consumer (Concurrency: 2)
  Replayers,       \* requests that replay a failed task
  MayFail,         \* steps whose device operation may report an error
  MaxRetries,      \* retries the broker grants a step task
  TimeoutsFire,    \* whether staleWorkflowTimeout can elapse
  MaxPublishes,    \* BOUND on the step tasks handed to the broker
  MaxFaults,       \* BOUND on failed statements, failed calls and crashes
  MaxRedeliveries, \* BOUND on step tasks run again after their reply
  MaxReplays       \* BOUND on accepted replays

Steps   == 1..NumSteps
TaskIds == 1..MaxPublishes
Procs   == {Submitter} \cup Consumers \cup Replayers

ASSUME ConstantsAssumption ==
  /\ NumSteps \in Nat \ {0}
  /\ MaxPublishes \in Nat
  /\ MaxRetries \in Nat
  /\ MayFail \subseteq Steps
  /\ TimeoutsFire \in BOOLEAN
  /\ {MaxFaults, MaxRedeliveries, MaxReplays} \subseteq Nat
  /\ Submitter \notin Consumers \cup Replayers
  /\ Consumers \cap Replayers = {}

VARIABLES
  rowStatus,       \* status of the resource row ("absent" before the INSERT)
  totalTasks,      \* its total_tasks, completed_tasks and failed_tasks
  completedTasks,
  failedTasks,
  aged,            \* its updated_at is older than staleWorkflowTimeout
  taskStatus,      \* status of each row of tasks ("none" before BatchCreate)
  asynqId,         \* asynq_task_id of each row of tasks, 0 when empty
  broker,          \* the step tasks known to the broker
  replies,         \* how many copies of each reply the reply queue holds
  pc,              \* next statement of each process of AZ NSP
  step,            \* the task row a process is about to publish or has published
  ref,             \* the broker task a process has published or will rerun
  held,            \* the reply a consumer is handling
  comp,            \* the compensation loop: next statement and what it has read
  executed,        \* (history) steps a worker has carried out on the device
  used             \* how much of each bound is spent

rowVars    == <<rowStatus, totalTasks, completedTasks, failedTasks, aged>>
taskVars   == <<taskStatus, asynqId>>
brokerVars == <<broker, replies>>
procVars   == <<pc, step, ref, held>>
vars == <<rowVars, taskVars, brokerVars, procVars, comp, executed, used>>

RowStatuses  == {"absent", "pending", "creating", "running", "failed"}
TaskStatuses == {"none", "pending", "queued", "completed", "failed"}
\* A worker has "succeeded" or "erred" when its handler is about to return.
TaskStates   == {"free", "pending", "retry", "succeeded", "erred", "done", "archived"}
\* What the handler published: success, a failure to be retried, the last failure.
ReplyKinds   == {"success", "retrying", "final"}
Labels       == {"create", "insert", "total", "creating", "publish", "mark", "failTask",
                 "failCount", "failRow", "stop", "idle", "result", "count", "next",
                 "settle", "ack", "reset", "rerun"}
Reply        == [step : Steps, kind : ReplyKinds]
NoReply      == [step |-> 0, kind |-> "none"]
FreeTask     == [state |-> "free", step |-> 0, retried |-> 0]

-----------------------------------------------------------------------------
(* Faults and other bounded events. *)

Kinds == {"fault", "redelivery", "replay"}

Limit == [fault |-> MaxFaults, redelivery |-> MaxRedeliveries, replay |-> MaxReplays]

Spend(kind) ==
  /\ used[kind] < Limit[kind]
  /\ used' = [used EXCEPT ![kind] = @ + 1]

-----------------------------------------------------------------------------
(* The statements of the DAOs. *)

UpdateRowStatus(s) == rowStatus' = s /\ aged' = FALSE

UpdateTask(i, s) == taskStatus' = [taskStatus EXCEPT ![i] = s]

\* The pending row with the lowest task_order, if there is one.
NextPending ==
  {i \in Steps : /\ taskStatus[i] = "pending"
                 /\ \A j \in 1..(i - 1) : taskStatus[j] # "pending"}

Goto(p, label) == pc' = [pc EXCEPT ![p] = label]

Enqueue(r) == replies' = [replies EXCEPT ![r] = @ + 1]

-----------------------------------------------------------------------------
(* publishTask: the broker call, then UpdateQueued.  The submitter, the   *)
(* consumers and the replayers all end in it.                             *)

Publish(p, b) ==
  /\ pc[p] = "publish"
  /\ broker[b].state = "free"
  /\ \A a \in 1..(b - 1) : broker[a].state # "free"
  /\ broker' = [broker EXCEPT ![b] = [state |-> "pending", step |-> step[p], retried |-> 0]]
  /\ ref' = [ref EXCEPT ![p] = b]
  /\ Goto(p, "mark")
  /\ UNCHANGED <<rowVars, taskVars, replies, step, held, comp, executed, used>>

\* Where a process goes when its call returns without an error.
Returned(p) == IF p = Submitter THEN "stop"
               ELSE IF p \in Consumers THEN "ack" ELSE "idle"

Forget(p) == /\ step' = [step EXCEPT ![p] = 0]
             /\ ref'  = [ref EXCEPT ![p] = 0]

MarkQueued(p) ==
  /\ pc[p] = "mark"
  /\ UpdateTask(step[p], "queued")
  /\ asynqId' = [asynqId EXCEPT ![step[p]] = ref[p]]
  /\ Goto(p, Returned(p))
  /\ Forget(p)
  /\ UNCHANGED <<rowVars, brokerVars, held, comp, executed, used>>

-----------------------------------------------------------------------------
(* The create request: INSERT of the row, then SubmitWorkflow. *)

CreateRow ==
  /\ pc[Submitter] = "create"
  /\ UpdateRowStatus("pending")
  /\ Goto(Submitter, "insert")
  /\ UNCHANGED <<totalTasks, completedTasks, failedTasks, taskVars, brokerVars,
                 step, ref, held, comp, executed, used>>

BatchCreate ==
  /\ pc[Submitter] = "insert"
  /\ taskStatus' = [i \in Steps |-> "pending"]
  /\ Goto(Submitter, "total")
  /\ UNCHANGED <<rowVars, asynqId, brokerVars, step, ref, held, comp, executed, used>>

\* Slip: one task too few.
UpdateTotalTasksShort ==
  /\ pc[Submitter] = "total"
  /\ totalTasks' = NumSteps - 1
  /\ aged' = FALSE
  /\ Goto(Submitter, "creating")
  /\ UNCHANGED <<rowStatus, completedTasks, failedTasks, taskVars, brokerVars,
                 step, ref, held, comp, executed, used>>

UpdateTotalTasks ==
  /\ pc[Submitter] = "total"
  /\ totalTasks' = NumSteps
  /\ aged' = FALSE
  /\ Goto(Submitter, "creating")
  /\ UNCHANGED <<rowStatus, completedTasks, failedTasks, taskVars, brokerVars,
                 step, ref, held, comp, executed, used>>

SetCreating ==
  /\ pc[Submitter] = "creating"
  /\ UpdateRowStatus("creating")
  /\ Goto(Submitter, "publish")
  /\ step' = [step EXCEPT ![Submitter] = 1]
  /\ UNCHANGED <<totalTasks, completedTasks, failedTasks, taskVars, brokerVars,
                 ref, held, comp, executed, used>>

\* The first publishTask returned an error: three statements whose own errors
\* are ignored (ok is FALSE when the statement fails).
FailFirstTask(ok) ==
  /\ pc[Submitter] = "failTask"
  /\ IF ok THEN UpdateTask(1, "failed") /\ UNCHANGED used
           ELSE Spend("fault") /\ UNCHANGED taskStatus
  /\ Goto(Submitter, "failCount")
  /\ UNCHANGED <<rowVars, asynqId, brokerVars, step, ref, held, comp, executed>>

FailFirstCount(ok) ==
  /\ pc[Submitter] = "failCount"
  /\ IF ok THEN failedTasks' = failedTasks + 1 /\ aged' = FALSE /\ UNCHANGED used
           ELSE Spend("fault") /\ UNCHANGED <<failedTasks, aged>>
  /\ Goto(Submitter, "failRow")
  /\ UNCHANGED <<rowStatus, totalTasks, completedTasks, taskVars, brokerVars,
                 step, ref, held, comp, executed>>

FailFirstRow(ok) ==
  /\ pc[Submitter] = "failRow"
  /\ IF ok THEN UpdateRowStatus("failed") /\ UNCHANGED used
           ELSE Spend("fault") /\ UNCHANGED <<rowStatus, aged>>
  /\ Goto(Submitter, "stop")
  /\ UNCHANGED <<totalTasks, completedTasks, failedTasks, taskVars, brokerVars,
                 step, ref, held, comp, executed>>

\* A statement of SubmitWorkflow, or its publishTask, returns an error.
SubmitError ==
  /\ Spend("fault")
  /\ \/ pc[Submitter] \in {"create", "insert", "total", "creating"} /\ Goto(Submitter, "stop")
     \/ pc[Submitter] \in {"publish", "mark"} /\ Goto(Submitter, "failTask")
  /\ Forget(Submitter)
  /\ UNCHANGED <<rowVars, taskVars, brokerVars, held, comp, executed>>

\* The process dies during the request: nobody resumes it.
SubmitCrash ==
  /\ pc[Submitter] \notin {"create", "stop"}
  /\ Spend("fault")
  /\ Goto(Submitter, "stop")
  /\ Forget(Submitter)
  /\ UNCHANGED <<rowVars, taskVars, brokerVars, held, comp, executed>>

Submit ==
  \/ CreateRow \/ BatchCreate \/ UpdateTotalTasks \/ SetCreating
  \/ \E ok \in BOOLEAN : FailFirstTask(ok) \/ FailFirstCount(ok) \/ FailFirstRow(ok)
  \/ SubmitError \/ SubmitCrash

-----------------------------------------------------------------------------
(* HandleReply, by a goroutine of the reply consumer. *)

\* Slip: a reply is also ignored until UpdateQueued has run.
NotQueued(s) == s # "queued"

\* A reply about a row with this status is a duplicate.
Finished(s) == s \in {"completed", "failed"}

\* Slip: the last failure is stored as a completion.
ResultCompleted == [success |-> "completed", final |-> "completed", retrying |-> "queued"]

\* What UpdateResult, or UpdateRetryProgress, stores for each kind of reply.
ResultStatus == [success |-> "completed", final |-> "failed", retrying |-> "queued"]

\* Slip: the last step but one counts as the last.
NearlyLast(i) == i >= NumSteps - 1

LastStep(i) == i = NumSteps

\* Take a reply and read the task row; drop the reply if the row is finished.
ReceiveReply(c, r) ==
  /\ pc[c] = "idle"
  /\ replies[r] > 0
  /\ replies' = [replies EXCEPT ![r] = @ - 1]
  /\ IF Finished(taskStatus[r.step])
       THEN UNCHANGED <<pc, held>>
       ELSE Goto(c, "result") /\ held' = [held EXCEPT ![c] = r]
  /\ UNCHANGED <<rowVars, taskVars, broker, step, ref, comp, executed, used>>

RecordResult(c) ==
  /\ pc[c] = "result"
  /\ UpdateTask(held[c].step, ResultStatus[held[c].kind])
  /\ Goto(c, IF held[c].kind = "retrying" THEN "ack" ELSE "count")
  /\ UNCHANGED <<rowVars, asynqId, brokerVars, step, ref, held, comp, executed, used>>

\* IncrementCompletedTasks or IncrementFailedTasks.
CountResult(c) ==
  /\ pc[c] = "count"
  /\ IF held[c].kind = "success"
       THEN completedTasks' = completedTasks + 1 /\ UNCHANGED failedTasks
       ELSE failedTasks' = failedTasks + 1 /\ UNCHANGED completedTasks
  /\ aged' = FALSE
  /\ Goto(c, IF held[c].kind = "success" /\ ~LastStep(held[c].step) THEN "next" ELSE "settle")
  /\ UNCHANGED <<rowStatus, totalTasks, taskVars, brokerVars, step, ref, held,
                 comp, executed, used>>

\* The last step succeeded, or a step failed for good: write the row's status.
SettleRow(c) ==
  /\ pc[c] = "settle"
  /\ UpdateRowStatus(IF held[c].kind = "success" THEN "running" ELSE "failed")
  /\ Goto(c, "ack")
  /\ UNCHANGED <<totalTasks, completedTasks, failedTasks, taskVars, brokerVars,
                 step, ref, held, comp, executed, used>>

\* GetNextPendingTask: whichever row is pending now, not the one after held[c].step.
PickNext(c) ==
  /\ pc[c] = "next"
  /\ \E i \in NextPending : step' = [step EXCEPT ![c] = i]
  /\ Goto(c, "publish")
  /\ UNCHANGED <<rowVars, taskVars, brokerVars, ref, held, comp, executed, used>>

AckReply(c) ==
  /\ pc[c] = "ack"
  /\ Goto(c, "idle")
  /\ held' = [held EXCEPT ![c] = NoReply]
  /\ UNCHANGED <<rowVars, taskVars, brokerVars, step, ref, comp, executed, used>>

\* HandleReply returns an error, or the process dies: the broker delivers the
\* reply again, to be handled from the start.
ReturnReply(c) ==
  /\ Enqueue(held[c])
  /\ Goto(c, "idle")
  /\ held' = [held EXCEPT ![c] = NoReply]
  /\ Forget(c)
  /\ UNCHANGED <<rowVars, taskVars, broker, comp, executed>>

NothingPending(c) ==
  /\ pc[c] = "next"
  /\ NextPending = {}
  /\ ReturnReply(c)
  /\ UNCHANGED used

ConsumerError(c) ==
  /\ pc[c] # "idle"
  /\ Spend("fault")
  /\ ReturnReply(c)

Consume(c) ==
  \/ \E r \in Reply : ReceiveReply(c, r)
  \/ RecordResult(c) \/ CountResult(c) \/ SettleRow(c) \/ PickNext(c) \/ AckReply(c)
  \/ NothingPending(c) \/ ConsumerError(c)

-----------------------------------------------------------------------------
(* ReplayTask. *)

\* Slip: any row that is not with the broker.
ReplayableAtRest(s) == s \notin {"none", "queued"}

Replayable(s) == s = "failed"

AcceptReplay(p, i) ==
  /\ pc[p] = "idle"
  /\ Replayable(taskStatus[i])
  /\ Spend("replay")
  /\ step' = [step EXCEPT ![p] = i]
  /\ ref'  = [ref EXCEPT ![p] = asynqId[i]]
  /\ Goto(p, "reset")
  /\ UNCHANGED <<rowVars, taskVars, brokerVars, held, comp, executed>>

ResetRow(p) ==
  /\ pc[p] = "reset"
  /\ UpdateRowStatus("creating")
  /\ Goto(p, "rerun")
  /\ UNCHANGED <<totalTasks, completedTasks, failedTasks, taskVars, brokerVars,
                 step, ref, held, comp, executed, used>>

Rerunnable(b) == b \in TaskIds /\ broker[b].state \in {"retry", "archived"}

RunTask(p) ==
  /\ pc[p] = "rerun"
  /\ Rerunnable(ref[p])
  /\ broker' = [broker EXCEPT ![ref[p]].state = "pending"]
  /\ Goto(p, "mark")
  /\ UNCHANGED <<rowVars, taskVars, replies, step, ref, held, comp, executed, used>>

\* The old broker task is gone or cannot be read: publish a new one.
FallBackToPublish(p) ==
  /\ pc[p] = "rerun"
  /\ IF Rerunnable(ref[p]) THEN Spend("fault") ELSE UNCHANGED used
  /\ ref' = [ref EXCEPT ![p] = 0]
  /\ Goto(p, "publish")
  /\ UNCHANGED <<rowVars, taskVars, brokerVars, step, held, comp, executed>>

ReplayError(p) ==
  /\ pc[p] # "idle"
  /\ Spend("fault")
  /\ Goto(p, "idle")
  /\ Forget(p)
  /\ UNCHANGED <<rowVars, taskVars, brokerVars, held, comp, executed>>

Replay(p) ==
  \/ \E i \in Steps : AcceptReplay(p, i)
  \/ ResetRow(p) \/ RunTask(p) \/ FallBackToPublish(p) \/ ReplayError(p)

-----------------------------------------------------------------------------
(* The broker and the workers.  An operation on the device and the reply  *)
(* about it come before the broker hears that the handler has returned.   *)

Runnable(b) == broker[b].state \in {"pending", "retry"}

SetTask(b, state) == broker' = [broker EXCEPT ![b].state = state]

WorkerSucceeds(b) ==
  /\ Runnable(b)
  /\ SetTask(b, "succeeded")
  /\ executed' = executed \cup {broker[b].step}
  /\ Enqueue([step |-> broker[b].step, kind |-> "success"])
  /\ UNCHANGED <<rowVars, taskVars, procVars, comp, used>>

\* Slip: one retry too many is awaited.
FailureKindLate(b) == IF broker[b].retried > MaxRetries THEN "final" ELSE "retrying"

\* retryContext: the failure is final once the broker grants no more retries.
FailureKind(b) == IF broker[b].retried >= MaxRetries THEN "final" ELSE "retrying"

WorkerFails(b) ==
  /\ Runnable(b)
  /\ broker[b].step \in MayFail
  /\ SetTask(b, "erred")
  /\ Enqueue([step |-> broker[b].step, kind |-> FailureKind(b)])
  /\ UNCHANGED <<rowVars, taskVars, procVars, comp, executed, used>>

\* The reply cannot be published, or the worker dies before publishing it,
\* with the device operation done or not.
WorkerLosesReply(b) ==
  /\ Runnable(b)
  /\ Spend("fault")
  /\ SetTask(b, "erred")
  /\ executed' \in {executed, executed \cup {broker[b].step}}
  /\ UNCHANGED <<rowVars, taskVars, replies, procVars, comp>>

\* The worker dies, or is stopped, after its success reply: the task runs again.
WorkerRedelivered(b) ==
  /\ broker[b].state = "succeeded"
  /\ Spend("redelivery")
  /\ SetTask(b, "erred")
  /\ UNCHANGED <<rowVars, taskVars, replies, procVars, comp, executed>>

HandlerReturns(b) ==
  /\ \/ /\ broker[b].state = "succeeded"
        /\ SetTask(b, "done")
     \/ /\ broker[b].state = "erred" /\ broker[b].retried < MaxRetries
        /\ broker' = [broker EXCEPT ![b].state = "retry", ![b].retried = @ + 1]
     \/ /\ broker[b].state = "erred" /\ broker[b].retried >= MaxRetries
        /\ SetTask(b, "archived")
  /\ UNCHANGED <<rowVars, taskVars, replies, procVars, comp, executed, used>>

Work(b) ==
  \/ WorkerSucceeds(b) \/ WorkerFails(b) \/ WorkerLosesReply(b)
  \/ WorkerRedelivered(b) \/ HandlerReturns(b)

-----------------------------------------------------------------------------
(* compensateResource, on the row as ListAll returned it. *)

CompIdle == [pc |-> "idle", aged |-> FALSE, total |-> 0, verdict |-> "none"]

CompSnapshot ==
  /\ comp.pc = "idle"
  /\ rowStatus \in {"pending", "creating"}
  /\ comp' = [pc |-> "stats", aged |-> aged, total |-> totalTasks, verdict |-> "none"]
  /\ UNCHANGED <<rowVars, taskVars, brokerVars, procVars, executed, used>>

\* Slip: one completed row is enough.
SomeCompleted == \E i \in Steps : taskStatus[i] = "completed"

\* Slip: the resource row's counter is trusted instead of the rows of tasks.
CountedCompleted == completedTasks = NumSteps

AllCompleted == \A i \in Steps : taskStatus[i] = "completed"

\* GetTaskStats, and what it decides.  There are no rows or NumSteps of them.
CompStats ==
  /\ comp.pc = "stats"
  /\ comp' = IF comp.total = 0 /\ \A i \in Steps : taskStatus[i] = "none" THEN CompIdle
             ELSE IF AllCompleted
               THEN [comp EXCEPT !.pc = "write", !.verdict = "running"]
             ELSE IF \E i \in Steps : taskStatus[i] = "failed"
               THEN [comp EXCEPT !.pc = "write", !.verdict = "failed"]
             ELSE [comp EXCEPT !.pc = "inflight"]
  /\ UNCHANGED <<rowVars, taskVars, brokerVars, procVars, executed, used>>

\* Slip: judged by the row's status alone.
InFlightByStatus(i) == taskStatus[i] = "queued"

\* The row with an asynq id is judged by the broker alone, the others by status.
InFlight(i) ==
  IF asynqId[i] # 0
    THEN broker[asynqId[i]].state \in {"pending", "retry", "succeeded", "erred"}
    ELSE taskStatus[i] = "queued"

\* Slip: a workflow that has only just moved is failed too.
CompInFlightImpatient(ok) ==
  /\ comp.pc = "inflight"
  /\ IF ok THEN UNCHANGED used ELSE Spend("fault")
  /\ comp' = IF ok /\ \E i \in Steps : InFlight(i) THEN CompIdle
             ELSE [comp EXCEPT !.pc = "write", !.verdict = "failed"]
  /\ UNCHANGED <<rowVars, taskVars, brokerVars, procVars, executed>>

\* resourceHasInFlightBrokerTask answers "no" when it cannot read (ok = FALSE).
CompInFlight(ok) ==
  /\ comp.pc = "inflight"
  /\ IF ok THEN UNCHANGED used ELSE Spend("fault")
  /\ comp' = IF (ok /\ \E i \in Steps : InFlight(i)) \/ ~comp.aged THEN CompIdle
             ELSE [comp EXCEPT !.pc = "write", !.verdict = "failed"]
  /\ UNCHANGED <<rowVars, taskVars, brokerVars, procVars, executed>>

CompWrite ==
  /\ comp.pc = "write"
  /\ UpdateRowStatus(comp.verdict)
  /\ comp' = CompIdle
  /\ UNCHANGED <<totalTasks, completedTasks, failedTasks, taskVars, brokerVars,
                 procVars, executed, used>>

\* GetTaskStats or UpdateStatus fails: the loop goes on to the next resource.
CompError ==
  /\ comp.pc \in {"stats", "write"}
  /\ Spend("fault")
  /\ comp' = CompIdle
  /\ UNCHANGED <<rowVars, taskVars, brokerVars, procVars, executed>>

Compensate ==
  \/ CompSnapshot \/ CompStats \/ CompWrite \/ CompError
  \/ \E ok \in BOOLEAN : CompInFlight(ok)

\* staleWorkflowTimeout elapses with no write to the row.  Only the loop reads the age,
\* of rows with these statuses, and every write of a status renews it.
Elapse ==
  /\ TimeoutsFire
  /\ rowStatus \in {"pending", "creating"}
  /\ ~aged
  /\ aged' = TRUE
  /\ UNCHANGED <<rowStatus, totalTasks, completedTasks, failedTasks, taskVars,
                 brokerVars, procVars, comp, executed, used>>

-----------------------------------------------------------------------------

Init ==
  /\ rowStatus = "absent"
  /\ totalTasks = 0 /\ completedTasks = 0 /\ failedTasks = 0
  /\ aged = FALSE
  /\ taskStatus = [i \in Steps |-> "none"]
  /\ asynqId = [i \in Steps |-> 0]
  /\ broker = [b \in TaskIds |-> FreeTask]
  /\ replies = [r \in Reply |-> 0]
  /\ pc = [p \in Procs |-> IF p = Submitter THEN "create" ELSE "idle"]
  /\ step = [p \in Procs |-> 0]
  /\ ref = [p \in Procs |-> 0]
  /\ held = [c \in Consumers |-> NoReply]
  /\ comp = CompIdle
  /\ executed = {}
  /\ used = [kind \in Kinds |-> 0]

PublishTask(p) == (\E b \in TaskIds : Publish(p, b)) \/ MarkQueued(p)

Next ==
  \/ Submit
  \/ \E p \in Procs : PublishTask(p)
  \/ \E c \in Consumers : Consume(c)
  \/ \E p \in Replayers : Replay(p)
  \/ \E b \in TaskIds : Work(b)
  \/ Compensate
  \/ Elapse

Spec == Init /\ [][Next]_vars

-----------------------------------------------------------------------------
(* Fairness: AZ NSP's goroutines, the broker and the workers keep running; *)
(* nothing obliges a fault, an operator's replay or a redelivery.          *)

SubmitterRuns ==
  \/ CreateRow \/ BatchCreate \/ UpdateTotalTasks \/ SetCreating
  \/ FailFirstTask(TRUE) \/ FailFirstCount(TRUE) \/ FailFirstRow(TRUE)
  \/ PublishTask(Submitter)

ConsumerRuns(c) ==
  \/ \E r \in Reply : ReceiveReply(c, r)
  \/ RecordResult(c) \/ CountResult(c) \/ SettleRow(c) \/ PickNext(c) \/ AckReply(c)
  \/ NothingPending(c) \/ PublishTask(c)

ReplayerRuns(p) ==
  \/ ResetRow(p) \/ RunTask(p) \/ (~Rerunnable(ref[p]) /\ FallBackToPublish(p))
  \/ PublishTask(p)

Fairness ==
  /\ WF_vars(SubmitterRuns)
  /\ \A c \in Consumers : WF_vars(ConsumerRuns(c))
  /\ \A p \in Replayers : WF_vars(ReplayerRuns(p))
  /\ \A b \in TaskIds : WF_vars(WorkerSucceeds(b) \/ WorkerFails(b) \/ HandlerReturns(b))
  /\ WF_vars(CompSnapshot \/ CompStats \/ CompInFlight(TRUE) \/ CompWrite)
  /\ WF_vars(Elapse)

FairSpec == Spec /\ Fairness

-----------------------------------------------------------------------------

RowType ==
  /\ rowStatus \in RowStatuses
  /\ totalTasks \in {0, NumSteps}
  /\ completedTasks \in Nat /\ failedTasks \in Nat
  /\ aged \in BOOLEAN

TaskType ==
  /\ taskStatus \in [Steps -> TaskStatuses]
  /\ asynqId \in [Steps -> 0..MaxPublishes]

BrokerType ==
  /\ broker \in [TaskIds -> [state : TaskStates, step : 0..NumSteps, retried : Nat]]
  /\ replies \in [Reply -> Nat]

ProcType ==
  /\ pc \in [Procs -> Labels]
  /\ step \in [Procs -> 0..NumSteps]
  /\ ref \in [Procs -> 0..MaxPublishes]
  /\ held \in [Consumers -> Reply \cup {NoReply}]

CompType ==
  /\ comp \in [pc : {"idle", "stats", "inflight", "write"}, aged : BOOLEAN,
               total : {0, NumSteps}, verdict : {"none", "running", "failed"}]
  /\ comp.pc = "write" => comp.verdict # "none"

\* Every variable keeps its type.
TypeOK ==
  /\ RowType /\ TaskType /\ BrokerType /\ ProcType /\ CompType
  /\ executed \subseteq Steps
  /\ used \in [Kinds -> Nat]

(* Safety that holds whatever is lost, repeated, retried or crashes. *)

Published(i) == \E b \in TaskIds : broker[b].state # "free" /\ broker[b].step = i

\* Every step before i has left 'pending'.
Passed(i) == \A j \in 1..(i - 1) : taskStatus[j] \notin {"none", "pending"}

\* GetNextPendingTask never leaves a step behind: when a step has been handed
\* to the broker, every earlier row of tasks has left 'pending' -- also when
\* two goroutines read the next pending row at once.
NoStepSkipped == \A i \in Steps : Published(i) => Passed(i)

\* A task row says 'completed' only for a step some worker has carried out:
\* no reply of another step, no replay and no compensation can say it.
CompletedWasExecuted ==
  \A i \in Steps : taskStatus[i] = "completed" => i \in executed

\* A row is 'running' only after a worker has carried out the last step,
\* whether HandleReply or the compensation loop wrote it.
RunningIsLast == rowStatus = "running" => NumSteps \in executed

(* The inductive invariant behind the three. *)

\* The rows of tasks appear together, before anything is published.
NotInserted ==
  /\ \A i \in Steps : taskStatus[i] = "none"
  /\ pc[Submitter] \in {"create", "insert", "stop"}
  /\ \A p \in Consumers \cup Replayers : pc[p] = "idle"
  /\ \A b \in TaskIds : broker[b].state = "free"
  /\ \A r \in Reply : replies[r] = 0

Inserted ==
  /\ \A i \in Steps : taskStatus[i] # "none"
  /\ pc[Submitter] \notin {"create", "insert"}

InsertedAtOnce == NotInserted \/ Inserted

\* Wherever a step is named -- by a row, a broker task, a reply or a process --
\* the steps before it have left 'pending'.
RowsPassed    == \A i \in Steps : taskStatus[i] \notin {"none", "pending"} => Passed(i)
BrokerPassed  == \A b \in TaskIds : broker[b].state # "free" =>
                   broker[b].step \in Steps /\ Passed(broker[b].step)
RepliesPassed == \A r \in Reply : replies[r] > 0 => Passed(r.step)
HeldPassed    == \A c \in Consumers : pc[c] # "idle" =>
                   held[c] \in Reply /\ Passed(held[c].step)
ProcsPassed   == \A p \in Procs : pc[p] \in {"publish", "mark", "reset", "rerun"} =>
                   step[p] \in Steps /\ Passed(step[p])

PendingIsASuffix == RowsPassed /\ BrokerPassed /\ RepliesPassed /\ HeldPassed /\ ProcsPassed

\* Whoever claims that a step succeeded has a worker's success behind it.
RepliesEarned == \A r \in Reply : replies[r] > 0 /\ r.kind = "success" => r.step \in executed
HeldEarned    == \A c \in Consumers : pc[c] # "idle" /\ held[c].kind = "success" =>
                   /\ held[c].step \in executed
                   /\ pc[c] = "settle" => held[c].step = NumSteps
VerdictEarned == comp.verdict = "running" => NumSteps \in executed

ClaimsAreEarned ==
  CompletedWasExecuted /\ RepliesEarned /\ HeldEarned /\ VerdictEarned /\ RunningIsLast

SafetyInv == TypeOK /\ InsertedAtOnce /\ PendingIsASuffix /\ ClaimsAreEarned

-----------------------------------------------------------------------------
(* Safety of the executions in which no statement fails, no finished task *)
(* is run again and one operator at most replays.                         *)

\* The devices are configured in the order of the steps.
ExecutedInOrder == \A i \in executed : 1..i \subseteq executed

\* A row is 'running' only when every step has been carried out.
RunningIsComplete == rowStatus = "running" => executed = Steps

\* IncrementCompletedTasks counts no step twice and none that no worker has carried
\* out, although replies, replays and the goroutines that handle them overlap.
CountedOnce == completedTasks <= Cardinality(executed)

\* Until an operator replays a task, only one thing takes 'running' back: the
\* compensation loop with a listing in which the row was older than
\* staleWorkflowTimeout, when a late reply has completed the workflow since.  It
\* writes 'failed' without looking again, and leaves a 'failed' row alone from then on.
\* Neither a verdict from the rows of tasks nor a late report of a failure does it.
RunningStays ==
  [][(rowStatus = "running" /\ rowStatus' # "running" /\ used["replay"] = 0) =>
       comp.pc = "write" /\ comp.verdict = "failed" /\ comp.aged]_vars

-----------------------------------------------------------------------------
(* Liveness. *)

\* Once every step is carried out the row becomes 'running'.
ExecutedIsRecorded == executed = Steps ~> rowStatus = "running"

\* When every task row is completed and nobody works on the workflow any more,
\* a row still 'creating' becomes 'running' although its process died before the
\* statement that says so: the redelivered reply is dropped as a duplicate, and
\* the next round of the compensation loop writes the status.
CompletedIsRepaired ==
  /\ \A i \in Steps : taskStatus[i] = "completed"
  /\ rowStatus = "creating"
  /\ \A p \in Procs : pc[p] \in {"stop", "idle"}
  /\ comp.pc = "idle"
  ~> rowStatus = "running"

\* No row stays 'creating': it is 'running' or 'failed' in the end.
Settles == rowStatus = "creating" ~> rowStatus \in {"running", "failed"}

\* A row of tasks that UpdateRetryProgress has set to 'queued' and that holds no broker
\* id, because the process died between the publication and UpdateQueued.
Orphan(i) == taskStatus[i] = "queued" /\ asynqId[i] = 0

\* Statements may fail, processes die, replies be lost and timeouts elapse: a row stays
\* 'creating' for ever only behind an orphan, which the compensation loop takes to be
\* with the broker; every other row is 'running' or 'failed' in the end.
SettlesButForOrphans ==
  rowStatus = "creating" ~> \/ rowStatus \in {"running", "failed"}
                            \/ \E i \in Steps : Orphan(i)

=============================================================================
