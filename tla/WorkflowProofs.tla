--------------------------- MODULE WorkflowProofs ---------------------------
(* The safety of Workflow for every number of steps, consumers, replayers, *)
(* retries, faults, redeliveries and replays.                              *)
EXTENDS Workflow, TLAPS

(***************************************************************************)
(* Type correctness.  The frame lemmas dispose of the groups of variables  *)
(* an action leaves alone.                                                 *)
(***************************************************************************)

\* The row keeps its type when nothing writes it.
LEMMA RowFrame == RowType /\ UNCHANGED rowVars => RowType'
  BY DEF RowType, rowVars

\* The rows of tasks keep their types when nothing writes them.
LEMMA TaskFrame == TaskType /\ UNCHANGED taskVars => TaskType'
  BY DEF TaskType, taskVars

\* The broker's tasks and the replies keep their types when nothing touches them.
LEMMA BrokerFrame == BrokerType /\ UNCHANGED brokerVars => BrokerType'
  BY DEF BrokerType, brokerVars

\* The processes keep their types when none of them moves.
LEMMA ProcFrame == ProcType /\ UNCHANGED procVars => ProcType'
  BY DEF ProcType, procVars

\* The compensation loop keeps its type when it does not move.
LEMMA CompFrame == CompType /\ UNCHANGED comp => CompType'
  BY DEF CompType

\* Who the processes of AZ NSP are.
LEMMA ProcNames ==
  Submitter \in Procs /\ Consumers \subseteq Procs /\ Replayers \subseteq Procs
  BY DEF Procs

\* Spending from a bound leaves a count.
LEMMA SpendType ==
  ASSUME used \in [Kinds -> Nat], NEW kind \in Kinds, Spend(kind) PROVE used' \in [Kinds -> Nat]
  BY DEF Spend

\* A process goes to a label.
LEMMA GotoType ==
  ASSUME ProcType, NEW p \in Procs, NEW l \in Labels, Goto(p, l) PROVE pc' \in [Procs -> Labels]
  BY DEF ProcType, Goto

\* A process that forgets its task holds none.
LEMMA ForgetType ==
  ASSUME ProcType, NEW p \in Procs, Forget(p)
  PROVE  step' \in [Procs -> 0..NumSteps] /\ ref' \in [Procs -> 0..MaxPublishes]
  BY ConstantsAssumption DEF ProcType, Forget

\* UpdateResult, UpdateRetryProgress and UpdateQueued store a task status.
LEMMA UpdateTaskType ==
  ASSUME TaskType, NEW i \in Steps, NEW s \in TaskStatuses, UpdateTask(i, s)
  PROVE  taskStatus' \in [Steps -> TaskStatuses]
  BY DEF TaskType, UpdateTask

\* UpdateStatus stores a resource status.
LEMMA RowStatusType ==
  ASSUME RowType, NEW s \in RowStatuses, UpdateRowStatus(s),
         UNCHANGED <<totalTasks, completedTasks, failedTasks>>
  PROVE  RowType'
  BY DEF RowType, UpdateRowStatus

\* The broker puts a task into one of its states.
LEMMA SetTaskType ==
  ASSUME BrokerType, NEW b \in TaskIds, NEW s \in TaskStates, SetTask(b, s)
  PROVE  broker' \in [TaskIds -> [state : TaskStates, step : 0..NumSteps, retried : Nat]]
  BY DEF BrokerType, SetTask

\* A published reply adds one to its copies.
LEMMA EnqueueType ==
  ASSUME BrokerType, NEW r \in Reply, Enqueue(r) PROVE replies' \in [Reply -> Nat]
  BY DEF BrokerType, Enqueue

\* UpdateResult and UpdateRetryProgress never put a row back to 'pending'.
LEMMA ResultStatusType ==
  ASSUME HeldPassed, NEW c \in Consumers, pc[c] # "idle"
  PROVE  /\ held[c].step \in Steps
         /\ ResultStatus[held[c].kind] \in {"queued", "completed", "failed"}
         /\ ResultStatus[held[c].kind] = "completed" => held[c].kind = "success"
<1>1. held[c] \in Reply
  BY DEF HeldPassed
<1> QED
  BY <1>1 DEF Reply, ReplyKinds, ResultStatus

\* The initial values have their types.
LEMMA InitType == Init => TypeOK
<1> SUFFICES ASSUME Init PROVE TypeOK
  OBVIOUS
<1> USE ConstantsAssumption DEF Init
<1>0. RowType
  BY DEF RowType, RowStatuses
<1>1. TaskType
  <2>1. 0 \in 0..MaxPublishes
    OBVIOUS
  <2> QED
    BY <2>1 DEF TaskType, TaskStatuses
<1>2. BrokerType
  BY DEF BrokerType, FreeTask, TaskStates
<1>3. ProcType
  BY DEF ProcType, Labels
<1>4. CompType
  BY DEF CompType, CompIdle
<1> QED
  BY <1>0, <1>1, <1>2, <1>3, <1>4 DEF TypeOK, Kinds

\* SubmitWorkflow keeps the types.
LEMMA SubmitType == TypeOK /\ Submit => TypeOK'
<1> SUFFICES ASSUME TypeOK, Submit PROVE TypeOK'
  OBVIOUS
<1> USE RowFrame, TaskFrame, BrokerFrame, ProcFrame, CompFrame, ProcNames DEF TypeOK
<1>1. CASE CreateRow
  <2>1. RowType'
    BY <1>1, RowStatusType DEF CreateRow, RowStatuses
  <2>2. ProcType'
    BY <1>1, GotoType DEF CreateRow, ProcType, Labels
  <2> QED
    BY <1>1, <2>1, <2>2 DEF CreateRow
<1>2. CASE BatchCreate
  <2>1. TaskType'
    BY <1>2 DEF BatchCreate, TaskType, TaskStatuses
  <2>2. ProcType'
    BY <1>2, GotoType DEF BatchCreate, ProcType, Labels
  <2> QED
    BY <1>2, <2>1, <2>2 DEF BatchCreate
<1>3. CASE UpdateTotalTasks
  <2>1. RowType'
    BY <1>3 DEF UpdateTotalTasks, RowType
  <2>2. ProcType'
    BY <1>3, GotoType DEF UpdateTotalTasks, ProcType, Labels
  <2> QED
    BY <1>3, <2>1, <2>2 DEF UpdateTotalTasks
<1>4. CASE SetCreating
  <2>1. RowType'
    BY <1>4, RowStatusType DEF SetCreating, RowStatuses
  <2>2. ProcType'
    <3>1. step' \in [Procs -> 0..NumSteps]
      BY <1>4, ConstantsAssumption DEF SetCreating, ProcType
    <3> QED
      BY <1>4, <3>1, GotoType DEF SetCreating, ProcType, Labels
  <2> QED
    BY <1>4, <2>1, <2>2 DEF SetCreating
<1>5. ASSUME NEW ok \in BOOLEAN, FailFirstTask(ok) PROVE TypeOK'
  <2>1. taskStatus' \in [Steps -> TaskStatuses]
    <3>1. CASE ok
      BY <1>5, <3>1 DEF FailFirstTask, UpdateTask, TaskType, TaskStatuses
    <3>2. CASE ~ok
      BY <1>5, <3>2 DEF FailFirstTask, TaskType
    <3> QED
      BY <3>1, <3>2
  <2>2. ProcType'
    BY <1>5, GotoType DEF FailFirstTask, ProcType, Labels
  <2>3. used' \in [Kinds -> Nat]
    BY <1>5, SpendType DEF FailFirstTask, Kinds
  <2> QED
    BY <1>5, <2>1, <2>2, <2>3 DEF FailFirstTask, TaskType
<1>6. ASSUME NEW ok \in BOOLEAN, FailFirstCount(ok) PROVE TypeOK'
  <2>1. RowType'
    <3>1. failedTasks' \in Nat
      <4>1. failedTasks \in Nat
        BY DEF RowType
      <4> HIDE DEF TypeOK
      <4> QED
        BY <1>6, <4>1 DEF FailFirstCount
    <3>2. aged' \in BOOLEAN
      BY <1>6 DEF FailFirstCount, RowType
    <3> QED
      BY <1>6, <3>1, <3>2 DEF FailFirstCount, RowType
  <2>2. ProcType'
    BY <1>6, GotoType DEF FailFirstCount, ProcType, Labels
  <2>3. used' \in [Kinds -> Nat]
    BY <1>6, SpendType DEF FailFirstCount, Kinds
  <2> QED
    BY <1>6, <2>1, <2>2, <2>3 DEF FailFirstCount
<1>7. ASSUME NEW ok \in BOOLEAN, FailFirstRow(ok) PROVE TypeOK'
  <2>1. RowType'
    BY <1>7 DEF FailFirstRow, RowType, UpdateRowStatus, RowStatuses
  <2>2. ProcType'
    BY <1>7, GotoType DEF FailFirstRow, ProcType, Labels
  <2>3. used' \in [Kinds -> Nat]
    BY <1>7, SpendType DEF FailFirstRow, Kinds
  <2> QED
    BY <1>7, <2>1, <2>2, <2>3 DEF FailFirstRow
<1>8. CASE SubmitError
  <2>1. ProcType'
    BY <1>8, GotoType, ForgetType DEF SubmitError, ProcType, Labels
  <2>2. used' \in [Kinds -> Nat]
    BY <1>8, SpendType DEF SubmitError, Kinds
  <2> QED
    BY <1>8, <2>1, <2>2 DEF SubmitError
<1>9. CASE SubmitCrash
  <2>1. ProcType'
    BY <1>9, GotoType, ForgetType DEF SubmitCrash, ProcType, Labels
  <2>2. used' \in [Kinds -> Nat]
    BY <1>9, SpendType DEF SubmitCrash, Kinds
  <2> QED
    BY <1>9, <2>1, <2>2 DEF SubmitCrash
<1> QED
  BY <1>1, <1>2, <1>3, <1>4, <1>5, <1>6, <1>7, <1>8, <1>9 DEF Submit

\* publishTask keeps the types.
LEMMA PublishType ==
  ASSUME TypeOK, NEW p \in Procs, PublishTask(p) PROVE TypeOK'
<1> USE RowFrame, TaskFrame, BrokerFrame, ProcFrame, CompFrame, ProcNames DEF TypeOK
<1>1. ASSUME NEW b \in TaskIds, Publish(p, b) PROVE TypeOK'
  <2>1. BrokerType'
    BY <1>1 DEF Publish, BrokerType, ProcType, TaskStates
  <2>2. ref' \in [Procs -> 0..MaxPublishes]
    BY <1>1 DEF Publish, ProcType, TaskIds
  <2>3. ProcType'
    BY <1>1, <2>2, GotoType DEF Publish, ProcType, Labels
  <2> QED
    BY <1>1, <2>1, <2>3 DEF Publish
<1>2. CASE MarkQueued(p)
  <2>1. taskStatus' \in [Steps -> TaskStatuses]
    BY <1>2 DEF MarkQueued, UpdateTask, TaskType, TaskStatuses
  <2>2. asynqId' \in [Steps -> 0..MaxPublishes]
    BY <1>2 DEF MarkQueued, TaskType, ProcType
  <2>3. ProcType'
    BY <1>2, GotoType, ForgetType DEF MarkQueued, Returned, ProcType, Labels
  <2> QED
    BY <1>2, <2>1, <2>2, <2>3 DEF MarkQueued, TaskType
<1> QED
  BY <1>1, <1>2 DEF PublishTask

\* HandleReply keeps the types.
LEMMA ConsumeType ==
  ASSUME TypeOK, PendingIsASuffix, NEW c \in Consumers, Consume(c) PROVE TypeOK'
<1> USE RowFrame, TaskFrame, BrokerFrame, ProcFrame, CompFrame, ProcNames DEF TypeOK
<1>1. ASSUME NEW r \in Reply, ReceiveReply(c, r) PROVE TypeOK'
  <2>1. BrokerType'
    <3>1. replies' \in [Reply -> Nat]
      BY <1>1 DEF ReceiveReply, BrokerType
    <3> QED
      BY <1>1, <3>1 DEF ReceiveReply, BrokerType
  <2>2. ProcType'
    BY <1>1, GotoType DEF ReceiveReply, ProcType, Labels
  <2> QED
    BY <1>1, <2>1, <2>2 DEF ReceiveReply
<1>2. CASE RecordResult(c)
  <2>1. taskStatus' \in [Steps -> TaskStatuses]
    <3>1. held[c].step \in Steps /\ ResultStatus[held[c].kind] \in TaskStatuses
      BY <1>2, ResultStatusType DEF RecordResult, PendingIsASuffix, TaskStatuses
    <3> QED
      BY <1>2, <3>1, UpdateTaskType DEF RecordResult
  <2>2. ProcType'
    BY <1>2, GotoType DEF RecordResult, ProcType, Labels
  <2> QED
    BY <1>2, <2>1, <2>2 DEF RecordResult, TaskType
<1>3. CASE CountResult(c)
  <2>1. RowType'
    <3>1. completedTasks' \in Nat /\ failedTasks' \in Nat
      <4>1. completedTasks \in Nat /\ failedTasks \in Nat
        BY DEF RowType
      <4> HIDE DEF TypeOK
      <4> QED
        BY <1>3, <4>1 DEF CountResult
    <3> QED
      BY <1>3, <3>1 DEF CountResult, RowType
  <2>2. ProcType'
    BY <1>3, GotoType DEF CountResult, ProcType, Labels
  <2> QED
    BY <1>3, <2>1, <2>2 DEF CountResult
<1>4. CASE SettleRow(c)
  <2>1. RowType'
    BY <1>4, RowStatusType DEF SettleRow, RowStatuses
  <2>2. ProcType'
    BY <1>4, GotoType DEF SettleRow, ProcType, Labels
  <2> QED
    BY <1>4, <2>1, <2>2 DEF SettleRow
<1>5. CASE PickNext(c)
  <2>1. step' \in [Procs -> 0..NumSteps]
    BY <1>5, ConstantsAssumption DEF PickNext, NextPending, Steps, ProcType
  <2>2. ProcType'
    BY <1>5, <2>1, GotoType DEF PickNext, ProcType, Labels
  <2> QED
    BY <1>5, <2>2 DEF PickNext
<1>6. CASE AckReply(c)
  <2>1. ProcType'
    BY <1>6, GotoType DEF AckReply, ProcType, Labels
  <2> QED
    BY <1>6, <2>1 DEF AckReply
<1>7. ASSUME pc[c] # "idle", ReturnReply(c), used' \in [Kinds -> Nat] PROVE TypeOK'
  <2>1. BrokerType'
    <3>0. held[c] \in Reply
      BY <1>7 DEF PendingIsASuffix, HeldPassed
    <3>1. replies' \in [Reply -> Nat]
      BY <1>7, <3>0, EnqueueType DEF ReturnReply
    <3> QED
      BY <1>7, <3>1 DEF ReturnReply, BrokerType
  <2>2. ProcType'
    BY <1>7, GotoType, ForgetType DEF ReturnReply, ProcType, Labels
  <2> QED
    BY <1>7, <2>1, <2>2 DEF ReturnReply
<1>8. CASE NothingPending(c)
  BY <1>7, <1>8 DEF NothingPending
<1>9. CASE ConsumerError(c)
  BY <1>7, <1>9, SpendType DEF ConsumerError, Kinds
<1> QED
  BY <1>1, <1>2, <1>3, <1>4, <1>5, <1>6, <1>8, <1>9 DEF Consume

\* ReplayTask keeps the types.
LEMMA ReplayType ==
  ASSUME TypeOK, NEW p \in Replayers, Replay(p) PROVE TypeOK'
<1> USE RowFrame, TaskFrame, BrokerFrame, ProcFrame, CompFrame, ProcNames DEF TypeOK
<1>1. ASSUME NEW i \in Steps, AcceptReplay(p, i) PROVE TypeOK'
  <2>1. step' \in [Procs -> 0..NumSteps] /\ ref' \in [Procs -> 0..MaxPublishes]
    BY <1>1, ConstantsAssumption DEF AcceptReplay, ProcType, TaskType, Steps
  <2>2. ProcType'
    BY <1>1, <2>1, GotoType DEF AcceptReplay, ProcType, Labels
  <2> QED
    BY <1>1, <2>2, SpendType DEF AcceptReplay, Kinds
<1>2. CASE ResetRow(p)
  <2>1. RowType'
    BY <1>2, RowStatusType DEF ResetRow, RowStatuses
  <2>2. ProcType'
    BY <1>2, GotoType DEF ResetRow, ProcType, Labels
  <2> QED
    BY <1>2, <2>1, <2>2 DEF ResetRow
<1>3. CASE RunTask(p)
  <2>1. BrokerType'
    <3>1. broker' \in [TaskIds -> [state : TaskStates, step : 0..NumSteps, retried : Nat]]
      BY <1>3 DEF RunTask, BrokerType, TaskStates
    <3> QED
      BY <1>3, <3>1 DEF RunTask, BrokerType
  <2>2. ProcType'
    BY <1>3, GotoType DEF RunTask, ProcType, Labels
  <2> QED
    BY <1>3, <2>1, <2>2 DEF RunTask
<1>4. CASE FallBackToPublish(p)
  <2>1. ref' \in [Procs -> 0..MaxPublishes]
    BY <1>4, ConstantsAssumption DEF FallBackToPublish, ProcType
  <2>2. ProcType'
    BY <1>4, <2>1, GotoType DEF FallBackToPublish, ProcType, Labels
  <2>3. used' \in [Kinds -> Nat]
    BY <1>4, SpendType DEF FallBackToPublish, Kinds
  <2> QED
    BY <1>4, <2>2, <2>3 DEF FallBackToPublish
<1>5. CASE ReplayError(p)
  <2>1. ProcType'
    BY <1>5, GotoType, ForgetType DEF ReplayError, ProcType, Labels
  <2> QED
    BY <1>5, <2>1, SpendType DEF ReplayError, Kinds
<1> QED
  BY <1>1, <1>2, <1>3, <1>4, <1>5 DEF Replay

\* The workers and the broker keep the types.
LEMMA WorkType ==
  ASSUME TypeOK, PendingIsASuffix, NEW b \in TaskIds, Work(b)
  PROVE  TypeOK'
<1> USE RowFrame, TaskFrame, BrokerFrame, ProcFrame, CompFrame DEF TypeOK
<1>1. CASE WorkerSucceeds(b)
  <2>1. broker[b].step \in Steps
    BY <1>1 DEF WorkerSucceeds, Runnable, PendingIsASuffix, BrokerPassed
  <2>2. BrokerType'
    BY <1>1, <2>1, SetTaskType, EnqueueType DEF WorkerSucceeds, BrokerType, TaskStates, Reply, ReplyKinds
  <2> QED
    BY <1>1, <2>1, <2>2 DEF WorkerSucceeds
<1>2. CASE WorkerFails(b)
  <2>1. BrokerType'
    <3>0. broker[b].step \in Steps
      BY <1>2, ConstantsAssumption DEF WorkerFails
    <3>1. replies' \in [Reply -> Nat]
      <4> DEFINE r == [step |-> broker[b].step, kind |-> FailureKind(b)]
      <4>1. r \in Reply
        BY <3>0 DEF Reply, ReplyKinds, FailureKind
      <4>2. Enqueue(r)
        BY <1>2 DEF WorkerFails
      <4> QED
        BY <4>1, <4>2, EnqueueType
    <3> QED
      BY <1>2, <3>1, SetTaskType DEF WorkerFails, BrokerType, TaskStates
  <2> QED
    BY <1>2, <2>1 DEF WorkerFails
<1>3. CASE WorkerLosesReply(b)
  <2>1. broker[b].step \in Steps
    BY <1>3 DEF WorkerLosesReply, Runnable, PendingIsASuffix, BrokerPassed
  <2>2. BrokerType'
    BY <1>3, SetTaskType DEF WorkerLosesReply, BrokerType, TaskStates
  <2> QED
    BY <1>3, <2>1, <2>2, SpendType DEF WorkerLosesReply, Kinds
<1>4. CASE WorkerRedelivered(b)
  <2>1. BrokerType'
    BY <1>4, SetTaskType DEF WorkerRedelivered, BrokerType, TaskStates
  <2> QED
    BY <1>4, <2>1, SpendType DEF WorkerRedelivered, Kinds
<1>5. CASE HandlerReturns(b)
  <2>1. BrokerType'
    <3>1. CASE SetTask(b, "done")
      BY <1>5, <3>1, SetTaskType DEF HandlerReturns, BrokerType, TaskStates
    <3>2. CASE broker' = [broker EXCEPT ![b].state = "retry", ![b].retried = @ + 1]
      BY <1>5, <3>2 DEF HandlerReturns, BrokerType, TaskStates
    <3>3. CASE SetTask(b, "archived")
      BY <1>5, <3>3, SetTaskType DEF HandlerReturns, BrokerType, TaskStates
    <3> QED
      BY <1>5, <3>1, <3>2, <3>3 DEF HandlerReturns
  <2> QED
    BY <1>5, <2>1 DEF HandlerReturns
<1> QED
  BY <1>1, <1>2, <1>3, <1>4, <1>5 DEF Work

\* The compensation loop keeps the types.
LEMMA CompensateType == TypeOK /\ Compensate => TypeOK'
<1> SUFFICES ASSUME TypeOK, Compensate PROVE TypeOK'
  OBVIOUS
<1> USE RowFrame, TaskFrame, BrokerFrame, ProcFrame DEF TypeOK
<1>1. CASE CompSnapshot
  <2>1. CompType'
    BY <1>1 DEF CompSnapshot, CompType, RowType
  <2> QED
    BY <1>1, <2>1 DEF CompSnapshot
<1>2. CASE CompStats
  <2>1. CompType'
    BY <1>2 DEF CompStats, CompType, CompIdle
  <2> QED
    BY <1>2, <2>1 DEF CompStats
<1>3. ASSUME NEW ok \in BOOLEAN, CompInFlight(ok) PROVE TypeOK'
  <2>1. CompType'
    BY <1>3 DEF CompInFlight, CompType, CompIdle
  <2>2. used' \in [Kinds -> Nat]
    BY <1>3, SpendType DEF CompInFlight, Kinds
  <2> QED
    BY <1>3, <2>1, <2>2 DEF CompInFlight
<1>4. CASE CompWrite
  <2>1. CompType'
    BY <1>4 DEF CompWrite, CompType, CompIdle
  <2>2. comp.verdict \in RowStatuses
    BY <1>4 DEF CompWrite, CompType, RowStatuses
  <2>3. RowType'
    BY <1>4, <2>2, RowStatusType DEF CompWrite
  <2> QED
    BY <1>4, <2>1, <2>3 DEF CompWrite
<1>5. CASE CompError
  <2>1. CompType'
    BY <1>5 DEF CompError, CompType, CompIdle
  <2>2. used' \in [Kinds -> Nat]
    BY <1>5, SpendType DEF CompError, Kinds
  <2> QED
    BY <1>5, <2>1, <2>2 DEF CompError
<1> QED
  BY <1>1, <1>2, <1>3, <1>4, <1>5 DEF Compensate

\* The passing of staleWorkflowTimeout keeps the types.
LEMMA ElapseType == TypeOK /\ Elapse => TypeOK'
  BY TaskFrame, BrokerFrame, ProcFrame, CompFrame DEF TypeOK, Elapse, RowType

(***************************************************************************)
(* InsertedAtOnce.                                                         *)
(***************************************************************************)

\* BatchCreate inserts all the rows of tasks, and no other statement of the request removes one.
LEMMA SubmitInserted == TypeOK /\ InsertedAtOnce /\ Submit => InsertedAtOnce'
<1> SUFFICES ASSUME TypeOK, InsertedAtOnce, Submit PROVE InsertedAtOnce'
  OBVIOUS
<1> USE ConstantsAssumption
    DEF TypeOK, TaskType, ProcType, Procs, InsertedAtOnce, NotInserted, Inserted, Goto, taskVars, brokerVars
<1>1. CASE CreateRow
  BY <1>1 DEF CreateRow
<1>2. CASE BatchCreate
  BY <1>2 DEF BatchCreate
<1>3. CASE UpdateTotalTasks \/ SetCreating
  BY <1>3 DEF UpdateTotalTasks, SetCreating
<1>4. ASSUME NEW ok \in BOOLEAN, FailFirstTask(ok) PROVE InsertedAtOnce'
  BY <1>4 DEF FailFirstTask, UpdateTask
<1>5. ASSUME NEW ok \in BOOLEAN, FailFirstCount(ok) \/ FailFirstRow(ok) PROVE InsertedAtOnce'
  BY <1>5 DEF FailFirstCount, FailFirstRow
<1>6. CASE SubmitError
  BY <1>6 DEF SubmitError
<1>7. CASE SubmitCrash
  BY <1>7 DEF SubmitCrash
<1> QED
  BY <1>1, <1>2, <1>3, <1>4, <1>5, <1>6, <1>7 DEF Submit

\* Nothing is published before the rows are inserted.
LEMMA PublishInserted ==
  ASSUME TypeOK, InsertedAtOnce, NEW p \in Procs, PublishTask(p) PROVE InsertedAtOnce'
<1> USE DEF TypeOK, TaskType, ProcType, Procs, InsertedAtOnce, NotInserted, Inserted, Goto
<1>1. ASSUME NEW b \in TaskIds, Publish(p, b) PROVE InsertedAtOnce'
  BY <1>1 DEF Publish, taskVars
<1>2. CASE MarkQueued(p)
  BY <1>2 DEF MarkQueued, UpdateTask, Returned
<1> QED
  BY <1>1, <1>2 DEF PublishTask

\* No reply is handled before the rows are inserted.
LEMMA ConsumeInserted ==
  ASSUME TypeOK, InsertedAtOnce, PendingIsASuffix, NEW c \in Consumers, Consume(c) PROVE InsertedAtOnce'
<1> USE ConstantsAssumption DEF TypeOK, TaskType, ProcType, Procs, InsertedAtOnce, NotInserted, Inserted, Goto
<1>1. ASSUME NEW r \in Reply, ReceiveReply(c, r) PROVE InsertedAtOnce'
  BY <1>1 DEF ReceiveReply, taskVars
<1>2. CASE RecordResult(c)
  <2>1. \A i \in Steps : taskStatus'[i] \in {taskStatus[i], "queued", "completed", "failed"}
    BY <1>2, ResultStatusType DEF RecordResult, UpdateTask, PendingIsASuffix
  <2>2. pc'[Submitter] = pc[Submitter]
    BY <1>2 DEF RecordResult
  <2> QED
    BY <1>2, <2>1, <2>2 DEF RecordResult
<1>3. CASE CountResult(c) \/ SettleRow(c) \/ PickNext(c) \/ AckReply(c)
  BY <1>3 DEF CountResult, SettleRow, PickNext, AckReply, taskVars
<1>4. CASE NothingPending(c) \/ ConsumerError(c)
  BY <1>4 DEF NothingPending, ConsumerError, ReturnReply, taskVars
<1> QED
  BY <1>1, <1>2, <1>3, <1>4 DEF Consume

\* No task is replayed before the rows are inserted.
LEMMA ReplayInserted ==
  ASSUME TypeOK, InsertedAtOnce, NEW p \in Replayers, Replay(p) PROVE InsertedAtOnce'
<1> USE ConstantsAssumption DEF TypeOK, TaskType, ProcType, Procs, InsertedAtOnce, NotInserted, Inserted, Goto
<1>1. ASSUME NEW i \in Steps, AcceptReplay(p, i) PROVE InsertedAtOnce'
  BY <1>1 DEF AcceptReplay, Replayable, taskVars
<1>2. CASE ResetRow(p) \/ RunTask(p) \/ FallBackToPublish(p) \/ ReplayError(p)
  BY <1>2 DEF ResetRow, RunTask, FallBackToPublish, ReplayError, taskVars
<1> QED
  BY <1>1, <1>2 DEF Replay

\* No worker runs before the rows are inserted.
LEMMA WorkInserted ==
  ASSUME TypeOK, InsertedAtOnce, NEW b \in TaskIds, Work(b) PROVE InsertedAtOnce'
<1>1. Inserted
  BY DEF InsertedAtOnce, NotInserted, Work, WorkerSucceeds, WorkerFails, WorkerLosesReply,
         WorkerRedelivered, HandlerReturns, Runnable
<1>2. UNCHANGED taskVars /\ UNCHANGED procVars
  BY DEF Work, WorkerSucceeds, WorkerFails, WorkerLosesReply, WorkerRedelivered, HandlerReturns
<1> QED
  BY <1>1, <1>2 DEF InsertedAtOnce, Inserted, taskVars, procVars

\* The compensation loop and the clock insert nothing.
LEMMA QuietInserted ==
  InsertedAtOnce /\ UNCHANGED <<taskVars, brokerVars, procVars>> => InsertedAtOnce'
  BY DEF InsertedAtOnce, NotInserted, Inserted, taskVars, brokerVars, procVars

(***************************************************************************)
(* PendingIsASuffix.  A row that has left 'pending' never returns to it,   *)
(* so what has been passed stays passed.                                   *)
(***************************************************************************)

Advance == \A j \in Steps : taskStatus[j] \notin {"none", "pending"}
                             => taskStatus'[j] \notin {"none", "pending"}

\* A step whose predecessors have left 'pending' keeps that.
LEMMA PassedKept == ASSUME Advance, NEW i \in Steps, Passed(i) PROVE Passed(i)'
  BY ConstantsAssumption DEF Advance, Passed, Steps

\* Rows of tasks that are left alone do not go back to 'pending'.
LEMMA UnchangedAdvances == UNCHANGED taskStatus => Advance
  BY DEF Advance

\* A row of tasks written with a status other than 'pending' does not go back either.
LEMMA UpdateAdvances ==
  ASSUME TaskType, NEW i \in Steps, NEW s \in {"queued", "completed", "failed"}, UpdateTask(i, s)
  PROVE  Advance
  BY DEF TaskType, UpdateTask, Advance

\* What an action that keeps the rows' progress leaves alone stays true.
LEMMA RowsKept ==
  ASSUME Advance, RowsPassed,
         \A i \in Steps : taskStatus'[i] \notin {"none", "pending"} =>
            taskStatus[i] \notin {"none", "pending"} \/ Passed(i)
  PROVE  RowsPassed'
  BY PassedKept DEF RowsPassed

\* The broker's tasks stay behind the pending rows.
LEMMA BrokerKept ==
  ASSUME Advance, BrokerPassed,
         \A b \in TaskIds : broker'[b].state # "free" =>
            \/ broker[b].state # "free" /\ broker'[b].step = broker[b].step
            \/ broker'[b].step \in Steps /\ Passed(broker'[b].step)
  PROVE  BrokerPassed'
  BY PassedKept DEF BrokerPassed

\* The replies stay behind the pending rows.
LEMMA RepliesKept ==
  ASSUME Advance, RepliesPassed,
         \A r \in Reply : replies'[r] > 0 => replies[r] > 0 \/ Passed(r.step)
  PROVE  RepliesPassed'
<1>1. ASSUME NEW r \in Reply PROVE r.step \in Steps
  BY DEF Reply
<1> QED
  BY <1>1, PassedKept DEF RepliesPassed

\* The replies being handled stay behind the pending rows.
LEMMA HeldKept ==
  ASSUME Advance, HeldPassed,
         \A c \in Consumers : pc'[c] # "idle" =>
            \/ pc[c] # "idle" /\ held'[c] = held[c]
            \/ held'[c] \in Reply /\ Passed(held'[c].step)
  PROVE  HeldPassed'
<1>1. ASSUME NEW r \in Reply PROVE r.step \in Steps
  BY DEF Reply
<1> QED
  BY <1>1, PassedKept DEF HeldPassed

\* The steps the processes hold stay behind the pending rows.
LEMMA ProcsKept ==
  ASSUME Advance, ProcsPassed,
         \A p \in Procs : pc'[p] \in {"publish", "mark", "reset", "rerun"} =>
            \/ pc[p] \in {"publish", "mark", "reset", "rerun"} /\ step'[p] = step[p]
            \/ step'[p] \in Steps /\ Passed(step'[p])
  PROVE  ProcsPassed'
  BY PassedKept DEF ProcsPassed

\* The request publishes only the first step.
LEMMA SubmitSuffix == TypeOK /\ InsertedAtOnce /\ PendingIsASuffix /\ Submit => PendingIsASuffix'
<1> SUFFICES ASSUME TypeOK, InsertedAtOnce, PendingIsASuffix, Submit PROVE PendingIsASuffix'
  OBVIOUS
<1>1. Submitter \in Procs /\ Submitter \notin Consumers
  BY ConstantsAssumption DEF Procs
<1>2. 1 \in Steps /\ Passed(1)
  BY ConstantsAssumption DEF Steps, Passed
<1>3. UNCHANGED brokerVars
  BY DEF Submit, CreateRow, BatchCreate, UpdateTotalTasks, SetCreating, FailFirstTask,
         FailFirstCount, FailFirstRow, SubmitError, SubmitCrash
<1>4. UNCHANGED held /\ \A c \in Consumers : pc'[c] = pc[c]
  BY <1>1 DEF Submit, CreateRow, BatchCreate, UpdateTotalTasks, SetCreating, FailFirstTask,
         FailFirstCount, FailFirstRow, SubmitError, SubmitCrash, Goto, TypeOK, ProcType, Procs
<1>5. Advance /\ RowsPassed'
  <2>1. CASE BatchCreate
    <3>1. \A i \in Steps : taskStatus[i] = "none"
      BY <2>1 DEF BatchCreate, InsertedAtOnce, NotInserted, Inserted
    <3>2. \A i \in Steps : taskStatus'[i] = "pending"
      BY <2>1 DEF BatchCreate
    <3> QED
      BY <3>1, <3>2 DEF Advance, RowsPassed
  <2>2. ASSUME NEW ok \in BOOLEAN, FailFirstTask(ok) PROVE Advance /\ RowsPassed'
    <3>1. CASE ok
      <4>1. UpdateTask(1, "failed")
        BY <2>2, <3>1 DEF FailFirstTask
      <4>2. Advance
        BY <4>1, <1>2, UpdateAdvances DEF TypeOK
      <4>3. \A i \in Steps : i # 1 => taskStatus'[i] = taskStatus[i]
        BY <4>1 DEF UpdateTask, TypeOK, TaskType
      <4> QED
        BY <4>2, <4>3, <1>2, RowsKept DEF PendingIsASuffix
    <3>2. CASE ~ok
      BY <2>2, <3>2, UnchangedAdvances, RowsKept DEF FailFirstTask, PendingIsASuffix
    <3> QED
      BY <3>1, <3>2
  <2>3. CASE UNCHANGED taskStatus
    BY <2>3, UnchangedAdvances, RowsKept DEF PendingIsASuffix
  <2> QED
    BY <2>1, <2>2, <2>3 DEF Submit, CreateRow, UpdateTotalTasks, SetCreating, FailFirstCount,
         FailFirstRow, SubmitError, SubmitCrash, taskVars
<1>6. ProcsPassed'
  <2>1. \A p \in Procs \ {Submitter} : pc'[p] = pc[p] /\ step'[p] = step[p]
    BY DEF Submit, CreateRow, BatchCreate, UpdateTotalTasks, SetCreating, FailFirstTask,
           FailFirstCount, FailFirstRow, SubmitError, SubmitCrash, Goto, Forget, TypeOK, ProcType
  <2>2. \/ pc'[Submitter] \notin {"publish", "mark", "reset", "rerun"}
        \/ step'[Submitter] = 1
    BY <1>1 DEF Submit, CreateRow, BatchCreate, UpdateTotalTasks, SetCreating, FailFirstTask,
           FailFirstCount, FailFirstRow, SubmitError, SubmitCrash, Goto, TypeOK, ProcType
  <2> QED
    BY <1>2, <1>5, <2>1, <2>2, ProcsKept DEF PendingIsASuffix
<1> QED
  BY <1>3, <1>4, <1>5, <1>6, BrokerKept, RepliesKept, HeldKept DEF PendingIsASuffix, brokerVars

\* publishTask hands over a step whose predecessors have left 'pending'.
LEMMA PublishSuffix ==
  ASSUME TypeOK, PendingIsASuffix, NEW p \in Procs, PublishTask(p) PROVE PendingIsASuffix'
<1> USE DEF PendingIsASuffix
<1>1. ASSUME NEW b \in TaskIds, Publish(p, b) PROVE PendingIsASuffix'
  <2>1. Advance /\ RowsPassed'
    BY <1>1, UnchangedAdvances, RowsKept DEF Publish, taskVars
  <2>2. step[p] \in Steps /\ Passed(step[p])
    BY <1>1 DEF Publish, ProcsPassed
  <2>3. \A a \in TaskIds : IF a = b THEN broker'[a].step = step[p] ELSE broker'[a] = broker[a]
    BY <1>1 DEF Publish, TypeOK, BrokerType
  <2>4. BrokerPassed'
    BY <2>1, <2>2, <2>3, BrokerKept
  <2>5. \A q \in Procs : q # p => pc'[q] = pc[q]
    BY <1>1 DEF Publish, Goto, TypeOK, ProcType
  <2>6. ProcsPassed'
    BY <1>1, <2>1, <2>2, <2>5, ProcsKept DEF Publish
  <2>7. HeldPassed'
    BY <1>1, <2>1, <2>5, HeldKept DEF Publish, Procs
  <2> QED
    BY <1>1, <2>1, <2>4, <2>6, <2>7, RepliesKept DEF Publish
<1>2. CASE MarkQueued(p)
  <2>1. step[p] \in Steps /\ Passed(step[p])
    BY <1>2 DEF MarkQueued, ProcsPassed
  <2>2. Advance
    BY <1>2, <2>1, UpdateAdvances DEF MarkQueued, TypeOK
  <2>3. \A i \in Steps : i # step[p] => taskStatus'[i] = taskStatus[i]
    BY <1>2 DEF MarkQueued, UpdateTask, TypeOK, TaskType
  <2>4. RowsPassed'
    BY <2>1, <2>2, <2>3, RowsKept
  <2>5. \A q \in Procs : q # p => pc'[q] = pc[q] /\ step'[q] = step[q]
    BY <1>2 DEF MarkQueued, Goto, Forget, TypeOK, ProcType
  <2>6. pc'[p] \in {"stop", "ack", "idle"}
    BY <1>2 DEF MarkQueued, Goto, Returned, TypeOK, ProcType
  <2>7. ProcsPassed'
    BY <2>2, <2>5, <2>6, ProcsKept
  <2>8. HeldPassed'
    BY <1>2, <2>2, <2>5, HeldKept DEF MarkQueued, Procs
  <2> QED
    BY <1>2, <2>2, <2>4, <2>7, <2>8, BrokerKept, RepliesKept DEF MarkQueued, brokerVars
<1> QED
  BY <1>1, <1>2 DEF PublishTask

\* HandleReply picks the first pending row, so every earlier one has left 'pending'.
LEMMA ConsumeSuffix ==
  ASSUME TypeOK, InsertedAtOnce, PendingIsASuffix, NEW c \in Consumers, Consume(c)
  PROVE  PendingIsASuffix'
<1> USE DEF PendingIsASuffix
<1>1. c \in Procs
  BY DEF Procs
<1>2. UNCHANGED broker
  BY DEF Consume, ReceiveReply, RecordResult, CountResult, SettleRow, PickNext, AckReply,
         NothingPending, ConsumerError, ReturnReply, brokerVars
<1>3. pc[c] # "idle" => held[c] \in Reply /\ held[c].step \in Steps /\ Passed(held[c].step)
  BY DEF HeldPassed, Reply
<1>4. Advance /\ RowsPassed'
  <2>1. CASE RecordResult(c)
    <3>1. PICK s \in {"queued", "completed", "failed"} : UpdateTask(held[c].step, s)
      BY <2>1, ResultStatusType DEF RecordResult
    <3>2. Advance
      BY <1>3, <2>1, <3>1, UpdateAdvances DEF RecordResult, TypeOK
    <3>3. \A i \in Steps : i # held[c].step => taskStatus'[i] = taskStatus[i]
      BY <3>1 DEF UpdateTask, TypeOK, TaskType
    <3> QED
      BY <1>3, <2>1, <3>2, <3>3, RowsKept DEF RecordResult
  <2>2. CASE UNCHANGED taskStatus
    BY <2>2, UnchangedAdvances, RowsKept
  <2> QED
    BY <2>1, <2>2 DEF Consume, ReceiveReply, CountResult, SettleRow, PickNext, AckReply,
         NothingPending, ConsumerError, ReturnReply, taskVars
<1>5. RepliesPassed'
  <2>1. ASSUME NEW r \in Reply, ReceiveReply(c, r) PROVE RepliesPassed'
    <3>1. \A q \in Reply : replies'[q] > 0 => replies[q] > 0
      BY <2>1 DEF ReceiveReply, TypeOK, BrokerType
    <3> QED
      BY <1>4, <3>1, RepliesKept
  <2>2. ASSUME pc[c] # "idle", ReturnReply(c) PROVE RepliesPassed'
    <3>1. \A q \in Reply : q # held[c] => replies'[q] = replies[q]
      BY <1>3, <2>2 DEF ReturnReply, Enqueue, TypeOK, BrokerType
    <3> QED
      BY <1>3, <1>4, <2>2, <3>1, RepliesKept
  <2>3. CASE UNCHANGED replies
    BY <1>4, <2>3, RepliesKept
  <2> QED
    BY <2>1, <2>2, <2>3 DEF Consume, RecordResult, CountResult, SettleRow, PickNext, AckReply,
         NothingPending, ConsumerError, brokerVars
<1>6. \A q \in Procs : q # c => pc'[q] = pc[q] /\ step'[q] = step[q]
  <2>1. \A q \in Procs : q # c => pc'[q] = pc[q]
    BY <1>1 DEF Consume, ReceiveReply, RecordResult, CountResult, SettleRow, PickNext, AckReply,
         NothingPending, ConsumerError, ReturnReply, Goto, TypeOK, ProcType
  <2>2. \A q \in Procs : q # c => step'[q] = step[q]
    BY <1>1 DEF Consume, ReceiveReply, RecordResult, CountResult, SettleRow, PickNext, AckReply,
         NothingPending, ConsumerError, ReturnReply, Forget, TypeOK, ProcType
  <2> QED
    BY <2>1, <2>2
<1>7. HeldPassed'
  <2>1. \A d \in Consumers : d # c => held'[d] = held[d]
    BY DEF Consume, ReceiveReply, RecordResult, CountResult, SettleRow, PickNext, AckReply,
         NothingPending, ConsumerError, ReturnReply, TypeOK, ProcType
  <2>2. pc'[c] # "idle" =>
          \/ pc[c] # "idle" /\ held'[c] = held[c]
          \/ held'[c] \in Reply /\ Passed(held'[c].step)
    <3>1. ASSUME NEW r \in Reply, ReceiveReply(c, r), pc'[c] # "idle"
          PROVE  held'[c] \in Reply /\ Passed(held'[c].step)
      BY <3>1, <1>1 DEF ReceiveReply, RepliesPassed, TypeOK, ProcType
    <3>2. CASE RecordResult(c) \/ CountResult(c) \/ SettleRow(c) \/ PickNext(c)
      BY <3>2 DEF RecordResult, CountResult, SettleRow, PickNext
    <3>3. CASE AckReply(c) \/ NothingPending(c) \/ ConsumerError(c)
      BY <3>3, <1>1 DEF AckReply, NothingPending, ConsumerError, ReturnReply, Goto, TypeOK, ProcType
    <3> QED
      BY <3>1, <3>2, <3>3 DEF Consume
  <2> QED
    BY <1>4, <1>6, <2>1, <2>2, HeldKept DEF Procs
<1>8. ProcsPassed'
  <2>1. CASE PickNext(c)
    <3>1. PICK i \in NextPending : step' = [step EXCEPT ![c] = i]
      BY <2>1 DEF PickNext
    <3>2. \A j \in Steps : taskStatus[j] # "none"
      BY <2>1 DEF PickNext, InsertedAtOnce, NotInserted, Inserted
    <3>3. i \in Steps /\ Passed(i)
      BY <3>1, <3>2, ConstantsAssumption DEF NextPending, Passed, Steps
    <3>4. step'[c] = i
      BY <1>1, <3>1 DEF TypeOK, ProcType
    <3> QED
      BY <1>4, <1>6, <3>3, <3>4, ProcsKept
  <2>2. CASE pc'[c] \notin {"publish", "mark", "reset", "rerun"}
    BY <1>4, <1>6, <2>2, ProcsKept
  <2>3. CASE UNCHANGED <<pc, step>>
    BY <1>4, <2>3, ProcsKept
  <2> QED
    BY <1>1, <2>1, <2>2, <2>3 DEF Consume, ReceiveReply, RecordResult, CountResult, SettleRow,
         AckReply, NothingPending, ConsumerError, ReturnReply, Goto, TypeOK, ProcType
<1> QED
  BY <1>2, <1>4, <1>5, <1>7, <1>8, BrokerKept

\* Only a step that has left 'pending' is replayed.
LEMMA ReplaySuffix ==
  ASSUME TypeOK, PendingIsASuffix, NEW p \in Replayers, Replay(p) PROVE PendingIsASuffix'
<1> USE DEF PendingIsASuffix
<1>1. p \in Procs /\ p \notin Consumers
  BY ConstantsAssumption DEF Procs
<1>2. UNCHANGED <<taskStatus, replies, held>>
  BY DEF Replay, AcceptReplay, ResetRow, RunTask, FallBackToPublish, ReplayError, taskVars, brokerVars
<1>3. Advance /\ RowsPassed' /\ RepliesPassed'
  BY <1>2, UnchangedAdvances, RowsKept, RepliesKept
<1>4. \A b \in TaskIds : broker'[b].step = broker[b].step /\ (broker'[b].state # "free" => broker[b].state # "free")
  BY DEF Replay, AcceptReplay, ResetRow, RunTask, Rerunnable, FallBackToPublish, ReplayError,
         brokerVars, TypeOK, BrokerType
<1>5. BrokerPassed'
  BY <1>3, <1>4, BrokerKept
<1>6. \A q \in Procs : q # p => pc'[q] = pc[q] /\ step'[q] = step[q]
  BY DEF Replay, AcceptReplay, ResetRow, RunTask, FallBackToPublish, ReplayError, Goto, Forget,
         TypeOK, ProcType
<1>7. HeldPassed'
  BY <1>1, <1>2, <1>3, <1>6, HeldKept DEF Procs
<1>8. ProcsPassed'
  <2>1. ASSUME NEW i \in Steps, AcceptReplay(p, i) PROVE ProcsPassed'
    <3>1. step'[p] = i /\ Passed(i)
      BY <1>1, <2>1 DEF AcceptReplay, Replayable, RowsPassed, TypeOK, ProcType
    <3> QED
      BY <1>3, <1>6, <3>1, ProcsKept
  <2>2. CASE ResetRow(p) \/ RunTask(p) \/ FallBackToPublish(p)
    <3>1. pc[p] \in {"reset", "rerun"} /\ step'[p] = step[p]
      BY <2>2 DEF ResetRow, RunTask, FallBackToPublish
    <3> QED
      BY <1>3, <1>6, <3>1, ProcsKept
  <2>3. CASE ReplayError(p)
    <3>1. pc'[p] = "idle"
      BY <1>1, <2>3 DEF ReplayError, Goto, TypeOK, ProcType
    <3> QED
      BY <1>3, <1>6, <3>1, ProcsKept
  <2> QED
    BY <2>1, <2>2, <2>3 DEF Replay
<1> QED
  BY <1>3, <1>5, <1>7, <1>8

\* A reply speaks of the step the broker handed out.
LEMMA WorkSuffix ==
  ASSUME TypeOK, PendingIsASuffix, NEW b \in TaskIds, Work(b) PROVE PendingIsASuffix'
<1> USE DEF PendingIsASuffix
<1>1. UNCHANGED taskVars /\ UNCHANGED procVars
  BY DEF Work, WorkerSucceeds, WorkerFails, WorkerLosesReply, WorkerRedelivered, HandlerReturns
<1>2. Advance /\ RowsPassed' /\ HeldPassed' /\ ProcsPassed'
  BY <1>1, UnchangedAdvances, RowsKept, HeldKept, ProcsKept DEF taskVars, procVars
<1>3. broker[b].step \in Steps /\ Passed(broker[b].step)
  BY DEF Work, WorkerSucceeds, WorkerFails, WorkerLosesReply, WorkerRedelivered, HandlerReturns,
         Runnable, BrokerPassed
<1>4. \A a \in TaskIds : broker'[a].step = broker[a].step /\ (a # b => broker'[a] = broker[a])
  BY DEF Work, WorkerSucceeds, WorkerFails, WorkerLosesReply, WorkerRedelivered, HandlerReturns,
         SetTask, TypeOK, BrokerType
<1>5. BrokerPassed'
  BY <1>2, <1>3, <1>4, BrokerKept
<1>6. \A r \in Reply : r.step # broker[b].step => replies'[r] = replies[r]
  BY DEF Work, WorkerSucceeds, WorkerFails, WorkerLosesReply, WorkerRedelivered, HandlerReturns,
         Enqueue, TypeOK, BrokerType
<1>7. RepliesPassed'
  BY <1>2, <1>3, <1>6, RepliesKept
<1> QED
  BY <1>2, <1>5, <1>7

\* The compensation loop and the clock touch no row of tasks.
LEMMA QuietSuffix ==
  PendingIsASuffix /\ UNCHANGED <<taskVars, brokerVars, procVars>> => PendingIsASuffix'
  BY DEF PendingIsASuffix, RowsPassed, BrokerPassed, RepliesPassed, HeldPassed, ProcsPassed, Passed,
         taskVars, brokerVars, procVars

(***************************************************************************)
(* ClaimsAreEarned.  What has been carried out stays carried out.          *)
(***************************************************************************)

Grows == executed \subseteq executed'

\* A claim of completion stays true when no new one is written.
LEMMA CompletedKept ==
  ASSUME Grows, CompletedWasExecuted,
         \A i \in Steps : taskStatus'[i] = "completed" => taskStatus[i] = "completed" \/ i \in executed
  PROVE  CompletedWasExecuted'
  BY DEF Grows, CompletedWasExecuted

\* The success replies stay earned when none is added.
LEMMA RepliesEarnedKept ==
  ASSUME Grows, RepliesEarned,
         \A r \in Reply : replies'[r] > 0 /\ r.kind = "success" =>
            replies[r] > 0 \/ r.step \in executed'
  PROVE  RepliesEarned'
  BY DEF Grows, RepliesEarned

\* The success replies being handled stay earned when none is taken.
LEMMA HeldEarnedKept ==
  ASSUME Grows, HeldEarned,
         \A c \in Consumers : pc'[c] # "idle" /\ held'[c].kind = "success" =>
            \/ pc[c] # "idle" /\ held'[c] = held[c] /\ pc'[c] = pc[c]
            \/ held'[c].step \in executed /\ (pc'[c] = "settle" => held'[c].step = NumSteps)
  PROVE  HeldEarned'
  BY DEF Grows, HeldEarned

\* The loop's verdict stays earned when it does not change.
LEMMA VerdictKept ==
  ASSUME Grows, VerdictEarned, UNCHANGED comp PROVE VerdictEarned'
  BY DEF Grows, VerdictEarned

\* A 'running' row stays earned when its status is not written.
LEMMA RunningKept ==
  ASSUME Grows, RunningIsLast,
         rowStatus' = "running" => rowStatus = "running" \/ NumSteps \in executed
  PROVE  RunningIsLast'
  BY DEF Grows, RunningIsLast

\* The submitter, a publisher and a replayer touch no claim except a row's.
LEMMA ClaimsFrame ==
  ASSUME ClaimsAreEarned, UNCHANGED <<replies, held, comp, executed>>,
         \A i \in Steps : taskStatus'[i] = "completed" => taskStatus[i] = "completed",
         \A c \in Consumers : \/ pc'[c] = pc[c]
                              \/ pc[c] # "idle" /\ pc'[c] # "settle",
         rowStatus' = "running" => rowStatus = "running"
  PROVE  ClaimsAreEarned'
  BY DEF ClaimsAreEarned, CompletedWasExecuted, RepliesEarned, HeldEarned, VerdictEarned, RunningIsLast

\* The request claims no success.
LEMMA SubmitClaims ==
  TypeOK /\ ClaimsAreEarned /\ Submit => ClaimsAreEarned'
<1> SUFFICES ASSUME TypeOK, ClaimsAreEarned, Submit PROVE ClaimsAreEarned'
  OBVIOUS
<1>1. Submitter \in Procs /\ Submitter \notin Consumers /\ 1 \in Steps
  BY ConstantsAssumption DEF Procs, Steps
<1>2. UNCHANGED <<replies, held, comp, executed>>
  BY DEF Submit, CreateRow, BatchCreate, UpdateTotalTasks, SetCreating, FailFirstTask,
         FailFirstCount, FailFirstRow, SubmitError, SubmitCrash, brokerVars
<1>3. \A c \in Consumers : pc'[c] = pc[c]
  BY <1>1 DEF Submit, CreateRow, BatchCreate, UpdateTotalTasks, SetCreating, FailFirstTask,
         FailFirstCount, FailFirstRow, SubmitError, SubmitCrash, Goto, TypeOK, ProcType, Procs
<1>4. rowStatus' \in {rowStatus, "pending", "creating", "failed"}
  BY DEF Submit, CreateRow, BatchCreate, UpdateTotalTasks, SetCreating, FailFirstTask,
         FailFirstCount, FailFirstRow, SubmitError, SubmitCrash, UpdateRowStatus, rowVars
<1>5. \A i \in Steps : taskStatus'[i] \in {taskStatus[i], "pending", "failed"}
  BY <1>1 DEF Submit, CreateRow, BatchCreate, UpdateTotalTasks, SetCreating, FailFirstTask,
         FailFirstCount, FailFirstRow, SubmitError, SubmitCrash, UpdateTask, taskVars, TypeOK, TaskType
<1> QED
  BY <1>2, <1>3, <1>4, <1>5, ClaimsFrame

\* publishTask writes 'queued' only.
LEMMA PublishClaims ==
  ASSUME TypeOK, ClaimsAreEarned, NEW p \in Procs, PublishTask(p) PROVE ClaimsAreEarned'
<1>1. UNCHANGED <<replies, held, comp, executed, rowStatus>>
  BY DEF PublishTask, Publish, MarkQueued, brokerVars, rowVars
<1>2. \A c \in Consumers : pc'[c] = pc[c] \/ (pc[c] # "idle" /\ pc'[c] # "settle")
  BY DEF PublishTask, Publish, MarkQueued, Returned, Goto, TypeOK, ProcType, Procs
<1>3. \A i \in Steps : taskStatus'[i] \in {taskStatus[i], "queued"}
  BY DEF PublishTask, Publish, MarkQueued, UpdateTask, taskVars, TypeOK, TaskType
<1> QED
  BY <1>1, <1>2, <1>3, ClaimsFrame

\* A replay claims no success.
LEMMA ReplayClaims ==
  ASSUME TypeOK, ClaimsAreEarned, NEW p \in Replayers, Replay(p) PROVE ClaimsAreEarned'
<1>1. UNCHANGED <<replies, held, comp, executed, taskStatus>>
  BY DEF Replay, AcceptReplay, ResetRow, RunTask, FallBackToPublish, ReplayError, brokerVars, taskVars
<1>2. p \in Procs /\ p \notin Consumers
  BY ConstantsAssumption DEF Procs
<1>3. \A c \in Consumers : pc'[c] = pc[c]
  BY <1>2 DEF Replay, AcceptReplay, ResetRow, RunTask, FallBackToPublish, ReplayError, Goto,
         TypeOK, ProcType, Procs
<1>4. rowStatus' \in {rowStatus, "creating"}
  BY DEF Replay, AcceptReplay, ResetRow, RunTask, FallBackToPublish, ReplayError, UpdateRowStatus, rowVars
<1> QED
  BY <1>1, <1>3, <1>4, ClaimsFrame

\* HandleReply writes 'completed' and 'running' on the strength of a success reply.
LEMMA ConsumeClaims ==
  ASSUME TypeOK, PendingIsASuffix, ClaimsAreEarned, NEW c \in Consumers, Consume(c)
  PROVE  ClaimsAreEarned'
<1> USE DEF ClaimsAreEarned
<1>1. UNCHANGED <<comp, executed>> /\ c \in Procs
  BY DEF Consume, ReceiveReply, RecordResult, CountResult, SettleRow, PickNext, AckReply,
         NothingPending, ConsumerError, ReturnReply, Procs
<1>2. Grows
  BY <1>1 DEF Grows
<1>3. VerdictEarned'
  BY <1>1, <1>2, VerdictKept
<1>4. pc[c] # "idle" => held[c] \in Reply /\ held[c].step \in Steps
  BY DEF PendingIsASuffix, HeldPassed, Reply
<1>5. CompletedWasExecuted'
  <2>1. CASE RecordResult(c)
    <3>1. PICK s \in {"queued", "completed", "failed"} :
            /\ UpdateTask(held[c].step, s)
            /\ s = "completed" => held[c].kind = "success"
      BY <2>1, ResultStatusType DEF RecordResult, PendingIsASuffix
    <3>2. \A i \in Steps : taskStatus'[i] = IF i = held[c].step THEN s ELSE taskStatus[i]
      BY <3>1 DEF UpdateTask, TypeOK, TaskType
    <3>3. held[c].kind = "success" => held[c].step \in executed
      BY <2>1 DEF RecordResult, HeldEarned
    <3> QED
      BY <1>2, <3>1, <3>2, <3>3, CompletedKept
  <2>2. CASE UNCHANGED taskStatus
    BY <1>2, <2>2, CompletedKept
  <2> QED
    BY <2>1, <2>2 DEF Consume, ReceiveReply, CountResult, SettleRow, PickNext, AckReply,
         NothingPending, ConsumerError, ReturnReply, taskVars
<1>6. RepliesEarned'
  <2>1. ASSUME NEW r \in Reply, ReceiveReply(c, r) PROVE RepliesEarned'
    <3>1. \A q \in Reply : replies'[q] > 0 => replies[q] > 0
      BY <2>1 DEF ReceiveReply, TypeOK, BrokerType
    <3> QED
      BY <1>2, <3>1, RepliesEarnedKept
  <2>2. ASSUME pc[c] # "idle", ReturnReply(c) PROVE RepliesEarned'
    <3>1. \A q \in Reply : q # held[c] => replies'[q] = replies[q]
      BY <1>4, <2>2 DEF ReturnReply, Enqueue, TypeOK, BrokerType
    <3>2. held[c].kind = "success" => held[c].step \in executed'
      BY <1>1, <2>2 DEF HeldEarned
    <3> QED
      BY <1>2, <3>1, <3>2, RepliesEarnedKept
  <2>3. CASE UNCHANGED replies
    BY <1>2, <2>3, RepliesEarnedKept
  <2> QED
    BY <2>1, <2>2, <2>3 DEF Consume, RecordResult, CountResult, SettleRow, PickNext, AckReply,
         NothingPending, ConsumerError, brokerVars
<1>7. HeldEarned'
  <2>1. \A d \in Consumers : d # c => held'[d] = held[d] /\ pc'[d] = pc[d]
    <3>1. \A d \in Consumers : d # c => held'[d] = held[d]
      BY DEF Consume, ReceiveReply, RecordResult, CountResult, SettleRow, PickNext, AckReply,
           NothingPending, ConsumerError, ReturnReply, TypeOK, ProcType
    <3>2. \A d \in Consumers : d # c => pc'[d] = pc[d]
      BY <1>1 DEF Consume, ReceiveReply, RecordResult, CountResult, SettleRow, PickNext, AckReply,
           NothingPending, ConsumerError, ReturnReply, Goto, TypeOK, ProcType, Procs
    <3> QED
      BY <3>1, <3>2
  <2>2. ASSUME pc'[c] # "idle", held'[c].kind = "success"
        PROVE  \/ pc[c] # "idle" /\ held'[c] = held[c] /\ pc'[c] = pc[c]
               \/ held'[c].step \in executed /\ (pc'[c] = "settle" => held'[c].step = NumSteps)
    <3>1. ASSUME NEW r \in Reply, ReceiveReply(c, r)
          PROVE  held'[c].step \in executed /\ pc'[c] # "settle"
      BY <1>1, <2>2, <3>1 DEF ReceiveReply, Goto, RepliesEarned, TypeOK, ProcType
    <3>2. CASE RecordResult(c) \/ SettleRow(c) \/ PickNext(c)
      <4>1. pc[c] # "idle" /\ UNCHANGED held
        BY <3>2 DEF RecordResult, SettleRow, PickNext
      <4>2. pc'[c] # "settle"
        BY <1>1, <3>2 DEF RecordResult, SettleRow, PickNext, Goto, TypeOK, ProcType
      <4> QED
        BY <2>2, <4>1, <4>2 DEF HeldEarned
    <3>3. CASE CountResult(c)
      <4>1. pc[c] # "idle" /\ UNCHANGED held
        BY <3>3 DEF CountResult
      <4>2. pc'[c] = "settle" => held[c].step = NumSteps
        BY <1>1, <2>2, <3>3, <4>1 DEF CountResult, LastStep, Goto, TypeOK, ProcType
      <4> QED
        BY <2>2, <4>1, <4>2 DEF HeldEarned
    <3>4. CASE AckReply(c) \/ NothingPending(c) \/ ConsumerError(c)
      BY <1>1, <2>2, <3>4 DEF AckReply, NothingPending, ConsumerError, ReturnReply, Goto, TypeOK, ProcType
    <3> QED
      BY <3>1, <3>2, <3>3, <3>4 DEF Consume
  <2> QED
    BY <1>2, <2>1, <2>2, HeldEarnedKept
<1>8. RunningIsLast'
  <2>1. CASE SettleRow(c)
    <3>1. held[c].kind = "success" => NumSteps \in executed
      BY <2>1 DEF SettleRow, HeldEarned
    <3>2. rowStatus' = "running" => held[c].kind = "success"
      BY <2>1 DEF SettleRow, UpdateRowStatus
    <3> QED
      BY <1>2, <3>1, <3>2, RunningKept
  <2>2. CASE UNCHANGED rowStatus
    BY <1>2, <2>2, RunningKept
  <2> QED
    BY <2>1, <2>2 DEF Consume, ReceiveReply, RecordResult, CountResult, PickNext, AckReply,
         NothingPending, ConsumerError, ReturnReply, rowVars
<1> QED
  BY <1>3, <1>5, <1>6, <1>7, <1>8

\* A worker's success reply comes with its device operation.
LEMMA WorkClaims ==
  ASSUME TypeOK, PendingIsASuffix, ClaimsAreEarned, NEW b \in TaskIds, Work(b)
  PROVE  ClaimsAreEarned'
<1> USE DEF ClaimsAreEarned
<1>1. UNCHANGED taskVars /\ UNCHANGED procVars /\ UNCHANGED rowVars /\ UNCHANGED comp
  BY DEF Work, WorkerSucceeds, WorkerFails, WorkerLosesReply, WorkerRedelivered, HandlerReturns
<1>2. Grows
  BY DEF Grows, Work, WorkerSucceeds, WorkerFails, WorkerLosesReply, WorkerRedelivered, HandlerReturns
<1>3. CompletedWasExecuted' /\ HeldEarned' /\ VerdictEarned' /\ RunningIsLast'
  BY <1>1, <1>2, CompletedKept, HeldEarnedKept, VerdictKept, RunningKept DEF taskVars, procVars, rowVars
<1>4. RepliesEarned'
  <2>1. CASE WorkerSucceeds(b)
    <3>1. \A r \in Reply : r.step # broker[b].step => replies'[r] = replies[r]
      BY <2>1 DEF WorkerSucceeds, Enqueue, TypeOK, BrokerType
    <3>2. broker[b].step \in executed'
      BY <2>1 DEF WorkerSucceeds
    <3> QED
      BY <1>2, <3>1, <3>2, RepliesEarnedKept
  <2>2. CASE WorkerFails(b)
    <3>1. \A r \in Reply : r.kind = "success" => replies'[r] = replies[r]
      BY <2>2 DEF WorkerFails, FailureKind, Enqueue, TypeOK, BrokerType
    <3> QED
      BY <1>2, <3>1, RepliesEarnedKept
  <2>3. CASE UNCHANGED replies
    BY <1>2, <2>3, RepliesEarnedKept
  <2> QED
    BY <2>1, <2>2, <2>3 DEF Work, WorkerLosesReply, WorkerRedelivered, HandlerReturns
<1> QED
  BY <1>3, <1>4

\* The loop writes 'running' only when every row of tasks says 'completed'.
LEMMA CompensateClaims ==
  TypeOK /\ ClaimsAreEarned /\ Compensate => ClaimsAreEarned'
<1> SUFFICES ASSUME TypeOK, ClaimsAreEarned, Compensate PROVE ClaimsAreEarned'
  OBVIOUS
<1> USE DEF ClaimsAreEarned
<1>1. UNCHANGED <<taskVars, brokerVars, procVars, executed>>
  BY DEF Compensate, CompSnapshot, CompStats, CompInFlight, CompWrite, CompError
<1>2. Grows
  BY <1>1 DEF Grows
<1>3. CompletedWasExecuted' /\ RepliesEarned' /\ HeldEarned'
  BY <1>1, <1>2, CompletedKept, RepliesEarnedKept, HeldEarnedKept DEF taskVars, brokerVars, procVars
<1>4. VerdictEarned'
  <2>1. CASE CompStats
    <3>1. (\A i \in Steps : taskStatus[i] = "completed") => NumSteps \in executed
      BY ConstantsAssumption DEF Steps, CompletedWasExecuted
    <3>2. comp'.verdict = "running" =>
            comp.verdict = "running" \/ \A i \in Steps : taskStatus[i] = "completed"
      BY <2>1 DEF CompStats, AllCompleted, CompIdle, TypeOK, CompType
    <3> QED
      BY <1>1, <3>1, <3>2 DEF VerdictEarned
  <2>2. CASE CompSnapshot \/ CompWrite \/ CompError \/ \E ok \in BOOLEAN : CompInFlight(ok)
    <3>1. comp'.verdict # "running" \/ comp'.verdict = comp.verdict
      <4>1. CASE CompSnapshot \/ CompWrite \/ CompError
        BY <4>1 DEF CompSnapshot, CompWrite, CompError, CompIdle
      <4>2. ASSUME NEW ok \in BOOLEAN, CompInFlight(ok) PROVE comp'.verdict # "running"
        BY <4>2 DEF CompInFlight, CompIdle, TypeOK, CompType
      <4> QED
        BY <2>2, <4>1, <4>2
    <3> QED
      BY <1>1, <3>1 DEF VerdictEarned
  <2> QED
    BY <2>1, <2>2 DEF Compensate
<1>5. RunningIsLast'
  <2>1. rowStatus' = "running" => rowStatus = "running" \/ comp.verdict = "running"
    BY DEF Compensate, CompSnapshot, CompStats, CompInFlight, CompWrite, CompError, UpdateRowStatus, rowVars
  <2> QED
    BY <1>2, <2>1, RunningKept DEF VerdictEarned
<1> QED
  BY <1>3, <1>4, <1>5

(***************************************************************************)
(* The theorems.                                                           *)
(***************************************************************************)

\* Nothing is claimed, published or inserted at the start.
LEMMA InitSafe == Init => SafetyInv
<1> SUFFICES ASSUME Init PROVE SafetyInv
  OBVIOUS
<1>1. TypeOK
  BY InitType
<1>2. InsertedAtOnce
  BY ConstantsAssumption DEF Init, InsertedAtOnce, NotInserted, FreeTask, Procs
<1>3. PendingIsASuffix
  BY ConstantsAssumption DEF Init, PendingIsASuffix, RowsPassed, BrokerPassed, RepliesPassed,
         HeldPassed, ProcsPassed, FreeTask, Procs
<1>4. ClaimsAreEarned
  BY ConstantsAssumption DEF Init, ClaimsAreEarned, CompletedWasExecuted, RepliesEarned, HeldEarned,
         VerdictEarned, RunningIsLast, CompIdle, NoReply
<1> QED
  BY <1>1, <1>2, <1>3, <1>4 DEF SafetyInv

\* Every step keeps the invariant.
LEMMA StepSafe == SafetyInv /\ [Next]_vars => SafetyInv'
<1> SUFFICES ASSUME SafetyInv, [Next]_vars PROVE SafetyInv'
  OBVIOUS
<1> USE DEF SafetyInv
<1>1. CASE Submit
  BY <1>1, SubmitType, SubmitInserted, SubmitSuffix, SubmitClaims
<1>2. ASSUME NEW p \in Procs, PublishTask(p) PROVE SafetyInv'
  BY <1>2, PublishType, PublishInserted, PublishSuffix, PublishClaims
<1>3. ASSUME NEW c \in Consumers, Consume(c) PROVE SafetyInv'
  BY <1>3, ConsumeType, ConsumeInserted, ConsumeSuffix, ConsumeClaims
<1>4. ASSUME NEW p \in Replayers, Replay(p) PROVE SafetyInv'
  BY <1>4, ReplayType, ReplayInserted, ReplaySuffix, ReplayClaims
<1>5. ASSUME NEW b \in TaskIds, Work(b) PROVE SafetyInv'
  BY <1>5, WorkType, WorkInserted, WorkSuffix, WorkClaims
<1>6. CASE Compensate
  <2>1. UNCHANGED <<taskVars, brokerVars, procVars>>
    BY <1>6 DEF Compensate, CompSnapshot, CompStats, CompInFlight, CompWrite, CompError
  <2> QED
    BY <1>6, <2>1, CompensateType, QuietInserted, QuietSuffix, CompensateClaims
<1>7. CASE Elapse
  <2>1. UNCHANGED <<taskVars, brokerVars, procVars>>
    BY <1>7 DEF Elapse
  <2>2. ClaimsAreEarned'
    BY <1>7, ClaimsFrame DEF Elapse, taskVars, brokerVars, procVars
  <2> QED
    BY <1>7, <2>1, <2>2, ElapseType, QuietInserted, QuietSuffix
<1>8. CASE UNCHANGED vars
  <2>1. TypeOK'
    BY <1>8, RowFrame, TaskFrame, BrokerFrame, ProcFrame, CompFrame DEF vars, TypeOK
  <2>2. ClaimsAreEarned'
    BY <1>8, ClaimsFrame DEF vars, taskVars, brokerVars, procVars, rowVars
  <2> QED
    BY <1>8, <2>1, <2>2, QuietInserted, QuietSuffix DEF vars
<1> QED
  BY <1>1, <1>2, <1>3, <1>4, <1>5, <1>6, <1>7, <1>8 DEF Next

\* SafetyInv is inductive: it holds in every execution of a workflow, with any
\* number of goroutines, replays, faults, retries and redeliveries.
THEOREM Safety == Spec => []SafetyInv
  BY InitSafe, StepSafe, PTL DEF Spec

\* Every variable of a workflow keeps its type.
THEOREM TypeCorrect == Spec => []TypeOK
<1>1. SafetyInv => TypeOK
  BY DEF SafetyInv
<1> QED
  BY <1>1, Safety, PTL

\* publishTask hands a step to the broker only when every earlier row of tasks
\* has left 'pending'.
THEOREM StepsAreNotSkipped == Spec => []NoStepSkipped
<1>1. SafetyInv => NoStepSkipped
  BY DEF SafetyInv, PendingIsASuffix, BrokerPassed, NoStepSkipped, Published
<1> QED
  BY <1>1, Safety, PTL

\* HandleReply writes 'completed' only for a step a worker has carried out.
THEOREM CompletedStepsAreExecuted == Spec => []CompletedWasExecuted
<1>1. SafetyInv => CompletedWasExecuted
  BY DEF SafetyInv, ClaimsAreEarned
<1> QED
  BY <1>1, Safety, PTL

\* HandleReply and the compensation loop write 'running' only after the last
\* step has been carried out.
THEOREM RunningMeansLastStep == Spec => []RunningIsLast
<1>1. SafetyInv => RunningIsLast
  BY DEF SafetyInv, ClaimsAreEarned
<1> QED
  BY <1>1, Safety, PTL

=============================================================================
