------------------------ MODULE WorkflowChainProofs ------------------------
(***************************************************************************)
(* For every number of steps, consumers, retries and replays: a workflow  *)
(* with no fault, no redelivery and one operator at most has one thread   *)
(* of control, so its steps are carried out in their order, each counted  *)
(* once, and before a replay only a stale loop takes 'running' back;      *)
(* without replays and timeouts it implements StepChain.                  *)
(***************************************************************************)
EXTENDS WorkflowChain, WorkflowProofs, FiniteSetTheorems

-----------------------------------------------------------------------------
(* What the hypothesis excludes. *)

\* No statement fails and no finished task is run again.
LEMMA NothingFails ==
  ASSUME Undisturbed, TypeOK
  PROVE  ~Spend("fault") /\ ~Spend("redelivery")
  BY DEF Undisturbed, TypeOK, Spend, Limit, Kinds

\* The request takes the way of a request that succeeds.
LEMMA SubmitsStraight ==
  ASSUME Undisturbed, TypeOK, RolesKept, Submit
  PROVE  CreateRow \/ BatchCreate \/ UpdateTotalTasks \/ SetCreating
  BY NothingFails DEF Submit, FailFirstTask, FailFirstCount, FailFirstRow, SubmitError,
     SubmitCrash, RolesKept

\* A consumer handles its reply to the end.
LEMMA ConsumesStraight ==
  ASSUME Undisturbed, TypeOK, NEW c \in Consumers, Consume(c)
  PROVE  \/ \E r \in Reply : ReceiveReply(c, r)
         \/ RecordResult(c) \/ CountResult(c) \/ SettleRow(c) \/ PickNext(c) \/ AckReply(c)
         \/ NothingPending(c)
  BY NothingFails DEF Consume, ConsumerError

\* So does an operator with a replay.
LEMMA ReplaysStraight ==
  ASSUME Undisturbed, TypeOK, NEW p \in Replayers, Replay(p)
  PROVE  \/ \E i \in Steps : AcceptReplay(p, i)
         \/ ResetRow(p) \/ RunTask(p) \/ FallBackToPublish(p)
  BY NothingFails DEF Replay, ReplayError

\* And a worker.
LEMMA WorksStraight ==
  ASSUME Undisturbed, TypeOK, NEW b \in TaskIds, Work(b)
  PROVE  WorkerSucceeds(b) \/ WorkerFails(b) \/ HandlerReturns(b)
  BY NothingFails DEF Work, WorkerLosesReply, WorkerRedelivered

\* Who a process is, it is alone.
LEMMA OneRole ==
  /\ Submitter \in Procs /\ Submitter \notin Consumers /\ Submitter \notin Replayers
  /\ \A c \in Consumers : c \in Procs /\ c # Submitter /\ c \notin Replayers
  /\ \A p \in Replayers : p \in Procs /\ p # Submitter /\ p \notin Consumers
  BY ConstantsAssumption DEF Procs

\* A goto moves one process.
LEMMA GotoOne ==
  ASSUME TypeOK, NEW p \in Procs, NEW l, Goto(p, l)
  PROVE  pc'[p] = l /\ \A q \in Procs : q # p => pc'[q] = pc[q]
  BY DEF TypeOK, ProcType, Goto

\* A row of tasks is updated alone.
LEMMA UpdateOne ==
  ASSUME TypeOK, NEW i \in Steps, NEW s, UpdateTask(i, s)
  PROVE  taskStatus'[i] = s /\ \A j \in Steps : j # i => taskStatus'[j] = taskStatus[j]
  BY DEF TypeOK, TaskType, UpdateTask

-----------------------------------------------------------------------------
(* A step of a process leaves the others where they are. *)

\* The request moves one process.
LEMMA SubmitMovesOne ==
  ASSUME Undisturbed, TypeOK, RolesKept, Submit
  PROVE  /\ UNCHANGED <<asynqId, broker, replies, ref, held, comp, executed, used>>
         /\ pc'[Submitter] \in {"insert", "total", "creating", "publish"}
         /\ \A p \in Procs : p # Submitter => pc'[p] = pc[p] /\ step'[p] = step[p]
<1>1. UNCHANGED <<asynqId, broker, replies, ref, held, comp, executed, used>>
  BY SubmitsStraight DEF CreateRow, BatchCreate, UpdateTotalTasks, SetCreating, taskVars, brokerVars
<1>2. \A p \in Procs : p # Submitter => pc'[p] = pc[p]
  BY SubmitsStraight, GotoOne, OneRole DEF CreateRow, BatchCreate, UpdateTotalTasks, SetCreating
<1>3. \A p \in Procs : p # Submitter => step'[p] = step[p]
  BY SubmitsStraight, OneRole
     DEF CreateRow, BatchCreate, UpdateTotalTasks, SetCreating, TypeOK, ProcType
<1>4. pc'[Submitter] \in {"insert", "total", "creating", "publish"}
  BY SubmitsStraight, GotoOne, OneRole DEF CreateRow, BatchCreate, UpdateTotalTasks, SetCreating
<1> QED BY <1>1, <1>2, <1>3, <1>4

\* HandleReply moves one process.
LEMMA ConsumeMovesOne ==
  ASSUME Undisturbed, TypeOK, NEW c \in Consumers, Consume(c)
  PROVE  /\ UNCHANGED <<asynqId, broker, comp, executed>>
         /\ \A p \in Procs : p # c => pc'[p] = pc[p] /\ step'[p] = step[p] /\ ref'[p] = ref[p]
         /\ \A d \in Consumers : d # c => held'[d] = held[d]
<1>1. UNCHANGED <<asynqId, broker, comp, executed>>
  BY ConsumesStraight DEF ReceiveReply, RecordResult, CountResult, SettleRow, PickNext, AckReply,
     NothingPending, ReturnReply, taskVars, brokerVars
<1>2. \A p \in Procs : p # c => pc'[p] = pc[p]
  BY ConsumesStraight, GotoOne, OneRole DEF ReceiveReply, RecordResult, CountResult, SettleRow,
     PickNext, AckReply, NothingPending, ReturnReply
<1>3. \A p \in Procs : p # c => step'[p] = step[p] /\ ref'[p] = ref[p]
  BY ConsumesStraight DEF ReceiveReply, RecordResult, CountResult, SettleRow, PickNext, AckReply,
     NothingPending, ReturnReply, Forget, TypeOK, ProcType
<1>4. \A d \in Consumers : d # c => held'[d] = held[d]
  BY ConsumesStraight DEF ReceiveReply, RecordResult, CountResult, SettleRow, PickNext, AckReply,
     NothingPending, ReturnReply, TypeOK, ProcType
<1> QED BY <1>1, <1>2, <1>3, <1>4

\* A replay moves one process.
LEMMA ReplayMovesOne ==
  ASSUME Undisturbed, TypeOK, NEW p \in Replayers, Replay(p)
  PROVE  \A q \in Procs : q # p => pc'[q] = pc[q] /\ step'[q] = step[q] /\ ref'[q] = ref[q]
<1>1. \A q \in Procs : q # p => pc'[q] = pc[q]
  BY OneRole, GotoOne, ReplaysStraight DEF AcceptReplay, ResetRow, RunTask, FallBackToPublish
<1>2. \A q \in Procs : q # p => step'[q] = step[q] /\ ref'[q] = ref[q]
  <2>1. CASE \E i \in Steps : AcceptReplay(p, i)
    BY <2>1, OneRole DEF AcceptReplay, TypeOK, ProcType
  <2>2. CASE ResetRow(p) \/ RunTask(p)
    BY <2>2 DEF ResetRow, RunTask
  <2>3. CASE FallBackToPublish(p)
    BY <2>3, OneRole DEF FallBackToPublish, TypeOK, ProcType
  <2> QED BY <2>1, <2>2, <2>3, ReplaysStraight
<1> QED BY <1>1, <1>2

-----------------------------------------------------------------------------
(* IdsMatch: a task of the broker keeps its step. *)

TasksStay == \A b \in TaskIds : broker[b].state # "free" =>
               broker'[b].state # "free" /\ broker'[b].step = broker[b].step

\* An id that leads to a task of a step still does.
LEMMA TaskOfKept ==
  ASSUME TasksStay, NEW b, NEW i, TaskOf(b, i)
  PROVE  TaskOf(b, i)'
  BY DEF TasksStay, TaskOf

\* The ids that are left alone still match.
LEMMA IdsKept ==
  ASSUME IdsMatch, TasksStay,
         \A i \in Steps : asynqId'[i] = asynqId[i] \/ TaskOf(asynqId[i], i)',
         \A p \in Procs : pc'[p] \in {"mark", "reset", "rerun"} /\ ref'[p] # 0 =>
            \/ /\ pc[p] \in {"mark", "reset", "rerun"}
               /\ ref'[p] = ref[p] /\ step'[p] = step[p]
            \/ TaskOf(ref[p], step[p])'
  PROVE  IdsMatch'
<1>1. ASSUME NEW i \in Steps, asynqId'[i] # 0 PROVE TaskOf(asynqId[i], i)'
  BY <1>1, TaskOfKept DEF IdsMatch
<1>2. ASSUME NEW p \in Procs, pc'[p] \in {"mark", "reset", "rerun"}, ref'[p] # 0
      PROVE  TaskOf(ref[p], step[p])'
  BY <1>2, TaskOfKept DEF IdsMatch
<1> QED BY <1>1, <1>2 DEF IdsMatch

\* The request names no task before it publishes one.
LEMMA SubmitIds ==
  ASSUME Undisturbed, TypeOK, RolesKept, IdsMatch, Submit
  PROVE  IdsMatch'
<1>1. UNCHANGED <<asynqId, broker, ref>> /\ TasksStay
  BY SubmitsStraight DEF CreateRow, BatchCreate, UpdateTotalTasks, SetCreating, taskVars, brokerVars, TasksStay
<1>3. \A p \in Procs : p # Submitter => pc'[p] = pc[p] /\ step'[p] = step[p]
  BY SubmitMovesOne
<1>4. pc'[Submitter] \notin {"mark", "reset", "rerun"}
  BY SubmitMovesOne
<1> QED BY <1>1, <1>3, <1>4, IdsKept

\* publishTask stores the id of the task it has published.
LEMMA PublishIds ==
  ASSUME TypeOK, PendingIsASuffix, IdsMatch, NEW p \in Procs, PublishTask(p)
  PROVE  IdsMatch'
<1>1. ASSUME NEW b \in TaskIds, Publish(p, b) PROVE IdsMatch'
  <2>1. /\ \A a \in TaskIds : a # b => broker'[a] = broker[a]
        /\ broker'[b].state = "pending" /\ broker'[b].step = step[p]
    BY <1>1 DEF Publish, TypeOK, BrokerType
  <2>2. TasksStay
    BY <1>1, <2>1 DEF Publish, TasksStay
  <2>3. /\ ref'[p] = b /\ UNCHANGED <<asynqId, step>>
        /\ \A q \in Procs : q # p => pc'[q] = pc[q] /\ ref'[q] = ref[q]
    BY <1>1, GotoOne DEF Publish, TypeOK, ProcType, taskVars
  <2>4. TaskOf(ref[p], step[p])'
    BY <2>1, <2>3 DEF TaskOf
  <2> QED BY <2>2, <2>3, <2>4, IdsKept
<1>2. CASE MarkQueued(p)
  <2>1. TasksStay
    BY <1>2 DEF MarkQueued, brokerVars, TasksStay
  <2>2. step[p] \in Steps
    BY <1>2 DEF MarkQueued, PendingIsASuffix, ProcsPassed
  <2>3. asynqId'[step[p]] = ref[p] /\ \A i \in Steps : i # step[p] => asynqId'[i] = asynqId[i]
    BY <1>2, <2>2 DEF MarkQueued, TypeOK, TaskType
  <2>4. ref[p] # 0 => TaskOf(ref[p], step[p])
    BY <1>2 DEF MarkQueued, IdsMatch
  <2>5. ASSUME NEW i \in Steps, asynqId'[i] # 0 PROVE TaskOf(asynqId[i], i)'
    <3>1. TaskOf(asynqId'[i], i)
      BY <2>3, <2>4, <2>5 DEF IdsMatch
    <3> QED BY <2>1, <3>1, TaskOfKept
  <2>6. /\ pc'[p] \notin {"mark", "reset", "rerun"}
        /\ \A q \in Procs : q # p => pc'[q] = pc[q] /\ ref'[q] = ref[q] /\ step'[q] = step[q]
    BY <1>2, GotoOne DEF MarkQueued, Returned, Forget, TypeOK, ProcType
  <2>7. ASSUME NEW q \in Procs, pc'[q] \in {"mark", "reset", "rerun"}, ref'[q] # 0
        PROVE  TaskOf(ref[q], step[q])'
    <3>1. TaskOf(ref'[q], step'[q])
      BY <2>6, <2>7 DEF IdsMatch
    <3> QED BY <2>1, <3>1, TaskOfKept
  <2> QED BY <2>5, <2>7 DEF IdsMatch
<1> QED BY <1>1, <1>2 DEF PublishTask

\* HandleReply names no task but by publishTask.
LEMMA ConsumeIds ==
  ASSUME Undisturbed, TypeOK, IdsMatch, NEW c \in Consumers, Consume(c)
  PROVE  IdsMatch'
<1>1. UNCHANGED <<asynqId, broker>> /\ TasksStay
  BY ConsumesStraight DEF ReceiveReply, RecordResult, CountResult, SettleRow, PickNext, AckReply,
     NothingPending, ReturnReply, taskVars, brokerVars, TasksStay
<1>2. (\E l \in {"result", "ack", "count", "next", "settle", "publish", "idle"} : Goto(c, l))
      \/ UNCHANGED pc
  BY ConsumesStraight DEF ReceiveReply, RecordResult, CountResult, SettleRow, PickNext, AckReply,
     NothingPending, ReturnReply
<1>3. \A p \in Procs : p # c => step'[p] = step[p] /\ ref'[p] = ref[p]
  BY ConsumeMovesOne
<1>4. CASE UNCHANGED pc
  <2>1. UNCHANGED <<step, ref>> \/ pc[c] = "next"
    BY ConsumesStraight DEF ReceiveReply, RecordResult, CountResult, SettleRow, PickNext, AckReply,
       NothingPending
  <2> QED BY <1>1, <1>3, <1>4, <2>1, IdsKept
<1>5. CASE \E l \in {"result", "ack", "count", "next", "settle", "publish", "idle"} : Goto(c, l)
  <2>1. /\ pc'[c] \notin {"mark", "reset", "rerun"}
        /\ \A p \in Procs : p # c => pc'[p] = pc[p]
    BY <1>5, GotoOne, OneRole
  <2> QED BY <1>1, <1>3, <2>1, IdsKept
<1> QED BY <1>2, <1>4, <1>5

\* A replay takes the id its row of tasks stores.
LEMMA ReplayIds ==
  ASSUME Undisturbed, TypeOK, IdsMatch, NEW p \in Replayers, Replay(p)
  PROVE  IdsMatch'
<1>1. UNCHANGED asynqId
  BY ReplaysStraight DEF AcceptReplay, ResetRow, RunTask, FallBackToPublish, taskVars
<1>2. TasksStay
  <2>1. CASE RunTask(p)
    BY <2>1 DEF RunTask, Rerunnable, TasksStay, TypeOK, BrokerType
  <2>2. CASE UNCHANGED broker
    BY <2>2 DEF TasksStay
  <2> QED BY <2>1, <2>2, ReplaysStraight DEF AcceptReplay, ResetRow, FallBackToPublish, brokerVars
<1>3. \A q \in Procs : q # p => pc'[q] = pc[q] /\ step'[q] = step[q] /\ ref'[q] = ref[q]
  BY ReplayMovesOne
<1>4. ASSUME pc'[p] \in {"mark", "reset", "rerun"}, ref'[p] # 0
      PROVE  TaskOf(ref'[p], step'[p])
  <2>1. ASSUME NEW i \in Steps, AcceptReplay(p, i) PROVE TaskOf(ref'[p], step'[p])
    BY <1>4, <2>1, OneRole DEF AcceptReplay, IdsMatch, TypeOK, ProcType
  <2>2. CASE ResetRow(p) \/ RunTask(p)
    BY <1>4, <2>2, OneRole DEF ResetRow, RunTask, IdsMatch
  <2>3. CASE FallBackToPublish(p)
    BY <1>4, <2>3, OneRole, GotoOne DEF FallBackToPublish
  <2> QED BY <2>1, <2>2, <2>3, ReplaysStraight
<1>5. ASSUME pc'[p] \in {"mark", "reset", "rerun"}, ref'[p] # 0
      PROVE  TaskOf(ref[p], step[p])'
  BY <1>2, <1>4, <1>5, TaskOfKept
<1> QED BY <1>1, <1>2, <1>3, <1>5, IdsKept

\* A worker does not change what task it works on.
LEMMA WorkIds ==
  ASSUME Undisturbed, TypeOK, IdsMatch, NEW b \in TaskIds, Work(b)
  PROVE  IdsMatch'
<1>1. UNCHANGED <<taskVars, procVars>>
  BY WorksStraight DEF WorkerSucceeds, WorkerFails, HandlerReturns
<1>2. TasksStay
  <2>1. ASSUME NEW s \in TaskStates, SetTask(b, s), s # "free" PROVE TasksStay
    BY <2>1 DEF SetTask, TasksStay, TypeOK, BrokerType
  <2>2. CASE WorkerSucceeds(b) \/ WorkerFails(b)
    BY <2>1, <2>2 DEF WorkerSucceeds, WorkerFails, TaskStates
  <2>3. CASE HandlerReturns(b)
    <3>1. CASE broker' = [broker EXCEPT ![b].state = "retry", ![b].retried = @ + 1]
      BY <3>1 DEF TasksStay, TypeOK, BrokerType
    <3> QED BY <2>1, <2>3, <3>1 DEF HandlerReturns, TaskStates
  <2> QED BY <2>2, <2>3, WorksStraight
<1> QED BY <1>1, <1>2, IdsKept DEF taskVars, procVars

\* The loop and the clock name no task.
LEMMA QuietIds == IdsMatch /\ UNCHANGED <<taskVars, brokerVars, procVars>> => IdsMatch'
  BY DEF IdsMatch, TaskOf, taskVars, brokerVars, procVars

-----------------------------------------------------------------------------
(* RolesKept. *)

\* The part of it that is about one consumer.
ConsumerRole(c) ==
  /\ pc[c] \in {"count", "settle"} => held[c].kind # "retrying"
  /\ pc[c] \in {"next", "publish", "mark"} => held[c].kind = "success"
  /\ pc[c] \in {"count", "next"} => taskStatus[held[c].step] \notin {"none", "pending"}
  /\ pc[c] = "next" => held[c].step < NumSteps

\* A consumer that stays where it is keeps its role if the rows only advance.
LEMMA ConsumerRoleKept ==
  ASSUME PendingIsASuffix, Advance, NEW c \in Consumers, ConsumerRole(c),
         pc'[c] = pc[c], held'[c] = held[c]
  PROVE  ConsumerRole(c)'
<1>1. pc[c] # "idle" => held[c].step \in Steps
  BY DEF PendingIsASuffix, HeldPassed, Reply
<1> QED BY <1>1 DEF ConsumerRole, Advance

\* The request publishes the first step.
LEMMA SubmitRoles ==
  ASSUME Undisturbed, TypeOK, InsertedAtOnce, PendingIsASuffix, RolesKept, Submit
  PROVE  RolesKept'
<1>1. /\ UNCHANGED held
      /\ \A c \in Consumers : pc'[c] = pc[c]
  BY SubmitMovesOne, OneRole
<1>2. pc'[Submitter] \in {"insert", "total", "creating", "publish"}
  BY SubmitMovesOne
<1>3. pc'[Submitter] = "publish" => step'[Submitter] = 1
  <2>1. CASE SetCreating
    BY <2>1, OneRole DEF SetCreating, TypeOK, ProcType
  <2>2. CASE CreateRow \/ BatchCreate \/ UpdateTotalTasks
    BY <2>2, GotoOne, OneRole DEF CreateRow, BatchCreate, UpdateTotalTasks
  <2> QED BY <2>1, <2>2, SubmitsStraight
<1>4. ASSUME NEW c \in Consumers PROVE ConsumerRole(c)'
  <2>1. CASE BatchCreate
    <3>1. pc[c] = "idle"
      BY <2>1 DEF BatchCreate, InsertedAtOnce, Inserted, NotInserted
    <3> QED BY <1>1, <3>1 DEF ConsumerRole
  <2>2. CASE UNCHANGED taskStatus
    BY <1>1, <2>2, UnchangedAdvances, ConsumerRoleKept DEF RolesKept, ConsumerRole
  <2> QED BY <2>1, <2>2, SubmitsStraight DEF CreateRow, UpdateTotalTasks, SetCreating, taskVars
<1> QED BY <1>2, <1>3, <1>4 DEF RolesKept, ConsumerRole

\* publishTask goes on from 'publish' to 'mark' and then returns.
LEMMA PublishRoles ==
  ASSUME TypeOK, PendingIsASuffix, RolesKept, NEW p \in Procs, PublishTask(p)
  PROVE  RolesKept'
<1>1. /\ UNCHANGED held
      /\ \A q \in Procs : q # p => pc'[q] = pc[q]
      /\ pc'[p] \in {"mark", "stop", "ack", "idle"}
      /\ pc'[p] = "mark" => pc[p] = "publish"
  BY GotoOne DEF PublishTask, Publish, MarkQueued, Returned
<1>2. Advance
  <2>1. ASSUME NEW b \in TaskIds, Publish(p, b) PROVE Advance
    BY <2>1, UnchangedAdvances DEF Publish, taskVars
  <2>2. CASE MarkQueued(p)
    <3>1. step[p] \in Steps
      BY <2>2 DEF MarkQueued, PendingIsASuffix, ProcsPassed
    <3> QED BY <2>2, <3>1, UpdateAdvances DEF MarkQueued, TypeOK
  <2> QED BY <2>1, <2>2 DEF PublishTask
<1>3. ASSUME NEW c \in Consumers PROVE ConsumerRole(c)'
  <2>1. CASE c = p
    BY <1>1, <2>1 DEF ConsumerRole, RolesKept
  <2>2. CASE c # p
    BY <1>1, <1>2, <2>2, OneRole, ConsumerRoleKept DEF RolesKept, ConsumerRole
  <2> QED BY <2>1, <2>2
<1>4. pc'[Submitter] \notin {"failTask", "failCount", "failRow"}
  BY <1>1, OneRole DEF RolesKept
<1>5. pc'[Submitter] = "publish" => step'[Submitter] = 1
  <2>1. ASSUME NEW b \in TaskIds, Publish(p, b) PROVE UNCHANGED step
    BY <2>1 DEF Publish
  <2>2. CASE MarkQueued(p)
    BY <1>1, <2>2, OneRole DEF MarkQueued, Forget, RolesKept, TypeOK, ProcType
  <2> QED BY <1>1, <2>1, <2>2, OneRole DEF PublishTask, RolesKept
<1> QED BY <1>3, <1>4, <1>5 DEF RolesKept, ConsumerRole

\* HandleReply goes on to the next step only after a success.
LEMMA ConsumeRoles ==
  ASSUME Undisturbed, TypeOK, PendingIsASuffix, RolesKept, NEW c \in Consumers, Consume(c)
  PROVE  RolesKept'
<1>1. \A p \in Procs : p # c => pc'[p] = pc[p]
  BY ConsumeMovesOne
<1>2. \A d \in Consumers : d # c => held'[d] = held[d]
  BY ConsumeMovesOne
<1>3. \A p \in Procs : p # c => step'[p] = step[p]
  BY ConsumeMovesOne
<1>4. /\ Advance
      /\ RecordResult(c) => taskStatus'[held[c].step] \notin {"none", "pending"}
  <2>1. CASE RecordResult(c)
    <3>1. PICK s \in {"queued", "completed", "failed"} : UpdateTask(held[c].step, s)
      BY <2>1, ResultStatusType DEF RecordResult, PendingIsASuffix
    <3>2. held[c].step \in Steps
      BY <2>1, ResultStatusType DEF RecordResult, PendingIsASuffix
    <3> QED BY <3>1, <3>2, UpdateAdvances, UpdateOne DEF TypeOK
  <2>2. CASE UNCHANGED taskStatus /\ ~RecordResult(c)
    BY <2>2, UnchangedAdvances
  <2> QED BY <2>1, <2>2, ConsumesStraight DEF ReceiveReply, CountResult, SettleRow, PickNext,
             AckReply, NothingPending, ReturnReply, taskVars
<1>5. ConsumerRole(c)'
  <2>1. ASSUME NEW r \in Reply, ReceiveReply(c, r) PROVE ConsumerRole(c)'
    <3>1. pc'[c] \in {"idle", "result"}
      BY <2>1, GotoOne, OneRole DEF ReceiveReply
    <3> QED BY <3>1 DEF ConsumerRole
  <2>2. CASE RecordResult(c)
    <3>1. UNCHANGED held
      BY <2>2 DEF RecordResult
    <3>2. pc'[c] = IF held[c].kind = "retrying" THEN "ack" ELSE "count"
      BY <2>2, OneRole, GotoOne DEF RecordResult
    <3> QED BY <1>4, <2>2, <3>1, <3>2 DEF ConsumerRole
  <2>3. CASE CountResult(c)
    <3>1. UNCHANGED <<held, taskStatus>>
      BY <2>3 DEF CountResult, taskVars
    <3>2. pc'[c] = IF held[c].kind = "success" /\ ~LastStep(held[c].step) THEN "next" ELSE "settle"
      BY <2>3, OneRole, GotoOne DEF CountResult
    <3>3. held[c].step \in Steps
      BY <2>3 DEF CountResult, PendingIsASuffix, HeldPassed, Reply
    <3>4. ~LastStep(held[c].step) => held[c].step < NumSteps
      BY <3>3, ConstantsAssumption DEF LastStep, Steps
    <3> QED BY <2>3, <3>1, <3>2, <3>4 DEF ConsumerRole, RolesKept, CountResult
  <2>4. CASE SettleRow(c) \/ AckReply(c) \/ NothingPending(c)
    <3>1. pc'[c] \in {"ack", "idle"}
      BY <2>4, OneRole, GotoOne DEF SettleRow, AckReply, NothingPending, ReturnReply
    <3> QED BY <3>1 DEF ConsumerRole
  <2>5. CASE PickNext(c)
    <3>1. pc'[c] = "publish" /\ UNCHANGED held
      BY <2>5, OneRole, GotoOne DEF PickNext
    <3> QED BY <2>5, <3>1 DEF ConsumerRole, RolesKept, PickNext
  <2> QED BY <2>1, <2>2, <2>3, <2>4, <2>5, ConsumesStraight
<1>6. ASSUME NEW d \in Consumers PROVE ConsumerRole(d)'
  BY <1>1, <1>2, <1>4, <1>5, OneRole, ConsumerRoleKept DEF RolesKept, ConsumerRole
<1> QED BY <1>1, <1>3, <1>6, OneRole DEF RolesKept, ConsumerRole

\* A replay moves no consumer.
LEMMA ReplayRoles ==
  ASSUME Undisturbed, TypeOK, RolesKept, NEW p \in Replayers, Replay(p)
  PROVE  RolesKept'
<1>1. UNCHANGED <<taskStatus, held>>
  BY ReplaysStraight DEF AcceptReplay, ResetRow, RunTask, FallBackToPublish, taskVars
<1>2. \A q \in Procs : q # p => pc'[q] = pc[q]
  BY ReplayMovesOne
<1>3. step'[Submitter] = step[Submitter]
  BY ReplayMovesOne, OneRole
<1> QED BY <1>1, <1>2, <1>3, OneRole DEF RolesKept

\* Nor does a worker, the loop or the clock.
LEMMA QuietRoles == RolesKept /\ UNCHANGED <<taskVars, procVars>> => RolesKept'
  BY DEF RolesKept, taskVars, procVars

-----------------------------------------------------------------------------
(* ClearAhead: only what is behind the thread is touched. *)

\* A step that touches nothing after k leaves it clear.
LEMMA ClearKept ==
  ASSUME NEW k, ClearAhead(k),
         \A j \in Steps : j > k => taskStatus'[j] \in {taskStatus[j], "none", "pending"},
         \A r \in Reply : replies'[r] > 0 => replies[r] > 0 \/ r.step <= k,
         \A c \in Consumers : pc'[c] # "idle" =>
            \/ pc[c] # "idle" /\ held'[c] = held[c]
            \/ held'[c].step <= k,
         \A p \in Procs : pc'[p] \in {"publish", "mark", "reset", "rerun"} =>
            \/ pc[p] \in {"publish", "mark", "reset", "rerun"} /\ step'[p] = step[p]
            \/ step'[p] <= k
  PROVE  ClearAhead(k)'
  BY DEF ClearAhead

\* The request holds no step after the first.
LEMMA SubmitClear ==
  ASSUME Undisturbed, TypeOK, InsertedAtOnce, RolesKept, Submit, NEW k \in Steps, ClearAhead(k)
  PROVE  ClearAhead(k)'
<1>1. \A j \in Steps : taskStatus'[j] \in {taskStatus[j], "pending"}
  BY SubmitsStraight DEF CreateRow, BatchCreate, UpdateTotalTasks, SetCreating, taskVars
<1>2. \A c \in Consumers : pc'[c] = pc[c] /\ held'[c] = held[c]
  BY SubmitMovesOne, OneRole
<1>3. pc'[Submitter] = "publish" => step'[Submitter] = 1
  <2>1. CASE SetCreating
    BY <2>1, OneRole DEF SetCreating, TypeOK, ProcType
  <2>2. CASE CreateRow \/ BatchCreate \/ UpdateTotalTasks
    BY <2>2, GotoOne, OneRole DEF CreateRow, BatchCreate, UpdateTotalTasks
  <2> QED BY <2>1, <2>2, SubmitsStraight
<1>4. pc'[Submitter] \in {"insert", "total", "creating", "publish"}
  BY SubmitMovesOne
<1>5. 1 <= k
  BY ConstantsAssumption DEF Steps
<1>6. UNCHANGED replies
  BY SubmitMovesOne
<1>7. \A p \in Procs : p # Submitter => pc'[p] = pc[p] /\ step'[p] = step[p]
  BY SubmitMovesOne
<1> QED BY <1>1, <1>2, <1>3, <1>4, <1>5, <1>6, <1>7, ClearKept

\* publishTask marks a row behind the thread.
LEMMA PublishClear ==
  ASSUME TypeOK, NEW p \in Procs, PublishTask(p), NEW k \in Steps, ClearAhead(k), PendingIsASuffix
  PROVE  ClearAhead(k)'
<1>1. ASSUME NEW b \in TaskIds, Publish(p, b) PROVE ClearAhead(k)'
  <2>1. UNCHANGED <<taskStatus, replies, held, step>>
    BY <1>1 DEF Publish, taskVars
  <2>2. /\ \A q \in Procs : q # p => pc'[q] = pc[q]
        /\ pc'[p] = "mark" /\ pc[p] = "publish"
    BY <1>1, GotoOne DEF Publish
  <2> QED BY <2>1, <2>2, OneRole, ClearKept
<1>2. CASE MarkQueued(p)
  <2>1. step[p] \in Steps /\ step[p] <= k
    BY <1>2 DEF MarkQueued, PendingIsASuffix, ProcsPassed, ClearAhead
  <2>2. \A j \in Steps : j > k => taskStatus'[j] = taskStatus[j]
    BY <1>2, <2>1, UpdateOne, ConstantsAssumption DEF MarkQueued, Steps
  <2>3. UNCHANGED <<replies, held>>
    BY <1>2 DEF MarkQueued, brokerVars
  <2>4. /\ \A q \in Procs : q # p => pc'[q] = pc[q] /\ step'[q] = step[q]
        /\ pc'[p] \in {"stop", "ack", "idle"} /\ pc[p] = "mark"
    BY <1>2, GotoOne DEF MarkQueued, Returned, Forget, TypeOK, ProcType
  <2>5. \A c \in Consumers : pc'[c] # "idle" => pc[c] # "idle"
    BY <2>4, OneRole
  <2> QED BY <2>2, <2>3, <2>4, <2>5, ClearKept
<1> QED BY <1>1, <1>2 DEF PublishTask

\* HandleReply records the result of a step behind the thread, or at it.
LEMMA ConsumeClear ==
  ASSUME Undisturbed, TypeOK, PendingIsASuffix, NEW c \in Consumers, Consume(c), ~PickNext(c),
         NEW k \in Steps, ClearAhead(k)
  PROVE  ClearAhead(k)'
<1>1. pc[c] # "idle" => held[c] \in Reply /\ held[c].step \in Steps /\ held[c].step <= k
  BY DEF PendingIsASuffix, HeldPassed, Reply, ClearAhead
<1>2. \A j \in Steps : j > k => taskStatus'[j] = taskStatus[j]
  <2>1. CASE RecordResult(c)
    BY <1>1, <2>1, UpdateOne, ConstantsAssumption DEF RecordResult, Steps
  <2>2. CASE UNCHANGED taskStatus
    BY <2>2
  <2> QED BY <2>1, <2>2, ConsumesStraight DEF ReceiveReply, CountResult, SettleRow, PickNext,
             AckReply, NothingPending, ReturnReply, taskVars
<1>3. /\ \A r \in Reply : replies'[r] > 0 => replies[r] > 0 \/ r.step <= k
      /\ \/ pc'[c] = "idle" \/ (pc[c] # "idle" /\ held'[c] = held[c])
         \/ held'[c].step <= k
  <2>1. ASSUME NEW r \in Reply, ReceiveReply(c, r)
        PROVE  /\ \A q \in Reply : replies'[q] > 0 => replies[q] > 0
               /\ pc'[c] = "idle" \/ held'[c].step <= k
    <3>1. \A q \in Reply : replies'[q] > 0 => replies[q] > 0
      BY <2>1 DEF ReceiveReply, TypeOK, BrokerType
    <3>2. CASE Finished(taskStatus[r.step])
      BY <2>1, <3>1, <3>2 DEF ReceiveReply
    <3>3. CASE ~Finished(taskStatus[r.step])
      <4>1. held'[c] = r
        BY <2>1, <3>3 DEF ReceiveReply, TypeOK, ProcType
      <4> QED BY <2>1, <3>1, <4>1 DEF ReceiveReply, ClearAhead
    <3> QED BY <3>2, <3>3
  <2>2. CASE RecordResult(c) \/ CountResult(c) \/ SettleRow(c)
    BY <2>2 DEF RecordResult, CountResult, SettleRow, brokerVars
  <2>3. CASE AckReply(c)
    BY <2>3, OneRole, GotoOne DEF AckReply, brokerVars
  <2>4. CASE NothingPending(c)
    <3>1. \A r \in Reply : r # held[c] => replies'[r] = replies[r]
      BY <1>1, <2>4 DEF NothingPending, ReturnReply, Enqueue, TypeOK, BrokerType
    <3>2. pc'[c] = "idle"
      BY <2>4, OneRole, GotoOne DEF NothingPending, ReturnReply
    <3> QED BY <1>1, <2>4, <3>1, <3>2 DEF NothingPending
  <2> QED BY <2>1, <2>2, <2>3, <2>4, ConsumesStraight
<1>4. \/ pc'[c] \notin {"publish", "mark", "reset", "rerun"}
      \/ pc'[c] = pc[c] /\ step'[c] = step[c]
  <2>1. ASSUME NEW r \in Reply, ReceiveReply(c, r) PROVE pc'[c] \in {"idle", "result"}
    BY <2>1, OneRole, GotoOne DEF ReceiveReply
  <2>2. CASE RecordResult(c) \/ CountResult(c) \/ SettleRow(c) \/ AckReply(c) \/ NothingPending(c)
    BY <2>2, OneRole, GotoOne
       DEF RecordResult, CountResult, SettleRow, AckReply, NothingPending, ReturnReply
  <2> QED BY <2>1, <2>2, ConsumesStraight
<1>5. /\ \A p \in Procs : p # c => pc'[p] = pc[p] /\ step'[p] = step[p]
      /\ \A d \in Consumers : d # c => pc'[d] = pc[d] /\ held'[d] = held[d]
  BY ConsumeMovesOne, OneRole
<1> QED BY <1>2, <1>3, <1>4, <1>5, ClearKept

\* A failed row is not after k.
LEMMA ReplayClear ==
  ASSUME Undisturbed, TypeOK, NEW p \in Replayers, Replay(p), NEW k \in Steps, ClearAhead(k)
  PROVE  ClearAhead(k)'
<1>1. UNCHANGED <<taskStatus, replies, held>>
  BY ReplaysStraight DEF AcceptReplay, ResetRow, RunTask, FallBackToPublish, taskVars, brokerVars
<1>2. /\ \A q \in Procs : q # p => pc'[q] = pc[q] /\ step'[q] = step[q]
      /\ \A c \in Consumers : pc'[c] = pc[c]
  BY ReplayMovesOne, OneRole
<1>3. (pc[p] \in {"reset", "rerun"} /\ step'[p] = step[p]) \/ step'[p] <= k
  <2>1. ASSUME NEW i \in Steps, AcceptReplay(p, i) PROVE step'[p] <= k
    <3>1. step'[p] = i
      BY <2>1, OneRole DEF AcceptReplay, TypeOK, ProcType
    <3>2. ~(i > k)
      BY <2>1 DEF AcceptReplay, Replayable, ClearAhead
    <3> QED BY <3>1, <3>2, ConstantsAssumption DEF Steps
  <2>2. CASE ResetRow(p) \/ RunTask(p) \/ FallBackToPublish(p)
    BY <2>2 DEF ResetRow, RunTask, FallBackToPublish
  <2> QED BY <2>1, <2>2, ReplaysStraight
<1> QED BY <1>1, <1>2, <1>3, ClearKept

\* A worker reports on its own step.
LEMMA WorkClear ==
  ASSUME Undisturbed, TypeOK, PendingIsASuffix, NEW b \in TaskIds, Work(b),
         NEW k \in Steps, ClearAhead(k), broker[b].step <= k \/ UNCHANGED replies
  PROVE  ClearAhead(k)'
<1>1. UNCHANGED <<taskVars, procVars>>
  BY WorksStraight DEF WorkerSucceeds, WorkerFails, HandlerReturns
<1>2. \A r \in Reply : replies'[r] > 0 => replies[r] > 0 \/ r.step <= k
  <2>1. CASE WorkerSucceeds(b) \/ WorkerFails(b)
    <3>1. \A r \in Reply : r.step # broker[b].step => replies'[r] = replies[r]
      BY <2>1 DEF WorkerSucceeds, WorkerFails, FailureKind, Enqueue, TypeOK, BrokerType
    <3> QED BY <3>1
  <2>2. CASE HandlerReturns(b)
    BY <2>2 DEF HandlerReturns
  <2> QED BY <2>1, <2>2, WorksStraight
<1> QED BY <1>1, <1>2, ClearKept DEF taskVars, procVars

\* The loop and the clock touch none of it.
LEMMA QuietClear ==
  ASSUME UNCHANGED <<taskVars, brokerVars, procVars>>, NEW k, ClearAhead(k)
  PROVE  ClearAhead(k)'
  BY DEF ClearAhead, taskVars, brokerVars, procVars

-----------------------------------------------------------------------------
(* OneThread and ThreadInOrder: the thread stays, or it moves to one place. *)

\* What is said of a step stays true while nothing is carried out or counted.
LEMMA InOrderKept ==
  ASSUME NEW k \in Steps, ClearAhead(k) => ClearAhead(k)', UNCHANGED <<executed, completedTasks>>
  PROVE  /\ Before(k) => Before(k)'
         /\ Carried(k) => Carried(k)'
         /\ Counted(k) => Counted(k)'
  BY DEF Before, Carried, Counted

\* A process with the thread holds a step.
LEMMA ActiveStep ==
  ASSUME PendingIsASuffix, NEW p \in ActiveProcs, p # Submitter
  PROVE  /\ p \in Consumers /\ pc[p] \in {"result", "count", "next"} => held[p].step \in Steps
         /\ ~(p \in Consumers /\ pc[p] \in {"result", "count", "next"}) => step[p] \in Steps
  BY DEF PendingIsASuffix, HeldPassed, ProcsPassed, ActiveProcs, Reply

\* Nothing is carried out, counted or handed on.
LEMMA ThreadStays ==
  ASSUME PendingIsASuffix, OneThread, ThreadInOrder,
         UNCHANGED <<executed, completedTasks>>,
         \A k \in Steps : ClearAhead(k) => ClearAhead(k)',
         \A p \in ActiveProcs' : /\ p \in ActiveProcs
                                 /\ pc'[p] = pc[p] /\ step'[p] = step[p]
                                 /\ p \in Consumers => held'[p] = held[p],
         \A b \in LiveTasks' : b \in LiveTasks /\ broker'[b].step = broker[b].step,
         \A r \in FreshReplies' : r \in FreshReplies /\ replies'[r] = replies[r],
         FailedRows' \subseteq FailedRows
  PROVE  OneThread' /\ ThreadInOrder'
<1>1. OneThread'
  BY DEF OneThread, AtMostOne
<1>2. ASSUME NEW p \in ActiveProcs' PROVE ProcInOrder(p)'
  <2>1. p \in ActiveProcs /\ ProcInOrder(p)
    BY DEF ThreadInOrder
  <2>2. pc'[p] = pc[p] /\ step'[p] = step[p] /\ (p \in Consumers => held'[p] = held[p])
    OBVIOUS
  <2>3. CASE p = Submitter
    <3>1. 1 \in Steps
      BY ConstantsAssumption DEF Steps
    <3> QED BY <2>1, <2>3, <3>1, InOrderKept DEF ProcInOrder
  <2>4. CASE p # Submitter
    BY <2>1, <2>2, <2>4, ActiveStep, InOrderKept DEF ProcInOrder
  <2> QED BY <2>3, <2>4
<1>3. ASSUME NEW b \in LiveTasks' PROVE Before(broker[b].step)'
  <2>1. broker[b].step \in Steps /\ Before(broker[b].step)
    BY DEF ThreadInOrder, PendingIsASuffix, BrokerPassed, LiveTasks
  <2> QED BY <2>1, InOrderKept
<1>4. ASSUME NEW r \in FreshReplies'
      PROVE  IF r.kind = "success" THEN Carried(r.step)' ELSE Before(r.step)'
  <2>1. r \in Reply /\ r.step \in Steps
    BY DEF FreshReplies, Reply
  <2> QED BY <2>1, InOrderKept DEF ThreadInOrder
<1>5. ASSUME NEW i \in FailedRows' PROVE Before(i)'
  <2>1. i \in Steps /\ Before(i)
    BY DEF ThreadInOrder, FailedRows
  <2> QED BY <2>1, InOrderKept
<1> QED BY <1>1, <1>2, <1>3, <1>4, <1>5 DEF ThreadInOrder

\* The thread is with a process.
LEMMA ThreadToProc ==
  ASSUME NEW p, ActiveProcs' \subseteq {p}, LiveTasks' = {}, FreshReplies' = {}, FailedRows' = {},
         p \in ActiveProcs' => ProcInOrder(p)'
  PROVE  OneThread' /\ ThreadInOrder'
  BY DEF OneThread, AtMostOne, ThreadInOrder

\* The thread is with the broker.
LEMMA ThreadToTask ==
  ASSUME NEW b, ActiveProcs' = {}, LiveTasks' \subseteq {b}, FreshReplies' = {}, FailedRows' = {},
         Before(broker[b].step)'
  PROVE  OneThread' /\ ThreadInOrder'
  BY DEF OneThread, AtMostOne, ThreadInOrder

\* The thread is in the reply queue.
LEMMA ThreadToReply ==
  ASSUME NEW r, ActiveProcs' = {}, LiveTasks' = {}, FreshReplies' \subseteq {r}, FailedRows' = {},
         replies'[r] = 1, IF r.kind = "success" THEN Carried(r.step)' ELSE Before(r.step)'
  PROVE  OneThread' /\ ThreadInOrder'
  BY DEF OneThread, AtMostOne, ThreadInOrder

\* The thread rests in a failed row.
LEMMA ThreadToRow ==
  ASSUME NEW i, ActiveProcs' = {}, LiveTasks' = {}, FreshReplies' = {}, FailedRows' \subseteq {i},
         Before(i)'
  PROVE  OneThread' /\ ThreadInOrder'
  BY DEF OneThread, AtMostOne, ThreadInOrder

\* A process that has the thread has it alone.
LEMMA ProcHasIt ==
  ASSUME OneThread, NEW p \in ActiveProcs
  PROVE  ActiveProcs = {p} /\ LiveTasks = {} /\ FreshReplies = {} /\ FailedRows = {}
  BY DEF OneThread, AtMostOne

\* Processes that stay where they are have the thread if they had it.
LEMMA ActiveKept ==
  ASSUME NEW p \in Procs, pc'[p] = pc[p], p \in Consumers => held'[p] = held[p]
  PROVE  p \in ActiveProcs' <=> p \in ActiveProcs
  BY DEF ActiveProcs

\* A failed row is at rest as long as no replayer leaves its step.
LEMMA FailedKept ==
  ASSUME \A i \in Steps : taskStatus'[i] = "failed" => taskStatus[i] = "failed",
         \A p \in Replayers : pc'[p] = pc[p] /\ step'[p] = step[p]
  PROVE  FailedRows' \subseteq FailedRows
  BY DEF FailedRows

\* The request has the thread until it has published the first step.
LEMMA SubmitThread ==
  ASSUME Undisturbed, TypeOK, InsertedAtOnce, PendingIsASuffix, RolesKept,
         OneThread, ThreadInOrder, Submit
  PROVE  OneThread' /\ ThreadInOrder' /\ UNCHANGED <<executed, completedTasks>>
<1>1. Submitter \in ActiveProcs
  BY SubmitsStraight, OneRole DEF CreateRow, BatchCreate, UpdateTotalTasks, SetCreating, ActiveProcs
<1>2. ActiveProcs = {Submitter} /\ LiveTasks = {} /\ FreshReplies = {} /\ FailedRows = {}
  BY <1>1, ProcHasIt
<1>3. UNCHANGED <<broker, replies, held, executed>>
  BY SubmitMovesOne
<1>4. UNCHANGED completedTasks
  BY SubmitsStraight DEF CreateRow, BatchCreate, UpdateTotalTasks, SetCreating, rowVars
<1>5. LiveTasks' = {} /\ FreshReplies' = {}
  BY <1>2, <1>3 DEF LiveTasks, FreshReplies
<1>6. ActiveProcs' \subseteq {Submitter}
  BY <1>2, <1>3, SubmitMovesOne, ActiveKept DEF ActiveProcs
<1>7. FailedRows' = {}
  <2>1. \A i \in Steps : taskStatus'[i] = "failed" => taskStatus[i] = "failed"
    BY SubmitsStraight DEF CreateRow, BatchCreate, UpdateTotalTasks, SetCreating, taskVars
  <2> QED BY <1>2, <2>1, SubmitMovesOne, OneRole, FailedKept
<1>8. ProcInOrder(Submitter)'
  <2>1. 1 \in Steps
    BY ConstantsAssumption DEF Steps
  <2>2. Before(1)
    BY <1>1 DEF ThreadInOrder, ProcInOrder
  <2>3. ClearAhead(1)'
    BY <2>1, <2>2, SubmitClear DEF Before
  <2>4. Before(1)'
    BY <1>3, <1>4, <2>1, <2>2, <2>3, InOrderKept
  <2> QED BY <2>4 DEF ProcInOrder
<1> QED BY <1>3, <1>4, <1>5, <1>6, <1>7, <1>8, ThreadToProc

\* publishTask hands the thread to the broker; UpdateQueued is behind it.
LEMMA PublishThread ==
  ASSUME Undisturbed, TypeOK, PendingIsASuffix, RolesKept, OneThread, ThreadInOrder,
         NEW p \in Procs, PublishTask(p)
  PROVE  OneThread' /\ ThreadInOrder' /\ UNCHANGED <<executed, completedTasks>>
<1>1. UNCHANGED <<executed, completedTasks, replies, held>>
  BY DEF PublishTask, Publish, MarkQueued, rowVars, brokerVars
<1>2. FreshReplies' = FreshReplies
  BY <1>1 DEF FreshReplies
<1>3. \A q \in Procs : q # p => pc'[q] = pc[q]
  BY GotoOne DEF PublishTask, Publish, MarkQueued
<1>4. p \notin ActiveProcs'
  <2>1. pc'[p] \in {"mark", "stop", "ack", "idle"}
    BY GotoOne DEF PublishTask, Publish, MarkQueued, Returned
  <2> QED BY <2>1 DEF ActiveProcs
<1>5. \A q \in ActiveProcs' : q \in ActiveProcs /\ q # p
  BY <1>1, <1>3, <1>4, ActiveKept DEF ActiveProcs
<1>6. ASSUME NEW b \in TaskIds, Publish(p, b) PROVE OneThread' /\ ThreadInOrder'
  <2>1. p \in ActiveProcs
    BY <1>6 DEF Publish, ActiveProcs, Procs, RolesKept
  <2>2. ActiveProcs = {p} /\ LiveTasks = {} /\ FreshReplies = {} /\ FailedRows = {}
    BY <2>1, ProcHasIt
  <2>3. PICK k \in Steps : k = step[p]
    BY <1>6 DEF Publish, PendingIsASuffix, ProcsPassed
  <2>4. Before(k)
    BY <1>6, <2>1, <2>3 DEF Publish, ThreadInOrder, ProcInOrder, RolesKept
  <2>5. Before(k)'
    BY <1>1, <2>4, PublishClear, InOrderKept DEF Before
  <2>6. broker'[b].step = k /\ \A a \in TaskIds : a # b => broker'[a] = broker[a]
    BY <1>6, <2>3 DEF Publish, TypeOK, BrokerType
  <2>7. LiveTasks' \subseteq {b}
    BY <2>2, <2>6 DEF LiveTasks
  <2>8. FailedRows' = {}
    <3>1. UNCHANGED <<taskStatus, step>> /\ pc[p] = "publish"
      BY <1>6 DEF Publish, taskVars
    <3>2. \A q \in Replayers : pc[q] # "idle" => pc'[q] # "idle"
      BY <1>3, <1>6, <3>1, OneRole, GotoOne DEF Publish
    <3> QED BY <2>2, <3>1, <3>2 DEF FailedRows
  <2>9. ActiveProcs' = {}
    BY <1>5, <2>2
  <2> QED BY <1>2, <2>2, <2>5, <2>6, <2>7, <2>8, <2>9, ThreadToTask
<1>7. CASE MarkQueued(p)
  <2>1. UNCHANGED broker /\ step[p] \in Steps
    BY <1>7 DEF MarkQueued, brokerVars, PendingIsASuffix, ProcsPassed
  <2>2. LiveTasks' = LiveTasks
    BY <2>1 DEF LiveTasks
  <2>3. \A q \in Procs : q # p => step'[q] = step[q]
    BY <1>7 DEF MarkQueued, Forget, TypeOK, ProcType
  <2>4. FailedRows' \subseteq FailedRows
    <3>1. taskStatus'[step[p]] = "queued"
          /\ \A j \in Steps : j # step[p] => taskStatus'[j] = taskStatus[j]
      BY <1>7, <2>1, UpdateOne DEF MarkQueued
    <3>2. ASSUME NEW i \in FailedRows' PROVE i \in FailedRows
      <4>1. i \in Steps /\ taskStatus[i] = "failed" /\ i # step[p]
        BY <3>1 DEF FailedRows
      <4>2. ASSUME NEW q \in Replayers, pc[q] # "idle" PROVE step[q] # i
        <5>1. CASE q = p
          BY <4>1, <5>1
        <5>2. CASE q # p
          BY <1>3, <2>3, <4>2, <5>2, OneRole DEF FailedRows
        <5> QED BY <5>1, <5>2
      <4> QED BY <4>1, <4>2 DEF FailedRows
    <3> QED BY <3>2
  <2>5. \A k \in Steps : ClearAhead(k) => ClearAhead(k)'
    BY PublishClear
  <2>6. \A q \in ActiveProcs' : q \in Procs
    BY DEF ActiveProcs
  <2> QED BY <1>1, <1>2, <1>3, <1>5, <2>1, <2>2, <2>3, <2>4, <2>5, <2>6, ThreadStays
<1> QED BY <1>1, <1>6, <1>7 DEF PublishTask

\* A reply that has the thread has it alone.
LEMMA ReplyHasIt ==
  ASSUME OneThread, NEW r \in FreshReplies
  PROVE  /\ ActiveProcs = {} /\ LiveTasks = {} /\ FreshReplies = {r} /\ FailedRows = {}
         /\ replies[r] = 1
  BY DEF OneThread, AtMostOne

\* So does a task with the broker.
LEMMA TaskHasIt ==
  ASSUME OneThread, NEW b \in LiveTasks
  PROVE  ActiveProcs = {} /\ LiveTasks = {b} /\ FreshReplies = {} /\ FailedRows = {}
  BY DEF OneThread, AtMostOne

\* And a failed row.
LEMMA RowHasIt ==
  ASSUME OneThread, NEW i \in FailedRows
  PROVE  ActiveProcs = {} /\ LiveTasks = {} /\ FreshReplies = {} /\ FailedRows = {i}
  BY DEF OneThread, AtMostOne

\* A consumer that moves: the others have the thread if they had it.
LEMMA ConsumeOthers ==
  ASSUME Undisturbed, TypeOK, NEW c \in Consumers, Consume(c)
  PROVE  /\ \A p \in ActiveProcs' : p # c => /\ p \in ActiveProcs
                                             /\ pc'[p] = pc[p] /\ step'[p] = step[p]
                                             /\ p \in Consumers => held'[p] = held[p]
         /\ LiveTasks' = LiveTasks /\ UNCHANGED <<broker, executed>>
         /\ \A p \in Replayers : pc'[p] = pc[p] /\ step'[p] = step[p]
<1>1. UNCHANGED <<broker, executed>> /\ LiveTasks' = LiveTasks
  BY ConsumeMovesOne DEF LiveTasks
<1>2. \A p \in Replayers : pc'[p] = pc[p] /\ step'[p] = step[p]
  BY ConsumeMovesOne, OneRole
<1>3. ASSUME NEW p \in ActiveProcs', p # c
      PROVE  p \in ActiveProcs /\ pc'[p] = pc[p] /\ step'[p] = step[p]
             /\ (p \in Consumers => held'[p] = held[p])
  <2>1. p \in Procs
    BY DEF ActiveProcs
  <2> QED BY <1>3, <2>1, ConsumeMovesOne, ActiveKept
<1> QED BY <1>1, <1>2, <1>3

\* A reply that reports an end takes the thread from the queue to its consumer.
LEMMA ReceiveThread ==
  ASSUME Undisturbed, TypeOK, PendingIsASuffix, OneThread, ThreadInOrder,
         NEW c \in Consumers, NEW r \in Reply, ReceiveReply(c, r)
  PROVE  OneThread' /\ ThreadInOrder' /\ UNCHANGED <<executed, completedTasks>>
<1>1. Consume(c) /\ ~PickNext(c)
  BY DEF Consume, ReceiveReply, PickNext
<1>2. UNCHANGED <<taskStatus, executed, completedTasks, broker, step>>
  BY DEF ReceiveReply, rowVars, taskVars
<1>3. \A k \in Steps : ClearAhead(k) => ClearAhead(k)'
  BY <1>1, ConsumeClear
<1>4. FailedRows' \subseteq FailedRows
  BY <1>1, <1>2, ConsumeOthers, FailedKept
<1>5. replies'[r] = replies[r] - 1 /\ \A q \in Reply : q # r => replies'[q] = replies[q]
  BY DEF ReceiveReply, TypeOK, BrokerType
<1>6. CASE r \in FreshReplies /\ ~Finished(taskStatus[r.step])
  <2>1. /\ ActiveProcs = {} /\ LiveTasks = {} /\ FreshReplies = {r} /\ FailedRows = {}
        /\ replies[r] = 1
    BY <1>6, ReplyHasIt
  <2>2. ActiveProcs' \subseteq {c} /\ LiveTasks' = {}
    BY <1>1, <2>1, ConsumeOthers
  <2>3. FreshReplies' = {}
    BY <1>5, <2>1 DEF FreshReplies
  <2>4. pc'[c] = "result" /\ held'[c] = r
    BY <1>6, OneRole, GotoOne DEF ReceiveReply, TypeOK, ProcType
  <2>5. r.step \in Steps
    BY DEF Reply
  <2>6. IF r.kind = "success" THEN Carried(r.step)' ELSE Before(r.step)'
    BY <1>2, <1>3, <2>1, <2>5, InOrderKept DEF ThreadInOrder
  <2>7. ProcInOrder(c)'
    BY <2>4, <2>6, OneRole DEF ProcInOrder
  <2> QED BY <1>2, <1>4, <2>1, <2>2, <2>3, <2>7, ThreadToProc
<1>7. CASE ~(r \in FreshReplies /\ ~Finished(taskStatus[r.step]))
  <2>1. \A q \in FreshReplies' : q \in FreshReplies /\ replies'[q] = replies[q]
    <3>1. CASE r \in FreshReplies
      <4>1. replies[r] = 1
        BY <3>1, ReplyHasIt
      <4> QED BY <1>5, <4>1 DEF FreshReplies
    <3>2. CASE r \notin FreshReplies
      <4>1. r.kind = "retrying"
        BY <3>2 DEF ReceiveReply, FreshReplies
      <4> QED BY <1>5, <4>1 DEF FreshReplies
    <3> QED BY <3>1, <3>2
  <2>2. c \notin ActiveProcs'
    <3>1. CASE Finished(taskStatus[r.step])
      BY <3>1, OneRole DEF ReceiveReply, ActiveProcs
    <3>2. CASE r \notin FreshReplies /\ ~Finished(taskStatus[r.step])
      <4>1. r.kind = "retrying"
        BY <3>2 DEF ReceiveReply, FreshReplies
      <4>2. pc'[c] = "result" /\ held'[c] = r
        BY <3>2, OneRole, GotoOne DEF ReceiveReply, TypeOK, ProcType
      <4> QED BY <4>1, <4>2, OneRole DEF ActiveProcs
    <3> QED BY <1>7, <3>1, <3>2
  <2>3. \A p \in ActiveProcs' : /\ p \in ActiveProcs
                                /\ pc'[p] = pc[p] /\ step'[p] = step[p]
                                /\ p \in Consumers => held'[p] = held[p]
    BY <1>1, <2>2, ConsumeOthers
  <2>4. \A b \in LiveTasks' : b \in LiveTasks /\ broker'[b].step = broker[b].step
    BY <1>1, <1>2, ConsumeOthers
  <2>5. OneThread' /\ ThreadInOrder'
    BY <1>2, <1>3, <1>4, <2>1, <2>3, <2>4, ThreadStays
  <2> QED BY <1>2, <2>5
<1> QED BY <1>6, <1>7

\* A success is recorded by its consumer, which keeps the thread; the last failure
\* leaves it in the row of the step.
LEMMA RecordThread ==
  ASSUME Undisturbed, TypeOK, PendingIsASuffix, OneThread, ThreadInOrder,
         NEW c \in Consumers, RecordResult(c)
  PROVE  OneThread' /\ ThreadInOrder' /\ UNCHANGED <<executed, completedTasks>>
<1>1. Consume(c) /\ ~PickNext(c)
  BY DEF Consume, RecordResult, PickNext
<1>2. UNCHANGED <<executed, completedTasks, broker, replies, held>>
  BY DEF RecordResult, rowVars, brokerVars
<1>3. \A k \in Steps : ClearAhead(k) => ClearAhead(k)'
  BY <1>1, ConsumeClear
<1>4. held[c] \in Reply /\ held[c].step \in Steps
  BY DEF RecordResult, PendingIsASuffix, HeldPassed, Reply
<1>5. taskStatus'[held[c].step] = ResultStatus[held[c].kind]
      /\ \A j \in Steps : j # held[c].step => taskStatus'[j] = taskStatus[j]
  BY <1>4, UpdateOne DEF RecordResult
<1>6. held[c].kind \in {"success", "retrying", "final"}
  BY <1>4 DEF Reply, ReplyKinds
<1>7. pc'[c] = (IF held[c].kind = "retrying" THEN "ack" ELSE "count") /\ pc[c] = "result"
  BY OneRole, GotoOne DEF RecordResult
<1>8. FreshReplies' = FreshReplies
  BY <1>2 DEF FreshReplies
<1>9. held[c].kind # "final" => FailedRows' \subseteq FailedRows
  <2>1. held[c].kind # "final" => ResultStatus[held[c].kind] # "failed"
    BY <1>6 DEF ResultStatus
  <2> QED BY <1>1, <1>5, <2>1, ConsumeOthers, FailedKept
<1>10. CASE held[c].kind = "retrying"
  <2>1. c \notin ActiveProcs'
    BY <1>7, <1>10, OneRole DEF ActiveProcs
  <2>2. \A p \in ActiveProcs' : /\ p \in ActiveProcs
                                /\ pc'[p] = pc[p] /\ step'[p] = step[p]
                                /\ p \in Consumers => held'[p] = held[p]
    BY <1>1, <2>1, ConsumeOthers
  <2>3. /\ \A b \in LiveTasks' : b \in LiveTasks /\ broker'[b].step = broker[b].step
        /\ \A r \in FreshReplies' : r \in FreshReplies /\ replies'[r] = replies[r]
    BY <1>1, <1>2, <1>8, ConsumeOthers
  <2>4. OneThread' /\ ThreadInOrder'
    BY <1>2, <1>3, <1>9, <1>10, <2>2, <2>3, ThreadStays
  <2> QED BY <1>2, <2>4
<1>11. CASE held[c].kind # "retrying"
  <2>1. c \in ActiveProcs
    BY <1>7, <1>11, OneRole DEF ActiveProcs
  <2>2. ActiveProcs = {c} /\ LiveTasks = {} /\ FreshReplies = {} /\ FailedRows = {}
    BY <2>1, ProcHasIt
  <2>3. ActiveProcs' \subseteq {c} /\ LiveTasks' = {} /\ FreshReplies' = {}
    BY <1>1, <1>8, <2>2, ConsumeOthers
  <2>4. ProcInOrder(c)
    BY <2>1 DEF ThreadInOrder
  <2>5. CASE held[c].kind = "success"
    <3>1. Carried(held[c].step)
      BY <1>7, <2>4, <2>5, OneRole DEF ProcInOrder
    <3>2. Carried(held[c].step)'
      BY <1>2, <1>3, <1>4, <3>1, InOrderKept
    <3>3. ProcInOrder(c)'
      BY <1>2, <1>7, <2>5, <3>2, OneRole DEF ProcInOrder
    <3>4. OneThread' /\ ThreadInOrder'
      BY <1>9, <2>2, <2>3, <2>5, <3>3, ThreadToProc
    <3> QED BY <1>2, <3>4
  <2>6. CASE held[c].kind = "final"
    <3>1. PICK i \in Steps : i = held[c].step
      BY <1>4
    <3>2. Before(i)'
      <4>1. Before(i)
        BY <1>7, <2>4, <2>6, <3>1, OneRole DEF ProcInOrder
      <4> QED BY <1>2, <1>3, <4>1, InOrderKept
    <3>3. ActiveProcs' = {}
      BY <1>2, <1>7, <2>3, <2>6, OneRole DEF ActiveProcs
    <3>4. FailedRows' \subseteq {i}
      BY <1>1, <1>5, <2>2, <3>1, ConsumeOthers DEF FailedRows
    <3>5. OneThread' /\ ThreadInOrder'
      BY <2>3, <3>2, <3>3, <3>4, ThreadToRow
    <3> QED BY <1>2, <3>5
  <2> QED BY <1>6, <1>11, <2>5, <2>6
<1> QED BY <1>10, <1>11

\* A consumer that only writes the resource row leaves the thread where it is.
LEMMA ConsumeStays ==
  ASSUME Undisturbed, TypeOK, PendingIsASuffix, OneThread, ThreadInOrder,
         NEW c \in Consumers, Consume(c), ~PickNext(c),
         UNCHANGED <<replies, taskStatus, completedTasks>>, c \notin ActiveProcs'
  PROVE  OneThread' /\ ThreadInOrder' /\ UNCHANGED <<executed, completedTasks>>
<1>1. \A k \in Steps : ClearAhead(k) => ClearAhead(k)'
  BY ConsumeClear
<1>2. \A p \in ActiveProcs' : /\ p \in ActiveProcs
                              /\ pc'[p] = pc[p] /\ step'[p] = step[p]
                              /\ p \in Consumers => held'[p] = held[p]
  BY ConsumeOthers
<1>3. /\ \A b \in LiveTasks' : b \in LiveTasks /\ broker'[b].step = broker[b].step
      /\ \A r \in FreshReplies' : r \in FreshReplies /\ replies'[r] = replies[r]
  BY ConsumeOthers DEF FreshReplies
<1>4. FailedRows' \subseteq FailedRows
  BY ConsumeOthers, FailedKept
<1>5. UNCHANGED <<executed, completedTasks>>
  BY ConsumeOthers
<1> QED BY <1>1, <1>2, <1>3, <1>4, <1>5, ThreadStays

\* The first k steps are k.
LEMMA CountOfSteps ==
  ASSUME NEW k \in 0..NumSteps
  PROVE  Cardinality(1..k) = k
<1>1. Cardinality(1..k) = IF 1 > k THEN 0 ELSE k - 1 + 1
  BY ConstantsAssumption, FS_Interval
<1> QED BY <1>1, ConstantsAssumption

\* A counted success keeps the thread, except the last one, where it ends.
LEMMA CountThread ==
  ASSUME Undisturbed, TypeOK, PendingIsASuffix, RolesKept, OneThread, ThreadInOrder, CountedOnce,
         NEW c \in Consumers, CountResult(c)
  PROVE  OneThread' /\ ThreadInOrder' /\ UNCHANGED executed /\ CountedOnce'
<1>1. Consume(c) /\ ~PickNext(c)
  BY DEF Consume, CountResult, PickNext
<1>2. UNCHANGED <<executed, taskStatus, broker, replies, held>> /\ pc[c] = "count"
  BY DEF CountResult, taskVars, brokerVars
<1>3. PICK k \in Steps : k = held[c].step
  BY <1>2 DEF PendingIsASuffix, HeldPassed, Reply
<1>4. pc'[c] = IF held[c].kind = "success" /\ ~LastStep(k) THEN "next" ELSE "settle"
  BY <1>3, OneRole, GotoOne DEF CountResult
<1>5. CASE held[c].kind = "success"
  <2>1. c \in ActiveProcs
    BY <1>2, <1>5, OneRole DEF ActiveProcs
  <2>2. ActiveProcs = {c} /\ LiveTasks = {} /\ FreshReplies = {} /\ FailedRows = {}
    BY <2>1, ProcHasIt
  <2>3. ActiveProcs' \subseteq {c} /\ LiveTasks' = {} /\ FreshReplies' = {}
    BY <1>1, <1>2, <2>2, ConsumeOthers DEF FreshReplies
  <2>4. FailedRows' = {}
    BY <1>1, <1>2, <2>2, ConsumeOthers, FailedKept
  <2>5. Carried(k)
    BY <1>2, <1>3, <1>5, <2>1, OneRole DEF ThreadInOrder, ProcInOrder
  <2>6. ClearAhead(k)'
    BY <1>1, <2>5, ConsumeClear DEF Carried
  <2>7. completedTasks' <= k
    BY <1>5, <2>5, ConstantsAssumption DEF CountResult, Carried, TypeOK, RowType, Steps
  <2>8. c \in ActiveProcs' => ProcInOrder(c)'
    <3>1. Counted(k)'
      BY <1>2, <2>5, <2>6, <2>7 DEF Carried, Counted
    <3>2. c \in ActiveProcs' => pc'[c] = "next"
      BY <1>4, OneRole DEF ActiveProcs
    <3> QED BY <1>2, <1>3, <3>1, <3>2, OneRole DEF ProcInOrder
  <2>9. CountedOnce'
    <3>1. k \in 0..NumSteps
      BY ConstantsAssumption DEF Steps
    <3>2. Cardinality(1..k) = k
      BY <3>1, CountOfSteps
    <3> QED BY <1>2, <2>5, <2>7, <3>2 DEF Carried, CountedOnce
  <2> QED BY <1>2, <2>3, <2>4, <2>8, <2>9, ThreadToProc
<1>6. CASE held[c].kind # "success"
  <2>1. UNCHANGED completedTasks
    BY <1>6 DEF CountResult
  <2>2. c \notin ActiveProcs'
    BY <1>4, <1>6, OneRole DEF ActiveProcs
  <2>3. OneThread' /\ ThreadInOrder'
    BY <1>1, <1>2, <2>1, <2>2, ConsumeStays
  <2> QED BY <1>2, <2>1, <2>3 DEF CountedOnce
<1> QED BY <1>5, <1>6

\* Behind a counted step the next pending row is the row of the step after it.
LEMMA NextIsPending ==
  ASSUME TypeOK, InsertedAtOnce, PendingIsASuffix, RolesKept, ThreadInOrder,
         NEW c \in Consumers, pc[c] = "next"
  PROVE  /\ c \in ActiveProcs /\ Counted(held[c].step)
         /\ held[c].step \in Steps /\ held[c].step + 1 \in Steps
         /\ NextPending = {held[c].step + 1}
<1>1. held[c].kind = "success" /\ held[c].step < NumSteps
      /\ taskStatus[held[c].step] \notin {"none", "pending"}
  BY DEF RolesKept
<1>2. c \in ActiveProcs /\ Counted(held[c].step)
  BY <1>1, OneRole DEF ActiveProcs, ThreadInOrder, ProcInOrder
<1>3. PICK k \in Steps : k = held[c].step /\ Passed(k)
  BY DEF PendingIsASuffix, HeldPassed, Reply
<1>4. k + 1 \in Steps /\ k + 1 > k
  BY <1>1, <1>3, ConstantsAssumption DEF Steps
<1>5. taskStatus[k + 1] = "pending"
  BY <1>2, <1>3, <1>4 DEF Counted, ClearAhead, InsertedAtOnce, Inserted, NotInserted
<1>6. \A j \in 1..k : taskStatus[j] # "pending"
  BY <1>1, <1>3, ConstantsAssumption DEF Passed, Steps
<1>7. k + 1 \in NextPending
  BY <1>4, <1>5, <1>6, ConstantsAssumption DEF NextPending, Steps
<1>8. ASSUME NEW i \in NextPending PROVE i = k + 1
  <2>1. i \in Steps /\ taskStatus[i] = "pending" /\ \A j \in 1..(i - 1) : taskStatus[j] # "pending"
    BY DEF NextPending
  <2>2. ~(i <= k)
    BY <1>6, <2>1, ConstantsAssumption DEF Steps
  <2>3. ~(k + 1 < i)
    BY <1>5, <2>1, ConstantsAssumption DEF Steps
  <2> QED BY <2>1, <2>2, <2>3, ConstantsAssumption DEF Steps
<1> QED BY <1>2, <1>3, <1>4, <1>7, <1>8

\* GetNextPendingTask takes the thread to the next step.
LEMMA PickThread ==
  ASSUME Undisturbed, TypeOK, InsertedAtOnce, PendingIsASuffix, RolesKept,
         OneThread, ThreadInOrder, NEW c \in Consumers, PickNext(c)
  PROVE  OneThread' /\ ThreadInOrder' /\ UNCHANGED <<executed, completedTasks>>
<1>1. Consume(c) /\ pc[c] = "next"
  BY DEF Consume, PickNext
<1>2. PICK k \in Steps : k = held[c].step /\ k + 1 \in Steps /\ NextPending = {k + 1} /\ Counted(k)
  BY <1>1, NextIsPending
<1>3. ActiveProcs = {c} /\ LiveTasks = {} /\ FreshReplies = {} /\ FailedRows = {}
  BY <1>1, NextIsPending, ProcHasIt
<1>4. UNCHANGED <<executed, completedTasks, taskStatus, replies, held>>
  BY DEF PickNext, rowVars, taskVars, brokerVars
<1>5. pc'[c] = "publish" /\ step'[c] = k + 1
  BY <1>2, OneRole, GotoOne DEF PickNext, TypeOK, ProcType
<1>6. /\ \A p \in Procs : p # c => pc'[p] = pc[p] /\ step'[p] = step[p]
  BY <1>1, ConsumeMovesOne
<1>7. ClearAhead(k + 1)
  <2>1. \A r \in Reply : replies[r] > 0 => r.step <= k + 1
    BY <1>2, ConstantsAssumption DEF Counted, ClearAhead, Reply, Steps
  <2>2. \A d \in Consumers : pc[d] # "idle" => held[d].step <= k + 1
    BY <1>2, ConstantsAssumption DEF Counted, ClearAhead, Reply, Steps, PendingIsASuffix, HeldPassed
  <2>3. \A p \in Procs : pc[p] \in {"publish", "mark", "reset", "rerun"} => step[p] <= k + 1
    BY <1>2, ConstantsAssumption DEF Counted, ClearAhead, Steps, PendingIsASuffix, ProcsPassed
  <2>4. \A j \in Steps : j > k + 1 => taskStatus[j] \in {"none", "pending"}
    BY <1>2, ConstantsAssumption DEF Counted, ClearAhead, Steps
  <2> QED BY <2>1, <2>2, <2>3, <2>4 DEF ClearAhead
<1>8. ClearAhead(k + 1)'
  <2>1. \A d \in Consumers : pc'[d] # "idle" => pc[d] # "idle" /\ held'[d] = held[d]
    BY <1>1, <1>4, <1>6, OneRole
  <2>2. \A p \in Procs : pc'[p] \in {"publish", "mark", "reset", "rerun"} =>
          \/ pc[p] \in {"publish", "mark", "reset", "rerun"} /\ step'[p] = step[p]
          \/ step'[p] <= k + 1
    BY <1>2, <1>5, <1>6, ConstantsAssumption DEF Steps
  <2> QED BY <1>4, <1>7, <2>1, <2>2, ClearKept
<1>9. Before(k + 1)'
  <2>1. 1..k = 1..((k + 1) - 1) /\ completedTasks < k + 1
    BY <1>2, ConstantsAssumption DEF Counted, TypeOK, RowType, Steps
  <2> QED BY <1>2, <1>4, <1>8, <2>1 DEF Counted, Before
<1>10. ProcInOrder(c)'
  BY <1>5, <1>9, OneRole DEF ProcInOrder
<1>11. ActiveProcs' \subseteq {c} /\ LiveTasks' = {} /\ FreshReplies' = {} /\ FailedRows' = {}
  <2>1. FailedRows' = {}
    BY <1>1, <1>3, <1>4, ConsumeOthers, FailedKept
  <2> QED BY <1>1, <1>3, <1>4, <2>1, ConsumeOthers DEF FreshReplies
<1> QED BY <1>4, <1>10, <1>11, ThreadToProc

\* HandleReply, whole.
LEMMA ConsumeThread ==
  ASSUME Undisturbed, TypeOK, InsertedAtOnce, PendingIsASuffix, RolesKept,
         OneThread, ThreadInOrder, CountedOnce, NEW c \in Consumers, Consume(c)
  PROVE  OneThread' /\ ThreadInOrder' /\ UNCHANGED executed /\ CountedOnce'
<1>1. ASSUME NEW r \in Reply, ReceiveReply(c, r)
      PROVE  OneThread' /\ ThreadInOrder' /\ UNCHANGED <<executed, completedTasks>>
  BY <1>1, ReceiveThread
<1>2. CASE SettleRow(c) \/ AckReply(c)
  <2>1. UNCHANGED <<replies, taskStatus, completedTasks>> /\ ~PickNext(c)
    BY <1>2 DEF SettleRow, AckReply, PickNext, rowVars, taskVars, brokerVars
  <2>2. c \notin ActiveProcs'
    BY <1>2, OneRole, GotoOne DEF SettleRow, AckReply, ActiveProcs
  <2> QED BY <2>1, <2>2, ConsumeStays DEF CountedOnce
<1>3. ~NothingPending(c)
  BY NextIsPending DEF NothingPending
<1> QED BY <1>1, <1>2, <1>3, ConsumesStraight, RecordThread, CountThread, PickThread DEF CountedOnce

\* A replay takes the thread out of the failed row; RunTask hands it to the broker.
LEMMA ReplayThread ==
  ASSUME Undisturbed, TypeOK, PendingIsASuffix, IdsMatch, OneThread, ThreadInOrder,
         NEW p \in Replayers, Replay(p)
  PROVE  OneThread' /\ ThreadInOrder' /\ UNCHANGED <<executed, completedTasks>>
<1>1. UNCHANGED <<executed, completedTasks, taskStatus, replies, held>>
  BY ReplaysStraight
     DEF AcceptReplay, ResetRow, RunTask, FallBackToPublish, rowVars, taskVars, brokerVars
<1>2. \A k \in Steps : Before(k) => Before(k)'
  BY <1>1, ReplayClear, InOrderKept DEF Before
<1>3. \A q \in Procs : q # p => pc'[q] = pc[q] /\ step'[q] = step[q]
  BY ReplayMovesOne
<1>4. \A q \in ActiveProcs' : q # p => q \in ActiveProcs
  BY <1>1, <1>3, ActiveKept DEF ActiveProcs
<1>5. ASSUME NEW i \in Steps, AcceptReplay(p, i) PROVE OneThread' /\ ThreadInOrder'
  <2>1. pc[p] = "idle" /\ taskStatus[i] = "failed" /\ UNCHANGED broker
    BY <1>5 DEF AcceptReplay, Replayable, brokerVars
  <2>2. \A q \in Replayers : q = p
    BY DEF Undisturbed
  <2>3. i \in FailedRows
    BY <2>1, <2>2 DEF FailedRows
  <2>4. ActiveProcs = {} /\ LiveTasks = {} /\ FreshReplies = {} /\ FailedRows = {i}
    BY <2>3, RowHasIt
  <2>5. pc'[p] = "reset" /\ step'[p] = i
    BY <1>5, OneRole, GotoOne DEF AcceptReplay, TypeOK, ProcType
  <2>6. FailedRows' = {}
    <3>1. ASSUME NEW j \in FailedRows' PROVE FALSE
      <4>1. j \in Steps /\ taskStatus[j] = "failed" /\ j # i
        BY <1>1, <2>5 DEF FailedRows
      <4>2. j \in FailedRows
        BY <2>1, <2>2, <4>1 DEF FailedRows
      <4> QED BY <2>4, <4>1, <4>2
    <3> QED BY <3>1
  <2>7. ProcInOrder(p)'
    <3>1. Before(i)'
      BY <1>2, <2>3 DEF ThreadInOrder
    <3> QED BY <2>5, <3>1, OneRole DEF ProcInOrder
  <2>8. ActiveProcs' \subseteq {p} /\ LiveTasks' = {} /\ FreshReplies' = {}
    BY <1>1, <1>4, <2>1, <2>4 DEF LiveTasks, FreshReplies
  <2> QED BY <2>6, <2>7, <2>8, ThreadToProc
<1>6. ASSUME ResetRow(p) \/ RunTask(p) \/ FallBackToPublish(p)
      PROVE  /\ ActiveProcs = {p} /\ LiveTasks = {} /\ FreshReplies = {}
             /\ FreshReplies' = {} /\ FailedRows' = {}
             /\ step[p] \in Steps /\ Before(step[p])' /\ step'[p] = step[p]
             /\ ActiveProcs' \subseteq {p}
  <2>1. pc[p] \in {"reset", "rerun"} /\ UNCHANGED step
    BY <1>6 DEF ResetRow, RunTask, FallBackToPublish
  <2>2. p \in ActiveProcs
    BY <2>1, OneRole DEF ActiveProcs
  <2>3. ActiveProcs = {p} /\ LiveTasks = {} /\ FreshReplies = {} /\ FailedRows = {}
    BY <2>2, ProcHasIt
  <2>4. pc'[p] # "idle"
    BY <1>6, OneRole, GotoOne DEF ResetRow, RunTask, FallBackToPublish
  <2>5. FailedRows' = {}
    <3>1. \A q \in Replayers : pc[q] # "idle" => pc'[q] # "idle"
      BY <1>3, <2>4, OneRole
    <3> QED BY <1>1, <2>1, <2>3, <3>1 DEF FailedRows
  <2>6. step[p] \in Steps
    BY <2>1, OneRole DEF PendingIsASuffix, ProcsPassed
  <2>7. Before(step[p])
    BY <2>1, <2>2, OneRole DEF ThreadInOrder, ProcInOrder
  <2>8. Before(step[p])'
    BY <1>2, <2>1, <2>6, <2>7
  <2> QED BY <1>1, <1>4, <2>1, <2>3, <2>5, <2>6, <2>8 DEF FreshReplies
<1>7. CASE ResetRow(p) \/ FallBackToPublish(p)
  <2>1. LiveTasks' = LiveTasks
    BY <1>7 DEF ResetRow, FallBackToPublish, brokerVars, LiveTasks
  <2>2. ProcInOrder(p)'
    BY <1>6, <1>7, OneRole DEF ProcInOrder
  <2>3. /\ ActiveProcs' \subseteq {p} /\ LiveTasks' = {}
        /\ FreshReplies' = {} /\ FailedRows' = {}
    BY <1>6, <1>7, <2>1
  <2> QED BY <1>1, <2>2, <2>3, ThreadToProc
<1>8. CASE RunTask(p)
  <2>1. PICK b \in TaskIds : b = ref[p] /\ pc[p] = "rerun"
    BY <1>8 DEF RunTask, Rerunnable
  <2>2. broker[b].step = step[p]
    <3>1. b # 0
      BY ConstantsAssumption DEF TaskIds
    <3> QED BY <2>1, <3>1, OneRole DEF IdsMatch, TaskOf
  <2>3. broker'[b].step = step[p] /\ \A a \in TaskIds : a # b => broker'[a] = broker[a]
    BY <1>8, <2>1, <2>2 DEF RunTask, TypeOK, BrokerType
  <2>4. LiveTasks' \subseteq {b}
    BY <1>6, <1>8, <2>3 DEF LiveTasks
  <2>5. pc'[p] = "mark"
    BY <1>8, OneRole, GotoOne DEF RunTask
  <2>6. ActiveProcs' = {}
    <3>1. p \notin ActiveProcs'
      BY <2>5, OneRole DEF ActiveProcs
    <3> QED BY <1>6, <1>8, <3>1
  <2>7. Before(broker[b].step)'
    BY <1>6, <1>8, <2>3
  <2>8. FreshReplies' = {} /\ FailedRows' = {}
    BY <1>6, <1>8
  <2> QED BY <1>1, <2>4, <2>6, <2>7, <2>8, ThreadToTask
<1> QED BY <1>1, <1>5, <1>7, <1>8, ReplaysStraight

\* A handler that returns gives no task a new life.
LEMMA ReturnsLive ==
  ASSUME TypeOK, NEW b \in TaskIds, HandlerReturns(b)
  PROVE  \A a \in LiveTasks' : a \in LiveTasks /\ broker'[a].step = broker[a].step
<1>1. \A a \in TaskIds : a # b => broker'[a] = broker[a]
  BY DEF HandlerReturns, SetTask, TypeOK, BrokerType
<1>2. broker'[b].step = broker[b].step
  BY DEF HandlerReturns, SetTask, TypeOK, BrokerType
<1>3. b \in LiveTasks' => b \in LiveTasks
  <2>1. CASE broker[b].state = "succeeded" /\ SetTask(b, "done")
    BY <2>1 DEF SetTask, LiveTasks, TypeOK, BrokerType
  <2>2. CASE broker[b].state = "erred" /\ broker[b].retried < MaxRetries
    BY <2>2 DEF LiveTasks
  <2>3. CASE SetTask(b, "archived")
    BY <2>3 DEF SetTask, LiveTasks, TypeOK, BrokerType
  <2> QED BY <2>1, <2>2, <2>3 DEF HandlerReturns
<1> QED BY <1>1, <1>2, <1>3 DEF LiveTasks

\* A worker that succeeds, or fails for good, answers with the thread; one that will
\* retry keeps it.
LEMMA WorkThread ==
  ASSUME Undisturbed, TypeOK, PendingIsASuffix, OneThread, ThreadInOrder,
         NEW b \in TaskIds, Work(b)
  PROVE  /\ OneThread' /\ ThreadInOrder' /\ UNCHANGED completedTasks
         /\ executed' = executed \/ \E k \in Steps : executed = 1..(k - 1) /\ executed' = 1..k
<1>1. UNCHANGED <<completedTasks, taskStatus, pc, step, held>>
  BY WorksStraight DEF WorkerSucceeds, WorkerFails, HandlerReturns, rowVars, taskVars, procVars
<1>2. ActiveProcs' = ActiveProcs /\ FailedRows' = FailedRows
  BY <1>1 DEF ActiveProcs, FailedRows
<1>3. \A a \in TaskIds : a # b => broker'[a] = broker[a]
  BY WorksStraight DEF WorkerSucceeds, WorkerFails, HandlerReturns, SetTask, TypeOK, BrokerType
<1>4. ASSUME Runnable(b)
      PROVE  /\ ActiveProcs = {} /\ LiveTasks = {b} /\ FreshReplies = {} /\ FailedRows = {}
             /\ \E k \in Steps : k = broker[b].step /\ Before(k) /\ ClearAhead(k)'
  <2>1. b \in LiveTasks
    BY <1>4 DEF Runnable, LiveTasks
  <2>2. PICK k \in Steps : k = broker[b].step
    BY <1>4 DEF Runnable, PendingIsASuffix, BrokerPassed
  <2>3. Before(k)
    BY <2>1, <2>2 DEF ThreadInOrder
  <2>4. broker[b].step <= k
    BY <2>2, ConstantsAssumption DEF Steps
  <2>5. ClearAhead(k)'
    BY <2>3, <2>4, WorkClear DEF Before
  <2> QED BY <2>1, <2>2, <2>3, <2>5, TaskHasIt
<1>5. CASE WorkerSucceeds(b)
  <2>1. PICK k \in Steps : k = broker[b].step /\ Before(k) /\ ClearAhead(k)'
    BY <1>4, <1>5 DEF WorkerSucceeds
  <2>2. ActiveProcs = {} /\ LiveTasks = {b} /\ FreshReplies = {} /\ FailedRows = {}
    BY <1>4, <1>5 DEF WorkerSucceeds
  <2>3. PICK r \in Reply : r = [step |-> k, kind |-> "success"]
    BY DEF Reply, ReplyKinds
  <2>4. replies'[r] = replies[r] + 1 /\ \A q \in Reply : q # r => replies'[q] = replies[q]
    BY <1>5, <2>1, <2>3 DEF WorkerSucceeds, Enqueue, TypeOK, BrokerType
  <2>5. replies[r] = 0
    BY <2>2, <2>3 DEF FreshReplies, TypeOK, BrokerType
  <2>6. FreshReplies' \subseteq {r} /\ replies'[r] = 1
    BY <2>2, <2>4, <2>5 DEF FreshReplies
  <2>7. broker'[b].state = "succeeded"
    BY <1>5 DEF WorkerSucceeds, SetTask, TypeOK, BrokerType
  <2>8. LiveTasks' = {}
    BY <1>3, <2>2, <2>7 DEF LiveTasks
  <2>9. executed = 1..(k - 1) /\ executed' = 1..k
    <3>1. 1..k = (1..(k - 1)) \cup {k}
      BY <2>1, ConstantsAssumption DEF Steps
    <3> QED BY <1>5, <2>1, <3>1 DEF WorkerSucceeds, Before
  <2>10. Carried(k)'
    BY <1>1, <2>1, <2>9 DEF Before, Carried
  <2>11. OneThread' /\ ThreadInOrder'
    BY <1>2, <2>2, <2>3, <2>6, <2>8, <2>10, ThreadToReply
  <2> QED BY <1>1, <2>9, <2>11
<1>6. CASE WorkerFails(b)
  <2>1. PICK k \in Steps : k = broker[b].step /\ Before(k) /\ ClearAhead(k)'
    BY <1>4, <1>6 DEF WorkerFails
  <2>2. ActiveProcs = {} /\ LiveTasks = {b} /\ FreshReplies = {} /\ FailedRows = {}
    BY <1>4, <1>6 DEF WorkerFails
  <2>3. UNCHANGED executed
    BY <1>6 DEF WorkerFails
  <2>4. Before(k)'
    BY <1>1, <2>1, <2>3 DEF Before
  <2>5. /\ broker'[b].state = "erred" /\ broker'[b].step = k
        /\ broker'[b].retried = broker[b].retried /\ broker[b].retried \in Nat
    BY <1>6, <2>1 DEF WorkerFails, SetTask, TypeOK, BrokerType
  <2>6. PICK r \in Reply : r = [step |-> k, kind |-> FailureKind(b)]
    <3>1. FailureKind(b) \in ReplyKinds
      BY DEF ReplyKinds, FailureKind
    <3> QED BY <3>1 DEF Reply
  <2>7. replies'[r] = replies[r] + 1 /\ \A q \in Reply : q # r => replies'[q] = replies[q]
    BY <1>6, <2>1, <2>6 DEF WorkerFails, Enqueue, TypeOK, BrokerType
  <2>8. CASE broker[b].retried >= MaxRetries
    <3>1. r.kind = "final" /\ r.step = k
      BY <2>6, <2>8 DEF FailureKind
    <3>2. replies[r] = 0
      BY <2>2, <3>1 DEF FreshReplies, TypeOK, BrokerType
    <3>3. FreshReplies' \subseteq {r} /\ replies'[r] = 1
      BY <2>2, <2>7, <3>2 DEF FreshReplies
    <3>4. LiveTasks' = {}
      BY <1>3, <2>2, <2>5, <2>8, ConstantsAssumption DEF LiveTasks
    <3>5. OneThread' /\ ThreadInOrder'
      BY <1>2, <2>2, <2>4, <3>1, <3>3, <3>4, ThreadToReply
    <3> QED BY <1>1, <2>3, <3>5
  <2>9. CASE ~(broker[b].retried >= MaxRetries)
    <3>1. r.kind = "retrying"
      BY <2>6, <2>9 DEF FailureKind
    <3>2. FreshReplies' = {}
      BY <2>2, <2>7, <3>1 DEF FreshReplies
    <3>3. LiveTasks' \subseteq {b}
      BY <1>3, <2>2 DEF LiveTasks
    <3>4. Before(broker[b].step)'
      BY <2>4, <2>5
    <3>5. OneThread' /\ ThreadInOrder'
      BY <1>2, <2>2, <3>2, <3>3, <3>4, ThreadToTask
    <3> QED BY <1>1, <2>3, <3>5
  <2> QED BY <2>8, <2>9
<1>7. CASE HandlerReturns(b)
  <2>1. UNCHANGED <<replies, executed>> /\ FreshReplies' = FreshReplies
    BY <1>7 DEF HandlerReturns, FreshReplies
  <2>2. \A k \in Steps : ClearAhead(k) => ClearAhead(k)'
    BY <2>1, WorkClear
  <2>5. \A a \in LiveTasks' : a \in LiveTasks /\ broker'[a].step = broker[a].step
    BY <1>7, ReturnsLive
  <2>6. \A p \in ActiveProcs : p \in Consumers => held'[p] = held[p]
    BY <1>1
  <2>7. OneThread' /\ ThreadInOrder'
    BY <1>1, <1>2, <2>1, <2>2, <2>5, <2>6, ThreadStays
  <2> QED BY <1>1, <2>1, <2>7
<1> QED BY <1>5, <1>6, <1>7, WorksStraight

\* The loop and the clock leave the thread where it is.
LEMMA QuietThread ==
  ASSUME PendingIsASuffix, OneThread, ThreadInOrder,
         UNCHANGED <<taskVars, brokerVars, procVars, executed, completedTasks>>
  PROVE  OneThread' /\ ThreadInOrder'
<1>1. UNCHANGED <<taskStatus, broker, replies, pc, step, held, executed, completedTasks>>
  BY DEF taskVars, brokerVars, procVars
<1>2. /\ ActiveProcs' = ActiveProcs /\ LiveTasks' = LiveTasks
      /\ FreshReplies' = FreshReplies /\ FailedRows' = FailedRows
  BY <1>1 DEF ActiveProcs, LiveTasks, FreshReplies, FailedRows
<1>3. \A k \in Steps : ClearAhead(k) => ClearAhead(k)'
  BY QuietClear
<1> QED BY <1>1, <1>2, <1>3, ThreadStays

-----------------------------------------------------------------------------
(* The invariant. *)

\* The devices have been configured up to a step, and no further.
LEMMA OrderKept ==
  ASSUME ExecutedInOrder,
         executed' = executed \/ \E k \in Steps : executed = 1..(k - 1) /\ executed' = 1..k
  PROVE  ExecutedInOrder'
  BY ConstantsAssumption DEF ExecutedInOrder, Steps

\* In the beginning the request has the thread, and the first step is to be done.
LEMMA InitThread == Init => ThreadInv
<1> SUFFICES ASSUME Init PROVE ThreadInv
  OBVIOUS
<1>1. /\ pc[Submitter] = "create"
      /\ \A c \in Consumers : pc[c] = "idle"
      /\ \A p \in Procs : pc[p] \in {"create", "idle"}
      /\ \A p \in Procs : p # Submitter => pc[p] = "idle"
  BY OneRole DEF Init
<1>2. /\ \A i \in Steps : taskStatus[i] = "none" /\ asynqId[i] = 0
      /\ \A b \in TaskIds : broker[b].state = "free"
      /\ \A r \in Reply : replies[r] = 0
      /\ executed = {} /\ completedTasks = 0
  BY DEF Init, FreeTask
<1>3. ActiveProcs \subseteq {Submitter} /\ LiveTasks = {} /\ FreshReplies = {} /\ FailedRows = {}
  BY <1>1, <1>2 DEF ActiveProcs, LiveTasks, FreshReplies, FailedRows
<1>4. Before(1)
  <2>1. ClearAhead(1)
    BY <1>1, <1>2 DEF ClearAhead
  <2>2. 1..(1 - 1) = {}
    OBVIOUS
  <2> QED BY <1>2, <2>1, <2>2 DEF Before
<1>5. OneThread
  BY <1>3 DEF OneThread, AtMostOne
<1>6. ThreadInOrder
  BY <1>3, <1>4 DEF ThreadInOrder, ProcInOrder
<1>7. RolesKept /\ IdsMatch
  BY <1>1, <1>2 DEF RolesKept, IdsMatch
<1>8. ExecutedInOrder /\ CountedOnce
  BY <1>2, FS_EmptySet DEF ExecutedInOrder, CountedOnce
<1> QED BY <1>5, <1>6, <1>7, <1>8 DEF ThreadInv

\* A step of a process, the broker, a worker, the loop or the clock keeps it.
LEMMA StepThread ==
  ASSUME Undisturbed, SafetyInv, ThreadInv, [Next]_vars
  PROVE  ThreadInv'
<1> USE DEF SafetyInv, ThreadInv
<1>1. CASE Submit
  <2>1. OneThread' /\ ThreadInOrder' /\ UNCHANGED <<executed, completedTasks>>
    BY <1>1, SubmitThread
  <2>2. RolesKept' /\ IdsMatch'
    BY <1>1, SubmitRoles, SubmitIds
  <2> QED BY <2>1, <2>2, OrderKept DEF CountedOnce
<1>2. ASSUME NEW p \in Procs, PublishTask(p) PROVE ThreadInv'
  <2>1. OneThread' /\ ThreadInOrder' /\ UNCHANGED <<executed, completedTasks>>
    BY <1>2, PublishThread
  <2>2. RolesKept' /\ IdsMatch'
    BY <1>2, PublishRoles, PublishIds
  <2> QED BY <2>1, <2>2, OrderKept DEF CountedOnce
<1>3. ASSUME NEW c \in Consumers, Consume(c) PROVE ThreadInv'
  <2>1. OneThread' /\ ThreadInOrder' /\ UNCHANGED executed /\ CountedOnce'
    BY <1>3, ConsumeThread
  <2>2. RolesKept' /\ IdsMatch'
    BY <1>3, ConsumeRoles, ConsumeIds
  <2> QED BY <2>1, <2>2, OrderKept
<1>4. ASSUME NEW p \in Replayers, Replay(p) PROVE ThreadInv'
  <2>1. OneThread' /\ ThreadInOrder' /\ UNCHANGED <<executed, completedTasks>>
    BY <1>4, ReplayThread
  <2>2. RolesKept' /\ IdsMatch'
    BY <1>4, ReplayRoles, ReplayIds
  <2> QED BY <2>1, <2>2, OrderKept DEF CountedOnce
<1>5. ASSUME NEW b \in TaskIds, Work(b) PROVE ThreadInv'
  <2>1. /\ OneThread' /\ ThreadInOrder' /\ UNCHANGED completedTasks
        /\ executed' = executed \/ \E k \in Steps : executed = 1..(k - 1) /\ executed' = 1..k
    BY <1>5, WorkThread
  <2>2. UNCHANGED <<taskVars, procVars>>
    BY <1>5, WorksStraight DEF WorkerSucceeds, WorkerFails, HandlerReturns
  <2>3. RolesKept' /\ IdsMatch'
    BY <1>5, <2>2, QuietRoles, WorkIds
  <2>4. CountedOnce'
    <3>1. ASSUME NEW k \in Steps, executed = 1..(k - 1), executed' = 1..k PROVE CountedOnce'
      <4>1. k - 1 \in 0..NumSteps /\ k \in 0..NumSteps
        BY ConstantsAssumption DEF Steps
      <4>2. completedTasks <= k - 1 /\ Cardinality(executed') = k
        BY <3>1, <4>1, CountOfSteps DEF CountedOnce
      <4> QED BY <2>1, <4>1, <4>2 DEF CountedOnce, TypeOK, RowType
    <3> QED BY <2>1, <3>1 DEF CountedOnce
  <2> QED BY <2>1, <2>3, <2>4, OrderKept
<1>6. CASE Compensate \/ Elapse \/ UNCHANGED vars
  <2>1. UNCHANGED <<taskVars, brokerVars, procVars, executed, completedTasks>>
    BY <1>6 DEF Compensate, CompSnapshot, CompStats, CompInFlight, CompWrite, CompError, Elapse,
       vars, rowVars
  <2>2. OneThread' /\ ThreadInOrder'
    BY <2>1, QuietThread
  <2>3. RolesKept' /\ IdsMatch'
    BY <2>1, QuietRoles, QuietIds
  <2> QED BY <2>1, <2>2, <2>3, OrderKept DEF CountedOnce
<1> QED BY <1>1, <1>2, <1>3, <1>4, <1>5, <1>6 DEF Next

\* The thread of control of an undisturbed workflow is in one place, with everything
\* behind it done and counted once and nothing ahead of it touched.
THEOREM OneThreadOfControl == Undisturbed => (Spec => []ThreadInv)
<1> SUFFICES ASSUME Undisturbed PROVE Spec => []ThreadInv
  OBVIOUS
<1>1. SafetyInv /\ ThreadInv /\ [Next]_vars => ThreadInv'
  BY StepThread
<1> QED
  BY <1>1, InitThread, Safety, PTL DEF Spec

\* HandleReply, publishTask and ReplayTask carry out the steps in their order.
THEOREM StepsAreExecutedInOrder == Undisturbed => (Spec => []ExecutedInOrder)
<1>1. ThreadInv => ExecutedInOrder
  BY DEF ThreadInv
<1> QED
  BY <1>1, OneThreadOfControl, PTL

\* HandleReply counts each completed step once.
THEOREM CompletionsAreCountedOnce == Undisturbed => (Spec => []CountedOnce)
<1>1. ThreadInv => CountedOnce
  BY DEF ThreadInv
<1> QED
  BY <1>1, OneThreadOfControl, PTL

\* HandleReply and the compensation loop write 'running' only for a workflow whose
\* steps have all been carried out.
THEOREM RunningRowsAreComplete == Undisturbed => (Spec => []RunningIsComplete)
<1>1. SafetyInv /\ ThreadInv => RunningIsComplete
  BY ConstantsAssumption DEF SafetyInv, ClaimsAreEarned, RunningIsLast, ThreadInv, ExecutedInOrder,
     RunningIsComplete, Steps, TypeOK
<1> QED
  BY <1>1, Safety, OneThreadOfControl, PTL

-----------------------------------------------------------------------------
(* LossInv: until the first replay, a step lost for good is the end.      *)

\* Before a replay every failed row is at rest.
LEMMA FailedAtRest == NotReplayed => FailedRows = {i \in Steps : taskStatus[i] = "failed"}
  BY DEF NotReplayed, FailedRows

\* Only the acceptance of a replay is counted.
LEMMA UsedByReplays ==
  ASSUME Undisturbed, SafetyInv, ThreadInv, [Next]_vars
  PROVE  UNCHANGED used \/ \E p \in Replayers, i \in Steps : AcceptReplay(p, i)
<1> USE DEF SafetyInv, ThreadInv
<1>1. CASE Submit
  BY <1>1, SubmitMovesOne
<1>2. ASSUME NEW p \in Procs, PublishTask(p) PROVE UNCHANGED used
  BY <1>2 DEF PublishTask, Publish, MarkQueued
<1>3. ASSUME NEW c \in Consumers, Consume(c) PROVE UNCHANGED used
  BY <1>3, ConsumesStraight DEF ReceiveReply, RecordResult, CountResult, SettleRow, PickNext,
     AckReply, NothingPending
<1>4. ASSUME NEW p \in Replayers, Replay(p)
      PROVE  UNCHANGED used \/ \E i \in Steps : AcceptReplay(p, i)
  BY <1>4, ReplaysStraight, NothingFails DEF ResetRow, RunTask, FallBackToPublish
<1>5. ASSUME NEW b \in TaskIds, Work(b) PROVE UNCHANGED used
  BY <1>5, WorksStraight DEF WorkerSucceeds, WorkerFails, HandlerReturns
<1>6. CASE Compensate \/ Elapse \/ UNCHANGED vars
  BY <1>6, NothingFails DEF Compensate, CompSnapshot, CompStats, CompInFlight, CompWrite,
     CompError, Elapse, vars
<1> QED BY <1>1, <1>2, <1>3, <1>4, <1>5, <1>6 DEF Next

\* A step that does not use up a replay leaves the operators where they are.
LEMMA NoReplay ==
  ASSUME Undisturbed, SafetyInv, ThreadInv, [Next]_vars, used'["replay"] = 0
  PROVE  /\ used["replay"] = 0
         /\ NotReplayed => NotReplayed' /\ \A p \in Replayers : ~Replay(p) /\ ~PublishTask(p)
<1> USE DEF SafetyInv, ThreadInv
<1>1. used["replay"] = 0 /\ \A p \in Replayers, i \in Steps : ~AcceptReplay(p, i)
  <2>1. ~Spend("replay")
    BY DEF Spend, TypeOK, Kinds
  <2>2. \A p \in Replayers, i \in Steps : ~AcceptReplay(p, i)
    BY <2>1 DEF AcceptReplay
  <2> QED BY <2>2, UsedByReplays
<1>2. ASSUME NotReplayed PROVE \A p \in Replayers : ~Replay(p) /\ ~PublishTask(p)
  BY <1>1, <1>2, ReplaysStraight DEF NotReplayed, ResetRow, RunTask, FallBackToPublish,
     PublishTask, Publish, MarkQueued
<1>3. ASSUME NotReplayed PROVE \A p \in Replayers : pc'[p] = pc[p]
  <2>1. CASE Submit
    BY <2>1, SubmitMovesOne, OneRole
  <2>2. ASSUME NEW q \in Procs, PublishTask(q) PROVE \A p \in Replayers : pc'[p] = pc[p]
    BY <1>2, <1>3, <2>2, OneRole, GotoOne DEF PublishTask, Publish, MarkQueued
  <2>3. ASSUME NEW c \in Consumers, Consume(c) PROVE \A p \in Replayers : pc'[p] = pc[p]
    BY <2>3, ConsumeMovesOne, OneRole
  <2>4. ASSUME NEW b \in TaskIds, Work(b) PROVE UNCHANGED pc
    BY <2>4, WorksStraight DEF WorkerSucceeds, WorkerFails, HandlerReturns, procVars
  <2>5. CASE Compensate \/ Elapse \/ UNCHANGED vars
    BY <2>5 DEF Compensate, CompSnapshot, CompStats, CompInFlight, CompWrite, CompError,
       Elapse, vars, procVars
  <2> QED BY <1>2, <1>3, <2>1, <2>2, <2>3, <2>4, <2>5 DEF Next
<1> QED BY <1>1, <1>2, <1>3 DEF NotReplayed

\* The thread that has ended does not come back.
LEMMA OverStays ==
  ASSUME Undisturbed, SafetyInv, ThreadInv, NotReplayed, Over, [Next]_vars, used'["replay"] = 0
  PROVE  Over'
<1> USE DEF SafetyInv, ThreadInv, Over
<1>1. CASE Submit
  <2>1. Submitter \in ActiveProcs
    BY <1>1, SubmitsStraight, OneRole
       DEF CreateRow, BatchCreate, UpdateTotalTasks, SetCreating, ActiveProcs
  <2> QED BY <2>1
<1>2. ASSUME NEW p \in Procs, PublishTask(p) PROVE Over'
  <2>1. ASSUME NEW b \in TaskIds, Publish(p, b) PROVE FALSE
    BY <2>1 DEF Publish, ActiveProcs, Procs, RolesKept
  <2>2. MarkQueued(p)
    BY <1>2, <2>1 DEF PublishTask
  <2>3. UNCHANGED <<broker, replies, held, executed>>
    BY <2>2 DEF MarkQueued, brokerVars
  <2>4. LiveTasks' = {} /\ FreshReplies' = {}
    BY <2>3 DEF LiveTasks, FreshReplies
  <2>5. pc'[p] \in {"stop", "ack", "idle"} /\ \A q \in Procs : q # p => pc'[q] = pc[q]
    BY <2>2, GotoOne DEF MarkQueued, Returned
  <2>6. ActiveProcs' = {}
    <3>1. p \notin ActiveProcs'
      BY <2>5 DEF ActiveProcs
    <3>2. \A q \in Procs : q # p => q \notin ActiveProcs'
      BY <2>3, <2>5, ActiveKept
    <3> QED BY <3>1, <3>2 DEF ActiveProcs
  <2> QED BY <2>3, <2>4, <2>6
<1>3. ASSUME NEW c \in Consumers, Consume(c) PROVE Over'
  <2>1. ~NothingPending(c) /\ ~PickNext(c)
    BY NextIsPending DEF NothingPending, PickNext
  <2>2. LiveTasks' = {} /\ UNCHANGED executed /\ \A p \in ActiveProcs' : p = c
    BY <1>3, ConsumeOthers
  <2>3. FreshReplies' = {}
    <3>1. \A r \in Reply : replies'[r] > 0 => replies[r] > 0
      <4>1. ASSUME NEW r \in Reply, ReceiveReply(c, r)
            PROVE  \A q \in Reply : replies'[q] > 0 => replies[q] > 0
        BY <4>1 DEF ReceiveReply, TypeOK, BrokerType
      <4>2. CASE UNCHANGED replies
        BY <4>2
      <4> QED BY <1>3, <2>1, <4>1, <4>2, ConsumesStraight
              DEF RecordResult, CountResult, SettleRow, AckReply, brokerVars
    <3> QED BY <3>1 DEF FreshReplies
  <2>4. c \notin ActiveProcs'
    <3>1. ASSUME NEW r \in Reply, ReceiveReply(c, r) PROVE c \notin ActiveProcs'
      <4>1. r.kind = "retrying"
        BY <3>1 DEF ReceiveReply, FreshReplies
      <4>2. CASE Finished(taskStatus[r.step])
        BY <3>1, <4>2, OneRole DEF ReceiveReply, ActiveProcs
      <4>3. CASE ~Finished(taskStatus[r.step])
        <5>1. pc'[c] = "result" /\ held'[c] = r
          BY <3>1, <4>3, OneRole, GotoOne DEF ReceiveReply, TypeOK, ProcType
        <5> QED BY <4>1, <5>1, OneRole DEF ActiveProcs
      <4> QED BY <4>2, <4>3
    <3>2. CASE RecordResult(c)
      <4>1. held[c].kind = "retrying"
        BY <3>2, OneRole DEF RecordResult, ActiveProcs
      <4>2. pc'[c] = "ack"
        BY <3>2, <4>1, OneRole, GotoOne DEF RecordResult
      <4> QED BY <4>2, OneRole DEF ActiveProcs
    <3>3. CASE CountResult(c)
      <4>1. held[c].kind # "success"
        BY <3>3, OneRole DEF CountResult, ActiveProcs
      <4>2. pc'[c] = "settle"
        BY <3>3, <4>1, OneRole, GotoOne DEF CountResult
      <4> QED BY <4>2, OneRole DEF ActiveProcs
    <3>4. CASE SettleRow(c) \/ AckReply(c)
      BY <3>4, OneRole, GotoOne DEF SettleRow, AckReply, ActiveProcs
    <3> QED BY <1>3, <2>1, <3>1, <3>2, <3>3, <3>4, ConsumesStraight
  <2> QED BY <2>2, <2>3, <2>4
<1>4. ASSUME NEW b \in TaskIds, Work(b) PROVE Over'
  <2>1. ~Runnable(b)
    BY DEF Runnable, LiveTasks
  <2>2. HandlerReturns(b)
    BY <1>4, <2>1, WorksStraight DEF WorkerSucceeds, WorkerFails
  <2>3. LiveTasks' = {}
    BY <2>2, ReturnsLive
  <2>4. ActiveProcs' = {} /\ FreshReplies' = {} /\ UNCHANGED executed
    BY <2>2 DEF HandlerReturns, procVars, ActiveProcs, FreshReplies
  <2> QED BY <2>3, <2>4
<1>5. CASE Compensate \/ Elapse \/ UNCHANGED vars
  <2>1. UNCHANGED <<brokerVars, procVars, executed>>
    BY <1>5 DEF Compensate, CompSnapshot, CompStats, CompInFlight, CompWrite, CompError,
       Elapse, vars
  <2> QED BY <2>1 DEF brokerVars, procVars, ActiveProcs, LiveTasks, FreshReplies
<1> QED BY <1>1, <1>2, <1>3, <1>4, <1>5, NoReplay DEF Next

\* A step is lost when a consumer records its last failure: it has the thread and drops it.
LEMMA LostWhenOver ==
  ASSUME Undisturbed, SafetyInv, ThreadInv, NotReplayed, [Next]_vars, used'["replay"] = 0,
         StepLost'
  PROVE  StepLost \/ Over'
<1> USE DEF SafetyInv, ThreadInv
<1>1. CASE Submit
  <2>1. UNCHANGED <<comp, held>> /\ \A c \in Consumers : pc'[c] = pc[c]
    BY <1>1, SubmitMovesOne, OneRole
  <2>2. \A i \in Steps : taskStatus'[i] = "failed" => taskStatus[i] = "failed"
    BY <1>1, SubmitsStraight DEF CreateRow, BatchCreate, UpdateTotalTasks, SetCreating, taskVars
  <2> QED BY <2>1, <2>2, FailedAtRest DEF StepLost, FailedRows
<1>2. ASSUME NEW p \in Procs, PublishTask(p) PROVE StepLost
  <2>1. UNCHANGED <<comp, held>>
    BY <1>2 DEF PublishTask, Publish, MarkQueued
  <2>2. pc'[p] \in {"mark", "stop", "ack", "idle"} /\ \A q \in Procs : q # p => pc'[q] = pc[q]
    BY <1>2, GotoOne DEF PublishTask, Publish, MarkQueued, Returned
  <2>3. \A c \in Consumers : pc'[c] \in {"count", "settle"} => pc[c] = pc'[c]
    BY <2>2, OneRole
  <2>4. \A i \in Steps : taskStatus'[i] = "failed" => taskStatus[i] = "failed"
    BY <1>2 DEF PublishTask, Publish, MarkQueued, UpdateTask, taskVars, TypeOK, TaskType
  <2> QED BY <2>1, <2>3, <2>4, FailedAtRest DEF StepLost, FailedRows
<1>3. ASSUME NEW c \in Consumers, Consume(c) PROVE StepLost \/ Over'
  <2>1. ~NothingPending(c)
    BY NextIsPending DEF NothingPending
  <2>2. /\ UNCHANGED comp
        /\ \A d \in Consumers : d # c => pc'[d] = pc[d] /\ held'[d] = held[d]
    BY <1>3, ConsumeMovesOne, OneRole
  <2>3. CASE RecordResult(c) /\ held[c].kind = "final"
    <3>1. c \in ActiveProcs
      BY <2>3, OneRole DEF RecordResult, ActiveProcs
    <3>2. ActiveProcs = {c} /\ LiveTasks = {} /\ FreshReplies = {}
      BY <3>1, ProcHasIt
    <3>3. held[c].step \in Steps /\ executed = 1..(held[c].step - 1)
      BY <2>3, <3>1, OneRole
         DEF RecordResult, ThreadInOrder, ProcInOrder, Before, PendingIsASuffix, HeldPassed, Reply
    <3>4. executed # Steps
      BY <3>3, ConstantsAssumption DEF Steps
    <3>5. UNCHANGED <<replies, held>> /\ pc'[c] = "count"
      BY <2>3, OneRole, GotoOne DEF RecordResult, brokerVars
    <3>6. LiveTasks' = {} /\ UNCHANGED executed /\ \A p \in ActiveProcs' : p = c
      BY <1>3, <3>2, ConsumeOthers
    <3>7. c \notin ActiveProcs'
      BY <2>3, <3>5, OneRole DEF ActiveProcs
    <3>8. FreshReplies' = {}
      BY <3>2, <3>5 DEF FreshReplies
    <3> QED BY <3>4, <3>6, <3>7, <3>8 DEF Over
  <2>4. CASE ~(RecordResult(c) /\ held[c].kind = "final")
    <3>1. \A i \in Steps : taskStatus'[i] = "failed" => taskStatus[i] = "failed"
      <4>1. CASE RecordResult(c)
        <5>1. held[c] \in Reply /\ held[c].step \in Steps
          BY <4>1 DEF RecordResult, PendingIsASuffix, HeldPassed, Reply
        <5>2. ResultStatus[held[c].kind] # "failed"
          BY <2>4, <4>1, <5>1 DEF Reply, ReplyKinds, ResultStatus
        <5> QED BY <4>1, <5>1, <5>2, UpdateOne DEF RecordResult
      <4>2. CASE UNCHANGED taskStatus
        BY <4>2
      <4> QED BY <1>3, <2>1, <4>1, <4>2, ConsumesStraight
              DEF ReceiveReply, CountResult, SettleRow, PickNext, AckReply, taskVars
    <3>2. pc'[c] \in {"count", "settle"} /\ held'[c].kind = "final" => StepLost
      <4>1. CASE RecordResult(c)
        BY <2>4, <4>1 DEF RecordResult
      <4>2. CASE CountResult(c)
        BY <4>2 DEF CountResult, StepLost
      <4>3. CASE ~RecordResult(c) /\ ~CountResult(c)
        <5>1. pc'[c] \notin {"count", "settle"}
          BY <1>3, <2>1, <4>3, OneRole, GotoOne, ConsumesStraight
             DEF ReceiveReply, SettleRow, PickNext, AckReply
        <5> QED BY <5>1
      <4> QED BY <4>1, <4>2, <4>3
    <3> QED BY <2>2, <3>1, <3>2, FailedAtRest DEF StepLost, FailedRows
  <2> QED BY <2>3, <2>4
<1>4. ASSUME NEW b \in TaskIds, Work(b) PROVE StepLost
  <2>1. UNCHANGED <<taskStatus, pc, held, comp>>
    BY <1>4, WorksStraight DEF WorkerSucceeds, WorkerFails, HandlerReturns, taskVars, procVars
  <2> QED BY <2>1, FailedAtRest DEF StepLost, FailedRows
<1>5. CASE Compensate
  <2>1. UNCHANGED <<taskStatus, pc, held>>
    BY <1>5 DEF Compensate, CompSnapshot, CompStats, CompInFlight, CompWrite, CompError,
       taskVars, procVars
  <2>2. comp'.verdict = "failed" /\ ~comp'.aged => StepLost
    <3>1. CASE CompSnapshot \/ CompWrite \/ CompError
      BY <3>1 DEF CompSnapshot, CompWrite, CompError, CompIdle
    <3>2. CASE CompStats
      BY <3>2, FailedAtRest DEF CompStats, CompIdle, StepLost, TypeOK, CompType
    <3>3. ASSUME NEW ok \in BOOLEAN, CompInFlight(ok), comp'.verdict = "failed" PROVE comp'.aged
      BY <3>3 DEF CompInFlight, CompIdle, TypeOK, CompType
    <3> QED BY <1>5, <3>1, <3>2, <3>3 DEF Compensate
  <2> QED BY <2>1, <2>2, FailedAtRest DEF StepLost, FailedRows
<1>6. CASE Elapse \/ UNCHANGED vars
  BY <1>6, FailedAtRest DEF Elapse, vars, taskVars, procVars, StepLost, FailedRows
<1> QED BY <1>1, <1>2, <1>3, <1>4, <1>5, <1>6, NoReplay DEF Next

\* A row is written 'failed' for a lost step, or for an aged listing.
LEMMA FailedForLoss ==
  ASSUME Undisturbed, SafetyInv, ThreadInv, [Next]_vars, rowStatus' = "failed"
  PROVE  \/ rowStatus = "failed" \/ StepLost
         \/ comp.pc = "write" /\ comp.verdict = "failed" /\ comp.aged
<1> USE DEF SafetyInv, ThreadInv
<1>1. CASE Submit
  BY <1>1, SubmitsStraight
     DEF CreateRow, BatchCreate, UpdateTotalTasks, SetCreating, UpdateRowStatus, rowVars
<1>2. ASSUME NEW p \in Procs, PublishTask(p) PROVE UNCHANGED rowStatus
  BY <1>2 DEF PublishTask, Publish, MarkQueued, rowVars
<1>3. ASSUME NEW c \in Consumers, Consume(c) PROVE rowStatus = "failed" \/ StepLost
  <2>1. CASE SettleRow(c)
    <3>1. held[c] \in Reply /\ held[c].kind # "retrying" /\ pc[c] = "settle"
      BY <2>1 DEF SettleRow, PendingIsASuffix, HeldPassed, RolesKept
    <3>2. held[c].kind \in {"success", "final"}
      BY <3>1 DEF Reply, ReplyKinds
    <3> QED BY <2>1, <3>1, <3>2 DEF SettleRow, UpdateRowStatus, StepLost
  <2>2. CASE UNCHANGED rowStatus
    BY <2>2
  <2> QED BY <1>3, <2>1, <2>2, ConsumesStraight DEF ReceiveReply, RecordResult, CountResult,
          PickNext, AckReply, NothingPending, ReturnReply, rowVars
<1>4. ASSUME NEW p \in Replayers, Replay(p) PROVE rowStatus = "failed"
  BY <1>4, ReplaysStraight
     DEF AcceptReplay, ResetRow, RunTask, FallBackToPublish, UpdateRowStatus, rowVars
<1>5. ASSUME NEW b \in TaskIds, Work(b) PROVE UNCHANGED rowStatus
  BY <1>5, WorksStraight DEF WorkerSucceeds, WorkerFails, HandlerReturns, rowVars
<1>6. CASE Compensate
  BY <1>6 DEF Compensate, CompSnapshot, CompStats, CompInFlight, CompWrite, CompError,
     UpdateRowStatus, StepLost, rowVars, TypeOK, CompType
<1>7. CASE Elapse \/ UNCHANGED vars
  BY <1>7 DEF Elapse, vars, rowVars
<1> QED BY <1>1, <1>2, <1>3, <1>4, <1>5, <1>6, <1>7 DEF Next

\* Nothing is lost at the start.
LEMMA InitLoss == Undisturbed /\ Init => LossInv
<1> SUFFICES ASSUME Undisturbed, Init PROVE LossInv
  OBVIOUS
<1>1. \A p \in Consumers \cup Replayers : pc[p] = "idle"
  BY OneRole DEF Init
<1>2. NotReplayed /\ ~StepLost
  BY <1>1 DEF Init, NotReplayed, StepLost, FailedRows, CompIdle, Kinds
<1> QED BY <1>2 DEF LossInv

\* Every step keeps LossInv.
LEMMA StepLoss ==
  ASSUME Undisturbed, SafetyInv, ThreadInv, LossInv, [Next]_vars
  PROVE  LossInv'
<1> SUFFICES ASSUME used'["replay"] = 0 PROVE NotReplayed' /\ (StepLost' => Over')
  BY DEF LossInv
<1>1. NotReplayed /\ NotReplayed' /\ (StepLost => Over)
  BY NoReplay DEF LossInv
<1> QED BY <1>1, LostWhenOver, OverStays

\* Whatever times out, a step lost before the first replay ends the workflow: no
\* process, broker task or reply takes it on.
THEOREM LossesAreFinal == Undisturbed => (Spec => []LossInv)
<1> SUFFICES ASSUME Undisturbed PROVE Spec => []LossInv
  OBVIOUS
<1>1. SafetyInv /\ ThreadInv /\ LossInv /\ [Next]_vars => LossInv'
  BY StepLoss
<1> QED
  BY <1>1, InitLoss, OneThreadOfControl, Safety, PTL DEF Spec

\* A 'running' row is complete.
LEMMA RunningWasComplete ==
  ASSUME SafetyInv, ThreadInv
  PROVE  /\ NumSteps \in executed => executed = Steps
         /\ rowStatus = "running" => executed = Steps
<1>1. NumSteps \in executed => executed = Steps
  BY ConstantsAssumption DEF SafetyInv, TypeOK, ThreadInv, ExecutedInOrder, Steps
<1> QED BY <1>1 DEF SafetyInv, ClaimsAreEarned, RunningIsLast

\* Of the statements that write the row's status, only the loop's with an aged listing
\* can take 'running' back before a replay: the request's come before the last step, a
\* late failure and a failed row of tasks would be a lost step of a complete workflow.
THEOREM OnlyAnAgedListingTakesRunningBack == Undisturbed => (Spec => RunningStays)
<1> SUFFICES ASSUME Undisturbed PROVE Spec => RunningStays
  OBVIOUS
<1>1. SafetyInv /\ ThreadInv /\ LossInv /\ [Next]_vars =>
        [(rowStatus = "running" /\ rowStatus' # "running" /\ used["replay"] = 0) =>
           comp.pc = "write" /\ comp.verdict = "failed" /\ comp.aged]_vars
  <2> SUFFICES ASSUME SafetyInv, ThreadInv, LossInv, [Next]_vars,
                      rowStatus = "running", rowStatus' # "running", used["replay"] = 0
               PROVE  comp.pc = "write" /\ comp.verdict = "failed" /\ comp.aged
    OBVIOUS
  <2> USE DEF SafetyInv, ThreadInv
  <2>1. executed = Steps /\ ~StepLost /\ NotReplayed
    BY RunningWasComplete DEF LossInv, Over
  <2>2. rowStatus' = "failed"
    <3>1. ~Submit
      <4>1. Submit => Submitter \in ActiveProcs
        BY SubmitsStraight, OneRole
           DEF CreateRow, BatchCreate, UpdateTotalTasks, SetCreating, ActiveProcs
      <4>2. Submitter \in ActiveProcs => executed = 1..(1 - 1)
        BY DEF ThreadInOrder, ProcInOrder, Before
      <4> QED BY <2>1, <4>1, <4>2, ConstantsAssumption DEF Steps
    <3>2. ASSUME NEW p \in Procs, PublishTask(p) PROVE UNCHANGED rowStatus
      BY <3>2 DEF PublishTask, Publish, MarkQueued, rowVars
    <3>3. ASSUME NEW c \in Consumers, Consume(c) PROVE rowStatus' \in {rowStatus, "running", "failed"}
      BY <3>3, ConsumesStraight DEF ReceiveReply, RecordResult, CountResult, SettleRow, PickNext,
         AckReply, NothingPending, ReturnReply, UpdateRowStatus, rowVars
    <3>4. ASSUME NEW p \in Replayers, Replay(p) PROVE UNCHANGED rowStatus
      BY <2>1, <3>4, ReplaysStraight
         DEF NotReplayed, AcceptReplay, ResetRow, RunTask, FallBackToPublish, rowVars
    <3>5. ASSUME NEW b \in TaskIds, Work(b) PROVE UNCHANGED rowStatus
      BY <3>5, WorksStraight DEF WorkerSucceeds, WorkerFails, HandlerReturns, rowVars
    <3>6. CASE Compensate
      BY <3>6 DEF Compensate, CompSnapshot, CompStats, CompInFlight, CompWrite, CompError,
         UpdateRowStatus, rowVars, TypeOK, CompType
    <3>7. CASE Elapse \/ UNCHANGED vars
      BY <3>7 DEF Elapse, vars, rowVars
    <3> QED BY <3>1, <3>2, <3>3, <3>4, <3>5, <3>6, <3>7 DEF Next
  <2> QED BY <2>1, <2>2, FailedForLoss
<1> QED
  BY <1>1, OneThreadOfControl, LossesAreFinal, Safety, PTL DEF Spec, RunningStays

-----------------------------------------------------------------------------
(* ChainInv: without replays and timeouts a failed row is the end too.     *)

\* No workflow grows stale when staleWorkflowTimeout cannot elapse.
LEMMA NeverAged ==
  ASSUME Straight, SafetyInv, ThreadInv, ~aged, ~comp.aged, [Next]_vars
  PROVE  ~aged' /\ ~comp'.aged
<1> USE DEF SafetyInv, ThreadInv, Straight
<1>1. CASE Submit
  <2>1. UNCHANGED comp
    BY <1>1, SubmitMovesOne
  <2>2. ~aged'
    BY <1>1, SubmitsStraight
       DEF CreateRow, BatchCreate, UpdateTotalTasks, SetCreating, UpdateRowStatus, rowVars
  <2> QED BY <2>1, <2>2
<1>2. ASSUME NEW p \in Procs, PublishTask(p) PROVE ~aged' /\ ~comp'.aged
  BY <1>2 DEF PublishTask, Publish, MarkQueued, rowVars
<1>3. ASSUME NEW c \in Consumers, Consume(c) PROVE ~aged' /\ ~comp'.aged
  BY <1>3, ConsumesStraight, ConsumeMovesOne
     DEF ReceiveReply, RecordResult, CountResult, SettleRow, PickNext, AckReply, NothingPending,
         ReturnReply, UpdateRowStatus, rowVars
<1>4. ASSUME NEW b \in TaskIds, Work(b) PROVE ~aged' /\ ~comp'.aged
  BY <1>4, WorksStraight DEF WorkerSucceeds, WorkerFails, HandlerReturns, rowVars
<1>5. CASE Compensate
  <2>1. ~aged'
    BY <1>5 DEF Compensate, CompSnapshot, CompStats, CompInFlight, CompWrite, CompError,
       UpdateRowStatus, rowVars
  <2>2. ~comp'.aged
    <3>1. CASE CompSnapshot \/ CompWrite \/ CompError
      BY <3>1 DEF CompSnapshot, CompWrite, CompError, CompIdle
    <3>2. CASE CompStats
      BY <3>2 DEF CompStats, CompIdle, TypeOK, CompType
    <3>3. ASSUME NEW ok \in BOOLEAN, CompInFlight(ok) PROVE ~comp'.aged
      BY <3>3 DEF CompInFlight, CompIdle
    <3> QED BY <1>5, <3>1, <3>2, <3>3 DEF Compensate
  <2> QED BY <2>1, <2>2
<1>6. CASE UNCHANGED vars
  BY <1>6 DEF vars, rowVars
<1>7. ~Elapse
  BY DEF Elapse
<1> QED BY <1>1, <1>2, <1>3, <1>4, <1>5, <1>6, <1>7 DEF Next

\* Nothing has failed in the beginning, and a failure is the end.
LEMMA InitChain == Straight /\ Init => ChainInv
<1> SUFFICES ASSUME Straight, Init PROVE ChainInv
  OBVIOUS
<1>1. LossInv
  BY InitLoss DEF Straight
<1> QED BY <1>1 DEF ChainInv, LossInv, FailureShown, Init, CompIdle, Kinds

\* Every step keeps ChainInv.
LEMMA StepChainInv ==
  ASSUME Straight, SafetyInv, ThreadInv, ChainInv, [Next]_vars
  PROVE  ChainInv'
<1>1. ~aged' /\ ~comp'.aged
  BY NeverAged DEF ChainInv
<1>2. used'["replay"] = 0
  BY UsedByReplays DEF ChainInv, NotReplayed, Straight
<1>3. NotReplayed' /\ (StepLost' => StepLost \/ Over') /\ (Over => Over')
  BY <1>2, NoReplay, LostWhenOver, OverStays DEF ChainInv, Straight
<1>4. rowStatus' = "failed" => rowStatus = "failed" \/ StepLost
  BY FailedForLoss DEF ChainInv, Straight
<1> QED BY <1>1, <1>3, <1>4 DEF ChainInv, FailureShown

\* Without replays and timeouts, a workflow that shows a failure has come to its end.
THEOREM FailuresAreFinal == Straight => (Spec => []ChainInv)
<1> SUFFICES ASSUME Straight PROVE Spec => []ChainInv
  OBVIOUS
<1>1. Init => ChainInv
  BY InitChain
<1>2. SafetyInv /\ ThreadInv /\ ChainInv /\ [Next]_vars => ChainInv'
  BY StepChainInv
<1>3. Undisturbed
  BY DEF Straight
<1>4. Spec => []ThreadInv
  BY <1>3, OneThreadOfControl
<1> QED
  BY <1>1, <1>2, <1>4, Safety, PTL DEF Spec

-----------------------------------------------------------------------------
(* What a client sees. *)

\* A workflow shown as 'running' is complete, and one that shows a failure is over.
LEMMA ShownIsTrue ==
  ASSUME SafetyInv, ThreadInv, ChainInv
  PROVE  /\ NumSteps \in executed => executed = Steps
         /\ rowStatus = "running" => executed = Steps
         /\ FailureShown => Over /\ executed # Steps
  BY RunningWasComplete DEF ChainInv, Over

\* A step shows nothing new, carries out the next device operation of an open
\* workflow, ends a complete one, or fails an incomplete one.
LEMMA OutcomeMoves ==
  ASSUME Straight, SafetyInv, ThreadInv, ChainInv, [Next]_vars
  PROVE  \/ UNCHANGED executed /\ Outcome' = Outcome
         \/ /\ \E k \in Steps : executed = 1..(k - 1) /\ executed' = 1..k
            /\ rowStatus \notin {"running", "failed"} /\ UNCHANGED rowStatus
         \/ /\ executed = Steps /\ rowStatus # "failed"
            /\ UNCHANGED executed /\ rowStatus' = "running"
         \/ /\ executed # Steps /\ rowStatus # "running"
            /\ UNCHANGED executed /\ rowStatus' = "failed"
<1> USE DEF SafetyInv, ThreadInv, Straight
<1>1. CASE Submit
  <2>1. Submitter \in ActiveProcs
    BY <1>1, SubmitsStraight, OneRole
       DEF CreateRow, BatchCreate, UpdateTotalTasks, SetCreating, ActiveProcs
  <2>2. executed = 1..(1 - 1)
    BY <2>1 DEF ThreadInOrder, ProcInOrder, Before
  <2>3. executed # Steps
    BY <2>2, ConstantsAssumption DEF Steps
  <2>4. rowStatus \notin {"running", "failed"}
    BY <2>1, <2>3, ShownIsTrue DEF Over, ChainInv, FailureShown, StepLost
  <2>5. UNCHANGED executed
    BY <1>1, SubmitMovesOne
  <2>6. rowStatus' \in {rowStatus, "pending", "creating"}
    BY <1>1, SubmitsStraight
       DEF CreateRow, BatchCreate, UpdateTotalTasks, SetCreating, UpdateRowStatus, rowVars
  <2> QED BY <2>4, <2>5, <2>6 DEF Outcome
<1>2. ASSUME NEW p \in Procs, PublishTask(p) PROVE UNCHANGED executed /\ Outcome' = Outcome
  BY <1>2 DEF PublishTask, Publish, MarkQueued, rowVars, Outcome
<1>3. ASSUME NEW c \in Consumers, Consume(c)
      PROVE  \/ UNCHANGED executed /\ Outcome' = Outcome
             \/ /\ executed = Steps /\ rowStatus # "failed"
                /\ UNCHANGED executed /\ rowStatus' = "running"
             \/ /\ executed # Steps /\ rowStatus # "running"
                /\ UNCHANGED executed /\ rowStatus' = "failed"
  <2>1. UNCHANGED executed
    BY <1>3, ConsumeMovesOne
  <2>2. CASE SettleRow(c)
    <3>1. pc[c] = "settle" /\ held[c].kind \in {"success", "final"}
      BY <2>2 DEF SettleRow, PendingIsASuffix, HeldPassed, RolesKept, Reply, ReplyKinds
    <3>2. CASE held[c].kind = "success"
      <4>1. NumSteps \in executed
        BY <3>1, <3>2 DEF ClaimsAreEarned, HeldEarned
      <4>2. executed = Steps /\ rowStatus # "failed"
        BY <4>1, ShownIsTrue DEF ChainInv, FailureShown, StepLost
      <4> QED BY <2>1, <2>2, <3>2, <4>2 DEF SettleRow, UpdateRowStatus
    <3>3. CASE held[c].kind = "final"
      <4>1. executed # Steps /\ rowStatus # "running"
        BY <3>1, <3>3, ShownIsTrue DEF ChainInv, FailureShown, StepLost
      <4> QED BY <2>1, <2>2, <3>3, <4>1 DEF SettleRow, UpdateRowStatus
    <3> QED BY <3>1, <3>2, <3>3
  <2>3. CASE ~SettleRow(c)
    <3>1. UNCHANGED rowStatus
      BY <1>3, <2>3, ConsumesStraight DEF ReceiveReply, RecordResult, CountResult, PickNext,
         AckReply, NothingPending, ReturnReply, rowVars
    <3> QED BY <2>1, <3>1 DEF Outcome
  <2> QED BY <2>2, <2>3
<1>4. ASSUME NEW b \in TaskIds, Work(b)
      PROVE  \/ UNCHANGED executed /\ Outcome' = Outcome
             \/ /\ \E k \in Steps : executed = 1..(k - 1) /\ executed' = 1..k
                /\ rowStatus \notin {"running", "failed"} /\ UNCHANGED rowStatus
  <2>1. UNCHANGED rowStatus /\ Outcome' = Outcome
    BY <1>4, WorksStraight DEF WorkerSucceeds, WorkerFails, HandlerReturns, rowVars, Outcome
  <2>2. CASE UNCHANGED executed
    BY <2>1, <2>2
  <2>3. CASE executed' # executed
    <3>1. PICK k \in Steps : executed = 1..(k - 1) /\ executed' = 1..k
      BY <1>4, <2>3, WorkThread
    <3>2. executed # Steps
      BY <3>1, ConstantsAssumption DEF Steps
    <3>3. b \in LiveTasks
      BY <1>4, <2>3, WorksStraight
         DEF WorkerSucceeds, WorkerFails, HandlerReturns, Runnable, LiveTasks
    <3>4. rowStatus \notin {"running", "failed"}
      BY <3>2, <3>3, ShownIsTrue DEF Over, ChainInv, FailureShown, StepLost
    <3> QED BY <2>1, <3>1, <3>4
  <2> QED BY <2>2, <2>3
<1>5. CASE Compensate
  <2>1. UNCHANGED executed
    BY <1>5 DEF Compensate, CompSnapshot, CompStats, CompInFlight, CompWrite, CompError
  <2>2. CASE CompWrite
    <3>1. comp.verdict \in {"running", "failed"} /\ rowStatus' = comp.verdict
      BY <2>2 DEF CompWrite, UpdateRowStatus, TypeOK, CompType
    <3>2. comp.verdict = "running" => executed = Steps /\ rowStatus # "failed"
      BY ShownIsTrue DEF ClaimsAreEarned, VerdictEarned, ChainInv, FailureShown, StepLost
    <3>3. comp.verdict = "failed" => executed # Steps /\ rowStatus # "running"
      BY ShownIsTrue DEF ChainInv, FailureShown, StepLost
    <3> QED BY <2>1, <3>1, <3>2, <3>3
  <2>3. CASE ~CompWrite
    <3>1. UNCHANGED rowStatus
      BY <1>5, <2>3 DEF Compensate, CompSnapshot, CompStats, CompInFlight, CompError, rowVars
    <3> QED BY <2>1, <3>1 DEF Outcome
  <2> QED BY <2>2, <2>3
<1>6. CASE Elapse \/ UNCHANGED vars
  BY <1>6 DEF Elapse, vars, rowVars, Outcome
<1> QED BY <1>1, <1>2, <1>3, <1>4, <1>5, <1>6 DEF Next

\* A workflow without replays, faults and timeouts is a StepChain: what its clients see
\* is the steps carried out one after the other, and one outcome that is true of them.
THEOREM WorkflowImplementsChain == Straight => (Spec => ImplementsChain)
<1> SUFFICES ASSUME Straight PROVE Spec => ImplementsChain
  OBVIOUS
<1>1. Init => Chain!ChainInit
  BY DEF Init, Chain!ChainInit, Outcome
<1>2. SafetyInv /\ ThreadInv /\ ChainInv /\ [Next]_vars => [Chain!ChainNext]_(Chain!chainVars)
  <2> SUFFICES ASSUME SafetyInv, ThreadInv, ChainInv, [Next]_vars
               PROVE  [Chain!ChainNext]_(Chain!chainVars)
    OBVIOUS
  <2>1. CASE UNCHANGED executed /\ Outcome' = Outcome
    BY <2>1 DEF Chain!chainVars
  <2>2. ASSUME NEW k \in Steps, executed = 1..(k - 1), executed' = 1..k,
               rowStatus \notin {"running", "failed"}, UNCHANGED rowStatus
        PROVE  Chain!ExecuteNext(k)
    <3>1. k \notin 1..(k - 1) /\ 1..k = (1..(k - 1)) \cup {k}
      BY ConstantsAssumption DEF Steps
    <3> QED BY <2>2, <3>1 DEF Chain!ExecuteNext, Outcome
  <2>3. CASE /\ executed = Steps /\ rowStatus # "failed"
             /\ UNCHANGED executed /\ rowStatus' = "running"
    <3>1. CASE rowStatus = "running"
      BY <2>3, <3>1 DEF Chain!chainVars, Outcome
    <3>2. CASE rowStatus # "running"
      BY <2>3, <3>2 DEF Chain!ChainNext, Chain!Succeed, Outcome, Steps
    <3> QED BY <3>1, <3>2
  <2>4. CASE /\ executed # Steps /\ rowStatus # "running"
             /\ UNCHANGED executed /\ rowStatus' = "failed"
    <3>1. CASE rowStatus = "failed"
      BY <2>4, <3>1 DEF Chain!chainVars, Outcome
    <3>2. CASE rowStatus # "failed"
      BY <2>4, <3>2 DEF Chain!ChainNext, Chain!Fail, Outcome, Steps
    <3> QED BY <3>1, <3>2
  <2>5. ASSUME NEW k \in Steps, Chain!ExecuteNext(k) PROVE Chain!ChainNext
    BY <2>5 DEF Chain!ChainNext, Steps
  <2> QED BY <2>1, <2>2, <2>3, <2>4, <2>5, OutcomeMoves
<1>3. Spec => []ThreadInv
  BY OneThreadOfControl DEF Straight
<1>4. Spec => []ChainInv
  BY FailuresAreFinal
<1> QED
  BY <1>1, <1>2, <1>3, <1>4, Safety, PTL DEF Spec, ImplementsChain, Chain!ChainSpec

=============================================================================
