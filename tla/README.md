# Verification of the VPC workflow

TLA+ models, model-checking runs and machine-checked proofs for the three-tier
network controller in `src/`: Top NSP (a region), AZ NSP (one per availability
zone) and the workers that configure the devices.

## 1. The system

A client asks Top NSP for a VPC in a region.  Top NSP runs a saga with one HTTP
call per AZ, writes a row of `vpc_registry` and starts a goroutine that follows
the saga and then polls the AZs.  Each AZ NSP inserts a resource row and a row of
`tasks` per step (VRF, VLAN, firewall for a VPC), hands the first step to a
Redis/asynq queue and hands over the next one each time a worker's reply reports
the last one done.  A loop in AZ NSP repairs workflows whose rows disagree; an
operator can replay a failed task.

```
 client --HTTP--> Top NSP --saga, HTTP--> AZ NSP --asynq queues--> workers --> devices
                    |  ^                    |  ^                       |
               vpc_registry \__polls______/    \_____reply queue______/
                                     tasks, *_resources
```

| component | code | state | operations | what is hard |
|---|---|---|---|---|
| Workflow manager | `internal/orchestration/workflow.go` | none of its own | SubmitWorkflow, HandleReply, RequeueTask, publishTask | single statements, no transaction around them, two reply goroutines |
| Task rows | `internal/db/dao/task_dao.go` | `tasks`: status, asynq_task_id, order | BatchCreate, UpdateQueued, UpdateResult, UpdateRetryProgress, GetNextPendingTask, GetTaskStats | unconditional UPDATEs |
| Resource rows | `internal/db/dao/dao.go`, `pccn_dao.go` | status, three counters, updated_at | UpdateStatus, Increment*, ListAll | names, uniqueness, deletion |
| AZ orchestrator | `internal/az/orchestrator/orchestrator.go` | none | Create*, Delete*, ReplayTask, compensation loop | the loop decides on rows read earlier |
| Step workers | `tasks/*.go`, `cmd/worker` | none | a device operation, a reply, a return value | lost replies, retries, redelivery |
| Task broker | asynq, `taskqueue` (libraries) | tasks with a state and a retry count | publish, run, retry, archive, rerun | at-least-once delivery |
| Top orchestrator, region VPC | `internal/top/orchestrator/orchestrator.go:75-501`, `internal/top/vpc/dao`, `internal/top/api` | `vpc_registry`, goroutines with a `settled` set | CreateRegionVPC, watcher, deleteVPC, shutdown | read-modify-write of az_details, timeouts, cancellation |
| Saga engine | `nsp-platform/saga` (library), `internal/bootstrap` | `saga_transactions`, `saga_steps` | Submit, Query | partial failure, compensation that is refused |
| Top orchestrator, PCCN | the same file, 568-1052, `internal/top/pccn/dao` | `pccn_registry`, goroutines with a `settled` map | create, watch, delete, watch the deletion | failures forgotten between ticks, refused compensation, a deletion that never ends |
| AZ resources | `internal/az/orchestrator`, `internal/db/dao` | `vpc_resources`, `subnet_resources` | create, delete by name, delete by id, replay, loops | count first, write later; a loop that writes what it read earlier |
| AZ registry | `internal/top/registry`, `internal/top/api`, heartbeats of `internal/az/api` | AZ records that expire and a set per region, in Redis | RegisterAZ, Heartbeat, GetAZ, GetRegionAZs, ListAllAZs, CheckAZHealth | read-modify-write over Redis, requests of a stopped process, errors taken for missing records |
| Firewall policies, Top | `internal/top/vfw`, subnets and zones of the Top orchestrator | policy rows, records per AZ, addresses of AZs in memory | CreatePolicy, delete, RegisterAZ, CheckZonePolicies | fan-out with partial failure, a zone deleted meanwhile, restart |
| Firewall policies, AZ | `internal/az/vfw` | policy rows, the same Manager | create, delete, CountByZone, compensation | unguarded deletion |
| AZ client, TLS and signatures, configuration, logging | `internal/client`, `internal/bootstrap`, `internal/config`, `internal/logging` | none the properties speak of | calls | I/O |

What makes each of them correct:

* **Workflow**: steps are carried out in order, each counted once; `running`
  means all of them were carried out; every workflow gets a final status; a
  status, once right, is not taken back (the code keeps this only in part: section 5).
* **Region VPC**: the registry knows every VPC that is being built and says no more
  than the AZs have built; what an AZ has reported is neither lost nor taken back;
  a row that says `creating` is watched; a watcher always ends.
* **PCCN**: the registry reports what the AZs have answered; a connection that works
  is not reset by a second create; a row is dropped only when the AZs have dropped
  theirs; neither `creating` nor `deleting` lasts.
* **AZ resources**: `running` was earned; what is deleted stays deleted; a deletion
  of a VPC leaves nothing behind that was there when it counted; no row is for ever
  in the making.
* **AZ registry**: an address that was written is not lost to a heartbeat; a listing
  misses nobody; an AZ that is up is found healthy.
* **Firewall policies**: `running` means both zones' AZs hold the policy; a deleted
  one does not come back; a policy in the making has somebody at work on it.

## 2. Modules

| module | what it is |
|---|---|
| `Workflow` | one workflow, statement by statement: request, reply goroutines, replays, compensation loop, broker, workers |
| `StepChain` | what a workflow promises: steps in order, then one outcome |
| `WorkflowChain` | the mapping of `Workflow` to `StepChain`, and the invariants of its executions without faults |
| `MCWorkflow` | `WorkflowChain` for TLC: symmetry |
| `WorkflowProofs`, `WorkflowChainProofs` | theorems about every execution of `Workflow`, and about those without faults, with the refinement of `StepChain` |
| `RegionVpc` | one VPC name in Top NSP: registry row, sagas, watchers, deletions, shutdown |
| `RegionVpcProofs` | theorems about `RegionVpc` |
| `Pccn` | one PCCN name: registry row, create and delete sagas, their watchers, the AZs' rows |
| `PccnProofs`, `PccnRowProofs` | theorems about the registry's row and about the AZs' rows |
| `AzResource` | the rows of an AZ: a VPC, its subnets, its zone's policies; deletions, replays, loops |
| `MCAzResource` | `AzResource` for TLC: symmetry |
| `AzResourceProofs` | theorems about `AzResource` |
| `AzRegistry` | the AZs' records and lists in Redis, one action per command |
| `AzRegistryProofs` | theorems about `AzRegistry` |
| `TopVfw` | firewall policies in Top NSP: subnets and zones, fan-out to the AZs, deletion |
| `MCTopVfw` | `TopVfw` for TLC: symmetry |
| `TopVfwProofs` | theorems about `TopVfw` |

`Workflow` and `RegionVpc` meet at the status of a VPC's row in an AZ.  `RegionVpc` lets that
row go from `creating` to `running` or `failed`, from `failed` back to `creating`
(a replay) and from `deleting` back to `running`; the first two are what
`Workflow` does with `rowStatus` (`Settles`, `ResetRow`), the last is the
compensation loop finding all the tasks of a `deleting` row completed
(`ListAll` leaves out only `deleted`, and line 544 only `running` and `failed`).
`AzResource` has the same row as one of many: there a workflow is one step, and the
reply, the loop and the deletions are what is interleaved.  `Pccn` and `TopVfw` see
an AZ in the same way, from the calls they send to it.

### Workflow

`rowStatus`, `totalTasks`, `completedTasks`, `failedTasks` and `aged` are the
resource row (`aged`: `updated_at` is older than `staleWorkflowTimeout`; every
UPDATE of the row clears it, and only the loop reads it, of rows that are `pending`
or `creating`, so that it is raised for these alone).  `taskStatus` and `asynqId` are the rows of `tasks`,
`broker` the step tasks, `replies` the reply queue as a bag.  A process of AZ NSP
(`pc`, `step`, `ref`, `held`) is at its next statement: the code opens a
transaction only inside `BatchCreate`, so an action is **one SQL statement or one
broker call** and everything may come between two of them.  The exceptions are reads:
`ReceiveReply` stands for the queue's delivery and the read of the task's row, and
`CompInFlight` for the whole of resourceHasInFlightBrokerTask, which reads the tasks
and asks the broker about one after the other.

* SubmitWorkflow: `CreateRow`, `BatchCreate`, `UpdateTotalTasks`, `SetCreating`,
  `Publish`, `MarkQueued`; its error path `FailFirst*`, whose own errors the code
  ignores; `SubmitError`, `SubmitCrash`.
* HandleReply: `ReceiveReply` (GetByID and the duplicate check), `RecordResult`,
  `CountResult`, `SettleRow` or `PickNext` + publishTask, `AckReply`;
  `NothingPending` and `ConsumerError` return the reply to the queue.
* ReplayTask: `AcceptReplay`, `ResetRow`, `RunTask` or `FallBackToPublish`.
* Workers and broker: the device operation and its reply are one action
  (`WorkerSucceeds`, `WorkerFails`), the handler's return another
  (`HandlerReturns`); `WorkerLosesReply` is a dropped reply, `WorkerRedelivered`
  a task run again after its reply was sent.
* compensateResource: `CompSnapshot` (the row as ListAll returned it, with its age and
  its total), `CompStats`, `CompInFlight`, `CompWrite`, an UPDATE that looks at no
  status; `CompError` is a GetTaskStats that fails, or an UPDATE whose error is ignored.

Workflows of different resources share no row and no reply, so one is enough.
Parameters, results, priorities and queue names are abstracted.

### RegionVpc

`row` is the registry row (status and az_details; `"none"` is a missing entry),
`az` the status of the VPC's row in each AZ, `saga` each create request's saga.
A request's process continues as its watcher: `pc` is its next call, `settled`
and `found` are the `settled` map and the local `azDetails` of
pollAZWorkerStatuses, `asked` the position in its loop over the AZs, `snap` the
details it has read and will write back.

* CreateRegionVPC: `SubmitSaga` or `Reject`, then `Register` (an upsert whose error
  is only logged).
* waitForSagaCompletion: `SagaAnswers`, `SagaTimesOut`, `SagaInterrupted`;
  markVPCFromSagaFailure: `MarkFromSteps`, `WriteMarks`.
* pollAZWorkerStatuses: `Ask`/`AskFails` per AZ, `EndTick`, `ReadRow`, `WriteRow`,
  and `PollTimesOut`/`PollInterrupted` between ticks.
* deleteVPC: `CheckDelete`, `MarkDeleted`; cmd/top_nsp: `Stop`.
* The saga engine is a library: ordered steps, one call each, compensation of the
  succeeded steps from the last to the first.  Its statuses are those of
  `deployments/docker/saga-migration.sql`.  A call fails with or without its effect
  on the AZ.  It is assumed to go on after a shutdown (another instance, or the
  recovery scan).  By then a step that was compensated is `compensated`, so
  markVPCFromSagaFailure, which looks for `succeeded`, records such an AZ as
  `failed`.
* The AZ's `createVPC` answers 200 whatever CreateVPC returned, so a name that is
  already taken, or a failed INSERT, is a success for the saga.

### Pccn

`row` is the row of `pccn_registry`, `saga` each request's saga, `pc`, `targets`,
`asked`, `settled` and `news` a request and then its goroutine (`news` is what the
current tick has found, `hasFailed` included, which the code declares inside the
tick), `az` the AZ's row with its id, `work` each request's workflow in each AZ,
`handling` the row a DELETE handler has read, `replay` what an operator's replay goes
by, `loop` what an AZ's compensation loop has listed and concluded.

* CreatePCCN: `Lookup`, `SubmitCreate` or `Reject`, `Register`; its goroutine:
  `SagaAnswers`, `SagaTimesOut`, `SagaInterrupted`, `MarkFailed`, then `Ask` and
  `AskFails` per AZ, `NextTick`, `AllSettled`, `PollTimesOut`, `PollInterrupted`.
* DeletePCCN: `CheckDelete`, `LookupDelete`, `SubmitDelete`, `MarkDeleting`; its
  goroutine: `DeletionAnswered`, `GiveUpDeletion`.
* The AZ's handlers are calls of a saga's step: `CreateStep` (the upsert keeps the id
  of an existing row), `DeleteCheck` and `DeleteWrites`.  Updates go by id, deletions by
  name.  A saga may call its AZs in any order; the code calls those of the first VPC
  first, which is one of them.  A lookup that fails leaves out AZs of one VPC, all or
  some of them.
* `WorkflowEnds` is a workflow's last reply.  ReplayTask is `ReplayChecks` (the task has
  failed), `ReplayResets` (the row goes back to `creating`) and `ReplayRequeues`; a pass
  of the loop is `LoopLists`, `LoopJudges` (the counts, the broker and the five minutes)
  and `LoopWrites`.  Both read first and write later, whatever the row says by then.
* `CheckVPC` and `MarkVPCDeleted` are the deletion of a VPC in Top NSP, which empties
  its `az_details`.

### AzResource

`row` is the status of each name, `work` and `reply` the tasks of its workflow and
the outcome of its last reply, `listed` what a loop has read and not yet done with,
`verdict` what it has concluded and not yet written, `op` the request each handler is
at.  An action is one SQL statement or HTTP call, but for `Judge`.

* CreateVPC, CreateSubnet, CreatePolicy: `Insert`, `Submit`.
* DeleteVPC, DeleteSubnet and their ById forms: `StartDelete`, `CountSubnets`,
  `CheckZonePolicies`, `Mark`; DeletePolicy: `StartDeletePolicy`, `Mark`.
* ReplayTask: `StartReplay`, `ResetRow`, `Run`.
* HandleReply's last reply: `TasksEnd`, `Settle`; the loops of the two services:
  `ListVPCs`, `ListSubnets`, `ListPolicies`, `Judge` (the counts and the questions to
  the broker) and `Repair` (the UPDATE, whatever the row says by then).  One goroutine
  goes through the VPCs and then the subnets (`Passing`), another through the policies.
* `built`, `since` and `quiet` are history: which workflows have completed, what was
  written since a deletion counted, what was deleted while nothing else was at work.

### AzRegistry

`rec` is each AZ's record in Redis (its address, its age; absent once it has expired),
`members` the region's set, `calls` the requests Top NSP is handling, `proc` the AZ's
process.  `RegisterSet`, `RegisterSAdd`, `HeartbeatGet`, `HeartbeatSet` and
`HeartbeatSAdd` are the Redis commands of the two handlers, `SMembers`, `GetMember`
and `EndList` those of a listing.  A stopped process leaves its requests behind
(`Stop`, `Cancel`); `Elapse` and `Expire` let a record age.  A SET or SADD that
returns an error may have taken effect.

### TopVfw

`mapped` is what RegisterSubnet has written of each range, `policy`, `record`, `src`
and `dst` the rows of a request, `at` the request's next step, `leg` its call to each
AZ, `held` what an AZ has taken, `known` the addresses the service has in memory.

* CreatePolicy: `FindSource`, `FindDest`, `InsertPolicy`, `Resolve`, then for each AZ
  `LegGoes`/`CreateAZRecord`/`PostPolicy`/`UpdateAZRecord` in any interleaving, and
  `Finish`.
* `DeletePolicy`, `RegisterSubnet`, `RegisterAZ`, `Restart`; `CountZone` and
  `MarkVPCDeleted` are the deletion of a VPC by id, one at a time for each VPC, and
  either may fail.  A VPC always has a zone: its request is refused without one
  (`models/types.go:35`), so the count is never skipped.
* FindZoneByIP is `Found`: the narrowest mapped range that holds the address.  A
  range is the set of its addresses; the arithmetic of `cidrToRange` is left out.

## 3. Runs

| run | question | instance |
|---|---|---|
| `workflow_chain` | Does a workflow implement `StepChain` when nothing is lost or repeated, and reach its outcome? `ImplementsChain`, `ExecutedIsRecorded`, `Settles` | 3 steps, 2 reply goroutines, step 2 may fail and is retried once; no timeouts |
| `workflow_safety` | What survives every fault? `NoStepSkipped`, `CompletedWasExecuted`, `RunningIsLast` | 2 steps, 1 fault, 1 redelivery, 1 replay, step 1 may fail; no timeouts |
| `workflow_timeouts` | Does a workflow get a final status although statements fail, processes die and time runs out? `SettlesButForOrphans`, `CompletedIsRepaired` | 2 steps, 2 faults, step 1 may fail and is retried once, timeouts |
| `workflow_replay` | Do replays and timeouts keep order and count, and what takes `running` back? `ExecutedInOrder`, `RunningIsComplete`, `CountedOnce`, `RunningStays` | 2 steps, 1 operator with 2 replays, 2 reply goroutines, step 1 may fail, timeouts; no fault |
| `region_vpc` | Does the registry know and tell the truth about one create request and one deletion, and does the watcher end? `RunningIsTrue`, `BuildingIsRegistered`, `CreatingIsWatched`, `SettledDetailStays`, `WatcherEnds`, `Reported` | 2 AZs, 1 creator, 1 deleter, 1 fault, timeouts, shutdown |
| `pccn` | Does the registry report what the AZs have answered, and drop a row only when they have, and do `creating` and `deleting` end? `OutcomeIsAnswered`, `RemovedEverywhere`, `CreatingEnds`, `DeletingEnds` | 2 AZs, of which the second VPC is in one, 1 creator, 1 deleter, the loop of one AZ, the deletion of one VPC, 1 fault, timeouts, shutdown |
| `pccn_twice` | Does a second create leave a working connection alone, and what else takes it away? `WorkingStays` | 1 AZ, 2 creators, 1 deleter, 2 operators who replay, the loop; no fault, timeout or shutdown |
| `az_resource` | What do `running` and `deleted` mean, and what does a deletion of the VPC leave behind? `RunningIsBuilt`, `QuietlyDeletedStays`, `VPCIsFree` | a VPC, a subnet, a policy, 2 handlers (symmetric), 1 fault or replay |
| `az_rows_end` | Is a row that stays `pending` or `creating` one that no loop repairs? `RowsEnd` | the same with 1 handler |
| `az_registry` | Is an address kept, a listing complete and an AZ that is up healthy? `AddressStays`, `ListingFindsStable`, `UpIsHealthy` | 2 AZs, 2 starts, 1 fault |
| `vfw` | What do `running`, `creating` and a deleted policy mean, and what does a deletion of the VPC leave in its zone? `RunningIsHeld`, `CreatingIsUnderway`, `DeletedIsGone`, `ZoneIsFree` | 2 AZs, 1 VPC, 2 ranges, 2 requests of one name, 1 fault |
| `cross_region` | A violation: `CreateIsAccepted`.  A PCCN between two VPCs of which each has its own AZ is refused by the second VPC's AZ, because AZ NSP's CreatePCCN looks for the first VPC wherever it is. | 2 AZs, no fault |

Each module's `TypeOK` is checked by one run.

**Bounds.**  Two or three steps give a first, a last and (with three) a middle step,
which is all HandleReply distinguishes; two reply goroutines are what the code
configures (`Concurrency: 2`), and two copies of a reply need two of them.
`MaxPublishes` (tasks handed to the broker) is the number of steps where nothing is
repeated, and two more in `workflow_safety`, for its redelivery and its replay.  In
`workflow_replay` it leaves one task for the two replays, which rerun the old one as a
rule.  `workflow_timeouts` has one reply goroutine and no replays: a second one
multiplies the states by more than a run can bear, and neither property is about two
of them.  `MaxFaults` counts failed statements, calls and lost replies: one or two
reach every error path; an error path of the error path needs two, and so does an
orphan (section 5).  In `AzResource` it also bounds the replays.  Two AZs give a
region in which one side has settled and the other has not.  `Handlers` = 2 puts a
request between the count and the write of another.  `MaxStarts` = 2 gives a process
and its successor, with the requests of the first still under way.  `MaxMapped` = 2
lets a narrow and a wide range overlap. Two requests of one name are what a unique
name, an upsert or a fan-out can collide on; two operators are what a check and a
later reset can collide on.  `Looping` names the AZs whose loop runs and `GoingVPCs`
the VPCs that are deleted: the loops of two AZs share no row.  The run of
`WorkingStays` has no timeouts, so the loop's verdict on a row that is merely old is
covered by its theorem alone.  Deadlock is not checked: a finished workflow and a
registry whose requests have all ended do stop.

**Fairness.**  `Workflow!Fairness`: every process that has a statement to execute
executes one in the end (the goroutines are never blocked by a lock of the code), the
broker keeps running each task it holds, the loop's ticker keeps firing, and time
passes.  It is weak fairness of each process by itself, so that one goroutine cannot
stand in for another.  Faults, redeliveries, crashes and new replays are not fair.
`RegionVpc!Fairness`: the watchers, the saga engine and the AZs' workflows go on.
`Pccn!Fairness`: the requests and their watchers go on; of the saga engine and the AZs
nothing is assumed, as they may never answer.  The timeout and the shutdown of a poll
are strongly fair: in the `select` of the watcher they compete with a ticker, and Go
picks at random among the channels that are ready, so a channel that is ready again and
again is not passed over for ever.  An AZ's replay, a deletion and the loop's reversal
are not fair.  `AzResource!Fairness`: handlers, workflows, replies and the two tickers;
the two listings of the goroutine that goes through the VPCs and then the subnets are
strongly fair, as each has to wait for the other's pass to end.
`AzRegistry!Fairness`: a process that is up goes on sending heartbeats, Top NSP
handles them, and no process has to start or stop.

## 4. Proofs

Everything here holds for all values of the constants that satisfy the module's
assumption (`ConstantsAssumption`, `RegionAssumption`, `PccnAssumption`, ...), which
TLC evaluates in every run.  The final step of each is `Init => Inv`,
`Inv /\ [Next]_vars => Inv'` and `Inv => Property`.

* **Workflow**, `Safety`: `Spec => []SafetyInv`.  `NoStepSkipped` alone is not
  inductive: a step is skipped if *anything* that can publish names a step too far.
  So `PendingIsASuffix` says of every place a step is named in (a row, a broker task,
  a reply, a goroutine that handles one, a process about to publish) that the rows
  before it have left `pending`.  That needs the rows to be there before any of them
  is published (`InsertedAtOnce`).  In the same way `CompletedWasExecuted` and
  `RunningIsLast` need `ClaimsAreEarned`: each success reply in the queue or in a
  goroutine's hands, and the loop's `running` verdict, has a worker's success behind
  it.  The invariant holds with faults, because none of the code's error paths writes
  `pending` or `completed`.  `TypeCorrect`, `StepsAreNotSkipped`,
  `CompletedStepsAreExecuted` and `RunningMeansLastStep` follow.
* **Workflow without disturbance**, `OneThreadOfControl` (module `WorkflowChainProofs`):
  `Undisturbed => (Spec => []ThreadInv)`.  `ExecutedInOrder` does not survive a task that
  is run again after its reply (section 5), so the theorem is about the executions in
  which that does not happen, no statement fails and one operator at most replays;
  that operator's replays, timeouts, worker failures and any number of reply goroutines
  are allowed.
  No single variable says where such a workflow is: it can be at a process that is about
  to publish or to record a result, at a task with the broker, at a reply in the queue,
  or at a failed row that waits for a replay.  `OneThread` says that it is at one of these
  at most, `ThreadInOrder` what has been carried out and counted when it is there
  (`Before`, `Carried`, `Counted`) and that nothing has touched a later step
  (`ClearAhead`).  Other processes are still under way behind it (a goroutine that has
  yet to write `queued`, a late failure report); `RolesKept` and `IdsMatch` say what
  these can hold, so that they cannot disturb it.
  `StepsAreExecutedInOrder`, `CompletionsAreCountedOnce` (`completed_tasks` is at most
  the number of steps carried out, at every moment) and, with `Safety`,
  `RunningRowsAreComplete` follow.
* **What takes `running` back**, `LossesAreFinal` and `OnlyAnAgedListingTakesRunningBack`
  (`RunningStays`), under the same hypothesis: timeouts, any number of reply goroutines
  and late replies are allowed.  Until the first replay a step that is lost is lost for
  good: once a row of `tasks` says `failed`, a final failure is being handled, or a loop
  with a fresh listing has concluded `failed`, the thread of control has ended before
  the last step (`LossInv`).  So none of these can meet a `running` row; what remains is
  the verdict of a loop whose listing had aged, which the code does write over it
  (section 5), and which the property names as its only exception.
* **Workflow implements StepChain**, `WorkflowImplementsChain`: `Straight => (Spec =>
  ImplementsChain)`, where `Straight` also excludes replays and timeouts, after which a
  failure that was shown is taken back.  Beside `ThreadInv` it needs that a failure is
  final (`FailuresAreFinal`): also when it shows in the resource row, the thread of
  control has ended before the last step.  The proof goes by action: a worker's success is
  `ExecuteNext` of the step it carries out, the write of an outcome by SettleRow or the
  compensation loop is `Succeed` or `Fail`, everything else is a stutter.
* **RegionVpc**, `RegionSafety`: the registry's truth depends on copies, for a watcher
  writes back details it read some time ago.  So the invariant follows every `running`
  from the AZ (`BuiltAZs`) into what a watcher has found or read (`CopiesEarned`) and
  into the row (`DetailsEarned`), and says what computeOverallStatus guarantees of the
  pair it writes (`RowAgrees`).  `RegionTypeCorrect` and `RegistryTellsTheTruth`
  follow: two watchers can lose a `running`, never invent one.
  `BuildingWasRegistered` has an invariant of its own (`RegisteredInv`): an AZ builds
  only for a saga that was submitted, the request of a submitted saga is at
  RegisterVPC or beyond it, and a row once written is marked, never removed.
* **RegionVpc with one creator**, `WatcherSafety`: `OneCreator => (Spec => []WatcherInv)`.
  Two watchers of one name write old copies over each other (section 5), so
  `SettledDetailStays` is false of them; deletions, faults, timeouts and the shutdown
  are allowed.  For one, the invariant relates the four places an AZ's state is kept in
  (the row, the watcher's copy of it, what it found in this tick, what it has settled):
  a `running` that is written down is settled and is in the copy that will be written
  back (`RunningIsSettled`), and an AZ that is settled or was given up is `creating`
  nowhere, unless the new state is there to overwrite it (`SettledIsKnown`).
  `SettledDetailsStay` and `CreatingRowsAreWatched` follow.
* **Pccn**, `PccnSafety`: what a watcher has settled (`SettledIsReached`) and found in
  this tick (`NewsIsReached`) was reached in the AZ, and a watcher about to write an
  outcome has news.  `PccnTypeCorrect` and `OutcomeWasAnswered` follow.
* **Pccn**, `PccnRowsSafety` (module `PccnRowProofs`): an AZ that holds anything of a
  request was called by its saga and is not called again (`CreatedIsCalled`), what
  works, and what a replay or a loop goes by, has had a workflow (`WorkIsKnown`), and
  what a deletion has been answered for is gone, if the name was requested once
  (`AnsweredIsRemoved`).  That needs each DELETE handler to be at its saga's step
  (`HandlingIsDue`), for otherwise its answer could be another's.  `WorkingHasStayed`
  (`WorkingStays`) and `RemovedHasGone` follow.  Replays and the loop's timeout do take a
  working connection away (section 5); `UndisturbedGoesByDeletion` says that without
  them nothing but a deletion does, although the loop reads early and writes late.  It
  rests on `LateReadsHold`: a task's final status stays, so that what a loop has read is
  still true when it writes.
* **AzResource**, `ResourceSafety`: every claim of success (a row, the tasks, a reply, a
  loop's verdict) comes after it (`BuiltInv`); nothing that could revive a row deleted in peace is
  under way (`QuietInv`), and nothing can start, for its name is taken and its status
  is not `running`; a deletion of the VPC knows what was written since its counts
  (`FreeInv`).  `ResourceTypeCorrect`, `RunningWasBuilt`, `DeletedInPeaceStays` and
  `VPCWasFree` follow.
* **AzRegistry**, `RegistrySafety`, and `RegistryTypeCorrect`, `AddressIsKept`,
  `ListingIsComplete`: a heartbeat that has read a record writes back no other address
  than the one the process has registered, as long as no request of an earlier process
  is under way; a listing that goes on has found, or has still to look into, every AZ
  that was there throughout.
* **TopVfw**, `VfwSafety`, and `VfwTypeCorrect`, `RunningPolicyIsHeld`,
  `CreatingPolicyIsUnderway`, `DeletedPolicyIsGone`, `ZoneIsLeftFree`: an AZ that has
  answered with success holds the policy, and no other one of its name; a policy that
  is deleted is written by no statement that follows.

TLC has checked these invariants (`ThreadInv` on the instance of `workflow_replay`,
`ChainInv` on that of `workflow_chain`, `WatcherInv` on that of `region_vpc` with two
faults) before they were proved.  No run lists them, for the properties they imply are
what the runs are about.

Only model-checked: liveness (`Settles`, `SettlesButForOrphans`, `ExecutedIsRecorded`,
`CompletedIsRepaired`, `WatcherEnds`, `Reported`, `CreatingEnds`, `DeletingEnds`,
`RowsEnd`, `UpIsHealthy`), for under fairness it is out of the prover's reach.  Every
other property of a passing run is a theorem, with the hypothesis `Undisturbed`,
`Straight` or `OneCreator` where one is named above; the runs of the properties
concerned satisfy it.

## 5. Where the code departs from what one would expect

`cross_region` is a finding, with the lines it contradicts.  Modelling met more
behaviours of this kind; the properties above are stated so that they are true of the
code, and where they make an exception it is one of these.

* A step task that is run again after its reply (worker restart) leads two reply
  goroutines to publish different later steps, so a step can be carried out before the
  one ahead of it (`workflow.go:175`; `design.md:65` expects the order to be kept).
  `ExecutedInOrder` is checked without redelivery.
* A process that dies between the publication and UpdateQueued, followed by a failed
  attempt, which UpdateRetryProgress records as `queued`, and by the loss of the last
  reply, leaves a row of `tasks` `queued` without a broker id; the loop takes it for in
  flight for ever (`orchestrator.go:597`).  `SettlesButForOrphans` excepts such a row,
  and `Settles` is checked without faults.
* A loop that has listed a `creating` row past `staleWorkflowTimeout` and counted its
  tasks before the last of them was recorded writes `failed` over the `running` that a
  late reply has stored meanwhile (`orchestrator.go:545`, `568`), and no later pass
  repairs it, as line 544 leaves out `failed` rows: the exception of `RunningStays`.
* RunTask makes the broker task run before UpdateQueued takes the row out of `failed`:
  a reply in between is dropped as a duplicate (`workflow.go:155`).
* Two watchers of one VPC name write whole `az_details` and erase what the other found
  (top `orchestrator.go:435`); a watcher's write brings back a row that was marked
  `deleted` (442).
* A shutdown while the saga runs records the AZs already called as `compensated`, though
  they go on building (341), and a shutdown after the last answers and before their
  write leaves the row `creating` (436): the exception of `CreatingIsWatched`.
* The failure of one side of a PCCN is forgotten if the other settles in a later tick
  (839): `running` then means one AZ, and `OutcomeIsAnswered` says no more.
* Two operators who replay the task of a PCCN both find it failed; the reset of the
  slower one (`orchestrator.go:430`, `463`) takes a row to `creating` that the first one's
  replay has made `running`.  In the same way the loop writes `failed` over a PCCN's row
  that a replay has brought to work since the loop looked, and a second requeue of a
  task that has succeeded can fail it.  These are the exceptions of `WorkingStays`.
* watchPCCNDeletion gives up without writing, and the name stays `deleting`, which
  DeletePCCN refuses: the exception of `DeletingEnds`.
* The loop's UPDATE looks at no status (`orchestrator.go:558`): a row that was listed as
  `creating`, and that a reply has made `running` and a request has deleted since, is
  `running` again, and a `failed` concluded before a replay overwrites what the replay
  has built.  `RunningIsBuilt` holds of the first; `QuietlyDeletedStays` leaves out the
  rows that were listed when they were deleted.
* The deletion by name stops at `deleting`, and the loop takes such a row back to
  `running`; a VPC whose subnet was deleted by name cannot be deleted, for CountSubnets
  counts `deleting`, where `docs/TEST_REPORT.md:285` expects it to be possible.
* What is created between the counts of a VPC's deletion and its UPDATE is left behind,
  in an AZ (`orchestrator.go:293`) and in a zone of Top NSP (`top/api/server.go:386`): the
  exceptions of `VPCIsFree` and `ZoneIsFree`, with the counts that fail.
* RegisterVPC's error is only logged (top `orchestrator.go:151`), so the AZs may build a
  VPC that the registry does not know: the exception of `BuildingIsRegistered`.
* A VPC or subnet whose INSERT was not followed by its tasks stays `pending`, and a
  subnet whose VPC is not listed is never repaired: the exceptions of `RowsEnd`.
* An AZ's policy is deleted whatever its status, so its workflow's reply, or the loop,
  revives it: the reason why `QuietlyDeletedStays` asks for nothing else at work.
* A heartbeat that cannot read its record writes one without an address, and heartbeats
  keep it so (`registry.go:106`); the heartbeat of a stopped process that is still under
  way overwrites its successor's address (105): the exceptions of `AddressStays`.
* A record that expires, or cannot be read, during a listing is left out of it
  (`registry.go:91`): the exception of `ListingFindsStable`.
* A restart of the firewall service cuts a policy's creation short, and the policy stays
  `creating` (`policy.go:39`), as it does when its last UPDATE fails: the exceptions of
  `CreatingIsUnderway`.
* When one AZ refuses a policy, nobody removes it from the other; a policy's deletion in
  Top NSP never reaches the AZs, where its name stays taken; the mapping of a range
  keeps the VPC and subnet of its first registration and outlives its subnet.

## 6. Not modelled

* HTTP authentication, TLS, configuration, logging, tracing, the encoding of requests,
  the parameters of device commands, and the SQL migrations (their constraints are part
  of the actions that meet them): none of them keeps state the properties speak of.
* Queries that change nothing (GetVPCStatus and its aggregation over the AZs, listings,
  the task views of `internal/az/api`).
* The arithmetic of `cidrToRange`, and IPv6.
* The queue library, Redis, PostgreSQL and the saga engine are outside the repository:
  they appear as what the code can rely on.  The saga engine is assumed to call ordered
  steps once each and to compensate the succeeded ones from the last to the first.

Left for later: a composition of `RegionVpc` with `AzResource` in place of the AZ row
it assumes.
