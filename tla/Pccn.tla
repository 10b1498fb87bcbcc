-------------------------------- MODULE Pccn --------------------------------
(***************************************************************************)
(* One PCCN name: a connection between two VPCs.  Its row in Top NSP's     *)
(* pccn_registry, the requests that create it (each with a saga over the   *)
(* AZs of both VPCs and a goroutine that watches the saga and then the     *)
(* AZs), the requests that delete it (each with a saga of DELETE calls and *)
(* a goroutine that watches it), its row in the pccn_resources of each AZ, *)
(* the deletion of the VPCs in Top NSP and the shutdown of Top NSP.        *)
(*                                                                         *)
(* An AZ's row is found by name but updated by id: a second create keeps   *)
(* the id of the first, and then its workflow updates a row that does not  *)
(* exist.  How a workflow ends is the subject of module Workflow.          *)
(*                                                                         *)
(* An action is one HTTP call or one SQL statement, with three exceptions: *)
(* an AZ's POST handler is one action, its DELETE handler is two (its      *)
(* check and its two writes), and the compensation loop's reading of a     *)
(* row's tasks is one, the questions to the broker included.  A replay and *)
(* the loop read first and write later, by id and whatever the row says by *)
(* then.                                                                   *)
(***************************************************************************)
EXTENDS Naturals, Sequences

CONSTANTS
  AZs,           \* the AZs of both regions
  VPC1AZs,       \* those in which the first VPC has a row
  VPC2AZs,       \* those in which the second has
  Creators,      \* requests that create the PCCN
  Deleters,      \* requests that delete it
  Replayers,     \* operators, who replay one failed workflow after the other
  Looping,       \* BOUND: the AZs whose compensation loop runs
  GoingVPCs,     \* those of the VPCs 1 and 2 that are deleted in Top NSP
  TimeoutsFire,  \* whether the timeouts of the watchers and of the loop can elapse
  MayStop,       \* whether Top NSP is shut down
  MaxFaults      \* BOUND on failed statements, calls and lookups

NoId == "none"

ASSUME PccnAssumption ==
  /\ VPC1AZs \subseteq AZs /\ VPC2AZs \subseteq AZs
  /\ Creators \cap Deleters = {} /\ NoId \notin Creators \cup AZs
  /\ GoingVPCs \subseteq 1..2 /\ Looping \subseteq AZs /\ TimeoutsFire \in BOOLEAN /\ MayStop \in BOOLEAN
  /\ MaxFaults \in Nat

VARIABLES
  az,        \* the row in each AZ: its status and its id
  work,      \* each create request's workflow in each AZ
  reached,   \* (history) the final statuses each AZ's row has had
  replay,    \* where each operator's request is, and the workflow it replays
  loop,      \* the id each AZ's compensation loop has listed, and its verdict
  row,       \* status of the row of pccn_registry
  vpc,       \* the two rows of vpc_registry
  saga,      \* each request's saga: its status and the AZs that answered 200, in order
  handling,  \* id of the row an AZ's DELETE handler has read, for each saga
  pc,        \* next step of each request, then of its goroutine
  targets,   \* AZs of each request
  asked,     \* AZs a watcher has been through in the current tick
  settled,   \* AZs a watcher no longer asks
  news,      \* what the current tick has found
  stopping,  \* Top NSP's context is cancelled
  faults     \* failed statements, calls and lookups so far

background == <<replay, loop>>
azVars    == <<az, work, reached, background>>
sagaVars  == <<saga, handling>>
tickVars  == <<asked, settled, news>>
vars == <<azVars, row, vpc, sagaVars, pc, targets, tickVars, stopping, faults>>

Requests     == Creators \cup Deleters
AZStatuses   == {"absent", "pending", "creating", "running", "failed", "deleting"}
RowStatuses  == {"absent", "creating", "running", "partial_running", "failed",
                 "interrupted", "deleting"}
Final        == {"running", "failed"}
WorkStatuses == {"none", "active", "done", "failed"}
Verdicts     == {"none", "running", "failed"}
Places       == {"idle", "reset", "requeue"}
SagaStatuses == {"none", "running", "compensating", "succeeded", "failed"}
Labels       == {"request", "submit", "register", "wait", "mark", "poll",
                 "check", "lookup", "markDeleting", "waitDeletion", "done", "gaveUp"}

NoRow  == [status |-> "absent", id |-> NoId]
NoSaga == [status |-> "none", answered |-> <<>>]
NoReplay == [at |-> "idle", az |-> NoId, id |-> NoId]
NoListing == [id |-> NoId, verdict |-> "none"]

Fault == faults < MaxFaults /\ faults' = faults + 1

Goto(p, label) == pc' = [pc EXCEPT ![p] = label]

-----------------------------------------------------------------------------
(* The rows of the AZs. *)

SetAZ(a, status, id) ==
  /\ az' = [az EXCEPT ![a] = [status |-> status, id |-> id]]
  /\ reached' = IF status \in Final THEN reached \cup {<<a, status>>} ELSE reached

\* Every statement of a workflow and of the loop updates by id.
UpdateById(a, id, status) ==
  IF az[a].id = id THEN SetAZ(a, status, id) ELSE UNCHANGED <<az, reached>>

\* Slip: the row of a running connection is reset too.
UpsertAlways(a, c) ==
  IF az[a].status = "absent" THEN [status |-> "pending", id |-> c]
  ELSE [az[a] EXCEPT !.status = "pending"]

\* INSERT ... ON CONFLICT (pccn_name, az): the id of an existing row stays.
Upsert(a, c) ==
  IF az[a].status = "absent" THEN [status |-> "pending", id |-> c]
  ELSE IF az[a].status \in {"pending", "failed"} THEN [az[a] EXCEPT !.status = "pending"]
  ELSE az[a]

\* What the INSERT leaves, and then SubmitWorkflow's UPDATE by the request's id.
PutRow(a, c, status) ==
  LET new == Upsert(a, c) IN
    SetAZ(a, IF new.id = c THEN status ELSE new.status, new.id)

\* AZOrchestrator.CreatePCCN looks for the first VPC, whichever side the AZ is on.
KnowsVPC(a) == a \in VPC1AZs

AZCreates(a, c) ==
  /\ PutRow(a, c, "creating")
  /\ work' = [work EXCEPT ![c][a] = "active"]
  /\ UNCHANGED background

\* SubmitWorkflow fails: before its tasks are all there, or when it publishes the first.
AZCreateFails(a, c) ==
  /\ \/ PutRow(a, c, "pending") /\ UNCHANGED work
     \/ PutRow(a, c, "failed") /\ work' = [work EXCEPT ![c][a] = "failed"]
  /\ UNCHANGED background

restOfAZ == <<row, vpc, sagaVars, pc, targets, tickVars, stopping>>

WorkflowEnds(c, a) ==
  /\ work[c][a] = "active"
  /\ \/ work' = [work EXCEPT ![c][a] = "done"] /\ UpdateById(a, c, "running")
     \/ work' = [work EXCEPT ![c][a] = "failed"] /\ UpdateById(a, c, "failed")
  /\ UNCHANGED <<background, restOfAZ, faults>>

-----------------------------------------------------------------------------
(* Replays.  Two of them may have seen the same failed task. *)

ReplayChecks(r, c, a) ==
  /\ replay[r].at = "idle" /\ work[c][a] = "failed"
  /\ replay' = [replay EXCEPT ![r] = [at |-> "reset", az |-> a, id |-> c]]
  /\ UNCHANGED <<az, work, reached, loop, restOfAZ, faults>>

\* resetResourceStatus: whatever the row and the task have come to.
ReplayResets(r) ==
  /\ replay[r].at = "reset"
  /\ \/ /\ UpdateById(replay[r].az, replay[r].id, "creating")
        /\ replay' = [replay EXCEPT ![r].at = "requeue"]
        /\ UNCHANGED faults
     \/ Fault /\ replay' = [replay EXCEPT ![r] = NoReplay] /\ UNCHANGED <<az, reached>>
  /\ UNCHANGED <<work, loop, restOfAZ>>

\* RunTask or RequeueTask, and UpdateQueued: the task counts as queued again.
ReplayRequeues(r) ==
  /\ replay[r].at = "requeue"
  /\ \/ work' = [work EXCEPT ![replay[r].id][replay[r].az] = "active"] /\ UNCHANGED faults
     \/ Fault /\ UNCHANGED work
  /\ replay' = [replay EXCEPT ![r] = NoReplay]
  /\ UNCHANGED <<az, reached, loop, restOfAZ>>

Replays(r) ==
  \/ \E c \in Creators, a \in AZs : ReplayChecks(r, c, a)
  \/ ReplayResets(r) \/ ReplayRequeues(r)

-----------------------------------------------------------------------------
(* The compensation loop of an AZ, for the row of the PCCN. *)

LoopLists(a) ==
  /\ a \in Looping /\ loop[a] = NoListing
  /\ az[a].status \in {"pending", "creating", "deleting"}
  /\ loop' = [loop EXCEPT ![a] = [id |-> az[a].id, verdict |-> "none"]]
  /\ UNCHANGED <<az, work, reached, replay, restOfAZ, faults>>

\* GetTaskStats, and resourceHasInFlightBrokerTask for tasks that have not ended: what
\* has been listed old enough fails when the broker has none of them.
LoopJudges(a) ==
  LET outcome == work[loop[a].id][a] IN
    /\ loop[a] # NoListing /\ loop[a].verdict = "none"
    /\ \/ outcome = "done"   /\ loop' = [loop EXCEPT ![a].verdict = "running"]
       \/ outcome = "failed" /\ loop' = [loop EXCEPT ![a].verdict = "failed"]
       \/ /\ outcome \in {"none", "active"}
          /\ \/ TimeoutsFire /\ loop' = [loop EXCEPT ![a].verdict = "failed"]
             \/ loop' = [loop EXCEPT ![a] = NoListing]
    /\ UNCHANGED <<az, work, reached, replay, restOfAZ, faults>>

\* The UPDATE by id, whatever the row has come to; its error is ignored.
LoopWrites(a) ==
  /\ loop[a].verdict # "none"
  /\ \/ UpdateById(a, loop[a].id, loop[a].verdict) /\ UNCHANGED faults
     \/ Fault /\ UNCHANGED <<az, reached>>
  /\ loop' = [loop EXCEPT ![a] = NoListing]
  /\ UNCHANGED <<work, replay, restOfAZ>>

Loops(a) == LoopLists(a) \/ LoopJudges(a) \/ LoopWrites(a)

-----------------------------------------------------------------------------
(* The saga engine: one call after the other, then the outcome. *)

Answered(p) == {saga[p].answered[i] : i \in DOMAIN saga[p].answered}
Waiting(p)  == targets[p] \ Answered(p)

\* a is the AZ of the step in progress, or of the compensation in progress.
Current(p, a) ==
  \/ saga[p].status = "running" /\ a \in Waiting(p)
  \/ /\ saga[p].status = "compensating" /\ saga[p].answered # <<>>
     /\ a = saga[p].answered[Len(saga[p].answered)]

StepAnswers(p, a) ==
  LET answered == Append(saga[p].answered, a) IN
    saga' = [saga EXCEPT ![p] =
      [status |-> IF Waiting(p) = {a} THEN "succeeded" ELSE "running",
       answered |-> answered]]

Compensated(p) ==
  saga' = [saga EXCEPT ![p].answered = SubSeq(@, 1, Len(@) - 1)]

StepRefused(p) ==
  IF saga[p].status = "running" THEN saga' = [saga EXCEPT ![p].status = "compensating"]
  ELSE Compensated(p)

StepDone(p, a) == IF saga[p].status = "running" THEN StepAnswers(p, a) ELSE Compensated(p)

\* POST /api/v1/pccn.
CreateStep(c, a) ==
  /\ c \in Creators /\ saga[c].status = "running" /\ a \in Waiting(c)
  /\ \/ /\ KnowsVPC(a)
        /\ AZCreates(a, c)
        /\ StepAnswers(c, a)
        /\ UNCHANGED faults
     \/ /\ ~KnowsVPC(a)
        /\ StepRefused(c)
        /\ UNCHANGED <<azVars, faults>>
     \/ /\ Fault                              \* no answer, with or without its effect
        /\ StepRefused(c)
        /\ \/ UNCHANGED azVars
           \/ KnowsVPC(a) /\ (AZCreates(a, c) \/ AZCreateFails(a, c))
  /\ UNCHANGED <<row, vpc, handling, pc, targets, tickVars, stopping>>

\* AZOrchestrator.DeletePCCN, on the row it reads by name.
Deletable(a) == az[a].status = "running"

Deletes(p, a) == Current(p, a) /\ (p \in Deleters \/ saga[p].status = "compensating")

\* DELETE /api/v1/pccn/:name, up to the check.
DeleteCheck(p, a) ==
  /\ Deletes(p, a) /\ handling[p] = [az |-> NoId, id |-> NoId]
  /\ \/ /\ Deletable(a)
        /\ handling' = [handling EXCEPT ![p] = [az |-> a, id |-> az[a].id]]
        /\ UNCHANGED <<saga, faults>>
     \/ /\ ~Deletable(a)
        /\ StepRefused(p)
        /\ UNCHANGED <<handling, faults>>
     \/ /\ Fault                              \* the call does not arrive
        /\ StepRefused(p)
        /\ UNCHANGED handling
  /\ UNCHANGED <<azVars, row, vpc, pc, targets, tickVars, stopping>>

\* The UPDATE by id and the DELETE by name.
DeleteWrites(p, a) ==
  /\ handling[p].az = a
  /\ handling' = [handling EXCEPT ![p] = [az |-> NoId, id |-> NoId]]
  /\ \/ SetAZ(a, "absent", NoId) /\ StepDone(p, a) /\ UNCHANGED faults
     \/ /\ Fault                              \* a statement fails, or the answer is lost
        /\ StepRefused(p)
        /\ \/ UNCHANGED <<az, reached>>
           \/ UpdateById(a, handling[p].id, "deleting")
           \/ SetAZ(a, "absent", NoId)
  /\ UNCHANGED <<work, background, row, vpc, pc, targets, tickVars, stopping>>

SagaFails(p) ==
  /\ saga[p].status = "compensating" /\ saga[p].answered = <<>>
  /\ saga' = [saga EXCEPT ![p].status = "failed"]
  /\ UNCHANGED <<azVars, row, vpc, handling, pc, targets, tickVars, stopping, faults>>

SagaMoves(p) ==
  \/ \E a \in AZs : CreateStep(p, a) \/ DeleteCheck(p, a) \/ DeleteWrites(p, a)
  \/ SagaFails(p)

-----------------------------------------------------------------------------
(* pccn_registry. *)

\* UpdatePCCNStatus: no row, no update.  vpc_details goes with the status: both
\* VPCs 'creating' at first, both 'running' at the end, null otherwise.
UpdateRow(status) == row' = IF row = "absent" THEN row ELSE status

\* An UPDATE whose error the caller ignores.
TryUpdateRow(status) ==
  \/ UpdateRow(status) /\ UNCHANGED faults
  \/ Fault /\ UNCHANGED row

\* Slip: the row is marked, as in the design document's list of statuses.
DropRowMarked ==
  \/ row' = "deleted" /\ UNCHANGED faults
  \/ Fault /\ UNCHANGED row

\* DeletePCCN removes the row, in the same way.
DropRow ==
  \/ row' = "absent" /\ UNCHANGED faults
  \/ Fault /\ UNCHANGED row

restOfRow == <<azVars, vpc, sagaVars, targets, tickVars, stopping>>

-----------------------------------------------------------------------------
(* The VPCs in Top NSP. *)

\* The AZs in a VPC's az_details, which its deletion clears.  The VPC's status is
\* not looked at.
DetailsOf(v) == IF vpc[v] = "deleted" THEN {} ELSE IF v = 1 THEN VPC1AZs ELSE VPC2AZs

\* getAZsFromVPCDetails and getAZsFromRegionAndVPC: an AZ whose lookup fails is left
\* out, and with the lookup of a VPC all of its AZs.  BOUND: one VPC's lookups at a time.
LookUpAZs(p) ==
  \/ targets' = [targets EXCEPT ![p] = DetailsOf(1) \cup DetailsOf(2)] /\ UNCHANGED faults
  \/ /\ Fault
     /\ \E v \in 1..2 : \E found \in SUBSET DetailsOf(v) :
          targets' = [targets EXCEPT ![p] = found \cup DetailsOf(3 - v)]

restOfVPC == <<azVars, row, sagaVars, pc, targets, tickVars, stopping>>

\* GetPCCNsByVPCName lists the PCCN.
Connected == row # "absent"

\* deleteVPC: no PCCN of the VPC is listed; an error of the listing counts as none.
CheckVPC(v) ==
  /\ v \in GoingVPCs /\ vpc[v] = "up"
  /\ (~Connected /\ UNCHANGED faults) \/ Fault
  /\ vpc' = [vpc EXCEPT ![v] = "unused"]
  /\ UNCHANGED restOfVPC

MarkVPCDeleted(v) ==
  /\ vpc[v] = "unused"
  /\ vpc' = [vpc EXCEPT ![v] = "deleted"]
  /\ UNCHANGED <<restOfVPC, faults>>

-----------------------------------------------------------------------------
(* CreatePCCN. *)

Lookup(c) ==
  /\ pc[c] = "request"
  /\ LookUpAZs(c)
  /\ Goto(c, "submit")
  /\ UNCHANGED <<azVars, row, vpc, sagaVars, tickVars, stopping>>

\* A saga without steps is not built.
Submit(p, label) ==
  /\ targets[p] # {}
  /\ saga' = [saga EXCEPT ![p] = [status |-> "running", answered |-> <<>>]]
  /\ Goto(p, label)
  /\ UNCHANGED <<azVars, row, vpc, handling, targets, tickVars, stopping, faults>>

\* An AZ is unhealthy, or the engine refuses the saga.
Reject(p) ==
  /\ pc[p] \in {"submit", "lookup"}
  /\ Goto(p, "done")
  /\ UNCHANGED <<restOfRow, row, faults>>

SubmitCreate(c) == pc[c] = "submit" /\ Submit(c, "register")

\* INSERT ... ON CONFLICT (pccn_name) DO UPDATE, whatever the row says.
RegisterPCCN == row' = "creating"

\* Its error is only logged.
Register(c) ==
  /\ pc[c] = "register"
  /\ \/ RegisterPCCN /\ UNCHANGED faults
     \/ Fault /\ UNCHANGED row
  /\ Goto(c, "wait")
  /\ UNCHANGED restOfRow

-----------------------------------------------------------------------------
(* waitForPCCNSagaCompletion and markPCCNFromSagaFailure. *)

SagaAnswers(c) ==
  /\ pc[c] = "wait" /\ ~stopping
  /\ \/ saga[c].status = "succeeded" /\ Goto(c, "poll")
     \/ saga[c].status = "failed" /\ Goto(c, "mark")
  /\ UNCHANGED <<restOfRow, row, faults>>

GiveUpSaga(c, status) ==
  /\ pc[c] = "wait"
  /\ TryUpdateRow(status)
  /\ Goto(c, "mark")
  /\ UNCHANGED restOfRow

SagaTimesOut(c)    == TimeoutsFire /\ GiveUpSaga(c, "failed")
SagaInterrupted(c) == stopping /\ GiveUpSaga(c, "interrupted")

MarkFailed(c) ==
  /\ pc[c] = "mark"
  /\ TryUpdateRow("failed")
  /\ Goto(c, "done")
  /\ UNCHANGED restOfRow

-----------------------------------------------------------------------------
(* pollPCCNAZWorkerStatuses. *)

restOfTick == <<azVars, row, vpc, sagaVars, pc, targets, stopping>>

\* The goroutine returns, and its map and flags with it.
Return(c) ==
  /\ Goto(c, "done")
  /\ asked' = [asked EXCEPT ![c] = {}]
  /\ settled' = [settled EXCEPT ![c] = {}]
  /\ news' = [news EXCEPT ![c] = {}]
  /\ UNCHANGED <<azVars, vpc, sagaVars, targets, stopping>>

\* GetPCCNStatus of an AZ that has not settled; the AZs come in the order of a Go map.
Ask(c, a) ==
  /\ pc[c] = "poll" /\ a \in targets[c] \ (asked[c] \cup settled[c])
  /\ asked' = [asked EXCEPT ![c] = @ \cup {a}]
  /\ IF az[a].status \in Final /\ ~stopping
       THEN /\ settled' = [settled EXCEPT ![c] = @ \cup {a}]
            /\ news' = [news EXCEPT ![c] = @ \cup {<<a, az[a].status>>}]
       ELSE UNCHANGED <<settled, news>>
  /\ UNCHANGED <<restOfTick, faults>>

AskFails(c, a) ==
  /\ pc[c] = "poll" /\ a \in targets[c] \ (asked[c] \cup settled[c])
  /\ Fault
  /\ asked' = [asked EXCEPT ![c] = @ \cup {a}]
  /\ UNCHANGED <<restOfTick, settled, news>>

TickOver(c) == pc[c] = "poll" /\ targets[c] \subseteq asked[c] \cup settled[c]

\* hasFailed: declared inside the tick.
HasFailed(c) == \E a \in AZs : <<a, "failed">> \in news[c]

NextTick(c) ==
  /\ TickOver(c) /\ settled[c] # targets[c]
  /\ asked' = [asked EXCEPT ![c] = {}]
  /\ news' = [news EXCEPT ![c] = {}]
  /\ UNCHANGED <<restOfTick, settled, faults>>

\* Slip: the tick's answers decide although some AZ has yet to settle.
AllSettledNow(c) ==
  /\ TickOver(c) /\ settled[c] # {}
  /\ TryUpdateRow(IF HasFailed(c) THEN "partial_running" ELSE "running")
  /\ Return(c)

AllSettled(c) ==
  /\ TickOver(c) /\ settled[c] = targets[c]
  /\ TryUpdateRow(IF HasFailed(c) THEN "partial_running" ELSE "running")
  /\ Return(c)

\* Slip: the timeout ends the watcher without its UPDATE.
GiveUpPollSilently(c, status) ==
  /\ pc[c] = "poll" /\ asked[c] = {}
  /\ Return(c)
  /\ UNCHANGED <<row, faults>>

\* Between two ticks.
GiveUpPoll(c, status) ==
  /\ pc[c] = "poll" /\ asked[c] = {}
  /\ TryUpdateRow(status)
  /\ Return(c)

PollTimesOut(c)    == TimeoutsFire /\ GiveUpPoll(c, "failed")
PollInterrupted(c) == stopping /\ GiveUpPoll(c, "interrupted")

Create(c) ==
  \/ Lookup(c) \/ SubmitCreate(c) \/ Reject(c) \/ Register(c)
  \/ SagaAnswers(c) \/ SagaTimesOut(c) \/ SagaInterrupted(c) \/ MarkFailed(c)
  \/ \E a \in AZs : Ask(c, a) \/ AskFails(c, a)
  \/ NextTick(c) \/ AllSettled(c)
  \/ PollTimesOut(c) \/ PollInterrupted(c)

-----------------------------------------------------------------------------
(* DeletePCCN and watchPCCNDeletion. *)

\* No row, 'creating', 'interrupted' and 'deleting' are refused.
MayDelete == row \in {"running", "partial_running", "failed"}

CheckDelete(d) ==
  /\ pc[d] = "check"
  /\ Goto(d, IF MayDelete THEN "lookup" ELSE "done")
  /\ UNCHANGED <<restOfRow, row, faults>>

LookupDelete(d) ==
  /\ pc[d] = "lookup" /\ targets[d] = {}
  /\ LookUpAZs(d)
  /\ UNCHANGED <<azVars, row, vpc, sagaVars, pc, tickVars, stopping>>

SubmitDelete(d) == pc[d] = "lookup" /\ Submit(d, "markDeleting")

MarkDeleting(d) ==
  /\ pc[d] = "markDeleting"
  /\ TryUpdateRow("deleting")
  /\ Goto(d, "waitDeletion")
  /\ UNCHANGED restOfRow

\* Slip: a deletion that failed somewhere removes the row all the same.
DeletionAnsweredAnyway(d) ==
  /\ pc[d] = "waitDeletion" /\ ~stopping
  /\ saga[d].status \in {"succeeded", "failed"}
  /\ DropRow
  /\ Goto(d, "done")
  /\ UNCHANGED restOfRow

\* Slip: a failed deletion is left as it is.
DeletionAnsweredOnce(d) ==
  /\ pc[d] = "waitDeletion" /\ ~stopping
  /\ \/ /\ saga[d].status = "succeeded"
        /\ DropRow
     \/ saga[d].status = "failed" /\ UNCHANGED <<row, faults>>
  /\ Goto(d, "done")
  /\ UNCHANGED restOfRow

DeletionAnswered(d) ==
  /\ pc[d] = "waitDeletion" /\ ~stopping
  /\ \/ /\ saga[d].status = "succeeded"
        /\ DropRow
     \/ saga[d].status = "failed" /\ TryUpdateRow("failed")
  /\ Goto(d, "done")
  /\ UNCHANGED restOfRow

\* The timeout and the shutdown leave the row as it is.
GiveUpDeletion(d) ==
  /\ pc[d] = "waitDeletion"
  /\ TimeoutsFire \/ stopping
  /\ Goto(d, "gaveUp")
  /\ UNCHANGED <<restOfRow, row, faults>>

Delete(d) ==
  \/ CheckDelete(d) \/ LookupDelete(d) \/ SubmitDelete(d) \/ Reject(d)
  \/ MarkDeleting(d) \/ DeletionAnswered(d) \/ GiveUpDeletion(d)

Stop ==
  /\ MayStop /\ ~stopping
  /\ stopping' = TRUE
  /\ UNCHANGED <<azVars, row, vpc, sagaVars, pc, targets, tickVars, faults>>

-----------------------------------------------------------------------------

Init ==
  /\ az = [a \in AZs |-> NoRow]
  /\ work = [c \in Creators |-> [a \in AZs |-> "none"]]
  /\ reached = {}
  /\ replay = [r \in Replayers |-> NoReplay]
  /\ loop = [a \in AZs |-> NoListing]
  /\ row = "absent"
  /\ vpc = [v \in 1..2 |-> "up"]
  /\ saga = [p \in Requests |-> NoSaga]
  /\ handling = [p \in Requests |-> [az |-> NoId, id |-> NoId]]
  /\ pc = [p \in Requests |-> IF p \in Creators THEN "request" ELSE "check"]
  /\ targets = [p \in Requests |-> {}]
  /\ asked = [c \in Creators |-> {}]
  /\ settled = [c \in Creators |-> {}]
  /\ news = [c \in Creators |-> {}]
  /\ stopping = FALSE
  /\ faults = 0

AZMoves ==
  \/ \E a \in AZs, c \in Creators : WorkflowEnds(c, a)
  \/ \E r \in Replayers : Replays(r)
  \/ \E a \in AZs : Loops(a)

Next ==
  \/ AZMoves
  \/ \E v \in 1..2 : CheckVPC(v) \/ MarkVPCDeleted(v)
  \/ \E p \in Requests : SagaMoves(p)
  \/ \E c \in Creators : Create(c)
  \/ \E d \in Deleters : Delete(d)
  \/ Stop

\* Top NSP's goroutines go on and their timers elapse, the polling's between any two
\* ticks, where the select picks at random.  Nothing is assumed of the AZs and of the
\* saga engine, which may never answer.
Fairness ==
  /\ \A c \in Creators : WF_vars(Create(c)) /\ SF_vars(PollTimesOut(c) \/ PollInterrupted(c))
  /\ \A d \in Deleters : WF_vars(Delete(d))

Spec == Init /\ [][Next]_vars /\ Fairness

-----------------------------------------------------------------------------
(* Properties. *)

\* Types of the variables.
TypeOK ==
  /\ az \in [AZs -> [status : AZStatuses, id : Creators \cup {NoId}]]
  /\ \A a \in AZs : (az[a].status = "absent") <=> (az[a].id = NoId)
  /\ work \in [Creators -> [AZs -> WorkStatuses]]
  /\ reached \subseteq AZs \X Final
  /\ replay \in [Replayers -> [at : Places, az : AZs \cup {NoId}, id : Creators \cup {NoId}]]
  /\ loop \in [AZs -> [id : Creators \cup {NoId}, verdict : Verdicts]]
  /\ row \in RowStatuses
  /\ vpc \in [1..2 -> {"up", "unused", "deleted"}]
  /\ saga \in [Requests -> [status : SagaStatuses, answered : Seq(AZs)]]
  /\ handling \in [Requests -> [az : AZs \cup {NoId}, id : Creators \cup {NoId}]]
  /\ pc \in [Requests -> Labels]
  /\ targets \in [Requests -> SUBSET AZs]
  /\ asked \in [Creators -> SUBSET AZs]
  /\ settled \in [Creators -> SUBSET AZs]
  /\ news \in [Creators -> SUBSET (AZs \X Final)]
  /\ stopping \in BOOLEAN
  /\ faults \in 0..MaxFaults

RunningIsAnswered ==
  row = "running" => \E c \in Creators :
    /\ pc[c] = "done"
    /\ \A a \in targets[c] : \E s \in Final : <<a, s>> \in reached
    /\ \E a \in targets[c] : <<a, "running">> \in reached

PartialIsAnswered ==
  row = "partial_running" => \E c \in Creators :
    /\ pc[c] = "done"
    /\ \A a \in targets[c] : \E s \in Final : <<a, s>> \in reached
    /\ \E a \in targets[c] : <<a, "failed">> \in reached

\* The registry says 'running' or 'partial_running' only after every AZ of one of the
\* requests has ended its workflow, one of them with success or one of them in failure
\* (pollPCCNAZWorkerStatuses).  'running' does not mean all of them: a failure settled
\* in an earlier tick is forgotten.
OutcomeIsAnswered == RunningIsAnswered /\ PartialIsAnswered

RequestedOnce ==
  \A c1, c2 \in Creators : pc[c1] # "request" /\ pc[c2] # "request" => c1 = c2

\* When Top NSP drops the row of a name requested once, every AZ the deletion was
\* sent to has dropped its own (watchPCCNDeletion).
RemovedEverywhere ==
  [][(row # "absent" /\ row' = "absent" /\ RequestedOnce) =>
       \E d \in Deleters : targets[d] # {} /\ \A a \in targets[d] : az[a].status = "absent"]_vars

\* What was decided on an earlier state of a's row, or is built once more, is still to come.
Overtaken(a) ==
  \/ \E r \in Replayers : replay[r] = [at |-> "reset", az |-> a, id |-> az[a].id]
  \/ loop[a] = [id |-> az[a].id, verdict |-> "failed"]
  \/ work[az[a].id][a] = "active"

\* A connection that works in an AZ is never reset by a second create of its name
\* (PCCNDAO.Create's WHERE clause): it goes only because the AZ is asked to delete it,
\* by a replay that had found a failed task before it worked, or whose task has been
\* queued once more, or by the loop's verdict on an earlier state (the UPDATEs of
\* ReplayTask and of compensateResource look at no status).
WorkingStays ==
  [][\A a \in AZs : (az[a].status = "running" /\ az'[a].status # "running") =>
       (\E p \in Requests : handling[p].az = a) \/ Overtaken(a)]_vars

\* A row does not stay 'creating' for ever, whatever times out and also when Top
\* NSP is shut down, as long as no statement fails (every way out of
\* waitForPCCNSagaCompletion and pollPCCNAZWorkerStatuses writes a status).
CreatingEnds == (row = "creating") ~> (row # "creating" \/ faults > 0)

\* A row stays 'deleting' for ever only if a watcher of the deletion gave up
\* (watchPCCNDeletion's timeout and shutdown write nothing), as long as no statement
\* fails.  DeletePCCN then refuses the name for good.
DeletingEnds ==
  (row = "deleting") ~>
    (row # "deleting" \/ faults > 0 \/ \E d \in Deleters : pc[d] = "gaveUp")

\* Top NSP sends the create to every AZ of both VPCs and leaves it to the AZ to see
\* which side it is on (orchestrator.go:641): unless something fails, no AZ refuses.
CreateIsAccepted ==
  faults = 0 /\ RequestedOnce => \A c \in Creators : saga[c].status # "compensating"
=============================================================================
