----------------------------- MODULE RegionVpc -----------------------------
(***************************************************************************)
(* One VPC name of a region in Top NSP: its row in vpc_registry, the      *)
(* requests that create it (each with a saga over the AZs and a goroutine *)
(* that watches the saga and then the AZs), the requests that delete it   *)
(* and the shutdown of Top NSP.                                           *)
(*                                                                        *)
(* An AZ is its vpc_resources row of that name; how the row reaches       *)
(* 'running' or 'failed' is the subject of module Workflow.  The saga     *)
(* engine is a library: steps in order, one HTTP call each, and after a   *)
(* failed step the compensations of the earlier ones, last first.         *)
(*                                                                        *)
(* An action is one HTTP call or one SQL statement.                       *)
(***************************************************************************)
EXTENDS Naturals

CONSTANTS
  NumAZs,        \* AZs of the region, in the order of the saga's steps
  Creators,      \* requests that create the VPC
  Deleters,      \* requests that delete it
  TimeoutsFire,  \* whether the watchers' timeouts can elapse
  MayStop,       \* whether Top NSP is shut down
  MaxFaults      \* BOUND on failed statements and failed calls

AZs == 1..NumAZs

ASSUME RegionAssumption ==
  /\ NumAZs \in Nat \ {0}
  /\ TimeoutsFire \in BOOLEAN /\ MayStop \in BOOLEAN
  /\ MaxFaults \in Nat
  /\ Creators \cap Deleters = {}

VARIABLES
  az,        \* status of the VPC's row in each AZ
  built,     \* (history) AZs in which the row has been 'running'
  row,       \* the row of vpc_registry: its status and its az_details
  saga,      \* each request's saga: its status and its steps
  pc,        \* next call of each request, then of its watcher
  asked,     \* AZs a watcher has been through in the current tick
  settled,   \* AZs a watcher no longer asks
  found,     \* details a watcher has yet to write
  snap,      \* details a watcher has read and will write back
  stopping,  \* Top NSP's context is cancelled
  faults     \* failed statements and calls so far

sagaVars  == <<az, built, saga>>
watchVars == <<pc, asked, settled, found, snap>>
vars == <<sagaVars, row, watchVars, stopping, faults>>

AZStatuses     == {"absent", "creating", "running", "failed", "deleting"}
Details        == {"none", "creating", "running", "failed", "interrupted", "compensated"}
RowStatuses    == {"absent", "creating", "running", "partial_running", "failed",
                   "interrupted", "deleted"}
SagaStatuses   == {"none", "running", "compensating", "succeeded", "failed"}
StepStatuses   == {"pending", "succeeded", "failed", "compensated"}
Labels         == {"request", "register", "wait", "mark", "markWrite", "poll", "read",
                   "write", "lastRead", "lastWrite", "done", "check", "delete"}
All(d)         == [a \in AZs |-> d]
SagaRecords    == [status : SagaStatuses, steps : [AZs -> StepStatuses]]
NoSaga         == [status |-> "none", steps |-> All("pending")]

Fault == faults < MaxFaults /\ faults' = faults + 1

Goto(p, label) == pc' = [pc EXCEPT ![p] = label]

-----------------------------------------------------------------------------
(* The AZs. *)

\* POST /api/v1/vpc: a second row of the name violates uk_vpc_name_az, and the
\* handler answers 200 all the same.
AZCreates(a) == az' = [az EXCEPT ![a] = IF @ = "absent" THEN "creating" ELSE @]

\* DELETE /api/v1/vpc/:vpc_name is refused unless the row is 'running', and may
\* be refused then too (subnets, policies).
AZDeletes(a) == az[a] = "running" /\ az' = [az EXCEPT ![a] = "deleting"]

\* The workflow ends, an operator replays a failed one, or the compensation
\* loop finds all the tasks of a 'deleting' row completed.
AZMoves(a, from, to) ==
  /\ az[a] = from
  /\ az' = [az EXCEPT ![a] = to]
  /\ built' = IF to = "running" THEN built \cup {a} ELSE built
  /\ UNCHANGED <<saga, row, watchVars, stopping, faults>>

WorkflowEnds(a) == AZMoves(a, "creating", "running") \/ AZMoves(a, "creating", "failed")
Replayed(a)     == AZMoves(a, "failed", "creating")
Reverted(a)     == AZMoves(a, "deleting", "running")

-----------------------------------------------------------------------------
(* The saga engine. *)

Current(c) ==
  {a \in AZs : saga[c].steps[a] = "pending"
               /\ \A b \in 1..(a - 1) : saga[c].steps[b] = "succeeded"}

SagaBecomes(c, status, steps) ==
  saga' = [saga EXCEPT ![c] = [status |-> status, steps |-> steps]]

SetStep(c, a, s) == [saga[c].steps EXCEPT ![a] = s]

StepSucceeds(c, a) ==
  /\ saga[c].status = "running" /\ a \in Current(c)
  /\ SagaBecomes(c, IF a = NumAZs THEN "succeeded" ELSE "running",
                 SetStep(c, a, "succeeded"))
  /\ \/ AZCreates(a) /\ UNCHANGED faults
     \/ Fault /\ UNCHANGED az            \* the INSERT failed: 200 again
  /\ UNCHANGED <<built, row, watchVars, stopping>>

\* The call fails, with or without its effect, or the saga's timeout elapses.
StepFails(c, a) ==
  /\ saga[c].status = "running" /\ a \in Current(c)
  /\ Fault
  /\ SagaBecomes(c, "compensating", SetStep(c, a, "failed"))
  /\ AZCreates(a) \/ UNCHANGED az
  /\ UNCHANGED <<built, row, watchVars, stopping>>

ToUndo(c) == {a \in AZs : saga[c].steps[a] = "succeeded"}

\* A refused DELETE may be sent again and is given up in the end: this is the
\* last call.
Compensates(c, a) ==
  /\ saga[c].status = "compensating"
  /\ a \in ToUndo(c) /\ \A b \in ToUndo(c) : b <= a
  /\ \/ AZDeletes(a) /\ SagaBecomes(c, "compensating", SetStep(c, a, "compensated"))
     \/ UNCHANGED az /\ SagaBecomes(c, "compensating", SetStep(c, a, "failed"))
  /\ UNCHANGED <<built, row, watchVars, stopping, faults>>

SagaFails(c) ==
  /\ saga[c].status = "compensating" /\ ToUndo(c) = {}
  /\ SagaBecomes(c, "failed", saga[c].steps)
  /\ UNCHANGED <<az, built, row, watchVars, stopping, faults>>

SagaMoves(c) ==
  \/ \E a \in AZs : StepSucceeds(c, a) \/ StepFails(c, a) \/ Compensates(c, a)
  \/ SagaFails(c)

-----------------------------------------------------------------------------
(* vpc_registry. *)

NoRow == [status |-> "absent", details |-> All("none")]

\* UpdateVPCOverallStatus: no row, no update.
UpdateRow(status, details) ==
  row' = IF row.status = "absent" THEN row ELSE [status |-> status, details |-> details]

Merge(details, new) == [a \in AZs |-> IF new[a] = "none" THEN details[a] ELSE new[a]]

Has(details, s) == \E a \in AZs : details[a] = s

\* Slip: an AZ still 'creating' does not clear allRunning.
OverallTooEarly(details) ==
  IF ~Has(details, "failed") /\ ~Has(details, "interrupted") THEN "running"
  ELSE IF Has(details, "failed")
    THEN IF Has(details, "running") THEN "partial_running" ELSE "failed"
  ELSE "interrupted"

\* computeOverallStatus, over the AZs that have an entry.
Overall(details) ==
  IF \A a \in AZs : details[a] \in {"none", "running"} THEN "running"
  ELSE IF Has(details, "failed")
    THEN IF Has(details, "running") THEN "partial_running" ELSE "failed"
  ELSE IF Has(details, "interrupted") THEN "interrupted"
  ELSE IF Has(details, "creating") THEN "creating"
  ELSE "failed"

-----------------------------------------------------------------------------
(* CreateRegionVPC. *)

SubmitSaga(c) ==
  /\ pc[c] = "request"
  /\ SagaBecomes(c, "running", All("pending"))
  /\ Goto(c, "register")
  /\ UNCHANGED <<az, built, row, asked, settled, found, snap, stopping, faults>>

\* An AZ is unhealthy, or the engine refuses the saga.
Reject(c) ==
  /\ pc[c] = "request"
  /\ Goto(c, "done")
  /\ UNCHANGED <<sagaVars, row, asked, settled, found, snap, stopping, faults>>

\* Slip: a request that is overtaken by the shutdown registers nothing.
RegisterUnlessStopping(c) ==
  /\ pc[c] = "register"
  /\ \/ /\ row' = IF stopping THEN row ELSE [status |-> "creating", details |-> All("creating")]
        /\ UNCHANGED faults
     \/ Fault /\ UNCHANGED row
  /\ Goto(c, "wait")
  /\ UNCHANGED <<sagaVars, asked, settled, found, snap, stopping>>

\* RegisterVPC inserts or overwrites; its error is only logged.
Register(c) ==
  /\ pc[c] = "register"
  /\ \/ row' = [status |-> "creating", details |-> All("creating")] /\ UNCHANGED faults
     \/ Fault /\ UNCHANGED row
  /\ Goto(c, "wait")
  /\ UNCHANGED <<sagaVars, asked, settled, found, snap, stopping>>

-----------------------------------------------------------------------------
(* waitForSagaCompletion and markVPCFromSagaFailure. *)

SagaAnswers(c) ==
  /\ pc[c] = "wait"
  /\ ~stopping
  /\ \/ saga[c].status = "succeeded" /\ Goto(c, "poll")
     \/ saga[c].status = "failed" /\ Goto(c, "mark")
  /\ UNCHANGED <<sagaVars, row, asked, settled, found, snap, stopping, faults>>

GiveUpSaga(c, status) ==
  /\ pc[c] = "wait"
  /\ Goto(c, "mark")
  /\ \/ UpdateRow(status, All(status)) /\ UNCHANGED faults
     \/ Fault /\ UNCHANGED row
  /\ UNCHANGED <<sagaVars, asked, settled, found, snap, stopping>>

SagaTimesOut(c)    == TimeoutsFire /\ GiveUpSaga(c, "failed")
SagaInterrupted(c) == stopping /\ GiveUpSaga(c, "interrupted")

StepDetail(s) == IF s = "succeeded" THEN "compensated" ELSE "failed"

\* The steps are read even when the saga has not failed.
MarkFromSteps(c) ==
  /\ pc[c] = "mark"
  /\ \/ /\ found' = [found EXCEPT ![c] = [a \in AZs |-> StepDetail(saga[c].steps[a])]]
        /\ Goto(c, "markWrite") /\ UNCHANGED faults
     \/ Fault /\ Goto(c, "done") /\ UNCHANGED found
  /\ UNCHANGED <<sagaVars, row, asked, settled, snap, stopping>>

\* Slip: the detail's word is used for the whole row.
WriteMarksCompensated(c) ==
  /\ pc[c] = "markWrite"
  /\ Goto(c, "done")
  /\ found' = [found EXCEPT ![c] = All("none")]
  /\ \/ UpdateRow("compensated", found[c]) /\ UNCHANGED faults
     \/ Fault /\ UNCHANGED row
  /\ UNCHANGED <<sagaVars, asked, settled, snap, stopping>>

WriteMarks(c) ==
  /\ pc[c] = "markWrite"
  /\ Goto(c, "done")
  /\ found' = [found EXCEPT ![c] = All("none")]
  /\ \/ UpdateRow("failed", found[c]) /\ UNCHANGED faults
     \/ Fault /\ UNCHANGED row
  /\ UNCHANGED <<sagaVars, asked, settled, snap, stopping>>

-----------------------------------------------------------------------------
(* pollAZWorkerStatuses. *)

\* GetVPCStatus of the next AZ of the tick that has not settled.
Ask(c, a) ==
  /\ pc[c] = "poll"
  /\ a = asked[c] + 1
  /\ asked' = [asked EXCEPT ![c] = a]
  /\ IF a \notin settled[c] /\ az[a] \in {"running", "failed"} /\ ~stopping
       THEN /\ settled' = [settled EXCEPT ![c] = @ \cup {a}]
            /\ found' = [found EXCEPT ![c][a] = az[a]]
       ELSE UNCHANGED <<settled, found>>
  /\ UNCHANGED <<sagaVars, row, pc, snap, stopping, faults>>

AskFails(c, a) ==
  /\ pc[c] = "poll"
  /\ a = asked[c] + 1 /\ a \notin settled[c]
  /\ Fault
  /\ asked' = [asked EXCEPT ![c] = a]
  /\ UNCHANGED <<sagaVars, row, pc, settled, found, snap, stopping>>

\* After the tick, and after its write: the next tick, or the end.
NextTick(c) == IF settled[c] = AZs THEN "done" ELSE "poll"

\* Slip: a tick in which the last AZ settles ends the watcher before the write.
EndTickUnwritten(c) ==
  /\ pc[c] = "poll" /\ asked[c] = NumAZs
  /\ asked' = [asked EXCEPT ![c] = 0]
  /\ Goto(c, IF settled[c] # AZs /\ found[c] # All("none") THEN "read" ELSE NextTick(c))
  /\ UNCHANGED <<sagaVars, row, settled, found, snap, stopping, faults>>

EndTick(c) ==
  /\ pc[c] = "poll" /\ asked[c] = NumAZs
  /\ asked' = [asked EXCEPT ![c] = 0]
  /\ Goto(c, IF found[c] # All("none") THEN "read" ELSE NextTick(c))
  /\ UNCHANGED <<sagaVars, row, settled, found, snap, stopping, faults>>

\* The read and the write of a tick use Top NSP's context, those of a timeout or
\* of the shutdown a context of their own.
Cancelled(c) == stopping /\ pc[c] \in {"read", "write"}

\* A read that fails drops what the tick has found.
ReadRow(c) ==
  /\ pc[c] \in {"read", "lastRead"}
  /\ \/ /\ row.status # "absent" /\ ~Cancelled(c)
        /\ snap' = [snap EXCEPT ![c] = row.details]
        /\ Goto(c, IF pc[c] = "read" THEN "write" ELSE "lastWrite")
        /\ UNCHANGED <<found, faults>>
     \/ /\ IF row.status = "absent" \/ Cancelled(c) THEN UNCHANGED faults ELSE Fault
        /\ found' = [found EXCEPT ![c] = All("none")]
        /\ Goto(c, IF pc[c] = "read" THEN NextTick(c) ELSE "done")
        /\ UNCHANGED snap
  /\ UNCHANGED <<sagaVars, row, asked, settled, stopping>>

WriteRow(c) ==
  /\ pc[c] \in {"write", "lastWrite"}
  /\ LET details == Merge(snap[c], found[c]) IN
       \/ ~Cancelled(c) /\ UpdateRow(Overall(details), details) /\ UNCHANGED faults
       \/ (IF Cancelled(c) THEN UNCHANGED faults ELSE Fault) /\ UNCHANGED row
  /\ found' = [found EXCEPT ![c] = All("none")]
  /\ snap' = [snap EXCEPT ![c] = All("none")]
  /\ Goto(c, IF pc[c] = "write" THEN NextTick(c) ELSE "done")
  /\ UNCHANGED <<sagaVars, asked, settled, stopping>>

\* Slip: the AZs that have settled are overwritten too.
GiveUpPollAll(c, status) ==
  /\ pc[c] = "poll" /\ asked[c] = 0
  /\ found' = [found EXCEPT ![c] = All(status)]
  /\ Goto(c, "lastRead")
  /\ UNCHANGED <<sagaVars, row, asked, settled, snap, stopping, faults>>

\* Slip: no return after the last write.
GiveUpPollGoesOn(c, status) ==
  /\ pc[c] = "poll" /\ asked[c] = 0
  /\ found' = [found EXCEPT ![c] = [a \in AZs |-> IF a \in settled[c] THEN "none" ELSE status]]
  /\ Goto(c, "read")
  /\ UNCHANGED <<sagaVars, row, asked, settled, snap, stopping, faults>>

\* Slip: a timeout ends the watcher without a last write.
GiveUpPollSilently(c, status) ==
  /\ pc[c] = "poll" /\ asked[c] = 0
  /\ Goto(c, IF status = "failed" THEN "done" ELSE "lastRead")
  /\ found' = [found EXCEPT ![c] = [a \in AZs |-> IF a \in settled[c] THEN "none" ELSE status]]
  /\ UNCHANGED <<sagaVars, row, asked, settled, snap, stopping, faults>>

\* Between two ticks: every AZ that has not settled gets this status.
GiveUpPoll(c, status) ==
  /\ pc[c] = "poll" /\ asked[c] = 0
  /\ found' = [found EXCEPT ![c] = [a \in AZs |-> IF a \in settled[c] THEN "none" ELSE status]]
  /\ Goto(c, "lastRead")
  /\ UNCHANGED <<sagaVars, row, asked, settled, snap, stopping, faults>>

PollTimesOut(c)    == TimeoutsFire /\ GiveUpPoll(c, "failed")
PollInterrupted(c) == stopping /\ GiveUpPoll(c, "interrupted")

Create(c) ==
  \/ SubmitSaga(c) \/ Reject(c) \/ Register(c)
  \/ SagaAnswers(c) \/ SagaTimesOut(c) \/ SagaInterrupted(c)
  \/ MarkFromSteps(c) \/ WriteMarks(c)
  \/ \E a \in AZs : Ask(c, a) \/ AskFails(c, a)
  \/ EndTick(c) \/ ReadRow(c) \/ WriteRow(c)
  \/ PollTimesOut(c) \/ PollInterrupted(c)

-----------------------------------------------------------------------------
(* deleteVPC: the checks, then an UPDATE that also clears az_details. *)

CheckDelete(d) ==
  /\ pc[d] = "check"
  /\ Goto(d, "done") \/ (row.status # "absent" /\ Goto(d, "delete"))
  /\ UNCHANGED <<sagaVars, row, asked, settled, found, snap, stopping, faults>>

MarkDeleted(d) ==
  /\ pc[d] = "delete"
  /\ \/ UpdateRow("deleted", All("none")) /\ UNCHANGED faults
     \/ Fault /\ UNCHANGED row
  /\ Goto(d, "done")
  /\ UNCHANGED <<sagaVars, asked, settled, found, snap, stopping>>

Stop ==
  /\ MayStop /\ ~stopping
  /\ stopping' = TRUE
  /\ UNCHANGED <<sagaVars, row, watchVars, faults>>

-----------------------------------------------------------------------------

Init ==
  /\ az = All("absent") /\ built = {}
  /\ row = NoRow
  /\ saga = [c \in Creators |-> NoSaga]
  /\ pc = [p \in Creators \cup Deleters |-> IF p \in Creators THEN "request" ELSE "check"]
  /\ asked = [c \in Creators |-> 0]
  /\ settled = [c \in Creators |-> {}]
  /\ found = [c \in Creators |-> All("none")]
  /\ snap = [c \in Creators |-> All("none")]
  /\ stopping = FALSE
  /\ faults = 0

Next ==
  \/ \E a \in AZs : WorkflowEnds(a) \/ Replayed(a) \/ Reverted(a)
  \/ \E c \in Creators : SagaMoves(c) \/ Create(c)
  \/ \E d \in Deleters : CheckDelete(d) \/ MarkDeleted(d)
  \/ Stop

Spec == Init /\ [][Next]_vars

\* Top NSP, the saga engine and the AZs keep running.  A timer that is due
\* competes with the ticker in a select, which picks either: it is not passed
\* over for ever.
Fairness ==
  /\ \A a \in AZs : WF_vars(WorkflowEnds(a))
  /\ \A c \in Creators :
       /\ WF_vars(SagaMoves(c)) /\ WF_vars(Create(c))
       /\ SF_vars(SagaTimesOut(c) \/ SagaInterrupted(c))
       /\ SF_vars(PollTimesOut(c) \/ PollInterrupted(c))

FairSpec == Spec /\ Fairness

-----------------------------------------------------------------------------

\* Every variable keeps its type.
TypeOK ==
  /\ az \in [AZs -> AZStatuses] /\ built \subseteq AZs
  /\ row \in [status : RowStatuses, details : [AZs -> Details]]
  /\ saga \in [Creators -> SagaRecords]
  /\ pc \in [Creators \cup Deleters -> Labels]
  /\ asked \in [Creators -> 0..NumAZs]
  /\ settled \in [Creators -> SUBSET AZs]
  /\ found \in [Creators -> [AZs -> Details]] /\ snap \in [Creators -> [AZs -> Details]]
  /\ stopping \in BOOLEAN /\ faults \in Nat

\* The registry says 'running' only for a VPC that has been built in every AZ it
\* lists, whatever two watchers of the same name write over each other.
RunningIsTrue == row.status = "running" => \A a \in AZs : row.details[a] = "none" \/ a \in built

(* What makes it inductive: every 'running' that is stored, read or about to be
   written comes from an AZ that said so. *)

BuiltAZs     == \A a \in AZs : az[a] = "running" => a \in built
DetailsEarned(details) == \A a \in AZs : details[a] = "running" => a \in built
CopiesEarned == \A c \in Creators : DetailsEarned(found[c]) /\ DetailsEarned(snap[c])
RowAgrees    == row.status = "running" => \A a \in AZs : row.details[a] \in {"none", "running"}

RegionInv == TypeOK /\ BuiltAZs /\ DetailsEarned(row.details) /\ CopiesEarned /\ RowAgrees

\* An AZ that polling has reported as 'running' stays so until the VPC is deleted:
\* no timeout and no shutdown of a single watcher takes it back.
SettledDetailStays ==
  [][\A a \in AZs : row.details[a] = "running" =>
       row'.details[a] = "running" \/ row'.status = "deleted"]_vars

\* A watcher always ends.
WatcherEnds == \A c \in Creators : pc[c] = "wait" ~> pc[c] = "done"

\* Without shutdown, faults and deletion, a watcher that has come to ask the AZs
\* shows an AZ that has built the VPC as 'running' for good, or as 'failed' when
\* it has stopped waiting for it.
Reported ==
  \A c \in Creators, a \in AZs :
    /\ [](~stopping /\ faults = 0 /\ \A d \in Deleters : pc[d] # "delete")
    /\ <>(pc[c] = "poll")
    /\ <>[](az[a] = "running")
    => <>[](row.details[a] \in {"running", "failed"})

\* A VPC whose building an AZ has accepted is in the registry, except between the
\* submission of the saga and RegisterVPC, and after a failed statement.
BuildingIsRegistered ==
  row.status = "absent" /\ (\E a \in AZs : az[a] # "absent") =>
    faults > 0 \/ \E c \in Creators : pc[c] = "register"

\* A row whose only watcher has ended is not 'creating' any more: the last tick,
\* the timeout and the saga's failure each leave a final status behind.  After a
\* failed statement, or when the shutdown has cancelled a write, it may stay.
CreatingIsWatched ==
  row.status = "creating" =>
    (\E c \in Creators : pc[c] # "done") \/ stopping \/ faults > 0

(* What makes the last two inductive, for the VPC that one request creates. *)

OneCreator == \A c, d \in Creators : c = d

\* The row appears with RegisterVPC of a create request, and is 'creating' only by its
\* details.
RowIsRegistered ==
  /\ row.status = "absent" => row = NoRow
  /\ row.status = "creating" => Has(row.details, "creating") /\ Creators # {}

\* A watcher settles AZs only while it polls, and has written or dropped what it
\* found when a tick begins.
TicksAreClean(c) ==
  /\ pc[c] \in {"request", "register"} => row.status = "absent"
  /\ pc[c] \in {"request", "register", "wait", "mark", "markWrite"} => settled[c] = {}
  /\ pc[c] \in {"request", "register", "wait"} \/ (pc[c] = "poll" /\ asked[c] = 0)
       => found[c] = All("none")
  /\ pc[c] \in {"request", "register", "wait", "read", "write"} => asked[c] = 0
  /\ pc[c] \notin {"write", "lastWrite"} => snap[c] = All("none")

\* A 'running' detail belongs to an AZ that is settled and not written again.
RunningIsSettled(c, a) ==
  /\ found[c][a] = "running" \/ snap[c][a] = "running" => a \in settled[c]
  /\ row.details[a] = "running" =>
       /\ a \in settled[c] /\ found[c][a] = "none"
       /\ pc[c] \in {"write", "lastWrite"} => snap[c][a] = "running"

\* An AZ that is settled, or given up, is 'creating' nowhere but where it is about
\* to be overwritten.
SettledIsKnown(c, a) ==
  /\ found[c][a] # "creating"
  /\ stopping \/ faults > 0 \/
       /\ a \in settled[c] => \/ found[c][a] # "none"
                              \/ row.details[a] # "creating" /\ snap[c][a] # "creating"
       /\ pc[c] \in {"lastRead", "lastWrite"} /\ a \notin settled[c] => found[c][a] # "none"

EndsSettled(c) == pc[c] = "done" => row.status # "creating" \/ stopping \/ faults > 0

WatcherInv ==
  /\ RowIsRegistered
  /\ \A c \in Creators : /\ TicksAreClean(c) /\ EndsSettled(c)
                         /\ \A a \in AZs : RunningIsSettled(c, a) /\ SettledIsKnown(c, a)

=============================================================================
