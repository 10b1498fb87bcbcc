--------------------------- MODULE WorkflowChain ---------------------------
(***************************************************************************)
(* Workflow against StepChain: what holds of the executions in which no   *)
(* statement fails, no finished task is run again and no two operators    *)
(* replay at once.  They have one thread of control.  It is in one place  *)
(* at a time (a process that will publish or record, a task with the      *)
(* broker, a reply in the queue, a failed row that can be replayed), and  *)
(* the goroutines that are still to write 'queued', or a late failure     *)
(* report, only touch the rows behind it.                                 *)
(***************************************************************************)
EXTENDS Workflow

-----------------------------------------------------------------------------
(* The refinement mapping. *)

\* The row's status is all a client sees of a workflow.
Outcome == IF rowStatus \in {"running", "failed"} THEN rowStatus ELSE "open"

Chain == INSTANCE StepChain WITH outcome <- Outcome

\* A workflow whose replies are neither lost nor repeated implements the chain.
ImplementsChain == Chain!ChainSpec

-----------------------------------------------------------------------------
(* The executions meant. *)

\* No fault, no redelivery, one operator at most.
Undisturbed ==
  /\ MaxFaults = 0 /\ MaxRedeliveries = 0
  /\ \A p, q \in Replayers : p = q

\* No replay and no timeout either.
Straight == Undisturbed /\ Replayers = {} /\ ~TimeoutsFire

-----------------------------------------------------------------------------
(* Where the thread of control can be. *)

ActiveProcs ==
  {p \in Procs :
     \/ p = Submitter /\ pc[p] \in {"create", "insert", "total", "creating", "publish"}
     \/ /\ p \in Consumers
        /\ \/ pc[p] = "result" /\ held[p].kind # "retrying"
           \/ pc[p] \in {"count", "next", "publish"} /\ held[p].kind = "success"
     \/ p \in Replayers /\ pc[p] \in {"reset", "rerun", "publish"}}

LiveTasks ==
  {b \in TaskIds : \/ broker[b].state \in {"pending", "retry"}
                   \/ broker[b].state = "erred" /\ broker[b].retried < MaxRetries}

FreshReplies == {r \in Reply : replies[r] > 0 /\ r.kind # "retrying"}

\* Failed rows of tasks that nobody is replaying.
FailedRows ==
  {i \in Steps : taskStatus[i] = "failed"
                 /\ \A p \in Replayers : pc[p] # "idle" => step[p] # i}

AtMostOne(S) == \A x, y \in S : x = y

OneThread ==
  /\ AtMostOne(ActiveProcs) /\ AtMostOne(LiveTasks)
  /\ AtMostOne(FreshReplies) /\ AtMostOne(FailedRows)
  /\ \A r \in FreshReplies : replies[r] = 1
  /\ ActiveProcs # {}  => LiveTasks = {} /\ FreshReplies = {} /\ FailedRows = {}
  /\ LiveTasks # {}    => FreshReplies = {} /\ FailedRows = {}
  /\ FreshReplies # {} => FailedRows = {}

-----------------------------------------------------------------------------
(* What is behind it, and what is ahead. *)

\* Nothing has touched, and nothing will soon touch, a step after k.
ClearAhead(k) ==
  /\ \A j \in Steps : j > k => taskStatus[j] \in {"none", "pending"}
  /\ \A r \in Reply : replies[r] > 0 => r.step <= k
  /\ \A c \in Consumers : pc[c] # "idle" => held[c].step <= k
  /\ \A p \in Procs : pc[p] \in {"publish", "mark", "reset", "rerun"} => step[p] <= k

\* Step k is still to be carried out; is carried out but not counted; is counted.
Before(k)  == ClearAhead(k) /\ executed = 1..(k - 1) /\ completedTasks < k
Carried(k) == ClearAhead(k) /\ executed = 1..k /\ completedTasks < k
Counted(k) == ClearAhead(k) /\ executed = 1..k /\ completedTasks <= k

ProcInOrder(p) ==
  IF p = Submitter THEN Before(1)
  ELSE IF p \in Consumers /\ pc[p] = "next" THEN Counted(held[p].step)
  ELSE IF p \in Consumers /\ pc[p] \in {"result", "count"}
    THEN IF held[p].kind = "success" THEN Carried(held[p].step) ELSE Before(held[p].step)
  ELSE Before(step[p])

ThreadInOrder ==
  /\ \A p \in ActiveProcs : ProcInOrder(p)
  /\ \A b \in LiveTasks : Before(broker[b].step)
  /\ \A r \in FreshReplies : IF r.kind = "success" THEN Carried(r.step) ELSE Before(r.step)
  /\ \A i \in FailedRows : Before(i)

\* Where a process can be with what it holds.
RolesKept ==
  /\ pc[Submitter] \notin {"failTask", "failCount", "failRow"}
  /\ pc[Submitter] = "publish" => step[Submitter] = 1
  /\ \A c \in Consumers :
       /\ pc[c] \in {"count", "settle"} => held[c].kind # "retrying"
       /\ pc[c] \in {"next", "publish", "mark"} => held[c].kind = "success"
       /\ pc[c] \in {"count", "next"} => taskStatus[held[c].step] \notin {"none", "pending"}
       /\ pc[c] = "next" => held[c].step < NumSteps

\* A broker id leads to a task of the same step.
TaskOf(b, i) == b \in TaskIds /\ broker[b].state # "free" /\ broker[b].step = i

IdsMatch ==
  /\ \A i \in Steps : asynqId[i] # 0 => TaskOf(asynqId[i], i)
  /\ \A p \in Procs : pc[p] \in {"mark", "reset", "rerun"} /\ ref[p] # 0 => TaskOf(ref[p], step[p])

ThreadInv ==
  /\ OneThread /\ ThreadInOrder /\ RolesKept /\ IdsMatch
  /\ ExecutedInOrder /\ CountedOnce

-----------------------------------------------------------------------------
(* And when it has ended in a failure. *)

Over ==
  /\ ActiveProcs = {} /\ LiveTasks = {} /\ FreshReplies = {}
  /\ executed # Steps

\* A step has failed for good, and somebody has recorded it or is about to say so.
\* What the loop concludes from an aged listing is not a sign of that.
StepLost ==
  \/ FailedRows # {}
  \/ \E c \in Consumers : pc[c] \in {"count", "settle"} /\ held[c].kind = "final"
  \/ comp.verdict = "failed" /\ ~comp.aged

NotReplayed == used["replay"] = 0 /\ \A p \in Replayers : pc[p] = "idle"

\* Until the first replay, a lost step is the end, whatever times out.
LossInv == used["replay"] = 0 => NotReplayed /\ (StepLost => Over)

\* Without replays and timeouts, so is a row that says 'failed'.
FailureShown == StepLost \/ rowStatus = "failed"

ChainInv == NotReplayed /\ ~aged /\ ~comp.aged /\ (FailureShown => Over)

=============================================================================
