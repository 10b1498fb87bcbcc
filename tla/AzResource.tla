----------------------------- MODULE AzResource -----------------------------
(***************************************************************************)
(* The rows of one AZ: a VPC, its subnets and the firewall policies of its *)
(* zone, in the databases of the AZ's two services; the requests that      *)
(* create, delete and replay them, the replies that end their workflows    *)
(* and the two compensation loops.                                         *)
(*                                                                         *)
(* A name has at most one row for ever: no statement of a request removes  *)
(* one, so a name stands for its id too.  A workflow is one step here: its *)
(* tasks, and replies that are handled at the same time, are the subject   *)
(* of module Workflow.                                                     *)
(*                                                                         *)
(* An action is one SQL statement or one HTTP call; a loop's reading of a  *)
(* row's tasks, the questions to the broker included, is one.  A check     *)
(* whose error the code counts as zero is a fault that finds nothing.      *)
(***************************************************************************)
EXTENDS Naturals

CONSTANTS
  VPC,        \* the VPC
  Subnets,    \* names of subnets of the VPC
  Policies,   \* names of firewall policies of the VPC's zone
  Handlers,   \* requests being handled at once
  MaxFaults   \* BOUND on failed statements and calls, lost replies and replays

ASSUME AzResourceAssumption ==
  /\ VPC \notin Subnets /\ VPC \notin Policies /\ Subnets \cap Policies = {}
  /\ MaxFaults \in Nat

VARIABLES
  row,     \* status of each row
  work,    \* the tasks of each row's workflow
  reply,   \* outcome of a workflow whose reply is about to be written to its row
  listed,  \* rows a compensation loop has read and is about to look into
  verdict, \* what a loop is about to write to a row it has looked into
  op,      \* what each handler does: the operation, its name and the next step
  built,   \* (history) rows whose tasks have all completed once
  since,   \* (history) rows written since each handler's last count, or not counted
  quiet,   \* (history) rows deleted while nothing else was at work on them
  faults   \* failed statements and calls, lost replies and replays so far

loops == <<listed, verdict>>
vars == <<row, work, reply, loops, op, built, since, quiet, faults>>

Names      == {VPC} \cup Subnets \cup Policies
Statuses   == {"absent", "pending", "creating", "running", "failed", "deleting", "deleted"}
Works      == {"none", "active", "lost", "completed", "failed"}
Outcomes   == {"none", "completed", "failed"}
Verdicts   == {"none", "running", "failed"}
Operations == {"none", "create", "deleteByName", "deleteByID", "replay"}
Steps      == {"idle", "submit", "count", "zone", "mark", "reset", "run"}

Idle == [kind |-> "none", name |-> VPC, at |-> "idle"]
Gone == {"absent", "deleted"}
Live(S) == {n \in S : row[n] \notin Gone}

Fault == faults < MaxFaults /\ faults' = faults + 1

\* A deletion of the VPC that has counted the subnets.
HasCounted(h) == op[h].name = VPC /\ op[h].at \in {"zone", "mark"}

\* What the deletions that are still under way after this step have missed.
Missed(S) == since' = [h \in Handlers |-> IF HasCounted(h)' THEN since[h] \cup S ELSE {}]

Set(n, status) == row' = [row EXCEPT ![n] = status] /\ Missed({n} \ {VPC})
Leave          == UNCHANGED row /\ Missed({})

Begin(h, kind, n, step) == op' = [op EXCEPT ![h] = [kind |-> kind, name |-> n, at |-> step]]
Go(h, step) == op' = [op EXCEPT ![h].at = step]
Return(h)   == op' = [op EXCEPT ![h] = Idle]
At(h, step) == op[h].at = step

restOfRead == <<row, work, reply, loops, built, quiet>>

-----------------------------------------------------------------------------
(* CreateVPC, CreateSubnet and CreatePolicy. *)

\* The name is unique, and so a deleted name is taken.  A subnet's VPC is not looked for.
MayInsert(n) == row[n] = "absent"

Insert(h, n) ==
  /\ At(h, "idle") /\ MayInsert(n)
  /\ Begin(h, "create", n, "submit")
  /\ Set(n, "pending")
  /\ UNCHANGED <<work, reply, loops, built, quiet, faults>>

\* SubmitWorkflow fails: before its tasks are there, before they are published, or
\* in publishing the first.
SubmitFails(n) ==
  \/ Leave /\ UNCHANGED work
  \/ work' = [work EXCEPT ![n] = "lost"] /\ \E s \in {"pending", "creating"} : Set(n, s)
  \/ work' = [work EXCEPT ![n] = "failed"] /\ Set(n, "failed")

Submit(h) ==
  /\ At(h, "submit") /\ Return(h)
  /\ \/ /\ work' = [work EXCEPT ![op[h].name] = "active"]
        /\ Set(op[h].name, "creating")
        /\ UNCHANGED faults
     \/ Fault /\ SubmitFails(op[h].name)
  /\ UNCHANGED <<reply, loops, built, quiet>>

-----------------------------------------------------------------------------
(* The deletions: by name to 'deleting', by id to 'deleted'. *)

\* Slip: a deletion of what is already deleted is accepted.
StartDeleteAgain(h, kind, n) ==
  /\ At(h, "idle") /\ n \notin Policies /\ row[n] \in {"running", "deleting", "deleted"}
  /\ Begin(h, kind, n, IF n = VPC THEN "count" ELSE "mark")
  /\ UNCHANGED <<restOfRead, since, faults>>

\* GetByName or GetByID, and the check of the status.
StartDelete(h, kind, n) ==
  /\ At(h, "idle") /\ n \notin Policies /\ row[n] = "running"
  /\ Begin(h, kind, n, IF n = VPC THEN "count" ELSE "mark")
  /\ UNCHANGED <<restOfRead, since, faults>>

\* A policy is deleted by name, whatever its status.
StartDeletePolicy(h, n) ==
  /\ At(h, "idle") /\ n \in Policies /\ row[n] # "absent"
  /\ Begin(h, "deleteByName", n, "mark")
  /\ UNCHANGED <<restOfRead, since, faults>>

\* Slip: rows whose workflow has not ended are not counted.
BuiltSubnets == {s \in Subnets : row[s] = "running"}

\* CountSubnets and CountSubnetsByVPCID.
CountedSubnets == Live(Subnets)

CountSubnets(h) ==
  /\ At(h, "count")
  /\ IF CountedSubnets = {} THEN Go(h, "zone") ELSE Return(h)
  /\ since' = [since EXCEPT ![h] = {}]
  /\ UNCHANGED <<restOfRead, faults>>

\* CountByZone of the firewall service.
CountedPolicies == {p \in Policies : row[p] \notin Gone \cup {"failed"}}

\* checkZonePolicies: an error, or an answer that is not 200, counts as zero.
CheckZonePolicies(h) ==
  /\ At(h, "zone")
  /\ \/ /\ IF CountedPolicies = {} THEN Go(h, "mark") ELSE Return(h)
        /\ since' = [since EXCEPT ![h] = IF CountedPolicies = {} THEN @ \ Policies ELSE {}]
        /\ UNCHANGED faults
     \/ /\ Fault
        /\ Go(h, "mark")
        /\ since' = [since EXCEPT ![h] = @ \cup Policies]
  /\ UNCHANGED restOfRead

DeletedStatus(h) ==
  IF op[h].kind = "deleteByID" \/ op[h].name \in Policies THEN "deleted" ELSE "deleting"

\* Nothing else is at work on the handler's row, and nobody can replay its tasks.
Alone(h) ==
  LET n == op[h].name IN
    /\ \A g \in Handlers \ {h} : At(g, "idle") \/ op[g].name # n
    /\ n \notin listed /\ reply[n] = "none"
    /\ work[n] # "active" /\ (work[n] = "failed" => n \in Policies)

Mark(h) ==
  /\ At(h, "mark") /\ Return(h)
  /\ \/ /\ Set(op[h].name, DeletedStatus(h))
        /\ quiet' = IF DeletedStatus(h) = "deleted" /\ Alone(h)
                      THEN quiet \cup {op[h].name} ELSE quiet
        /\ UNCHANGED faults
     \/ Fault /\ Leave /\ UNCHANGED quiet
  /\ UNCHANGED <<work, reply, loops, built>>

-----------------------------------------------------------------------------
(* ReplayTask.  The firewall service has none. *)

StartReplay(h, n) ==
  /\ At(h, "idle") /\ n \notin Policies /\ work[n] = "failed"
  /\ Fault
  /\ Begin(h, "replay", n, "reset")
  /\ UNCHANGED <<restOfRead, since>>

ResetRow(h) ==
  /\ At(h, "reset")
  /\ \/ Go(h, "run") /\ Set(op[h].name, "creating") /\ UNCHANGED faults
     \/ Return(h) /\ Fault /\ Leave
  /\ UNCHANGED <<work, reply, loops, built, quiet>>

\* RunTask or RequeueTask.
Run(h) ==
  /\ At(h, "run")
  /\ \/ work' = [work EXCEPT ![op[h].name] = "active"] /\ UNCHANGED faults
     \/ Fault /\ UNCHANGED work
  /\ Return(h) /\ Leave
  /\ UNCHANGED <<reply, loops, built, quiet>>

-----------------------------------------------------------------------------
(* The workflows, up to the last reply's result, and its effect on the row. *)

TasksEnd(n) ==
  /\ work[n] = "active" /\ reply[n] = "none"
  /\ \/ /\ \E outcome \in {"completed", "failed"} :
             /\ work' = [work EXCEPT ![n] = outcome]
             /\ reply' = [reply EXCEPT ![n] = outcome]
             /\ built' = IF outcome = "completed" THEN built \cup {n} ELSE built
        /\ UNCHANGED faults
     \/ /\ Fault                               \* a reply is lost
        /\ work' = [work EXCEPT ![n] = "lost"]
        /\ UNCHANGED <<reply, built>>
  /\ UNCHANGED <<row, loops, op, since, quiet>>

\* Slip: the row takes the status of the task.
StatusOfTask(outcome) == outcome

StatusOf(outcome) == IF outcome = "completed" THEN "running" ELSE "failed"

\* HandleReply writes the row whatever it says.
Settle(n) ==
  /\ reply[n] # "none" /\ UNCHANGED op
  /\ \/ Set(n, StatusOf(reply[n])) /\ UNCHANGED faults
     \/ Fault /\ Leave
  /\ reply' = [reply EXCEPT ![n] = "none"]
  /\ UNCHANGED <<work, loops, built, quiet>>

-----------------------------------------------------------------------------
(* The compensation loops. *)

\* compensateResource skips the rest.
Skipped == {"running", "failed", "deleted"}

List(S) ==
  /\ listed' = listed \cup {n \in Live(S) : row[n] \notin Skipped}
  /\ UNCHANGED <<row, work, reply, verdict, op, built, since, quiet, faults>>

\* One goroutine goes through the VPCs and then through their subnets.
Passing == listed \ Policies # {}

ListVPCs     == ~Passing /\ List({VPC})
ListPolicies == listed \cap Policies = {} /\ List(Policies)

\* Slip: the subnets of a VPC that has failed are not looked at.
ListSubnetsOfRunning == ~Passing /\ row[VPC] = "running" /\ List(Subnets)

\* ListByVPCID of the VPCs that ListAll returns.
ListSubnets == ~Passing /\ row[VPC] \notin Gone /\ List(Subnets)

\* Slip: rows whose tasks are lost count as completed.
VerdictOfOptimist(n) ==
  CASE work[n] \in {"completed", "lost"} -> "running"
    [] work[n] = "failed" -> "failed"
    [] work[n] = "none" /\ n \in Policies -> "failed"
    [] OTHER -> "none"

\* By the tasks' counts, else by the timeout, unless a task is in flight.  Only the
\* firewall service's loop times out a row that has no tasks.  A pass before the
\* timeout changes nothing and is left out.
VerdictOf(n) ==
  CASE work[n] = "completed" -> "running"
    [] work[n] \in {"failed", "lost"} -> "failed"
    [] work[n] = "none" /\ n \in Policies -> "failed"
    [] OTHER -> "none"

\* GetTaskStats, and the questions to the broker.
Judge(n) ==
  /\ n \in listed /\ verdict[n] = "none"
  /\ verdict' = [verdict EXCEPT ![n] = VerdictOf(n)]
  /\ listed' = IF VerdictOf(n) = "none" THEN listed \ {n} ELSE listed
  /\ UNCHANGED <<row, work, reply, op, built, since, quiet, faults>>

\* The UPDATE, whatever the row and its tasks have come to; its error is ignored.
Repair(n) ==
  /\ verdict[n] # "none" /\ UNCHANGED op
  /\ \/ Set(n, verdict[n]) /\ UNCHANGED faults
     \/ Fault /\ Leave
  /\ listed' = listed \ {n}
  /\ verdict' = [verdict EXCEPT ![n] = "none"]
  /\ UNCHANGED <<work, reply, built, quiet>>

-----------------------------------------------------------------------------

Init ==
  /\ row = [n \in Names |-> "absent"]
  /\ work = [n \in Names |-> "none"]
  /\ reply = [n \in Names |-> "none"]
  /\ listed = {}
  /\ verdict = [n \in Names |-> "none"]
  /\ op = [h \in Handlers |-> Idle]
  /\ built = {}
  /\ since = [h \in Handlers |-> {}]
  /\ quiet = {}
  /\ faults = 0

Requests(h) ==
  \E n \in Names :
    \/ Insert(h, n)
    \/ \E kind \in {"deleteByName", "deleteByID"} : StartDelete(h, kind, n)
    \/ StartDeletePolicy(h, n)
    \/ StartReplay(h, n)

Handles(h) ==
  \/ Submit(h) \/ CountSubnets(h) \/ CheckZonePolicies(h) \/ Mark(h)
  \/ ResetRow(h) \/ Run(h)

Lists == ListVPCs \/ ListSubnets \/ ListPolicies

Next ==
  \/ \E h \in Handlers : Requests(h) \/ Handles(h)
  \/ \E n \in Names : TasksEnd(n) \/ Settle(n) \/ Judge(n) \/ Repair(n)
  \/ Lists

\* Handlers, workers, reply goroutines and the tickers of the loops go on, each pass
\* through the VPCs and then the subnets; nobody has to send a request.
Fairness ==
  /\ \A h \in Handlers : WF_vars(Handles(h))
  /\ \A n \in Names : WF_vars(TasksEnd(n)) /\ WF_vars(Settle(n))
  /\ \A n \in Names : WF_vars(Judge(n)) /\ WF_vars(Repair(n))
  /\ SF_vars(ListVPCs) /\ SF_vars(ListSubnets) /\ WF_vars(ListPolicies)

Spec == Init /\ [][Next]_vars /\ Fairness

-----------------------------------------------------------------------------
(* Properties. *)

\* Types of the variables.
TypeOK ==
  /\ row \in [Names -> Statuses]
  /\ work \in [Names -> Works]
  /\ reply \in [Names -> Outcomes]
  /\ listed \subseteq Names
  /\ verdict \in [Names -> Verdicts]
  /\ op \in [Handlers -> [kind : Operations, name : Names, at : Steps]]
  /\ built \subseteq Names
  /\ since \in [Handlers -> SUBSET Names]
  /\ quiet \subseteq Names
  /\ faults \in 0..MaxFaults

\* A row says 'running' only if its whole workflow has been carried out once,
\* whichever of the reply goroutine, a late replay and the loop wrote it last.
RunningIsBuilt == \A n \in Names : row[n] = "running" => n \in built

\* A row that was deleted while nothing else was at work on it stays deleted for
\* ever: no creation takes its name again, no request finds it, no loop revives it.
QuietlyDeletedStays == \A n \in quiet : row[n] = "deleted"

\* A deletion of the VPC leaves behind only subnets, and policies of its zone, whose
\* rows were written since it counted them, or that it could not count (DeleteVPC and
\* DeleteVPCByID check first and write later).
VPCIsFree ==
  [][\A h \in Handlers :
       (op[h].name = VPC /\ At(h, "mark") /\ row'[VPC] # row[VPC] /\ op'[h] = Idle) =>
         Live(Subnets) \cup CountedPolicies \subseteq since[h]]_vars

Unended == {"pending", "creating"}

\* What no loop repairs: a VPC or a subnet without tasks, and a subnet of a VPC that
\* is not listed.
NotRepaired(n) ==
  \/ n \notin Policies /\ row[n] = "pending" /\ work[n] = "none"
  \/ n \in Subnets /\ row[VPC] \in Gone

\* A row stays 'pending' or 'creating' for ever only if no loop repairs it.
RowsEnd ==
  \A n \in Names : <>[](row[n] \in Unended) => []<>NotRepaired(n)
=============================================================================
