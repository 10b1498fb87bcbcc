---------------------------- MODULE PccnRowProofs ----------------------------
(***************************************************************************)
(* For any AZs, VPCs, requests, replays and number of faults: a connection *)
(* that works in an AZ is not reset by another create of its name, and     *)
(* when Top NSP drops the row of a name that was requested once, the AZs   *)
(* have dropped theirs.  Without replays and timeouts a connection that    *)
(* works goes only by a deletion, whatever the loops read and write late.  *)
(***************************************************************************)
EXTENDS PccnProofs

-----------------------------------------------------------------------------
(* The inductive invariant, on top of PccnInv. *)

\* The steps of a request that come before its saga.
Fresh == {"request", "submit", "check", "lookup"}

NotSubmitted == \A p \in Requests : pc[p] \in Fresh => saga[p].status = "none"

\* The saga of a create request has called the AZ and will not call it again.
Called(c, a) ==
  saga[c].status # "none" /\ (saga[c].status = "running" => a \in Answered(c))

\* A request that has left something in an AZ has called it.
CreatedIsCalled ==
  \A c \in Creators, a \in AZs : az[a].id = c \/ work[c][a] # "none" => Called(c, a)

\* What works, and what a replay or a loop goes by, has had a workflow.
WorkIsKnown ==
  /\ \A a \in AZs : az[a].status = "running" => work[az[a].id][a] # "none"
  /\ \A a \in AZs : loop[a].verdict = "running" => work[loop[a].id][a] # "none"
  /\ \A r \in Replayers : replay[r].at # "idle" => work[replay[r].id][replay[r].az] # "none"

\* No task is replayed and nothing is given up for its age.
Undisturbed == Replayers = {} /\ ~TimeoutsFire

\* Then what works is what the workflow of its id has built, and a loop that has read
\* the tasks late writes what they still say.
LateReadsHold ==
  Undisturbed =>
    /\ \A a \in AZs : az[a].status = "running" => work[az[a].id][a] = "done"
    /\ \A a \in AZs : loop[a].verdict = "running" => work[loop[a].id][a] = "done"
    /\ \A a \in AZs : loop[a].verdict = "failed" => work[loop[a].id][a] = "failed"

\* A DELETE handler works for the step its saga is at.
HandlingIsDue == \A p \in Requests : handling[p].az # NoId => Deletes(p, handling[p].az)

Worked(a)  == \E c \in Creators : work[c][a] # "none"
Removed(a) == az[a].status = "absent" /\ Worked(a)

\* What a DELETE handler has found was created.
HandlingIsWorked == \A p \in Requests : handling[p].az # NoId => Worked(handling[p].az)

\* A deletion that has succeeded has been answered by all of its AZs.
SucceededIsAnswered ==
  \A d \in Deleters :
    /\ saga[d].status # "none" => targets[d] # {}
    /\ saga[d].status = "succeeded" => targets[d] \subseteq Answered(d)

\* What has been deleted of a name requested once is gone for good.
AnsweredIsRemoved ==
  RequestedOnce => \A d \in Deleters : saga[d].status \in {"running", "succeeded"} =>
    \A a \in Answered(d) : Removed(a)

RowsInv ==
  /\ NotSubmitted /\ CreatedIsCalled /\ WorkIsKnown /\ LateReadsHold
  /\ HandlingIsDue /\ HandlingIsWorked /\ SucceededIsAnswered /\ AnsweredIsRemoved

-----------------------------------------------------------------------------
(* The sagas. *)

\* An AZ that is appended to a saga's answers is added to their set.
LEMMA AppendLemma ==
  ASSUME NEW s \in Seq(AZs), NEW a \in AZs
  PROVE  {Append(s, a)[i] : i \in DOMAIN Append(s, a)} = {s[i] : i \in DOMAIN s} \cup {a}
<1>1. /\ Len(Append(s, a)) = Len(s) + 1
      /\ \A i \in 1..Len(s) : Append(s, a)[i] = s[i]
      /\ Append(s, a)[Len(s) + 1] = a
      /\ Append(s, a) \in Seq(AZs)
  BY AppendProperties
<1>2. DOMAIN Append(s, a) = 1..(Len(s) + 1) /\ DOMAIN s = 1..Len(s) /\ Len(s) \in Nat
  BY <1>1, LenProperties
<1>3. \A i \in 1..(Len(s) + 1) : i \in 1..Len(s) \/ i = Len(s) + 1
  BY <1>2
<1>4. 1..Len(s) \subseteq 1..(Len(s) + 1) /\ Len(s) + 1 \in 1..(Len(s) + 1)
  BY <1>2
<1> QED BY <1>1, <1>2, <1>3, <1>4

\* A step of a saga, or its refusal, takes nothing back from a saga that goes forward.
LEMMA SagaStepLemma ==
  ASSUME SagaPart, NEW p \in Requests, NEW a \in AZs, StepDone(p, a) \/ StepRefused(p)
  PROVE  /\ \A q \in Requests \ {p} : saga'[q] = saga[q]
         /\ saga'[p].status = "none" <=> saga[p].status = "none"
         /\ saga'[p].status = "running" =>
              saga[p].status = "running" /\ Answered(p)' = Answered(p) \cup {a} /\ StepDone(p, a)
         /\ saga'[p].status = "succeeded" =>
              \/ saga[p].status = "succeeded"
              \/ /\ saga[p].status = "running" /\ Waiting(p) = {a} /\ StepDone(p, a)
                 /\ Answered(p)' = Answered(p) \cup {a}
<1>1. saga \in [Requests -> [status : SagaStatuses, answered : Seq(AZs)]]
  BY DEF SagaPart
<1>2. CASE saga[p].status = "running" /\ StepAnswers(p, a) /\ StepDone(p, a)
  <2>1. \A q \in Requests \ {p} : saga'[q] = saga[q]
    BY <1>1, <1>2 DEF StepAnswers
  <2>2. /\ saga'[p].answered = Append(saga[p].answered, a)
        /\ saga'[p].status = IF Waiting(p) = {a} THEN "succeeded" ELSE "running"
    BY <1>1, <1>2 DEF StepAnswers
  <2>3. Answered(p)' = Answered(p) \cup {a}
    <3>1. saga[p].answered \in Seq(AZs)
      BY <1>1
    <3>2. Answered(p)' = {saga'[p].answered[i] : i \in DOMAIN saga'[p].answered}
      BY DEF Answered
    <3>3. Answered(p) = {saga[p].answered[i] : i \in DOMAIN saga[p].answered}
      BY DEF Answered
    <3> DEFINE S == saga[p].answered
               T == saga'[p].answered
    <3>4. {Append(S, a)[i] : i \in DOMAIN Append(S, a)} = {S[i] : i \in DOMAIN S} \cup {a}
      BY <3>1, AppendLemma
    <3>5. T = Append(S, a)
      BY <2>2
    <3> HIDE DEF S, T
    <3>6. {T[i] : i \in DOMAIN T} = {S[i] : i \in DOMAIN S} \cup {a}
      BY <3>4, <3>5
    <3> QED BY <3>2, <3>3, <3>6 DEF S, T
  <2> QED BY <1>2, <2>1, <2>2, <2>3
<1>3. CASE saga[p].status # "running" /\ Compensated(p)
  BY <1>1, <1>3 DEF Compensated
<1>4. CASE saga[p].status = "running" /\ saga' = [saga EXCEPT ![p].status = "compensating"]
  BY <1>1, <1>4
<1> QED BY <1>2, <1>3, <1>4 DEF StepDone, StepRefused

\* An AZ that a create request has called stays called.
LEMMA CalledLemma ==
  ASSUME SagaPart, NEW p \in Requests, NEW b \in AZs, StepDone(p, b) \/ StepRefused(p),
         NEW c \in Creators, NEW a \in AZs, Called(c, a)
  PROVE  Called(c, a)'
<1>1. c \in Requests
  BY DEF Requests
<1>2. CASE c = p
  BY <1>2, SagaStepLemma DEF Called
<1>3. CASE c # p
  <2>1. saga'[c] = saga[c]
    BY <1>1, <1>3, SagaStepLemma
  <2> QED BY <2>1 DEF Called, Answered
<1> QED BY <1>2, <1>3

-----------------------------------------------------------------------------
(* The AZs' workflows, replays and loops. *)

\* An update by id, or none, changes no id and only the row of its id.
LEMMA UpdateEffectLemma ==
  ASSUME AZTypes, NEW a \in AZs, NEW id, NEW status,
         UpdateById(a, id, status) \/ UNCHANGED az
  PROVE  \A b \in AZs :
           /\ az'[b].id = az[b].id
           /\ \/ az'[b] = az[b]
              \/ b = a /\ az[a].id = id /\ az'[a].status = status
<1>1. CASE az[a].id = id /\ UpdateById(a, id, status)
  <2>1. \A b \in AZs : az'[b] = IF b = a THEN [status |-> status, id |-> id] ELSE az[b]
    BY <1>1 DEF UpdateById, SetAZ, AZTypes
  <2> QED BY <1>1, <2>1
<1>2. CASE UNCHANGED az
  BY <1>2
<1> QED BY <1>1, <1>2 DEF UpdateById

\* What a move of an AZ does to its rows and its workflows.
azEffect ==
  /\ \A a \in AZs :
       /\ az'[a].id = az[a].id
       /\ az[a].status = "running" /\ az'[a].status # "running" => Overtaken(a) /\ ~Undisturbed
  /\ \A c \in Creators, a \in AZs : work'[c][a] # "none" <=> work[c][a] # "none"
  /\ WorkIsKnown' /\ LateReadsHold'

\* The end of a workflow: a row that worked is one whose task was queued again.
LEMMA EndEffectLemma ==
  ASSUME AZTypes, WorkPart, WorkIsKnown, LateReadsHold,
         NEW c \in Creators, NEW a \in AZs, WorkflowEnds(c, a)
  PROVE  azEffect
<1>1. PICK w \in {"done", "failed"} :
        /\ work' = [work EXCEPT ![c][a] = w]
        /\ UpdateById(a, c, IF w = "done" THEN "running" ELSE "failed")
  BY DEF WorkflowEnds
<1>2. /\ \A d \in Creators, b \in AZs : work'[d][b] = IF d = c /\ b = a THEN w ELSE work[d][b]
      /\ work[c][a] = "active" /\ UNCHANGED <<replay, loop>>
  BY <1>1 DEF WorkflowEnds, WorkPart, background
<1>3. \A b \in AZs :
        /\ az'[b].id = az[b].id
        /\ \/ az'[b] = az[b]
           \/ /\ b = a /\ az[a].id = c
              /\ az'[a].status = IF w = "done" THEN "running" ELSE "failed"
  BY <1>1, UpdateEffectLemma
<1>4. \A b \in AZs : az[b].id = NoId <=> az[b].status = "absent"
  BY DEF AZTypes
<1>5. \A b \in AZs : az[b].id \in Creators \cup {NoId}
  BY DEF AZTypes
<1>6. \A b \in AZs : loop[b].verdict # "none" => loop[b].id \in Creators
  BY ListingLemma
<1>7. \A r \in Replayers : replay[r].at # "idle" => replay[r].id \in Creators /\ replay[r].az \in AZs
  BY DEF WorkPart
<1>8. \A b \in AZs :
        az[b].status = "running" /\ az'[b].status # "running" => Overtaken(b) /\ ~Undisturbed
  BY <1>2, <1>3 DEF Overtaken, LateReadsHold
<1>9. WorkIsKnown'
  BY <1>1, <1>2, <1>3, <1>4, <1>5, <1>6, <1>7 DEF WorkIsKnown
<1>10. LateReadsHold'
  BY <1>1, <1>2, <1>3, <1>4, <1>5, <1>6 DEF LateReadsHold, Undisturbed
<1> QED BY <1>1, <1>2, <1>3, <1>8, <1>9, <1>10 DEF azEffect

\* A replay: the row it resets may work by now.
LEMMA ReplayEffectLemma ==
  ASSUME AZTypes, WorkPart, WorkIsKnown, LateReadsHold, NEW r \in Replayers, Replays(r)
  PROVE  azEffect
<1>1. ~Undisturbed /\ LateReadsHold'
  BY DEF Undisturbed, LateReadsHold
<1>2. \A q \in Replayers : replay[q].at # "idle" => replay[q].id \in Creators /\ replay[q].az \in AZs
  BY DEF WorkPart
<1>3. \A q \in Replayers :
        replay[q] \in [at : Places, az : AZs \cup {NoId}, id : Creators \cup {NoId}]
  BY DEF WorkPart
<1>4. ASSUME NEW c \in Creators, NEW a \in AZs, ReplayChecks(r, c, a)
      PROVE  azEffect
  <2>1. \A q \in Replayers :
          replay'[q] = IF q = r THEN [at |-> "reset", az |-> a, id |-> c] ELSE replay[q]
    BY <1>4 DEF ReplayChecks, WorkPart
  <2>2. UNCHANGED <<az, work, loop>> /\ work[c][a] = "failed"
    BY <1>4 DEF ReplayChecks
  <2>3. WorkIsKnown'
    BY <2>1, <2>2 DEF WorkIsKnown
  <2> QED BY <1>1, <2>2, <2>3 DEF azEffect
<1>5. ASSUME ReplayResets(r)
      PROVE  azEffect
  <2>1. UNCHANGED <<work, loop>> /\ replay[r].at = "reset"
    BY <1>5 DEF ReplayResets
  <2>2. \A b \in AZs :
          /\ az'[b].id = az[b].id
          /\ \/ az'[b] = az[b]
             \/ b = replay[r].az /\ az[b].id = replay[r].id /\ az'[b].status = "creating"
    BY <1>2, <1>5, <2>1, UpdateEffectLemma DEF ReplayResets
  <2>3. \A q \in Replayers :
          replay'[q].at # "idle" => /\ replay[q].at # "idle"
                                    /\ replay'[q].id = replay[q].id /\ replay'[q].az = replay[q].az
    BY <1>5, <2>1 DEF ReplayResets, NoReplay, WorkPart
  <2>4. WorkIsKnown'
    BY <2>1, <2>2, <2>3 DEF WorkIsKnown
  <2>5. ASSUME NEW b \in AZs, az[b].status = "running", az'[b].status # "running"
        PROVE  Overtaken(b)
    <3>1. replay[r] = [at |-> "reset", az |-> b, id |-> az[b].id]
      BY <1>3, <2>1, <2>2, <2>5
    <3> QED BY <3>1 DEF Overtaken
  <2> QED BY <1>1, <2>1, <2>2, <2>4, <2>5 DEF azEffect
<1>6. ASSUME ReplayRequeues(r)
      PROVE  azEffect
  <2>1. UNCHANGED <<az, loop>> /\ replay[r].at # "idle"
    BY <1>6 DEF ReplayRequeues
  <2>2. replay[r].id \in Creators /\ replay[r].az \in AZs /\ work[replay[r].id][replay[r].az] # "none"
    BY <1>2, <2>1 DEF WorkIsKnown
  <2>3. \A c \in Creators, a \in AZs : work'[c][a] # "none" <=> work[c][a] # "none"
    <3>1. \/ work' = work
          \/ work' = [work EXCEPT ![replay[r].id][replay[r].az] = "active"]
      BY <1>6 DEF ReplayRequeues
    <3>2. work \in [Creators -> [AZs -> WorkStatuses]]
      BY DEF WorkPart
    <3> QED BY <2>2, <3>1, <3>2
  <2>4. \A q \in Replayers : replay'[q].at # "idle" => replay'[q] = replay[q]
    BY <1>6 DEF ReplayRequeues, NoReplay, WorkPart
  <2>5. \A b \in AZs : az[b].status = "running" => az[b].id \in Creators
    BY DEF AZTypes
  <2>6. \A b \in AZs : loop[b].verdict # "none" => loop[b].id \in Creators
    BY ListingLemma
  <2>7. WorkIsKnown'
    BY <1>2, <2>1, <2>3, <2>4, <2>5, <2>6 DEF WorkIsKnown
  <2> QED BY <1>1, <2>1, <2>3, <2>7 DEF azEffect
<1> QED BY <1>4, <1>5, <1>6 DEF Replays

\* A loop: its verdict may be of an earlier state.
LEMMA LoopEffectLemma ==
  ASSUME AZTypes, WorkPart, WorkIsKnown, LateReadsHold, NEW a \in AZs, Loops(a)
  PROVE  azEffect
<1>1. /\ loop \in [AZs -> [id : Creators \cup {NoId}, verdict : Verdicts]]
      /\ UNCHANGED <<work, replay>>
  BY DEF Loops, LoopLists, LoopJudges, LoopWrites, WorkPart
<1>2. CASE LoopLists(a) \/ LoopJudges(a)
  <2>1. UNCHANGED az
    BY <1>2 DEF LoopLists, LoopJudges
  <2>2. \A b \in AZs : loop'[b].verdict # "none" =>
          \/ loop'[b] = loop[b]
          \/ /\ b = a /\ loop'[a].id = loop[a].id
             /\ \/ loop'[a].verdict = "running" /\ work[loop[a].id][a] = "done"
                \/ loop'[a].verdict = "failed" /\ (work[loop[a].id][a] = "failed" \/ TimeoutsFire)
    BY <1>1, <1>2 DEF LoopLists, LoopJudges, NoListing
  <2>3. WorkIsKnown' /\ LateReadsHold'
    BY <1>1, <2>1, <2>2 DEF WorkIsKnown, LateReadsHold, Undisturbed
  <2> QED BY <1>1, <2>1, <2>3 DEF azEffect
<1>3. CASE LoopWrites(a)
  <2>1. loop[a].verdict \in {"running", "failed"}
    BY <1>1, <1>3 DEF LoopWrites, Verdicts
  <2>2. \A b \in AZs :
          /\ az'[b].id = az[b].id
          /\ \/ az'[b] = az[b]
             \/ b = a /\ az[a].id = loop[a].id /\ az'[a].status = loop[a].verdict
    BY <1>3, UpdateEffectLemma DEF LoopWrites
  <2>3. \A b \in AZs : loop'[b].verdict # "none" => loop'[b] = loop[b]
    BY <1>1, <1>3 DEF LoopWrites, NoListing
  <2>4. WorkIsKnown' /\ LateReadsHold'
    BY <1>1, <2>1, <2>2, <2>3 DEF WorkIsKnown, LateReadsHold, Undisturbed
  <2>5. ASSUME NEW b \in AZs, az[b].status = "running", az'[b].status # "running"
        PROVE  Overtaken(b) /\ ~Undisturbed
    <3>1. b = a /\ loop[a].id = az[a].id /\ loop[a].verdict = "failed"
      BY <2>1, <2>2, <2>5
    <3>2. loop[a] = [id |-> az[a].id, verdict |-> "failed"]
      BY <1>1, <3>1
    <3> QED BY <2>5, <3>1, <3>2 DEF Overtaken, LateReadsHold
  <2> QED BY <1>1, <2>2, <2>4, <2>5 DEF azEffect
<1> QED BY <1>2, <1>3 DEF Loops

\* They change no id, and take a row that works only by what was decided before.
LEMMA AZEffectLemma ==
  ASSUME PccnInv, RowsInv, AZMoves
  PROVE  azEffect /\ UNCHANGED restOfAZ
<1>1. AZPart /\ AZTypes /\ WorkPart /\ WorkIsKnown /\ LateReadsHold
  BY DEF PccnInv, AZPart, RowsInv
<1>2. UNCHANGED restOfAZ
  BY <1>1, AZMovesLemma
<1> QED BY <1>1, <1>2, EndEffectLemma, ReplayEffectLemma, LoopEffectLemma DEF AZMoves

\* They keep the invariant.
LEMMA AZRowsLemma ==
  ASSUME PccnInv, PccnInv', RowsInv, AZMoves
  PROVE  RowsInv'
<1>1. /\ UNCHANGED <<saga, handling, pc, targets>>
      /\ \A a \in AZs : az'[a].id = az[a].id
      /\ \A c \in Creators, a \in AZs : work'[c][a] # "none" <=> work[c][a] # "none"
      /\ WorkIsKnown' /\ LateReadsHold'
  BY AZEffectLemma DEF restOfAZ, sagaVars, azEffect
<1>2. \A a \in AZs : az'[a].status = "absent" <=> az[a].status = "absent"
  BY <1>1 DEF PccnInv, AZPart, AZTypes
<1>3. \A a \in AZs : (Worked(a)' <=> Worked(a)) /\ (Removed(a)' <=> Removed(a))
  BY <1>1, <1>2 DEF Worked, Removed
<1>4. NotSubmitted' /\ CreatedIsCalled'
  BY <1>1 DEF RowsInv, NotSubmitted, CreatedIsCalled, Called, Answered
<1>5. HandlingIsDue'
  BY <1>1 DEF RowsInv, HandlingIsDue, Deletes, Current, Waiting, Answered
<1>6. HandlingIsWorked'
  BY <1>1, <1>3 DEF RowsInv, HandlingIsWorked, HandlingIsDue, Deletes, Current, PccnInv, SagaPart
<1>7. SucceededIsAnswered'
  BY <1>1 DEF RowsInv, SucceededIsAnswered, Answered
<1>8. AnsweredIsRemoved'
  <2>1. RequestedOnce' => RequestedOnce
    BY <1>1 DEF RequestedOnce
  <2>2. ASSUME NEW d \in Deleters PROVE Answered(d)' = Answered(d) /\ Answered(d) \subseteq AZs
    BY <1>1 DEF Answered, PccnInv, SagaPart, Requests
  <2> QED BY <1>1, <1>3, <2>1, <2>2 DEF RowsInv, AnsweredIsRemoved
<1> QED BY <1>1, <1>4, <1>5, <1>6, <1>7, <1>8 DEF RowsInv

-----------------------------------------------------------------------------
(* The sagas' calls. *)

\* A create leaves a row that works, is created or deleted as it is, unless it is its own.
LEMMA CreateEffectLemma ==
  ASSUME PccnInv, RowsInv, NEW c \in Creators, NEW a \in AZs, CreateStep(c, a)
  PROVE  /\ saga[c].status = "running" /\ a \notin Answered(c) /\ ~Called(c, a)
         /\ az[a].id # c /\ work[c][a] = "none"
         /\ \A b \in AZs \ {a} : az'[b] = az[b]
         /\ \/ az'[a] = az[a]
            \/ /\ az[a].status \in {"absent", "pending", "failed"}
               /\ az'[a].status \in {"pending", "creating", "failed"}
               /\ az'[a].id \in {az[a].id, c}
         /\ \A d \in Creators, b \in AZs : <<d, b>> # <<c, a>> => work'[d][b] = work[d][b]
         /\ UNCHANGED <<replay, loop>>
<1>1. saga[c].status = "running" /\ a \notin Answered(c)
  BY DEF CreateStep, Waiting
<1>2. ~Called(c, a)
  BY <1>1 DEF Called
<1>3. az[a].id # c /\ work[c][a] = "none"
  BY <1>2 DEF RowsInv, CreatedIsCalled
<1>4. /\ az \in [AZs -> [status : AZStatuses, id : Creators \cup {NoId}]]
      /\ work \in [Creators -> [AZs -> WorkStatuses]]
  BY DEF PccnInv, AZPart, AZTypes, WorkPart
<1>5. /\ az' = az \/ \E st \in {"pending", "creating", "failed"} : PutRow(a, c, st)
      /\ work' = work \/ \E w \in {"active", "failed"} : work' = [work EXCEPT ![c][a] = w]
      /\ UNCHANGED <<replay, loop>>
  BY DEF CreateStep, AZCreates, AZCreateFails, azVars, background
<1>6. \A d \in Creators, b \in AZs : <<d, b>> # <<c, a>> => work'[d][b] = work[d][b]
  BY <1>4, <1>5
<1>7. ASSUME NEW st \in {"pending", "creating", "failed"}, PutRow(a, c, st)
      PROVE  /\ \A b \in AZs \ {a} : az'[b] = az[b]
             /\ \/ az'[a] = az[a]
                \/ /\ az[a].status \in {"absent", "pending", "failed"}
                   /\ az'[a].status \in {"pending", "creating", "failed"}
                   /\ az'[a].id \in {az[a].id, c}
  <2> DEFINE new == Upsert(a, c)
  <2>1. SetAZ(a, IF new.id = c THEN st ELSE new.status, new.id)
    BY <1>7 DEF PutRow
  <2>2. \A b \in AZs : az'[b] = IF b = a THEN [status |-> IF new.id = c THEN st ELSE new.status,
                                               id |-> new.id] ELSE az[b]
    BY <1>4, <2>1 DEF SetAZ
  <2>3. CASE az[a].status = "absent"
    <3>1. new = [status |-> "pending", id |-> c]
      BY <2>3 DEF Upsert
    <3> QED BY <2>2, <2>3, <3>1
  <2>4. CASE az[a].status \in {"pending", "failed"}
    <3>1. new = [status |-> "pending", id |-> az[a].id]
      BY <1>4, <2>4 DEF Upsert
    <3> QED BY <1>3, <2>2, <2>4, <3>1
  <2>5. CASE az[a].status \notin {"absent", "pending", "failed"}
    <3>1. new = az[a]
      BY <2>5 DEF Upsert
    <3> QED BY <1>3, <1>4, <2>2, <3>1
  <2> QED BY <2>3, <2>4, <2>5
<1> QED BY <1>1, <1>2, <1>3, <1>5, <1>6, <1>7

\* POST /api/v1/pccn keeps the invariant: what was deleted of a name requested once is
\* not created again, for the request has been there.
LEMMA CreateRowsLemma ==
  ASSUME PccnInv, PccnInv', RowsInv, NEW c \in Creators, NEW a \in AZs, CreateStep(c, a)
  PROVE  RowsInv'
<1>1. /\ saga[c].status = "running" /\ a \notin Answered(c) /\ ~Called(c, a)
      /\ az[a].id # c /\ work[c][a] = "none"
      /\ \A b \in AZs \ {a} : az'[b] = az[b]
      /\ \/ az'[a] = az[a]
         \/ /\ az[a].status \in {"absent", "pending", "failed"}
            /\ az'[a].status \in {"pending", "creating", "failed"}
            /\ az'[a].id \in {az[a].id, c}
      /\ \A d \in Creators, b \in AZs : <<d, b>> # <<c, a>> => work'[d][b] = work[d][b]
      /\ UNCHANGED <<replay, loop>>
  BY CreateEffectLemma
<1>2. c \in Requests /\ c \notin Deleters /\ Deleters \subseteq Requests /\ Creators \subseteq Requests
  BY PccnAssumption DEF Requests
<1>3. UNCHANGED <<handling, pc, targets>> /\ (StepDone(c, a) \/ StepRefused(c)) /\ SagaPart
  BY DEF CreateStep, StepDone, PccnInv
<1>4. /\ \A q \in Requests \ {c} : saga'[q] = saga[q]
      /\ saga'[c].status = "none" <=> saga[c].status = "none"
      /\ saga'[c].status = "running" => Answered(c)' = Answered(c) \cup {a}
  BY <1>2, <1>3, SagaStepLemma
<1>5. NotSubmitted'
  BY <1>3, <1>4 DEF RowsInv, NotSubmitted
<1>6. CreatedIsCalled'
  <2>1. Called(c, a)'
    BY <1>1, <1>4 DEF Called
  <2>2. \A d \in Creators, b \in AZs : Called(d, b) => Called(d, b)'
    BY <1>2, <1>3, CalledLemma
  <2>3. ASSUME NEW d \in Creators, NEW b \in AZs, az'[b].id = d \/ work'[d][b] # "none"
        PROVE  <<d, b>> = <<c, a>> \/ az[b].id = d \/ work[d][b] # "none"
    BY <1>1, <2>3
  <2> QED BY <2>1, <2>2, <2>3 DEF RowsInv, CreatedIsCalled
<1>7. WorkIsKnown' /\ LateReadsHold'
  <2>1. \A b \in AZs : az'[b].status = "running" => az'[b] = az[b] /\ az[b].id \in Creators
    BY <1>1 DEF PccnInv, AZPart, AZTypes
  <2>2. \A b \in AZs : loop[b].verdict # "none" => loop[b].id \in Creators
    BY ListingLemma DEF PccnInv
  <2>3. \A r \in Replayers : replay[r].at # "idle" => replay[r].id \in Creators /\ replay[r].az \in AZs
    BY DEF PccnInv, WorkPart
  <2>4. \A d \in Creators, b \in AZs : work[d][b] # "none" => work'[d][b] = work[d][b]
    BY <1>1
  <2> QED BY <1>1, <2>1, <2>2, <2>3, <2>4 DEF RowsInv, WorkIsKnown, LateReadsHold
<1>8. HandlingIsDue'
  <2>1. handling[c].az = NoId
    BY <1>1, <1>2 DEF RowsInv, HandlingIsDue, Deletes
  <2> QED BY <1>3, <1>4, <2>1 DEF RowsInv, HandlingIsDue, Deletes, Current, Waiting, Answered
<1>9. \A b \in AZs : Worked(b) => Worked(b)'
  BY <1>1 DEF Worked
<1>10. HandlingIsWorked'
  BY <1>3, <1>9 DEF RowsInv, HandlingIsWorked, PccnInv, SagaPart
<1>11. SucceededIsAnswered'
  BY <1>2, <1>3, <1>4 DEF RowsInv, SucceededIsAnswered, Answered
<1>12. AnsweredIsRemoved'
  <2> SUFFICES ASSUME RequestedOnce', NEW d \in Deleters, saga'[d].status \in {"running", "succeeded"},
                      NEW b \in Answered(d)'
               PROVE  Removed(b)'
    BY DEF AnsweredIsRemoved
  <2>1. saga'[d] = saga[d] /\ Answered(d)' = Answered(d) /\ Answered(d) \subseteq AZs
    <3>1. saga'[d] = saga[d]
      BY <1>2, <1>4
    <3>2. saga[d].answered \in Seq(AZs)
      BY <1>2, <1>3 DEF SagaPart
    <3> QED BY <3>1, <3>2 DEF Answered
  <2>2. RequestedOnce
    BY <1>3 DEF RequestedOnce
  <2>3. Removed(b) /\ b \in AZs
    BY <2>1, <2>2 DEF RowsInv, AnsweredIsRemoved
  <2>4. PICK e \in Creators : work[e][b] # "none"
    BY <2>3 DEF Removed, Worked
  <2>5. Called(e, b)
    BY <2>3, <2>4 DEF RowsInv, CreatedIsCalled
  <2>6. pc[e] # "request" /\ pc[c] # "request"
    BY <1>1, <1>2, <2>5 DEF Called, RowsInv, NotSubmitted, Fresh
  <2>7. e = c
    BY <2>2, <2>6 DEF RequestedOnce
  <2>8. b # a
    BY <1>1, <2>5, <2>7
  <2> QED BY <1>1, <1>9, <2>3, <2>8 DEF Removed
<1> QED BY <1>5, <1>6, <1>7, <1>8, <1>10, <1>11, <1>12 DEF RowsInv

\* The check of a DELETE handler keeps the invariant.
LEMMA CheckRowsLemma ==
  ASSUME PccnInv, PccnInv', RowsInv, NEW p \in Requests, NEW a \in AZs, DeleteCheck(p, a)
  PROVE  RowsInv'
<1>1. /\ UNCHANGED <<az, work, replay, loop, pc, targets>>
      /\ handling[p].az = NoId /\ Deletes(p, a)
  BY DEF DeleteCheck, azVars, background
<1>2. Deleters \subseteq Requests /\ Creators \subseteq Requests
  BY DEF Requests
<1>3. SagaPart /\ WorkPart /\ AZTypes
  BY DEF PccnInv, AZPart
<1>4. \A b \in AZs : (Worked(b) <=> Worked(b)') /\ (Removed(b) <=> Removed(b)')
  BY <1>1 DEF Worked, Removed
<1>5. RequestedOnce' <=> RequestedOnce
  BY <1>1 DEF RequestedOnce
<1>6. CASE Deletable(a) /\ handling' = [handling EXCEPT ![p] = [az |-> a, id |-> az[a].id]] /\ UNCHANGED saga
  <2>1. Worked(a)
    <3>1. az[a].status = "running" /\ az[a].id \in Creators
      BY <1>3, <1>6 DEF Deletable, AZTypes
    <3>2. work[az[a].id][a] # "none"
      BY <3>1 DEF RowsInv, WorkIsKnown
    <3> QED BY <3>1, <3>2 DEF Worked
  <2>2. \A q \in Requests : handling'[q].az = IF q = p THEN a ELSE handling[q].az
    BY <1>3, <1>6 DEF SagaPart
  <2>3. \A q \in Requests, b \in AZs : (Deletes(q, b) <=> Deletes(q, b)') /\ Answered(q)' = Answered(q)
    BY <1>1, <1>6 DEF Deletes, Current, Waiting, Answered
  <2>4. HandlingIsDue' /\ HandlingIsWorked'
    BY <1>1, <1>3, <1>4, <2>1, <2>2, <2>3 DEF RowsInv, HandlingIsDue, HandlingIsWorked, SagaPart
  <2>5. /\ NotSubmitted' /\ CreatedIsCalled' /\ WorkIsKnown' /\ LateReadsHold'
        /\ SucceededIsAnswered' /\ AnsweredIsRemoved'
    <3>1. \A q \in Requests : Answered(q) \subseteq AZs
      BY <1>3 DEF SagaPart, Answered
    <3> QED BY <1>1, <1>2, <1>4, <1>5, <1>6, <2>3, <3>1 DEF RowsInv, NotSubmitted, CreatedIsCalled, Called,
              WorkIsKnown, LateReadsHold, SucceededIsAnswered, AnsweredIsRemoved
  <2> QED BY <2>4, <2>5 DEF RowsInv
<1>7. CASE StepRefused(p) /\ UNCHANGED handling
  <2>1. /\ \A q \in Requests \ {p} : saga'[q] = saga[q]
        /\ saga'[p].status = "none" <=> saga[p].status = "none"
    BY <1>3, <1>7, SagaStepLemma
  <2>2. saga[p].status \in {"running", "compensating"} /\ saga'[p].status \notin {"running", "succeeded"}
    BY <1>1, <1>3, <1>7 DEF Deletes, Current, StepRefused, Compensated, SagaPart
  <2>3. HandlingIsDue' /\ HandlingIsWorked'
    BY <1>1, <1>3, <1>4, <1>7, <2>1 DEF RowsInv, HandlingIsDue, HandlingIsWorked, SagaPart,
       Deletes, Current, Waiting, Answered
  <2>4. NotSubmitted' /\ WorkIsKnown' /\ LateReadsHold'
    BY <1>1, <2>1 DEF RowsInv, NotSubmitted, WorkIsKnown, LateReadsHold
  <2>5. CreatedIsCalled'
    BY <1>1, <1>3, <1>7, CalledLemma DEF RowsInv, CreatedIsCalled
  <2>6. SucceededIsAnswered'
    BY <1>1, <1>2, <2>1, <2>2 DEF RowsInv, SucceededIsAnswered, Answered
  <2>7. AnsweredIsRemoved'
    <3>1. \A q \in Requests : Answered(q) \subseteq AZs
      BY <1>3 DEF SagaPart, Answered
    <3> QED BY <1>2, <1>4, <1>5, <2>1, <2>2, <3>1 DEF RowsInv, AnsweredIsRemoved, Answered
  <2> QED BY <2>3, <2>4, <2>5, <2>6, <2>7 DEF RowsInv
<1> QED BY <1>6, <1>7 DEF DeleteCheck

\* The writes of a DELETE handler keep the invariant: the AZ it adds to the answers of
\* its saga has no row any more.
LEMMA WritesRowsLemma ==
  ASSUME PccnInv, PccnInv', RowsInv, NEW p \in Requests, NEW a \in AZs, DeleteWrites(p, a)
  PROVE  RowsInv'
<1>1. /\ UNCHANGED <<work, replay, loop, pc, targets>> /\ handling[p].az = a
      /\ handling' = [handling EXCEPT ![p] = [az |-> NoId, id |-> NoId]]
      /\ StepDone(p, a) \/ StepRefused(p)
  BY DEF DeleteWrites, background
<1>2. Deleters \subseteq Requests /\ Creators \subseteq Requests /\ NoId \notin AZs \cup Creators
  BY PccnAssumption DEF Requests
<1>3. SagaPart /\ WorkPart /\ AZTypes
  BY DEF PccnInv, AZPart
<1>4. Worked(a) /\ Deletes(p, a)
  BY <1>1, <1>2 DEF RowsInv, HandlingIsDue, HandlingIsWorked
<1>5. saga[p].status \in {"running", "compensating"} /\ (saga[p].status = "running" => p \in Deleters)
  BY <1>4 DEF Deletes, Current
<1>6. /\ \A b \in AZs \ {a} : az'[b] = az[b]
      /\ \/ az'[a] = az[a]
         \/ az'[a].status = "absent" /\ az'[a].id = NoId
         \/ az'[a].status = "deleting" /\ az'[a].id = az[a].id /\ az[a].status # "absent"
      /\ StepDone(p, a) /\ saga[p].status = "running" => az'[a].status = "absent"
  <2>1. handling[p].id # NoId
    BY <1>1, <1>2, <1>3 DEF SagaPart
  <2>2. CASE SetAZ(a, "absent", NoId)
    BY <1>3, <2>2 DEF SetAZ, AZTypes
  <2>3. CASE StepRefused(p) /\ (UNCHANGED az \/ UpdateById(a, handling[p].id, "deleting"))
    <3>1. ~(StepDone(p, a) /\ saga[p].status = "running")
      <4>1. ASSUME saga[p].status = "running", StepDone(p, a) PROVE FALSE
        <5>1. saga'[p].status = "compensating" /\ saga'[p].status \in {"running", "succeeded"}
          BY <1>3, <2>3, <4>1 DEF StepRefused, StepDone, StepAnswers, SagaPart
        <5> QED BY <5>1
      <4> QED BY <4>1
    <3> QED BY <1>3, <2>1, <2>3, <3>1 DEF UpdateById, SetAZ, AZTypes
  <2> QED BY <2>2, <2>3 DEF DeleteWrites
<1>7. /\ \A q \in Requests \ {p} : saga'[q] = saga[q]
      /\ saga'[p].status = "none" <=> saga[p].status = "none"
      /\ saga'[p].status = "running" =>
           saga[p].status = "running" /\ Answered(p)' = Answered(p) \cup {a} /\ StepDone(p, a)
      /\ saga'[p].status = "succeeded" =>
           /\ saga[p].status = "running" /\ Waiting(p) = {a} /\ StepDone(p, a)
           /\ Answered(p)' = Answered(p) \cup {a}
  BY <1>1, <1>3, <1>5, SagaStepLemma
<1>8. \A q \in Requests : handling'[q].az = IF q = p THEN NoId ELSE handling[q].az
  BY <1>1, <1>3 DEF SagaPart
<1>9. \A b \in AZs : (Worked(b) <=> Worked(b)') /\ (Removed(b) => Removed(b)')
  BY <1>1, <1>6 DEF Worked, Removed
<1>10. NotSubmitted'
  BY <1>1, <1>7 DEF RowsInv, NotSubmitted
<1>11. CreatedIsCalled'
  BY <1>1, <1>2, <1>3, <1>6, CalledLemma DEF RowsInv, CreatedIsCalled
<1>12. WorkIsKnown' /\ LateReadsHold'
  <2>1. \A b \in AZs : az'[b].status = "running" => az'[b] = az[b]
    BY <1>6
  <2> QED BY <1>1, <2>1 DEF RowsInv, WorkIsKnown, LateReadsHold
<1>13. HandlingIsDue' /\ HandlingIsWorked'
  BY <1>1, <1>3, <1>7, <1>8, <1>9 DEF RowsInv, HandlingIsDue, HandlingIsWorked, SagaPart,
     Deletes, Current, Waiting, Answered
<1>14. ASSUME NEW d \in Deleters, d # p
       PROVE  saga'[d] = saga[d] /\ Answered(d)' = Answered(d)
  BY <1>2, <1>7, <1>14 DEF Answered
<1>15. SucceededIsAnswered'
  <2>1. ASSUME NEW d \in Deleters, saga'[d].status = "succeeded"
        PROVE  targets'[d] \subseteq Answered(d)'
    <3>1. CASE d = p
      BY <1>1, <1>7, <2>1, <3>1 DEF Waiting
    <3>2. CASE d # p
      BY <1>1, <1>14, <2>1, <3>2 DEF RowsInv, SucceededIsAnswered
    <3> QED BY <3>1, <3>2
  <2>2. ASSUME NEW d \in Deleters, saga'[d].status # "none"
        PROVE  targets'[d] # {}
    BY <1>1, <1>7, <1>14, <2>2 DEF RowsInv, SucceededIsAnswered
  <2> QED BY <2>1, <2>2 DEF SucceededIsAnswered
<1>16. AnsweredIsRemoved'
  <2> SUFFICES ASSUME RequestedOnce', NEW d \in Deleters, saga'[d].status \in {"running", "succeeded"},
                      NEW b \in Answered(d)'
               PROVE  Removed(b)'
    BY DEF AnsweredIsRemoved
  <2>1. RequestedOnce
    BY <1>1 DEF RequestedOnce
  <2>2. \A q \in Requests : Answered(q) \subseteq AZs
    BY <1>3 DEF SagaPart, Answered
  <2>3. CASE d = p
    <3>1. saga[p].status = "running" /\ Answered(p)' = Answered(p) \cup {a} /\ StepDone(p, a)
      BY <1>7, <2>3
    <3>2. Removed(a)'
      BY <1>4, <1>6, <1>9, <3>1 DEF Removed
    <3> QED BY <1>2, <1>9, <2>1, <2>2, <2>3, <3>1, <3>2 DEF RowsInv, AnsweredIsRemoved
  <2>4. CASE d # p
    BY <1>2, <1>9, <1>14, <2>1, <2>2, <2>4 DEF RowsInv, AnsweredIsRemoved
  <2> QED BY <2>3, <2>4
<1> QED BY <1>10, <1>11, <1>12, <1>13, <1>15, <1>16 DEF RowsInv

\* A saga that fails had nothing left to take back.
LEMMA FailsRowsLemma ==
  ASSUME PccnInv, PccnInv', RowsInv, NEW p \in Requests, SagaFails(p)
  PROVE  RowsInv'
<1>1. /\ UNCHANGED <<az, work, replay, loop, handling, pc, targets>>
      /\ saga[p].status = "compensating" /\ saga[p].answered = <<>>
      /\ saga' = [saga EXCEPT ![p].status = "failed"]
  BY DEF SagaFails, azVars, background
<1>2. Deleters \subseteq Requests /\ Creators \subseteq Requests
  BY DEF Requests
<1>3. SagaPart
  BY DEF PccnInv
<1>4. /\ \A q \in Requests \ {p} : saga'[q] = saga[q]
      /\ saga'[p].status = "failed"
  BY <1>1, <1>3 DEF SagaPart
<1>5. \A b \in AZs : (Worked(b) <=> Worked(b)') /\ (Removed(b) <=> Removed(b)')
  BY <1>1 DEF Worked, Removed
<1>6. NotSubmitted' /\ WorkIsKnown' /\ LateReadsHold' /\ SucceededIsAnswered'
  BY <1>1, <1>2, <1>4 DEF RowsInv, NotSubmitted, WorkIsKnown, LateReadsHold, SucceededIsAnswered,
                          Answered
<1>7. CreatedIsCalled'
  BY <1>1, <1>2, <1>4 DEF RowsInv, CreatedIsCalled, Called, Answered
<1>8. HandlingIsDue' /\ HandlingIsWorked'
  <2>1. handling[p].az = NoId
    BY <1>1 DEF RowsInv, HandlingIsDue, Deletes, Current
  <2> QED BY <1>1, <1>3, <1>4, <1>5, <2>1 DEF RowsInv, HandlingIsDue, HandlingIsWorked, SagaPart,
       Deletes, Current, Waiting, Answered
<1>9. AnsweredIsRemoved'
  <2>1. RequestedOnce' <=> RequestedOnce
    BY <1>1 DEF RequestedOnce
  <2>2. \A q \in Requests : Answered(q) \subseteq AZs
    BY <1>3 DEF SagaPart, Answered
  <2> QED BY <1>2, <1>4, <1>5, <2>1, <2>2 DEF RowsInv, AnsweredIsRemoved, Answered
<1> QED BY <1>6, <1>7, <1>8, <1>9 DEF RowsInv

-----------------------------------------------------------------------------
(* Top NSP's own steps write no row of an AZ. *)

requestsAsBefore == UNCHANGED <<az, work, replay, loop, handling>>

\* A request goes on, or is given its AZs, or submits its saga.
LEMMA TopRowsLemma ==
  ASSUME PccnInv, PccnInv', RowsInv, NEW p \in Requests, requestsAsBefore,
         \A q \in Requests \ {p} : pc'[q] = pc[q] /\ targets'[q] = targets[q],
         pc'[p] = "request" => pc[p] = "request",
         \/ /\ UNCHANGED saga /\ (pc'[p] \in Fresh => pc[p] \in Fresh)
            /\ targets'[p] = targets[p] \/ pc[p] \in Fresh
         \/ /\ saga' = [saga EXCEPT ![p] = [status |-> "running", answered |-> <<>>]]
            /\ pc[p] \in Fresh /\ pc'[p] \notin Fresh
            /\ targets'[p] = targets[p] /\ targets[p] # {}
  PROVE  RowsInv'
<1>1. UNCHANGED <<az, work, replay, loop, handling>>
  BY DEF requestsAsBefore
<1>2. Deleters \subseteq Requests /\ Creators \subseteq Requests
  BY DEF Requests
<1>3. SagaPart /\ \A q \in Requests : Answered(q) \subseteq AZs
  BY DEF PccnInv, SagaPart, Answered
<1>4. \A b \in AZs : (Worked(b) <=> Worked(b)') /\ (Removed(b) <=> Removed(b)')
  BY <1>1 DEF Worked, Removed
<1>5. RequestedOnce' => RequestedOnce
  BY <1>2 DEF RequestedOnce
<1>6. WorkIsKnown' /\ LateReadsHold' /\ HandlingIsWorked'
  BY <1>1, <1>3, <1>4 DEF RowsInv, WorkIsKnown, LateReadsHold, HandlingIsWorked, SagaPart
<1>7. pc[p] \in Fresh => saga[p].status = "none" /\ handling[p].az = NoId
  BY DEF RowsInv, NotSubmitted, HandlingIsDue, Deletes, Current
<1>8. CASE /\ UNCHANGED saga /\ (pc'[p] \in Fresh => pc[p] \in Fresh)
           /\ targets'[p] = targets[p] \/ pc[p] \in Fresh
  <2>1. \A q \in Requests : Answered(q)' = Answered(q)
    BY <1>8 DEF Answered
  <2>2. NotSubmitted' /\ CreatedIsCalled'
    BY <1>1, <1>2, <1>8, <2>1 DEF RowsInv, NotSubmitted, CreatedIsCalled, Called
  <2>3. HandlingIsDue'
    BY <1>1, <1>7, <1>8, <2>1 DEF RowsInv, HandlingIsDue, Deletes, Current, Waiting
  <2>4. SucceededIsAnswered'
    BY <1>2, <1>7, <1>8, <2>1 DEF RowsInv, SucceededIsAnswered
  <2>5. AnsweredIsRemoved'
    BY <1>2, <1>3, <1>4, <1>5, <1>8, <2>1 DEF RowsInv, AnsweredIsRemoved
  <2> QED BY <1>6, <2>2, <2>3, <2>4, <2>5 DEF RowsInv
<1>9. CASE /\ saga' = [saga EXCEPT ![p] = [status |-> "running", answered |-> <<>>]]
           /\ pc[p] \in Fresh /\ pc'[p] \notin Fresh
           /\ targets'[p] = targets[p] /\ targets[p] # {}
  <2>1. /\ saga'[p] = [status |-> "running", answered |-> <<>>]
        /\ \A q \in Requests \ {p} : saga'[q] = saga[q]
    BY <1>3, <1>9 DEF SagaPart
  <2>2. Answered(p)' = {} /\ \A q \in Requests \ {p} : Answered(q)' = Answered(q)
    BY <2>1 DEF Answered
  <2>3. NotSubmitted'
    BY <1>9, <2>1 DEF RowsInv, NotSubmitted
  <2>4. CreatedIsCalled'
    <3>1. ASSUME NEW c \in Creators, NEW a \in AZs, Called(c, a) PROVE Called(c, a)'
      BY <1>2, <1>7, <1>9, <2>1, <2>2, <3>1 DEF Called
    <3> QED BY <1>1, <3>1 DEF RowsInv, CreatedIsCalled
  <2>5. HandlingIsDue'
    BY <1>1, <1>7, <1>9, <2>1, <2>2 DEF RowsInv, HandlingIsDue, Deletes, Current, Waiting
  <2>6. SucceededIsAnswered'
    BY <1>2, <1>9, <2>1, <2>2 DEF RowsInv, SucceededIsAnswered
  <2>7. AnsweredIsRemoved'
    BY <1>2, <1>3, <1>4, <1>5, <2>1, <2>2 DEF RowsInv, AnsweredIsRemoved
  <2> QED BY <1>6, <2>3, <2>4, <2>5, <2>6, <2>7 DEF RowsInv
<1> QED BY <1>8, <1>9

\* A step that is none of a request.
LEMMA SameRowsLemma ==
  ASSUME PccnInv, RowsInv, UNCHANGED <<az, work, replay, loop, handling, saga, pc, targets>>
  PROVE  RowsInv'
<1>1. \A b : (Worked(b) <=> Worked(b)') /\ (Removed(b) <=> Removed(b)')
  BY DEF Worked, Removed
<1>2. \A q : Answered(q)' = Answered(q)
  BY DEF Answered
<1>3. NotSubmitted' /\ CreatedIsCalled' /\ WorkIsKnown' /\ LateReadsHold' /\ SucceededIsAnswered'
  BY <1>2 DEF RowsInv, NotSubmitted, CreatedIsCalled, Called, WorkIsKnown, LateReadsHold,
              SucceededIsAnswered
<1>4. HandlingIsDue' /\ HandlingIsWorked'
  BY <1>1, <1>2 DEF RowsInv, HandlingIsDue, HandlingIsWorked, Deletes, Current, Waiting
<1>5. AnsweredIsRemoved'
  BY <1>1, <1>2 DEF RowsInv, AnsweredIsRemoved, RequestedOnce
<1> QED BY <1>3, <1>4, <1>5 DEF RowsInv

\* The steps of CreatePCCN and of its goroutine.
LEMMA CreatorRowsLemma ==
  ASSUME PccnInv, PccnInv', RowsInv, NEW c \in Creators, Create(c)
  PROVE  RowsInv' /\ requestsAsBefore
<1> USE DEF restOfRow, restOfTick, azVars, background, sagaVars
<1>1. c \in Requests /\ pc \in [Requests -> Labels] /\ targets \in [Requests -> SUBSET AZs]
  BY DEF Requests, PccnInv, WatchPart, WatchTypes
<1>2. CASE SubmitCreate(c)
  <2>1. requestsAsBefore
    BY <1>2 DEF SubmitCreate, Submit, requestsAsBefore
  <2>2. /\ pc' = [pc EXCEPT ![c] = "register"] /\ UNCHANGED targets /\ targets[c] # {} /\ pc[c] = "submit"
        /\ saga' = [saga EXCEPT ![c] = [status |-> "running", answered |-> <<>>]]
    BY <1>2 DEF SubmitCreate, Submit, Goto
  <2> QED BY <1>1, <2>1, <2>2, TopRowsLemma DEF Fresh
<1>3. CASE Lookup(c)
  <2>1. requestsAsBefore /\ UNCHANGED saga
    BY <1>3 DEF Lookup, requestsAsBefore
  <2>2. /\ pc' = [pc EXCEPT ![c] = "submit"] /\ pc[c] = "request"
        /\ \E s : targets' = [targets EXCEPT ![c] = s]
    BY <1>3 DEF Lookup, LookUpAZs, Goto
  <2> QED BY <1>1, <2>1, <2>2, TopRowsLemma DEF Fresh
<1>4. CASE \/ Reject(c) \/ Register(c) \/ SagaAnswers(c) \/ SagaTimesOut(c) \/ SagaInterrupted(c)
           \/ MarkFailed(c) \/ AllSettled(c) \/ PollTimesOut(c) \/ PollInterrupted(c)
  <2>1. requestsAsBefore /\ UNCHANGED <<saga, targets>>
    BY <1>4 DEF Reject, Register, SagaAnswers, SagaTimesOut, SagaInterrupted, GiveUpSaga,
                MarkFailed, AllSettled, PollTimesOut, PollInterrupted, GiveUpPoll, Return,
                requestsAsBefore
  <2>2. \E label \in {"done", "wait", "poll", "mark"} : pc' = [pc EXCEPT ![c] = label]
    BY <1>4 DEF Reject, Register, SagaAnswers, SagaTimesOut, SagaInterrupted, GiveUpSaga,
                MarkFailed, AllSettled, PollTimesOut, PollInterrupted, GiveUpPoll, Return, Goto
  <2> QED BY <1>1, <2>1, <2>2, TopRowsLemma DEF Fresh
<1>5. CASE NextTick(c) \/ \E a \in AZs : Ask(c, a) \/ AskFails(c, a)
  <2>1. UNCHANGED <<az, work, replay, loop, handling, saga, pc, targets>>
    BY <1>5 DEF NextTick, Ask, AskFails
  <2> QED BY <2>1, SameRowsLemma DEF requestsAsBefore
<1> QED BY <1>2, <1>3, <1>4, <1>5 DEF Create

\* The steps of DeletePCCN and of its goroutine.
LEMMA DeleterRowsLemma ==
  ASSUME PccnInv, PccnInv', RowsInv, NEW d \in Deleters, Delete(d)
  PROVE  RowsInv' /\ requestsAsBefore
<1> USE DEF restOfRow, azVars, background, sagaVars
<1>1. d \in Requests /\ pc \in [Requests -> Labels] /\ targets \in [Requests -> SUBSET AZs]
  BY DEF Requests, PccnInv, WatchPart, WatchTypes
<1>2. CASE SubmitDelete(d)
  <2>1. requestsAsBefore
    BY <1>2 DEF SubmitDelete, Submit, requestsAsBefore
  <2>2. /\ pc' = [pc EXCEPT ![d] = "markDeleting"] /\ UNCHANGED targets /\ targets[d] # {}
        /\ pc[d] = "lookup"
        /\ saga' = [saga EXCEPT ![d] = [status |-> "running", answered |-> <<>>]]
    BY <1>2 DEF SubmitDelete, Submit, Goto
  <2> QED BY <1>1, <2>1, <2>2, TopRowsLemma DEF Fresh
<1>3. CASE LookupDelete(d)
  <2>1. requestsAsBefore /\ UNCHANGED <<saga, pc>>
    BY <1>3 DEF LookupDelete, requestsAsBefore
  <2>2. pc[d] = "lookup" /\ \E s : targets' = [targets EXCEPT ![d] = s]
    BY <1>3 DEF LookupDelete, LookUpAZs
  <2> QED BY <1>1, <2>1, <2>2, TopRowsLemma DEF Fresh
<1>4. CASE \/ CheckDelete(d) \/ Reject(d) \/ MarkDeleting(d) \/ DeletionAnswered(d)
           \/ GiveUpDeletion(d)
  <2>1. requestsAsBefore /\ UNCHANGED <<saga, targets>>
    BY <1>4 DEF CheckDelete, Reject, MarkDeleting, DeletionAnswered, GiveUpDeletion,
                requestsAsBefore
  <2>2. \/ pc[d] = "check" /\ pc' = [pc EXCEPT ![d] = "lookup"]
        \/ \E label \in {"done", "waitDeletion", "gaveUp"} : pc' = [pc EXCEPT ![d] = label]
    BY <1>4 DEF CheckDelete, Reject, MarkDeleting, DeletionAnswered, GiveUpDeletion, Goto
  <2> QED BY <1>1, <2>1, <2>2, TopRowsLemma DEF Fresh
<1> QED BY <1>2, <1>3, <1>4 DEF Delete

-----------------------------------------------------------------------------
(* The theorems. *)

\* Nothing has been called.
LEMMA InitRows == Init => RowsInv
<1> SUFFICES ASSUME Init PROVE RowsInv
  OBVIOUS
<1>1. Deleters \subseteq Requests /\ NoId \notin Creators
  BY PccnAssumption DEF Requests
<1>2. \A p \in Requests : saga[p].status = "none" /\ handling[p].az = NoId
  BY DEF Init, NoSaga
<1>3. NotSubmitted /\ HandlingIsDue /\ HandlingIsWorked /\ SucceededIsAnswered /\ AnsweredIsRemoved
  BY <1>1, <1>2 DEF NotSubmitted, HandlingIsDue, HandlingIsWorked, SucceededIsAnswered,
     AnsweredIsRemoved
<1>4. CreatedIsCalled /\ WorkIsKnown /\ LateReadsHold
  BY <1>1 DEF Init, CreatedIsCalled, WorkIsKnown, LateReadsHold, NoRow, NoReplay, NoListing
<1> QED BY <1>3, <1>4 DEF RowsInv

\* Every step keeps the invariant.
LEMMA StepRows == PccnInv /\ RowsInv /\ [Next]_vars => RowsInv'
<1> SUFFICES ASSUME PccnInv, RowsInv, [Next]_vars PROVE RowsInv'
  OBVIOUS
<1>1. PccnInv'
  BY StepLemma
<1>2. CASE AZMoves
  BY <1>1, <1>2, AZRowsLemma
<1>3. ASSUME NEW v \in 1..2, CheckVPC(v) \/ MarkVPCDeleted(v) PROVE RowsInv'
  BY <1>3, SameRowsLemma DEF CheckVPC, MarkVPCDeleted, restOfVPC, azVars, background, sagaVars
<1>4. ASSUME NEW p \in Requests, SagaMoves(p) PROVE RowsInv'
  <2>1. ASSUME NEW a \in AZs, CreateStep(p, a) PROVE RowsInv'
    <3>1. p \in Creators
      BY <2>1 DEF CreateStep
    <3> QED BY <1>1, <2>1, <3>1, CreateRowsLemma
  <2> QED BY <1>1, <1>4, <2>1, CheckRowsLemma, WritesRowsLemma, FailsRowsLemma DEF SagaMoves
<1>5. ASSUME NEW c \in Creators, Create(c) PROVE RowsInv'
  BY <1>1, <1>5, CreatorRowsLemma
<1>6. ASSUME NEW d \in Deleters, Delete(d) PROVE RowsInv'
  BY <1>1, <1>6, DeleterRowsLemma
<1>7. CASE Stop \/ UNCHANGED vars
  BY <1>7, SameRowsLemma DEF Stop, vars, azVars, background, sagaVars
<1> QED BY <1>2, <1>3, <1>4, <1>5, <1>6, <1>7 DEF Next

\* The invariant of the AZs' rows of a PCCN.
THEOREM PccnRowsSafety == Spec => [](PccnInv /\ RowsInv)
<1>1. Init => PccnInv /\ RowsInv
  BY InitLemma, InitRows
<1>2. PccnInv /\ RowsInv /\ [Next]_vars => (PccnInv /\ RowsInv)'
  BY StepLemma, StepRows
<1> QED BY <1>1, <1>2, PTL DEF Spec

\* Outside the AZs' own moves only a DELETE handler ends a connection that works.
LEMMA WorkingLemma ==
  ASSUME PccnInv, RowsInv, Next, NEW a \in AZs, az[a].status = "running", az'[a].status # "running",
         ~AZMoves
  PROVE  \E p \in Requests : handling[p].az = a
<1>0. PccnInv'
  BY StepLemma
<1>1. az' # az
  OBVIOUS
<1>3. ~\E v \in 1..2 : CheckVPC(v) \/ MarkVPCDeleted(v)
  BY <1>1 DEF CheckVPC, MarkVPCDeleted, restOfVPC, azVars
<1>4. ~Stop
  BY <1>1 DEF Stop, azVars
<1>5. ~\E c \in Creators : Create(c)
  BY <1>0, <1>1, CreatorRowsLemma DEF requestsAsBefore
<1>6. ~\E d \in Deleters : Delete(d)
  BY <1>0, <1>1, DeleterRowsLemma DEF requestsAsBefore
<1>7. PICK p \in Requests : SagaMoves(p)
  BY <1>3, <1>4, <1>5, <1>6 DEF Next
<1>8. ~SagaFails(p) /\ ~\E b \in AZs : DeleteCheck(p, b)
  BY <1>1 DEF SagaFails, DeleteCheck, azVars
<1>9. ASSUME NEW b \in AZs, CreateStep(p, b) PROVE FALSE
  <2>1. p \in Creators
    BY <1>9 DEF CreateStep
  <2> QED BY <1>9, <2>1, CreateEffectLemma
<1>10. PICK b \in AZs : DeleteWrites(p, b)
  BY <1>7, <1>8, <1>9 DEF SagaMoves
<1>11. b = a
  <2>1. az \in [AZs -> [status : AZStatuses, id : Creators \cup {NoId}]]
    BY DEF PccnInv, AZPart, AZTypes
  <2> QED BY <1>10, <2>1 DEF DeleteWrites, UpdateById, SetAZ
<1> QED BY <1>10, <1>11 DEF DeleteWrites

\* Top NSP drops the row only after a deletion that has succeeded.
LEMMA DroppedLemma ==
  ASSUME PccnInv, RowsInv, Next, row # "absent", row' = "absent", RequestedOnce
  PROVE  \E d \in Deleters : targets[d] # {} /\ \A a \in targets[d] : az[a].status = "absent"
<1>1. ~AZMoves /\ ~(\E p \in Requests : SagaMoves(p)) /\ ~Stop
  BY AZMovesLemma DEF PccnInv, restOfAZ, SagaMoves, CreateStep, DeleteCheck, DeleteWrites, SagaFails,
     Stop
<1>2. ~\E v \in 1..2 : CheckVPC(v) \/ MarkVPCDeleted(v)
  BY DEF CheckVPC, MarkVPCDeleted, restOfVPC
<1>3. ASSUME NEW c \in Creators, Create(c) PROVE FALSE
  <2>1. row' \in {row, "creating", "failed", "interrupted", "running", "partial_running"}
    BY <1>3 DEF Create, Lookup, SubmitCreate, Submit, Reject, Register, RegisterPCCN, SagaAnswers,
       SagaTimesOut, SagaInterrupted, GiveUpSaga, MarkFailed, TryUpdateRow, UpdateRow,
       Ask, AskFails, NextTick, restOfTick, AllSettled, PollTimesOut, PollInterrupted, GiveUpPoll
  <2> QED BY <2>1
<1>4. PICK d \in Deleters : Delete(d)
  BY <1>1, <1>2, <1>3 DEF Next
<1>5. DeletionAnswered(d) /\ saga[d].status = "succeeded"
  BY <1>4 DEF Delete, CheckDelete, LookupDelete, SubmitDelete, Submit, Reject, MarkDeleting,
     DeletionAnswered, GiveUpDeletion, TryUpdateRow, UpdateRow
<1>6. targets[d] # {} /\ targets[d] \subseteq Answered(d)
  BY <1>5 DEF RowsInv, SucceededIsAnswered
<1>7. \A a \in Answered(d) : az[a].status = "absent"
  BY <1>5 DEF RowsInv, AnsweredIsRemoved, Removed
<1> QED BY <1>6, <1>7

\* A connection that works in an AZ is not reset by another create, however many name
\* it: it goes because the AZ is asked to delete it, or by a replay or a verdict of the
\* loop that was decided on an earlier state, or by a task that is queued once more
\* (PCCNDAO.Create's WHERE clause, and every other statement updates by id).
THEOREM WorkingHasStayed == Spec => WorkingStays
<1>1. PccnInv /\ RowsInv /\ [Next]_vars =>
        [\A a \in AZs : (az[a].status = "running" /\ az'[a].status # "running") =>
           (\E p \in Requests : handling[p].az = a) \/ Overtaken(a)]_vars
  BY WorkingLemma, AZEffectLemma DEF azEffect
<1> QED BY <1>1, PccnRowsSafety, PTL DEF Spec, WorkingStays

\* Nobody but the DELETE handler ends a connection that works.
GoesByDeletion ==
  [][\A a \in AZs : (az[a].status = "running" /\ az'[a].status # "running") =>
       \E p \in Requests : handling[p].az = a]_vars

\* Without replays, and as long as nothing is given up for its age, a connection that
\* works goes only because the AZ is asked to delete it, at any number of creates, with
\* the loops reading early and writing late (compensateResource's early return, and a
\* task's final status stays).
THEOREM UndisturbedGoesByDeletion == Undisturbed => (Spec => GoesByDeletion)
<1> SUFFICES ASSUME Undisturbed PROVE Spec => GoesByDeletion
  OBVIOUS
<1>1. PccnInv /\ RowsInv /\ [Next]_vars =>
        [\A a \in AZs : (az[a].status = "running" /\ az'[a].status # "running") =>
           \E p \in Requests : handling[p].az = a]_vars
  BY WorkingLemma, AZEffectLemma DEF azEffect
<1> QED BY <1>1, PccnRowsSafety, PTL DEF Spec, GoesByDeletion

\* When Top NSP drops the row of a name requested once, every AZ the deletion was sent
\* to has dropped its own, whatever failed, was repeated or replayed (watchPCCNDeletion).
THEOREM RemovedHasGone == Spec => RemovedEverywhere
<1>1. PccnInv /\ RowsInv /\ [Next]_vars =>
        [(row # "absent" /\ row' = "absent" /\ RequestedOnce) =>
           \E d \in Deleters : targets[d] # {} /\ \A a \in targets[d] : az[a].status = "absent"]_vars
  BY DroppedLemma
<1> QED BY <1>1, PccnRowsSafety, PTL DEF Spec, RemovedEverywhere

=============================================================================
