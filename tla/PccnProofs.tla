----------------------------- MODULE PccnProofs -----------------------------
(***************************************************************************)
(* For any AZs, VPCs, requests and number of faults: the variables of Pccn *)
(* keep their types, and Top NSP's 'running' and 'partial_running' of a    *)
(* PCCN rest on what the AZs of one request have answered.                 *)
(***************************************************************************)
EXTENDS Pccn, SequenceTheorems, TLAPS

-----------------------------------------------------------------------------
(* The inductive invariant, in parts that different processes write. *)

AZTypes ==
  /\ az \in [AZs -> [status : AZStatuses, id : Creators \cup {NoId}]]
  /\ \A a \in AZs : (az[a].status = "absent") <=> (az[a].id = NoId)
  /\ reached \subseteq AZs \X Final

\* What a watcher can read in an AZ, that AZ has reached.
FinalIsReached == \A a \in AZs : az[a].status \in Final => <<a, az[a].status>> \in reached

AZPart == AZTypes /\ FinalIsReached

\* A replay under way and a listed row have an id.
WorkPart ==
  /\ work \in [Creators -> [AZs -> WorkStatuses]]
  /\ replay \in [Replayers -> [at : Places, az : AZs \cup {NoId}, id : Creators \cup {NoId}]]
  /\ \A r \in Replayers : replay[r].at # "idle" => replay[r].az \in AZs /\ replay[r].id \in Creators
  /\ loop \in [AZs -> [id : Creators \cup {NoId}, verdict : Verdicts]]
  /\ \A a \in AZs : loop[a].id = NoId => loop[a].verdict = "none"

\* A DELETE handler goes on only with a row it has found.
SagaPart ==
  /\ saga \in [Requests -> [status : SagaStatuses, answered : Seq(AZs)]]
  /\ handling \in [Requests -> [az : AZs \cup {NoId}, id : Creators \cup {NoId}]]
  /\ \A p \in Requests : handling[p].az # NoId => handling[p].id # NoId

WatchTypes ==
  /\ pc \in [Requests -> Labels]
  /\ targets \in [Requests -> SUBSET AZs]
  /\ asked \in [Creators -> SUBSET AZs]
  /\ settled \in [Creators -> SUBSET AZs]
  /\ news \in [Creators -> SUBSET (AZs \X Final)]

\* A request with a saga has AZs to ask.
HasTargets(c) == pc[c] \in {"register", "wait", "poll"} => targets[c] # {}

\* A watcher has settled only AZs of its own, by an answer that was true.
SettledIsReached(c) ==
  \A a \in settled[c] : a \in targets[c] /\ \E s \in Final : <<a, s>> \in reached

\* The answers of the tick are among them; the last AZ settles in this tick.
NewsIsReached(c) ==
  /\ news[c] \subseteq reached
  /\ \A n \in news[c] : n[1] \in settled[c]
  /\ pc[c] = "poll" /\ settled[c] = targets[c] => news[c] # {}

\* A request that is not watching the AZs has settled none.
IdleIsEmpty(c) == pc[c] # "poll" => settled[c] = {} /\ news[c] = {}

WatchPart ==
  /\ WatchTypes
  /\ \A c \in Creators :
       HasTargets(c) /\ SettledIsReached(c) /\ NewsIsReached(c) /\ IdleIsEmpty(c)

RowPart == row \in RowStatuses /\ RunningIsAnswered /\ PartialIsAnswered

RestPart ==
  /\ vpc \in [1..2 -> {"up", "unused", "deleted"}]
  /\ stopping \in BOOLEAN
  /\ faults \in 0..MaxFaults

PccnInv == AZPart /\ WorkPart /\ SagaPart /\ WatchPart /\ RowPart /\ RestPart

-----------------------------------------------------------------------------
(* The rows of the AZs. *)

\* A row is written with an id if it is there at all, and a final status is noted.
LEMMA SetAZLemma ==
  ASSUME AZPart, NEW a \in AZs, NEW status \in AZStatuses, NEW id \in Creators \cup {NoId},
         status = "absent" <=> id = NoId, SetAZ(a, status, id)
  PROVE  AZPart' /\ reached \subseteq reached'
<1>1. az' \in [AZs -> [status : AZStatuses, id : Creators \cup {NoId}]]
  BY DEF AZPart, AZTypes, SetAZ
<1>2. \A b \in AZs : az'[b] = IF b = a THEN [status |-> status, id |-> id] ELSE az[b]
  BY DEF AZPart, AZTypes, SetAZ
<1>3. /\ reached' \subseteq AZs \X Final /\ reached \subseteq reached'
      /\ status \in Final => <<a, status>> \in reached'
  BY DEF AZPart, AZTypes, SetAZ
<1>4. AZTypes'
  BY <1>1, <1>2, <1>3 DEF AZPart, AZTypes
<1>5. FinalIsReached'
  BY <1>2, <1>3 DEF AZPart, FinalIsReached
<1> QED BY <1>3, <1>4, <1>5 DEF AZPart

\* The status and the id of a row.
LEMMA RowLemma ==
  ASSUME AZPart, NEW a \in AZs
  PROVE  /\ az[a].status \in AZStatuses /\ az[a].id \in Creators \cup {NoId}
         /\ az[a] = [status |-> az[a].status, id |-> az[a].id]
         /\ az[a].status = "absent" <=> az[a].id = NoId
BY DEF AZPart, AZTypes

\* An update by the id of a request keeps the rows in order.
LEMMA UpdateByIdLemma ==
  ASSUME AZPart, NEW a \in AZs, NEW id \in Creators, NEW status \in AZStatuses \ {"absent"},
         UpdateById(a, id, status)
  PROVE  AZPart' /\ reached \subseteq reached'
<1>1. id # NoId
  BY PccnAssumption
<1>2. CASE SetAZ(a, status, id)
  BY <1>1, <1>2, SetAZLemma
<1>3. CASE UNCHANGED <<az, reached>>
  BY <1>3 DEF AZPart, AZTypes, FinalIsReached
<1> QED BY <1>2, <1>3 DEF UpdateById

\* A create leaves a row with an id.
LEMMA PutRowLemma ==
  ASSUME AZPart, NEW a \in AZs, NEW c \in Creators, NEW status \in AZStatuses \ {"absent"},
         PutRow(a, c, status)
  PROVE  AZPart' /\ reached \subseteq reached'
<1> DEFINE new == Upsert(a, c)
<1>1. c # NoId
  BY PccnAssumption
<1>2. /\ az[a].status \in AZStatuses /\ az[a].id \in Creators \cup {NoId}
      /\ az[a].status # "absent" => az[a].id \in Creators
  BY RowLemma
<1>3. new.id \in Creators /\ new.status \in AZStatuses \ {"absent"}
  <2>1. CASE az[a].status = "absent"
    <3>1. new = [status |-> "pending", id |-> c]
      BY <2>1 DEF Upsert
    <3> QED BY <3>1 DEF AZStatuses
  <2>2. CASE az[a].status \in {"pending", "failed"}
    <3>1. new = [status |-> "pending", id |-> az[a].id]
      BY <2>2 DEF Upsert, AZPart, AZTypes
    <3> QED BY <1>2, <2>2, <3>1 DEF AZStatuses
  <2>3. CASE az[a].status \notin {"absent", "pending", "failed"}
    <3>1. new = az[a]
      BY <2>3 DEF Upsert
    <3> QED BY <1>2, <2>3, <3>1
  <2> QED BY <2>1, <2>2, <2>3
<1>4. \E st \in AZStatuses \ {"absent"} : SetAZ(a, st, new.id)
  BY <1>3 DEF PutRow
<1> QED BY <1>3, <1>4, SetAZLemma, PccnAssumption

\* Nothing is written.
LEMMA SameAZLemma ==
  ASSUME AZPart, UNCHANGED <<az, reached>>
  PROVE  AZPart' /\ reached \subseteq reached'
BY DEF AZPart, AZTypes, FinalIsReached

\* A listing is empty or has an id.
LEMMA ListingLemma ==
  ASSUME WorkPart, NEW a \in AZs
  PROVE  /\ loop[a].id \in Creators \cup {NoId} /\ loop[a].verdict \in Verdicts
         /\ loop[a] # NoListing \/ loop[a].verdict # "none" => loop[a].id \in Creators
<1>1. loop[a] \in [id : Creators \cup {NoId}, verdict : Verdicts]
  BY DEF WorkPart
<1>2. loop[a].id = NoId => loop[a] = [id |-> NoId, verdict |-> "none"]
  BY <1>1 DEF WorkPart
<1> QED BY <1>1, <1>2 DEF NoListing

\* The replays.
LEMMA ReplaysLemma ==
  ASSUME AZPart, WorkPart, NEW r \in Replayers, Replays(r)
  PROVE  /\ AZPart' /\ WorkPart' /\ reached \subseteq reached'
         /\ UNCHANGED restOfAZ /\ (UNCHANGED faults \/ Fault)
<1> USE DEF WorkPart, Places
<1>1. ASSUME NEW c \in Creators, NEW a \in AZs, ReplayChecks(r, c, a)
      PROVE  /\ AZPart' /\ WorkPart' /\ reached \subseteq reached' /\ UNCHANGED restOfAZ
             /\ UNCHANGED faults
  BY <1>1, SameAZLemma DEF ReplayChecks
<1>2. ASSUME ReplayResets(r)
      PROVE  /\ AZPart' /\ WorkPart' /\ reached \subseteq reached' /\ UNCHANGED restOfAZ
             /\ UNCHANGED faults \/ Fault
  <2>1. replay[r].az \in AZs /\ replay[r].id \in Creators
    BY <1>2 DEF ReplayResets
  <2>2. UpdateById(replay[r].az, replay[r].id, "creating") \/ UNCHANGED <<az, reached>>
    BY <1>2 DEF ReplayResets
  <2>3. AZPart' /\ reached \subseteq reached'
    BY <2>1, <2>2, SameAZLemma, UpdateByIdLemma DEF AZStatuses
  <2>4. UNCHANGED <<work, loop>>
    BY <1>2 DEF ReplayResets
  <2>5. replay' = [replay EXCEPT ![r].at = "requeue"] \/ replay' = [replay EXCEPT ![r] = NoReplay]
    BY <1>2 DEF ReplayResets
  <2>6. /\ replay' \in [Replayers -> [at : Places, az : AZs \cup {NoId}, id : Creators \cup {NoId}]]
        /\ \A q \in Replayers : replay'[q].at # "idle" => replay'[q].az \in AZs /\ replay'[q].id \in Creators
    <3>1. CASE replay' = [replay EXCEPT ![r].at = "requeue"]
      BY <2>1, <3>1
    <3>2. CASE replay' = [replay EXCEPT ![r] = NoReplay]
      BY <3>2 DEF NoReplay
    <3> QED BY <2>5, <3>1, <3>2
  <2> QED BY <1>2, <2>3, <2>4, <2>6 DEF ReplayResets
<1>3. ASSUME ReplayRequeues(r)
      PROVE  /\ AZPart' /\ WorkPart' /\ reached \subseteq reached' /\ UNCHANGED restOfAZ
             /\ UNCHANGED faults \/ Fault
  <2>1. replay[r].az \in AZs /\ replay[r].id \in Creators
    BY <1>3 DEF ReplayRequeues
  <2>2. work' \in [Creators -> [AZs -> WorkStatuses]]
    <3>1. \/ work' = work
          \/ \E c \in Creators, b \in AZs : work' = [work EXCEPT ![c][b] = "active"]
      BY <1>3, <2>1 DEF ReplayRequeues
    <3> QED BY <3>1 DEF WorkStatuses
  <2>3. /\ replay' \in [Replayers -> [at : Places, az : AZs \cup {NoId}, id : Creators \cup {NoId}]]
        /\ \A q \in Replayers : replay'[q].at # "idle" => replay'[q].az \in AZs /\ replay'[q].id \in Creators
    BY <1>3 DEF ReplayRequeues, NoReplay
  <2> QED BY <1>3, <2>2, <2>3, SameAZLemma DEF ReplayRequeues
<1> QED BY <1>1, <1>2, <1>3 DEF Replays

\* The compensation loop of an AZ.
LEMMA LoopsLemma ==
  ASSUME AZPart, WorkPart, NEW a \in AZs, Loops(a)
  PROVE  /\ AZPart' /\ WorkPart' /\ reached \subseteq reached'
         /\ UNCHANGED restOfAZ /\ (UNCHANGED faults \/ Fault)
<1> USE DEF WorkPart, Verdicts
<1>1. CASE LoopLists(a)
  <2>1. az[a].id \in Creators
    BY <1>1, RowLemma DEF LoopLists
  <2> QED BY <1>1, <2>1, SameAZLemma DEF LoopLists
<1>2. CASE LoopJudges(a)
  <2>1. loop[a].id \in Creators /\ loop[a].id # NoId
    BY <1>2, ListingLemma, PccnAssumption DEF LoopJudges
  <2>2. \/ \E v \in {"running", "failed"} : loop' = [loop EXCEPT ![a].verdict = v]
        \/ loop' = [loop EXCEPT ![a] = NoListing]
    BY <1>2 DEF LoopJudges
  <2>3. /\ loop' \in [AZs -> [id : Creators \cup {NoId}, verdict : Verdicts]]
        /\ \A b \in AZs : loop'[b].id = NoId => loop'[b].verdict = "none"
    BY <2>1, <2>2 DEF NoListing
  <2> QED BY <1>2, <2>3, SameAZLemma DEF LoopJudges
<1>3. CASE LoopWrites(a)
  <2>1. loop[a].id \in Creators /\ loop[a].verdict \in {"running", "failed"}
    BY <1>3, ListingLemma DEF LoopWrites
  <2>2. UpdateById(a, loop[a].id, loop[a].verdict) \/ UNCHANGED <<az, reached>>
    BY <1>3 DEF LoopWrites
  <2>3. AZPart' /\ reached \subseteq reached'
    BY <2>1, <2>2, SameAZLemma, UpdateByIdLemma DEF AZStatuses
  <2>4. /\ loop' \in [AZs -> [id : Creators \cup {NoId}, verdict : Verdicts]]
        /\ \A b \in AZs : loop'[b].id = NoId => loop'[b].verdict = "none"
    BY <1>3 DEF LoopWrites, NoListing
  <2> QED BY <1>3, <2>3, <2>4 DEF LoopWrites
<1> QED BY <1>1, <1>2, <1>3 DEF Loops

\* The AZs' workflows, replays and loops.
LEMMA AZMovesLemma ==
  ASSUME AZPart, WorkPart, AZMoves
  PROVE  /\ AZPart' /\ WorkPart' /\ reached \subseteq reached'
         /\ UNCHANGED restOfAZ /\ (UNCHANGED faults \/ Fault)
<1>1. ASSUME NEW a \in AZs, NEW c \in Creators, WorkflowEnds(c, a)
      PROVE  /\ AZPart' /\ WorkPart' /\ reached \subseteq reached' /\ UNCHANGED restOfAZ
             /\ UNCHANGED faults
  <2>1. \E st \in AZStatuses \ {"absent"} : UpdateById(a, c, st)
    BY <1>1 DEF WorkflowEnds, AZStatuses
  <2>2. WorkPart'
    <3>1. \E w \in WorkStatuses : work' = [work EXCEPT ![c][a] = w]
      BY <1>1 DEF WorkflowEnds, WorkStatuses
    <3>2. UNCHANGED <<replay, loop>>
      BY <1>1 DEF WorkflowEnds, background
    <3>3. work' \in [Creators -> [AZs -> WorkStatuses]]
      BY <3>1 DEF WorkPart
    <3> QED BY <3>2, <3>3 DEF WorkPart
  <2> QED BY <1>1, <2>1, <2>2, UpdateByIdLemma DEF WorkflowEnds
<1> QED BY <1>1, ReplaysLemma, LoopsLemma DEF AZMoves

-----------------------------------------------------------------------------
(* The sagas. *)

\* A saga's record is replaced by a record of its type.
LEMMA StepDoneLemma ==
  ASSUME SagaPart, NEW p \in Requests, NEW a \in AZs, StepDone(p, a) \/ StepRefused(p)
  PROVE  saga' \in [Requests -> [status : SagaStatuses, answered : Seq(AZs)]]
<1> DEFINE answered == saga[p].answered
<1>1. saga[p] \in [status : SagaStatuses, answered : Seq(AZs)] /\ answered \in Seq(AZs)
  BY DEF SagaPart
<1>2. Append(answered, a) \in Seq(AZs)
  BY <1>1, AppendProperties
<1>3. SubSeq(answered, 1, Len(answered) - 1) \in Seq(AZs)
  <2>1. Len(answered) - 1 \in Int /\ \A i \in 1..(Len(answered) - 1) : answered[i] \in AZs
    BY <1>1
  <2> QED BY <2>1, SubSeqProperties
<1>4. CASE StepAnswers(p, a)
  <2>1. \E st \in {"succeeded", "running"} :
          saga' = [saga EXCEPT ![p] = [status |-> st, answered |-> Append(answered, a)]]
    BY <1>4 DEF StepAnswers
  <2> QED BY <1>2, <2>1 DEF SagaPart, SagaStatuses
<1>5. CASE Compensated(p)
  <2>1. saga' = [saga EXCEPT ![p] = [saga[p] EXCEPT !.answered =
                   SubSeq(answered, 1, Len(answered) - 1)]]
    BY <1>5 DEF Compensated
  <2>2. [saga[p] EXCEPT !.answered = SubSeq(answered, 1, Len(answered) - 1)]
          \in [status : SagaStatuses, answered : Seq(AZs)]
    BY <1>1, <1>3
  <2> QED BY <2>1, <2>2 DEF SagaPart
<1>6. CASE saga' = [saga EXCEPT ![p].status = "compensating"]
  BY <1>6 DEF SagaPart, SagaStatuses
<1> QED BY <1>4, <1>5, <1>6 DEF StepDone, StepRefused

\* A saga that is submitted has been answered by nobody.
LEMMA SubmittedLemma ==
  ASSUME SagaPart, NEW p \in Requests, UNCHANGED handling,
         \/ UNCHANGED saga
         \/ saga' = [saga EXCEPT ![p] = [status |-> "running", answered |-> <<>>]]
  PROVE  SagaPart'
<1>1. [status |-> "running", answered |-> <<>>] \in [status : SagaStatuses, answered : Seq(AZs)]
  BY DEF SagaStatuses
<1> QED BY <1>1 DEF SagaPart

\* One more fault is within the bound.
LEMMA FaultLemma ==
  ASSUME RestPart, UNCHANGED <<vpc, stopping>>, UNCHANGED faults \/ Fault
  PROVE  RestPart'
BY PccnAssumption DEF RestPart, Fault

watchersSame == UNCHANGED <<row, pc, targets, tickVars>>

\* POST /api/v1/pccn.
LEMMA CreateStepLemma ==
  ASSUME AZPart, WorkPart, SagaPart, RestPart, NEW p \in Requests, NEW a \in AZs,
         CreateStep(p, a)
  PROVE  /\ AZPart' /\ WorkPart' /\ SagaPart' /\ RestPart'
         /\ reached \subseteq reached' /\ watchersSame
<1>1. p \in Creators
  BY DEF CreateStep
<1>2. StepDone(p, a) \/ StepRefused(p)
  BY DEF CreateStep, StepDone
<1>3. SagaPart'
  BY <1>2, StepDoneLemma DEF SagaPart, CreateStep
<1>4. RestPart'
  BY FaultLemma DEF CreateStep
<1>5. \/ UNCHANGED <<az, reached>>
      \/ \E st \in AZStatuses \ {"absent"} : PutRow(a, p, st)
  BY DEF CreateStep, AZCreates, AZCreateFails, azVars, AZStatuses
<1>6. AZPart' /\ reached \subseteq reached'
  <2>1. CASE UNCHANGED <<az, reached>>
    BY <2>1 DEF AZPart, AZTypes, FinalIsReached
  <2> QED BY <1>1, <1>5, <2>1, PutRowLemma
<1>7. /\ work' = work \/ \E w \in {"active", "failed"} : work' = [work EXCEPT ![p][a] = w]
      /\ UNCHANGED <<replay, loop>>
  BY DEF CreateStep, AZCreates, AZCreateFails, azVars, background
<1>8. WorkPart'
  <2>1. work' \in [Creators -> [AZs -> WorkStatuses]]
    <3>1. \E w \in WorkStatuses : work' = work \/ work' = [work EXCEPT ![p][a] = w]
      BY <1>7 DEF WorkStatuses
    <3>2. work \in [Creators -> [AZs -> WorkStatuses]]
      BY DEF WorkPart
    <3> QED BY <1>1, <3>1, <3>2
  <2> QED BY <1>7, <2>1 DEF WorkPart
<1> QED BY <1>3, <1>4, <1>6, <1>8 DEF CreateStep, watchersSame

\* The check of a DELETE handler.
LEMMA DeleteCheckLemma ==
  ASSUME AZPart, WorkPart, SagaPart, RestPart, NEW p \in Requests, NEW a \in AZs,
         DeleteCheck(p, a)
  PROVE  /\ AZPart' /\ WorkPart' /\ SagaPart' /\ RestPart'
         /\ reached \subseteq reached' /\ watchersSame
<1>1. AZPart' /\ WorkPart' /\ reached \subseteq reached'
  BY DEF DeleteCheck, azVars, background, AZPart, AZTypes, FinalIsReached, WorkPart
<1>2. RestPart'
  BY FaultLemma DEF DeleteCheck
<1>3. SagaPart'
  <2>1. CASE UNCHANGED saga /\ handling' = [handling EXCEPT ![p] = [az |-> a, id |-> az[a].id]]
             /\ Deletable(a)
    <3>1. az[a].id \in Creators \cup {NoId} /\ az[a].id # NoId
      BY <2>1, RowLemma DEF Deletable
    <3> QED BY <2>1, <3>1 DEF SagaPart
  <2>2. CASE StepRefused(p) /\ UNCHANGED handling
    BY <2>2, StepDoneLemma DEF SagaPart
  <2> QED BY <2>1, <2>2 DEF DeleteCheck
<1> QED BY <1>1, <1>2, <1>3 DEF DeleteCheck, watchersSame

\* The writes of a DELETE handler.
LEMMA DeleteWritesLemma ==
  ASSUME AZPart, WorkPart, SagaPart, RestPart, NEW p \in Requests, NEW a \in AZs,
         DeleteWrites(p, a)
  PROVE  /\ AZPart' /\ WorkPart' /\ SagaPart' /\ RestPart'
         /\ reached \subseteq reached' /\ watchersSame
<1>1. handling[p].id \in Creators
  BY PccnAssumption DEF DeleteWrites, SagaPart
<1>2. RestPart'
  BY FaultLemma DEF DeleteWrites
<1>3. SagaPart'
  <2>1. handling' = [handling EXCEPT ![p] = [az |-> NoId, id |-> NoId]]
    BY DEF DeleteWrites
  <2>2. StepDone(p, a) \/ StepRefused(p)
    BY DEF DeleteWrites
  <2> QED BY <2>1, <2>2, StepDoneLemma DEF SagaPart
<1>4. \/ SetAZ(a, "absent", NoId)
      \/ UpdateById(a, handling[p].id, "deleting")
      \/ UNCHANGED <<az, reached>>
  BY DEF DeleteWrites
<1>5. AZPart' /\ reached \subseteq reached'
  <2>1. CASE SetAZ(a, "absent", NoId)
    BY <2>1, SetAZLemma DEF AZStatuses
  <2>2. CASE UpdateById(a, handling[p].id, "deleting")
    BY <1>1, <2>2, UpdateByIdLemma DEF AZStatuses
  <2>3. CASE UNCHANGED <<az, reached>>
    BY <2>3 DEF AZPart, AZTypes, FinalIsReached
  <2> QED BY <1>4, <2>1, <2>2, <2>3
<1>6. WorkPart'
  BY DEF DeleteWrites, background, WorkPart
<1> QED BY <1>2, <1>3, <1>5, <1>6 DEF DeleteWrites, watchersSame

\* The saga engine and the AZs' handlers leave Top NSP's goroutines alone.
LEMMA SagaMovesLemma ==
  ASSUME AZPart, WorkPart, SagaPart, RestPart, NEW p \in Requests, SagaMoves(p)
  PROVE  /\ AZPart' /\ WorkPart' /\ SagaPart' /\ RestPart'
         /\ reached \subseteq reached' /\ watchersSame
<1>1. CASE SagaFails(p)
  <2>1. AZPart' /\ WorkPart' /\ reached \subseteq reached'
    BY <1>1 DEF SagaFails, azVars, background, AZPart, AZTypes, FinalIsReached, WorkPart
  <2>2. SagaPart'
    BY <1>1 DEF SagaFails, SagaPart, SagaStatuses
  <2> QED BY <1>1, <2>1, <2>2 DEF SagaFails, RestPart, watchersSame
<1> QED BY <1>1, CreateStepLemma, DeleteCheckLemma, DeleteWritesLemma DEF SagaMoves

-----------------------------------------------------------------------------
(* Top NSP's goroutines leave the AZs and the sagas alone: it is enough to look *)
(* at the watchers and at the row of the registry apart.                        *)

\* What the AZs reach stays reached.
LEMMA WatchersSameLemma ==
  ASSUME WatchPart, RowPart, watchersSame, reached \subseteq reached'
  PROVE  WatchPart' /\ RowPart'
<1>1. WatchTypes'
  BY DEF watchersSame, tickVars, WatchPart, WatchTypes
<1>2. ASSUME NEW c \in Creators
      PROVE  (HasTargets(c) /\ SettledIsReached(c) /\ NewsIsReached(c) /\ IdleIsEmpty(c))'
  BY DEF watchersSame, tickVars, WatchPart, HasTargets, SettledIsReached, NewsIsReached,
         IdleIsEmpty
<1>3. RowPart'
  BY DEF watchersSame, RowPart, RunningIsAnswered, PartialIsAnswered
<1> QED BY <1>1, <1>2, <1>3 DEF WatchPart

\* A status that claims nothing can be written at any time.
LEMMA PlainRowLemma ==
  ASSUME RowPart, row' \in {row, "absent", "creating", "failed", "interrupted", "deleting"},
         reached' = reached,
         \A c \in Creators : pc[c] = "done" => pc'[c] = "done" /\ targets'[c] = targets[c]
  PROVE  RowPart'
BY DEF RowPart, RowStatuses, RunningIsAnswered, PartialIsAnswered

\* A request that is not watching the AZs goes on to its next label.
LEMMA MovesOnLemma ==
  ASSUME WatchPart, NEW p \in Requests, NEW label \in Labels, Goto(p, label),
         UNCHANGED <<reached, targets, asked, settled, news>>, pc[p] # "poll",
         label \in {"register", "wait", "poll"} => targets[p] # {}
  PROVE  WatchPart'
<1>1. pc' \in [Requests -> Labels] /\ \A q \in Requests : pc'[q] = IF q = p THEN label ELSE pc[q]
  BY DEF Goto, WatchPart, WatchTypes
<1>2. WatchTypes'
  BY <1>1 DEF WatchPart, WatchTypes
<1>3. ASSUME NEW c \in Creators
      PROVE  (HasTargets(c) /\ SettledIsReached(c) /\ NewsIsReached(c) /\ IdleIsEmpty(c))'
  BY <1>1 DEF WatchPart, HasTargets, SettledIsReached, NewsIsReached, IdleIsEmpty, Requests
<1> QED BY <1>2, <1>3 DEF WatchPart

\* An update of the row, or none, is plain when the status is.
LEMMA TryUpdateLemma ==
  ASSUME NEW status, TryUpdateRow(status)
  PROVE  row' \in {row, status} /\ (UNCHANGED faults \/ Fault)
BY DEF TryUpdateRow, UpdateRow

requestsSame == UNCHANGED <<az, work, reached, replay, loop, saga, handling>>

requestPart == WatchPart /\ RowPart /\ RestPart

\* A request is no longer 'done' once it has gone on: it has not been done before.
LEMMA DoneStaysLemma ==
  ASSUME WatchPart, NEW p \in Requests, NEW label, Goto(p, label), pc[p] # "done",
         UNCHANGED targets
  PROVE  \A c \in Creators : pc[c] = "done" => pc'[c] = "done" /\ targets'[c] = targets[c]
BY DEF Goto, WatchPart, WatchTypes, Requests

\* CreatePCCN and the watching of its saga, but for the lookup of the AZs.
LEMMA CreateLemma ==
  ASSUME requestPart, NEW c \in Creators,
         \/ SubmitCreate(c) \/ Reject(c) \/ Register(c) \/ SagaAnswers(c)
         \/ SagaTimesOut(c) \/ SagaInterrupted(c) \/ MarkFailed(c)
  PROVE  requestPart'
<1> USE DEF restOfRow, azVars, sagaVars, tickVars
<1>1. c \in Requests
  BY DEF Requests
<1>2. UNCHANGED <<reached, vpc, targets, asked, settled, news, stopping>>
  BY DEF SubmitCreate, Submit, Reject, Register, SagaAnswers, SagaTimesOut, SagaInterrupted,
         GiveUpSaga, MarkFailed
<1>3. /\ row' \in {row, "creating", "failed", "interrupted"}
      /\ UNCHANGED faults \/ Fault
  BY TryUpdateLemma
     DEF SubmitCreate, Submit, Reject, Register, RegisterPCCN, SagaAnswers, SagaTimesOut,
         SagaInterrupted, GiveUpSaga, MarkFailed
<1>4. /\ pc[c] \notin {"poll", "done"}
      /\ \E label \in Labels : /\ Goto(c, label)
                               /\ label \in {"register", "wait", "poll"} => targets[c] # {}
  BY DEF requestPart, WatchPart, HasTargets, SubmitCreate, Submit, Reject, Register,
         SagaAnswers, SagaTimesOut, SagaInterrupted, GiveUpSaga, MarkFailed, Labels
<1>5. WatchPart'
  BY <1>1, <1>2, <1>4, MovesOnLemma DEF requestPart
<1>6. RowPart'
  BY <1>1, <1>2, <1>3, <1>4, DoneStaysLemma, PlainRowLemma DEF requestPart
<1>7. RestPart'
  BY <1>2, <1>3, FaultLemma DEF requestPart
<1> QED BY <1>5, <1>6, <1>7 DEF requestPart

\* The AZs of a request are looked up before it has a saga.
LEMMA LookUpLemma ==
  ASSUME requestPart, NEW p \in Requests, LookUpAZs(p)
  PROVE  /\ \E found \in SUBSET AZs : targets' = [targets EXCEPT ![p] = found]
         /\ UNCHANGED faults \/ Fault
<1>1. DetailsOf(1) \cup DetailsOf(2) \subseteq AZs
  BY PccnAssumption DEF DetailsOf
<1> QED BY <1>1 DEF LookUpAZs

\* CreatePCCN's lookup.
LEMMA LookupLemma ==
  ASSUME requestPart, NEW c \in Creators, Lookup(c)
  PROVE  requestPart'
<1> USE DEF azVars, sagaVars, tickVars
<1>1. c \in Requests
  BY DEF Requests
<1>2. PICK found \in SUBSET AZs : targets' = [targets EXCEPT ![c] = found]
  BY <1>1, LookUpLemma DEF Lookup
<1>3. /\ pc[c] = "request" /\ Goto(c, "submit")
      /\ UNCHANGED <<reached, row, vpc, asked, settled, news, stopping>>
  BY DEF Lookup
<1>4. /\ pc' \in [Requests -> Labels]
      /\ \A q \in Requests : pc'[q] = IF q = c THEN "submit" ELSE pc[q]
  BY <1>1, <1>3 DEF Goto, requestPart, WatchPart, WatchTypes, Labels
<1>5. WatchTypes'
  BY <1>1, <1>2, <1>3, <1>4 DEF requestPart, WatchPart, WatchTypes
<1>6. ASSUME NEW b \in Creators
      PROVE  (HasTargets(b) /\ SettledIsReached(b) /\ NewsIsReached(b) /\ IdleIsEmpty(b))'
  <2>1. targets \in [Requests -> SUBSET AZs] /\ b \in Requests
    BY DEF requestPart, WatchPart, WatchTypes, Requests
  <2> QED BY <1>1, <1>2, <1>3, <1>4, <2>1
          DEF requestPart, WatchPart, HasTargets, SettledIsReached, NewsIsReached, IdleIsEmpty
<1>7. WatchPart'
  BY <1>5, <1>6 DEF WatchPart
<1>8. \A b \in Creators : pc[b] = "done" => pc'[b] = "done" /\ targets'[b] = targets[b]
  BY <1>1, <1>2, <1>3, <1>4 DEF requestPart, WatchPart, WatchTypes, Requests
<1>9. RowPart'
  BY <1>3, <1>8, PlainRowLemma DEF requestPart
<1>10. RestPart'
  BY <1>1, <1>3, FaultLemma, LookUpLemma DEF requestPart, Lookup
<1> QED BY <1>7, <1>9, <1>10 DEF requestPart

\* One answer, or none, of an AZ that is asked, or the next tick.
LEMMA TickLemma ==
  ASSUME AZPart, requestPart, NEW c \in Creators,
         NextTick(c) \/ \E a \in AZs : Ask(c, a) \/ AskFails(c, a)
  PROVE  requestPart'
<1> USE DEF restOfTick, azVars, sagaVars
<1>1. /\ UNCHANGED <<reached, row, vpc, pc, targets, stopping>>
      /\ UNCHANGED faults \/ Fault
  BY DEF NextTick, Ask, AskFails
<1>2. asked' \in [Creators -> SUBSET AZs]
  BY DEF NextTick, Ask, AskFails, requestPart, WatchPart, WatchTypes
<1>3. \/ UNCHANGED <<settled, news>>
      \/ /\ settled[c] # targets[c] /\ UNCHANGED settled
         /\ news' = [news EXCEPT ![c] = {}]
      \/ \E a \in AZs :
           /\ pc[c] = "poll" /\ a \in targets[c] /\ az[a].status \in Final
           /\ settled' = [settled EXCEPT ![c] = @ \cup {a}]
           /\ news' = [news EXCEPT ![c] = @ \cup {<<a, az[a].status>>}]
  BY DEF NextTick, Ask, AskFails
<1>4. ASSUME settled[c] # targets[c], UNCHANGED settled, news' = [news EXCEPT ![c] = {}]
      PROVE  WatchPart'
  BY <1>1, <1>2, <1>4 DEF requestPart, WatchPart, WatchTypes, HasTargets, SettledIsReached,
                          NewsIsReached, IdleIsEmpty
<1>5. ASSUME NEW a \in AZs, pc[c] = "poll", a \in targets[c], az[a].status \in Final,
             settled' = [settled EXCEPT ![c] = @ \cup {a}],
             news' = [news EXCEPT ![c] = @ \cup {<<a, az[a].status>>}]
      PROVE  WatchPart'
  <2>1. <<a, az[a].status>> \in reached
    BY <1>5 DEF AZPart, FinalIsReached
  <2>2. WatchTypes'
    BY <1>1, <1>2, <1>5 DEF requestPart, WatchPart, WatchTypes
  <2>3. /\ \A b \in Creators : settled'[b] = IF b = c THEN settled[b] \cup {a} ELSE settled[b]
        /\ \A b \in Creators :
             news'[b] = IF b = c THEN news[b] \cup {<<a, az[a].status>>} ELSE news[b]
    BY <1>5 DEF requestPart, WatchPart, WatchTypes
  <2>4. ASSUME NEW b \in Creators
        PROVE  (HasTargets(b) /\ SettledIsReached(b) /\ NewsIsReached(b) /\ IdleIsEmpty(b))'
    <3>1. HasTargets(b) /\ SettledIsReached(b) /\ NewsIsReached(b) /\ IdleIsEmpty(b)
      BY DEF requestPart, WatchPart
    <3>2. CASE b = c
      <4>1. (HasTargets(c) /\ IdleIsEmpty(c))'
        BY <1>1, <1>5, <3>1, <3>2 DEF HasTargets, IdleIsEmpty
      <4>2. SettledIsReached(c)'
        <5>1. ASSUME NEW x \in settled'[c]
              PROVE  x \in targets'[c] /\ \E s \in Final : <<x, s>> \in reached'
          <6>1. CASE x = a
            BY <1>1, <1>5, <2>1, <6>1
          <6>2. CASE x \in settled[c]
            BY <1>1, <3>1, <3>2, <6>2 DEF SettledIsReached
          <6> QED BY <2>3, <5>1, <6>1, <6>2
        <5> QED BY <5>1 DEF SettledIsReached
      <4>3. NewsIsReached(c)'
        BY <1>1, <1>5, <2>1, <2>3, <3>1, <3>2 DEF NewsIsReached
      <4> QED BY <3>2, <4>1, <4>2, <4>3
    <3>3. CASE b # c
      BY <1>1, <2>3, <3>1, <3>3 DEF HasTargets, SettledIsReached, NewsIsReached, IdleIsEmpty
    <3> QED BY <3>2, <3>3
  <2> QED BY <2>2, <2>4 DEF WatchPart
<1>6. ASSUME UNCHANGED <<settled, news>> PROVE WatchPart'
  <2>1. WatchTypes'
    BY <1>1, <1>2, <1>6 DEF requestPart, WatchPart, WatchTypes
  <2>2. ASSUME NEW b \in Creators
        PROVE  (HasTargets(b) /\ SettledIsReached(b) /\ NewsIsReached(b) /\ IdleIsEmpty(b))'
    BY <1>1, <1>6 DEF requestPart, WatchPart, HasTargets, SettledIsReached, NewsIsReached,
                      IdleIsEmpty
  <2> QED BY <2>1, <2>2 DEF WatchPart
<1>7. WatchPart'
  <2>1. CASE UNCHANGED <<settled, news>>
    BY <1>6, <2>1
  <2>2. CASE settled[c] # targets[c] /\ UNCHANGED settled /\ news' = [news EXCEPT ![c] = {}]
    BY <1>4, <2>2
  <2>3. ASSUME NEW a \in AZs, pc[c] = "poll", a \in targets[c], az[a].status \in Final,
               settled' = [settled EXCEPT ![c] = @ \cup {a}],
               news' = [news EXCEPT ![c] = @ \cup {<<a, az[a].status>>}]
        PROVE  WatchPart'
    BY <1>5, <2>3
  <2> QED BY <1>3, <2>1, <2>2, <2>3
<1>8. RowPart'
  BY <1>1, PlainRowLemma DEF requestPart
<1> QED BY <1>1, <1>7, <1>8, FaultLemma DEF requestPart

\* A watcher that returns leaves nothing behind.
LEMMA ReturnLemma ==
  ASSUME WatchPart, NEW c \in Creators, Return(c), UNCHANGED reached
  PROVE  WatchPart'
<1>1. /\ pc' \in [Requests -> Labels]
      /\ \A q \in Requests : pc'[q] = IF q = c THEN "done" ELSE pc[q]
  BY DEF Return, Goto, WatchPart, WatchTypes, Requests, Labels
<1>2. WatchTypes'
  BY <1>1 DEF Return, WatchPart, WatchTypes
<1>3. ASSUME NEW b \in Creators
      PROVE  (HasTargets(b) /\ SettledIsReached(b) /\ NewsIsReached(b) /\ IdleIsEmpty(b))'
  BY <1>1 DEF Return, WatchPart, WatchTypes, HasTargets, SettledIsReached, NewsIsReached,
              IdleIsEmpty, Requests
<1> QED BY <1>2, <1>3 DEF WatchPart

\* The outcome a watcher writes is what the AZs of its request have reached.
LEMMA AllSettledLemma ==
  ASSUME AZPart, requestPart, NEW c \in Creators, AllSettled(c)
  PROVE  requestPart'
<1>1. Return(c) /\ TickOver(c) /\ settled[c] = targets[c]
  BY DEF AllSettled
<1>2. UNCHANGED <<reached, vpc, targets, stopping>>
  BY <1>1 DEF Return, azVars
<1>3. pc[c] = "poll" /\ pc'[c] = "done" /\ \A b \in Creators : pc[b] = "done" => pc'[b] = "done"
  BY <1>1 DEF TickOver, Return, Goto, requestPart, WatchPart, WatchTypes, Requests
<1>4. SettledIsReached(c) /\ NewsIsReached(c)
  BY DEF requestPart, WatchPart
<1>5. \A a \in targets[c] : \E s \in Final : <<a, s>> \in reached
  BY <1>1, <1>4 DEF SettledIsReached
<1>6. news[c] \subseteq AZs \X Final /\ news[c] \subseteq reached /\ news[c] # {}
      /\ \A n \in news[c] : n[1] \in targets[c]
  BY <1>1, <1>3, <1>4 DEF NewsIsReached, requestPart, WatchPart, WatchTypes
<1>7. CASE HasFailed(c)
  <2>1. \E a \in targets[c] : <<a, "failed">> \in reached
    BY <1>6, <1>7 DEF HasFailed
  <2>2. row' \in {row, "partial_running"}
    BY <1>7, TryUpdateLemma DEF AllSettled
  <2>3. PartialIsAnswered'
    BY <1>2, <1>3, <1>5, <2>1, <2>2 DEF PartialIsAnswered, requestPart, RowPart
  <2>4. RunningIsAnswered'
    BY <1>2, <1>3, <2>2 DEF RunningIsAnswered, requestPart, RowPart
  <2>5. row' \in RowStatuses
    BY <2>2 DEF requestPart, RowPart, RowStatuses
  <2> QED BY <1>1, <1>2, <2>3, <2>4, <2>5, <1>7, TryUpdateLemma, FaultLemma, ReturnLemma
          DEF AllSettled, requestPart, RowPart
<1>8. CASE ~HasFailed(c)
  <2>1. \E a \in targets[c] : <<a, "running">> \in reached
    <3>1. PICK n \in news[c] : n \in AZs \X Final
      BY <1>6
    <3>2. n[1] \in AZs /\ n[2] \in {"running", "failed"} /\ n = <<n[1], n[2]>>
      BY <3>1 DEF Final
    <3>3. n = <<n[1], "running">>
      BY <1>8, <3>2 DEF HasFailed
    <3> QED BY <1>6, <3>3
  <2>2. row' \in {row, "running"}
    BY <1>8, TryUpdateLemma DEF AllSettled
  <2>3. RunningIsAnswered'
    BY <1>2, <1>3, <1>5, <2>1, <2>2 DEF RunningIsAnswered, requestPart, RowPart
  <2>4. PartialIsAnswered'
    BY <1>2, <1>3, <2>2 DEF PartialIsAnswered, requestPart, RowPart
  <2>5. row' \in RowStatuses
    BY <2>2 DEF requestPart, RowPart, RowStatuses
  <2> QED BY <1>1, <1>2, <2>3, <2>4, <2>5, <1>8, TryUpdateLemma, FaultLemma, ReturnLemma
          DEF AllSettled, requestPart, RowPart
<1> QED BY <1>7, <1>8

\* The timeout and the shutdown of the polling write a plain status.
LEMMA GiveUpPollLemma ==
  ASSUME requestPart, NEW c \in Creators, PollTimesOut(c) \/ PollInterrupted(c)
  PROVE  requestPart'
<1>1. /\ Return(c) /\ pc[c] = "poll"
      /\ row' \in {row, "failed", "interrupted"} /\ (UNCHANGED faults \/ Fault)
  BY TryUpdateLemma DEF PollTimesOut, PollInterrupted, GiveUpPoll
<1>2. UNCHANGED <<reached, vpc, targets, stopping>> /\ Goto(c, "done")
  BY <1>1 DEF Return, azVars
<1>3. RowPart'
  BY <1>1, <1>2, DoneStaysLemma, PlainRowLemma DEF requestPart, Requests
<1> QED BY <1>1, <1>2, <1>3, FaultLemma, ReturnLemma DEF requestPart

\* DeletePCCN and its watcher.
LEMMA DeleteLemma ==
  ASSUME requestPart, NEW d \in Deleters, Delete(d)
  PROVE  requestPart'
<1> USE DEF restOfRow, azVars, sagaVars, tickVars
<1>1. d \in Requests /\ d \notin Creators
  BY PccnAssumption DEF Requests
<1>2. UNCHANGED <<reached, vpc, asked, settled, news, stopping>>
  BY DEF Delete, CheckDelete, LookupDelete, SubmitDelete, Submit, Reject, MarkDeleting,
         DeletionAnswered, GiveUpDeletion
<1>3. /\ row' \in {row, "absent", "deleting", "failed"}
      /\ UNCHANGED faults \/ Fault
  BY <1>1, LookUpLemma, TryUpdateLemma
     DEF Delete, CheckDelete, LookupDelete, SubmitDelete, Submit, Reject, MarkDeleting,
         DeletionAnswered, DropRow, GiveUpDeletion
<1>4. CASE LookupDelete(d)
  <2>1. PICK found \in SUBSET AZs : targets' = [targets EXCEPT ![d] = found]
    BY <1>1, <1>4, LookUpLemma DEF LookupDelete
  <2>2. UNCHANGED pc /\ \A c \in Creators : targets'[c] = targets[c]
    BY <1>1, <1>4, <2>1 DEF LookupDelete, requestPart, WatchPart, WatchTypes, Requests
  <2>3. WatchTypes'
    BY <1>1, <1>2, <2>1, <2>2 DEF requestPart, WatchPart, WatchTypes
  <2>4. WatchPart'
    BY <1>2, <2>2, <2>3 DEF requestPart, WatchPart, HasTargets, SettledIsReached,
                            NewsIsReached, IdleIsEmpty
  <2>5. RowPart'
    BY <1>2, <1>3, <2>2, PlainRowLemma DEF requestPart
  <2> QED BY <1>2, <1>3, <2>4, <2>5, FaultLemma DEF requestPart
<1>5. CASE ~LookupDelete(d)
  <2>1. UNCHANGED targets
    BY <1>5 DEF Delete, CheckDelete, SubmitDelete, Submit, Reject, MarkDeleting,
                DeletionAnswered, GiveUpDeletion
  <2>2. /\ pc[d] \notin {"poll", "done"}
        /\ \E label \in Labels \ {"register", "wait", "poll"} : Goto(d, label)
    BY <1>5 DEF Delete, CheckDelete, SubmitDelete, Submit, Reject, MarkDeleting,
                DeletionAnswered, GiveUpDeletion, Labels
  <2>3. WatchPart'
    BY <1>1, <1>2, <2>1, <2>2, MovesOnLemma DEF requestPart
  <2>4. RowPart'
    BY <1>1, <1>2, <1>3, <2>1, <2>2, DoneStaysLemma, PlainRowLemma DEF requestPart
  <2> QED BY <1>2, <1>3, <2>3, <2>4, FaultLemma DEF requestPart
<1> QED BY <1>4, <1>5

-----------------------------------------------------------------------------
(* PccnInv is inductive. *)

\* Nothing has been requested.
LEMMA InitLemma == Init => PccnInv
<1> SUFFICES ASSUME Init PROVE PccnInv
  OBVIOUS
<1>1. AZPart /\ WorkPart
  BY DEF Init, NoRow, NoReplay, NoListing, AZPart, AZTypes, FinalIsReached, WorkPart,
         AZStatuses, WorkStatuses, Places, Verdicts, Final
<1>2. SagaPart
  <2>1. <<>> \in Seq(AZs)
    OBVIOUS
  <2> QED BY <2>1 DEF Init, NoSaga, SagaPart, SagaStatuses
<1>3. WatchPart
  BY DEF Init, WatchPart, WatchTypes, HasTargets, SettledIsReached, NewsIsReached,
         IdleIsEmpty, Requests, Labels
<1>4. RowPart
  BY DEF Init, RowPart, RowStatuses, RunningIsAnswered, PartialIsAnswered
<1>5. RestPart
  <2>1. 0 \in 0..MaxFaults
    BY PccnAssumption
  <2> QED BY <2>1, Zenon DEF Init, RestPart
<1> QED BY <1>1, <1>2, <1>3, <1>4, <1>5 DEF PccnInv

\* One case for each process of Next.
LEMMA StepLemma == PccnInv /\ [Next]_vars => PccnInv'
<1> SUFFICES ASSUME PccnInv, [Next]_vars PROVE PccnInv'
  OBVIOUS
<1>1. AZPart /\ WorkPart /\ SagaPart /\ WatchPart /\ RowPart /\ RestPart
  BY DEF PccnInv
<1>2. ASSUME requestsSame PROVE AZPart' /\ WorkPart' /\ SagaPart'
  BY <1>1, <1>2 DEF requestsSame, AZPart, AZTypes, FinalIsReached, WorkPart, SagaPart
<1>3. CASE AZMoves
  <2>1. /\ AZPart' /\ WorkPart' /\ reached \subseteq reached'
        /\ UNCHANGED restOfAZ /\ (UNCHANGED faults \/ Fault)
    BY <1>1, <1>3, AZMovesLemma
  <2>2. WatchPart' /\ RowPart'
    BY <1>1, <2>1, WatchersSameLemma DEF watchersSame, restOfAZ
  <2>3. SagaPart' /\ RestPart'
    BY <1>1, <2>1, FaultLemma DEF restOfAZ, sagaVars, SagaPart
  <2> QED BY <2>1, <2>2, <2>3 DEF PccnInv
<1>4. ASSUME NEW p \in Requests, SagaMoves(p) PROVE PccnInv'
  BY <1>1, <1>4, SagaMovesLemma, WatchersSameLemma DEF PccnInv
<1>5. ASSUME NEW c \in Creators, Create(c) PROVE PccnInv'
  <2> USE DEF restOfRow, restOfTick, azVars, background, sagaVars
  <2>1. CASE \/ SubmitCreate(c) \/ Reject(c) \/ Register(c) \/ SagaAnswers(c)
             \/ SagaTimesOut(c) \/ SagaInterrupted(c) \/ MarkFailed(c)
    <3>1. UNCHANGED <<az, work, reached, replay, loop, handling>>
      BY <2>1 DEF SubmitCreate, Submit, Reject, Register, SagaAnswers, SagaTimesOut,
                  SagaInterrupted, GiveUpSaga, MarkFailed
    <3>2. UNCHANGED saga \/ saga' = [saga EXCEPT ![c] = [status |-> "running", answered |-> <<>>]]
      BY <2>1 DEF SubmitCreate, Submit, Reject, Register, SagaAnswers, SagaTimesOut,
                  SagaInterrupted, GiveUpSaga, MarkFailed
    <3>3. AZPart' /\ WorkPart'
      BY <1>1, <3>1 DEF AZPart, AZTypes, FinalIsReached, WorkPart
    <3>4. SagaPart'
      BY <1>1, <3>1, <3>2, SubmittedLemma DEF Requests
    <3> QED BY <1>1, <2>1, <3>3, <3>4, CreateLemma DEF PccnInv, requestPart
  <2>2. CASE Lookup(c)
    BY <1>1, <1>2, <2>2, LookupLemma DEF Lookup, requestsSame, PccnInv, requestPart
  <2>3. CASE NextTick(c) \/ \E a \in AZs : Ask(c, a) \/ AskFails(c, a)
    <3>1. requestsSame
      BY <2>3 DEF NextTick, Ask, AskFails, requestsSame
    <3> QED BY <1>1, <1>2, <2>3, <3>1, TickLemma DEF PccnInv, requestPart
  <2>4. CASE AllSettled(c)
    <3>1. requestsSame
      BY <2>4 DEF AllSettled, Return, requestsSame
    <3> QED BY <1>1, <1>2, <2>4, <3>1, AllSettledLemma DEF PccnInv, requestPart
  <2>5. CASE PollTimesOut(c) \/ PollInterrupted(c)
    <3>1. requestsSame
      BY <2>5 DEF PollTimesOut, PollInterrupted, GiveUpPoll, Return, requestsSame
    <3> QED BY <1>1, <1>2, <2>5, <3>1, GiveUpPollLemma DEF PccnInv, requestPart
  <2> QED BY <1>5, <2>1, <2>2, <2>3, <2>4, <2>5 DEF Create
<1>6. ASSUME NEW d \in Deleters, Delete(d) PROVE PccnInv'
  <2> USE DEF restOfRow, azVars, background, sagaVars
  <2>1. UNCHANGED <<az, work, reached, replay, loop, handling>>
    BY <1>6 DEF Delete, CheckDelete, LookupDelete, SubmitDelete, Submit, Reject, MarkDeleting,
                DeletionAnswered, GiveUpDeletion
  <2>2. UNCHANGED saga \/ saga' = [saga EXCEPT ![d] = [status |-> "running", answered |-> <<>>]]
    BY <1>6 DEF Delete, CheckDelete, LookupDelete, SubmitDelete, Submit, Reject, MarkDeleting,
                DeletionAnswered, GiveUpDeletion
  <2>3. AZPart' /\ WorkPart'
    BY <1>1, <2>1 DEF AZPart, AZTypes, FinalIsReached, WorkPart
  <2>4. SagaPart'
    BY <1>1, <2>1, <2>2, SubmittedLemma DEF Requests
  <2> QED BY <1>1, <1>6, <2>3, <2>4, DeleteLemma DEF PccnInv, requestPart
<1>7. ASSUME NEW v \in 1..2, CheckVPC(v) \/ MarkVPCDeleted(v) PROVE PccnInv'
  <2> USE DEF restOfVPC, azVars, background, sagaVars
  <2>1. requestsSame /\ watchersSame /\ UNCHANGED stopping /\ (UNCHANGED faults \/ Fault)
    BY <1>7 DEF CheckVPC, MarkVPCDeleted, requestsSame, watchersSame
  <2>2. vpc' \in [1..2 -> {"up", "unused", "deleted"}]
    BY <1>1, <1>7 DEF CheckVPC, MarkVPCDeleted, RestPart
  <2>3. RestPart'
    BY <1>1, <2>1, <2>2, PccnAssumption DEF RestPart, Fault
  <2>4. WatchPart' /\ RowPart'
    BY <1>1, <2>1, WatchersSameLemma DEF requestsSame
  <2> QED BY <1>2, <2>1, <2>3, <2>4 DEF PccnInv
<1>8. CASE Stop \/ UNCHANGED vars
  <2>1. requestsSame /\ watchersSame
    BY <1>8 DEF Stop, vars, azVars, background, sagaVars, requestsSame, watchersSame
  <2>2. RestPart'
    BY <1>1, <1>8 DEF Stop, vars, RestPart
  <2>3. WatchPart' /\ RowPart'
    BY <1>1, <2>1, WatchersSameLemma DEF requestsSame
  <2> QED BY <1>2, <2>1, <2>2, <2>3 DEF PccnInv
<1> QED BY <1>3, <1>4, <1>5, <1>6, <1>7, <1>8 DEF Next

\* The invariant of a PCCN: what the watchers have settled and what the registry
\* claims was reached in the AZs, whoever else creates or deletes the connection.
THEOREM PccnSafety == Spec => []PccnInv
<1>1. Init => PccnInv
  BY InitLemma
<1>2. PccnInv /\ [Next]_vars => PccnInv'
  BY StepLemma
<1> QED BY <1>1, <1>2, PTL DEF Spec

\* Every variable keeps its type (CreatePCCN, DeletePCCN, their watchers and the AZs).
THEOREM PccnTypeCorrect == Spec => []TypeOK
<1>1. PccnInv => TypeOK
  BY DEF PccnInv, AZPart, AZTypes, WorkPart, SagaPart, WatchPart, WatchTypes, RowPart,
         RestPart, TypeOK
<1> QED BY <1>1, PccnSafety, PTL

\* A PCCN shown as 'running' was answered by every AZ of a request, and one of them
\* had it running; one shown as 'partial_running' too, and one of them had failed
\* (pollPCCNAZWorkerStatuses).
THEOREM OutcomeWasAnswered == Spec => []OutcomeIsAnswered
<1>1. PccnInv => OutcomeIsAnswered
  BY DEF PccnInv, RowPart, OutcomeIsAnswered
<1> QED BY <1>1, PccnSafety, PTL

=============================================================================
