-------------------------- MODULE RegionVpcProofs --------------------------
(***************************************************************************)
(* For every number of AZs, of concurrent create and delete requests and  *)
(* of faults: the variables of RegionVpc keep their types, the registry   *)
(* says 'running' only for what the AZs have built, and what they build   *)
(* is registered.  And for the VPC of one create request: what its        *)
(* watcher has settled stays, and ends with a final status.               *)
(***************************************************************************)
EXTENDS RegionVpc, TLAPS

-----------------------------------------------------------------------------
(* The operators. *)

\* A status is a row status, and "running" needs every entry to be "running".
LEMMA OverallLemma ==
  ASSUME NEW d \in [AZs -> Details]
  PROVE  /\ Overall(d) \in RowStatuses
         /\ Overall(d) = "running" => \A a \in AZs : d[a] \in {"none", "running"}
BY DEF Overall, Has, RowStatuses

\* A merge takes each entry from one of its two arguments.
LEMMA MergeLemma ==
  ASSUME NEW d \in [AZs -> Details], NEW n \in [AZs -> Details]
  PROVE  /\ Merge(d, n) \in [AZs -> Details]
         /\ \A a \in AZs : Merge(d, n)[a] \in {d[a], n[a]}
BY DEF Merge

\* A constant assignment of details is an assignment of details.
LEMMA AllLemma ==
  ASSUME NEW s \in Details
  PROVE  All(s) \in [AZs -> Details] /\ \A a \in AZs : All(s)[a] = s
BY DEF All

-----------------------------------------------------------------------------
(* RegionInv is inductive. *)

\* Nothing is stored before anything is built.
LEMMA InitLemma == Init => RegionInv
<1> SUFFICES ASSUME Init PROVE RegionInv
  OBVIOUS
<1>1. All("absent") \in [AZs -> AZStatuses] /\ All("none") \in [AZs -> Details]
  BY DEF All, AZStatuses, Details
<1>2. row \in [status : RowStatuses, details : [AZs -> Details]]
  BY <1>1 DEF Init, NoRow, RowStatuses
<1>3. saga \in [Creators -> SagaRecords]
  BY DEF Init, NoSaga, All, SagaRecords, SagaStatuses, StepStatuses
<1>4. /\ pc \in [Creators \cup Deleters -> Labels]
      /\ asked \in [Creators -> 0..NumAZs]
      /\ settled \in [Creators -> SUBSET AZs]
  BY RegionAssumption DEF Init, Labels
<1>5. found \in [Creators -> [AZs -> Details]] /\ snap \in [Creators -> [AZs -> Details]]
  BY <1>1 DEF Init
<1>6. TypeOK
  BY <1>1, <1>2, <1>3, <1>4, <1>5 DEF Init, TypeOK
<1>7. BuiltAZs /\ DetailsEarned(row.details) /\ CopiesEarned /\ RowAgrees
  BY DEF Init, BuiltAZs, DetailsEarned, CopiesEarned, RowAgrees, NoRow, All
<1> QED BY <1>6, <1>7 DEF RegionInv

\* The AZs' own moves: 'running' is entered together with built.
LEMMA AZMovesLemma ==
  ASSUME RegionInv, NEW a \in AZs, NEW from, NEW to \in AZStatuses, AZMoves(a, from, to)
  PROVE  RegionInv'
BY DEF AZMoves, RegionInv, TypeOK, BuiltAZs, DetailsEarned, CopiesEarned, RowAgrees, watchVars

\* A saga is replaced by a saga.
LEMMA SagaBecomesLemma ==
  ASSUME saga \in [Creators -> SagaRecords], NEW c \in Creators,
         NEW status \in SagaStatuses, NEW steps \in [AZs -> StepStatuses],
         SagaBecomes(c, status, steps)
  PROVE  saga' \in [Creators -> SagaRecords]
BY DEF SagaBecomes, SagaRecords

\* The steps of a saga after one of them has ended.
LEMMA SetStepLemma ==
  ASSUME saga \in [Creators -> SagaRecords], NEW c \in Creators,
         NEW a \in AZs, NEW s \in StepStatuses
  PROVE  SetStep(c, a, s) \in [AZs -> StepStatuses]
<1>1. saga[c].steps \in [AZs -> StepStatuses]
  BY DEF SagaRecords
<1> QED BY <1>1 DEF SetStep

\* The saga engine builds nothing itself.
LEMMA SagaLemma ==
  ASSUME RegionInv, NEW c \in Creators, SagaMoves(c)
  PROVE  RegionInv'
<1> USE DEF AZStatuses
<1>1. UNCHANGED <<built, row, watchVars, stopping>>
  BY DEF SagaMoves, StepSucceeds, StepFails, Compensates, SagaFails
<1>2. /\ az' \in [AZs -> AZStatuses]
      /\ \A a \in AZs : az'[a] = "running" => az[a] = "running"
  BY DEF SagaMoves, StepSucceeds, StepFails, Compensates, SagaFails, AZCreates, AZDeletes,
         RegionInv, TypeOK
<1>3. faults' \in Nat
  <2>1. UNCHANGED faults \/ Fault
    BY DEF SagaMoves, StepSucceeds, StepFails, Compensates, SagaFails
  <2> QED BY <2>1 DEF Fault, RegionInv, TypeOK
<1>4. saga' \in [Creators -> SagaRecords]
  <2>1. saga \in [Creators -> SagaRecords]
    BY DEF RegionInv, TypeOK
  <2>2. saga[c].steps \in [AZs -> StepStatuses]
    BY <2>1 DEF SagaRecords
  <2>3. {"running", "compensating", "succeeded", "failed"} \subseteq SagaStatuses
        /\ {"succeeded", "failed", "compensated"} \subseteq StepStatuses
    BY DEF SagaStatuses, StepStatuses
  <2>4. ASSUME NEW a \in AZs, StepSucceeds(c, a) PROVE saga' \in [Creators -> SagaRecords]
    <3>1. SetStep(c, a, "succeeded") \in [AZs -> StepStatuses]
      BY <2>1, <2>3, SetStepLemma
    <3>2. \/ SagaBecomes(c, "succeeded", SetStep(c, a, "succeeded"))
          \/ SagaBecomes(c, "running", SetStep(c, a, "succeeded"))
      BY <2>4, Zenon DEF StepSucceeds
    <3> QED BY <2>1, <2>3, <3>1, <3>2, SagaBecomesLemma
  <2>5. ASSUME NEW a \in AZs, StepFails(c, a) \/ Compensates(c, a)
        PROVE  saga' \in [Creators -> SagaRecords]
    <3>1. \A s \in {"failed", "compensated"} : SetStep(c, a, s) \in [AZs -> StepStatuses]
      BY <2>1, <2>3, SetStepLemma
    <3>2. \E s \in {"failed", "compensated"} : SagaBecomes(c, "compensating", SetStep(c, a, s))
      BY <2>5 DEF StepFails, Compensates
    <3> QED BY <2>1, <2>3, <3>1, <3>2, SagaBecomesLemma
  <2>6. CASE SagaFails(c)
    <3>1. SagaBecomes(c, "failed", saga[c].steps)
      BY <2>6 DEF SagaFails
    <3> QED BY <2>1, <2>2, <2>3, <3>1, SagaBecomesLemma
  <2> QED BY <2>4, <2>5, <2>6 DEF SagaMoves
<1>5. TypeOK'
  BY <1>1, <1>2, <1>3, <1>4 DEF watchVars, RegionInv, TypeOK
<1>6. (BuiltAZs /\ DetailsEarned(row.details) /\ CopiesEarned /\ RowAgrees)'
  BY <1>1, <1>2 DEF watchVars, RegionInv, BuiltAZs, DetailsEarned, CopiesEarned, RowAgrees
<1> QED BY <1>5, <1>6 DEF RegionInv

-----------------------------------------------------------------------------
(* The watchers and the deletions: they leave the AZs and the sagas alone, so *)
(* it is enough to look at the row, the control state and the copies apart.   *)

RowOK ==
  /\ row \in [status : RowStatuses, details : [AZs -> Details]]
  /\ DetailsEarned(row.details) /\ RowAgrees

ControlOK ==
  /\ pc \in [Creators \cup Deleters -> Labels]
  /\ asked \in [Creators -> 0..NumAZs] /\ settled \in [Creators -> SUBSET AZs]
  /\ stopping \in BOOLEAN /\ faults \in Nat

CopiesOK ==
  /\ found \in [Creators -> [AZs -> Details]] /\ snap \in [Creators -> [AZs -> Details]]
  /\ CopiesEarned

\* The three parts follow from the invariant.
LEMMA PartsLemma == RegionInv => RowOK /\ ControlOK /\ CopiesOK
BY DEF RegionInv, TypeOK, RowOK, ControlOK, CopiesOK

\* They make the next state's invariant when the AZs and the sagas are left alone.
LEMMA FrameLemma ==
  ASSUME RegionInv, UNCHANGED sagaVars, RowOK', ControlOK', CopiesOK'
  PROVE  RegionInv'
BY DEF RegionInv, TypeOK, RowOK, ControlOK, CopiesOK, sagaVars, BuiltAZs

\* A row left alone stays good as long as built does not change.
LEMMA SameRowLemma ==
  ASSUME RowOK, UNCHANGED <<row, built>>
  PROVE  RowOK'
BY DEF RowOK, DetailsEarned, RowAgrees

\* A row that is updated, with details that were earned, is good.
LEMMA UpdateRowLemma ==
  ASSUME RowOK, UNCHANGED built,
         NEW status \in RowStatuses, NEW details \in [AZs -> Details],
         DetailsEarned(details),
         status = "running" => \A a \in AZs : details[a] \in {"none", "running"},
         UpdateRow(status, details)
  PROVE  RowOK'
BY DEF RowOK, UpdateRow, DetailsEarned, RowAgrees

\* Details that do not say 'running' are earned.
LEMMA NotRunningLemma ==
  ASSUME NEW s \in Details, s # "running"
  PROVE  All(s) \in [AZs -> Details] /\ DetailsEarned(All(s))
BY DEF All, DetailsEarned

\* A goto leaves the control state good.
LEMMA GotoLemma ==
  ASSUME ControlOK, NEW p \in Creators \cup Deleters, NEW label \in Labels,
         Goto(p, label)
  PROVE  pc' \in [Creators \cup Deleters -> Labels]
BY DEF ControlOK, Goto

\* The details a watcher keeps are replaced by details that were earned.
LEMMA KeepFoundLemma ==
  ASSUME CopiesOK, UNCHANGED built, NEW c \in Creators, NEW d \in [AZs -> Details],
         DetailsEarned(d), found' = [found EXCEPT ![c] = d]
  PROVE  /\ found' \in [Creators -> [AZs -> Details]]
         /\ \A e \in Creators : DetailsEarned(found[e])'
BY DEF CopiesOK, CopiesEarned, DetailsEarned

\* The same of the details it has read.
LEMMA KeepSnapLemma ==
  ASSUME CopiesOK, UNCHANGED built, NEW c \in Creators, NEW d \in [AZs -> Details],
         DetailsEarned(d), snap' = [snap EXCEPT ![c] = d]
  PROVE  /\ snap' \in [Creators -> [AZs -> Details]]
         /\ \A e \in Creators : DetailsEarned(snap[e])'
BY DEF CopiesOK, CopiesEarned, DetailsEarned

\* Copies left alone stay good.
LEMMA SameCopiesLemma ==
  ASSUME CopiesOK, UNCHANGED built
  PROVE  /\ UNCHANGED found => /\ found' \in [Creators -> [AZs -> Details]]
                               /\ \A e \in Creators : DetailsEarned(found[e])'
         /\ UNCHANGED snap  => /\ snap' \in [Creators -> [AZs -> Details]]
                               /\ \A e \in Creators : DetailsEarned(snap[e])'
BY DEF CopiesOK, CopiesEarned, DetailsEarned

-----------------------------------------------------------------------------
(* One lemma for each group of actions. *)

\* A failed statement counts as one fault.
LEMMA FaultLemma ==
  ASSUME ControlOK, UNCHANGED faults \/ Fault
  PROVE  faults' \in Nat
BY DEF ControlOK, Fault

\* Starting a saga writes nothing but the saga.
LEMMA SubmitLemma ==
  ASSUME RegionInv, NEW c \in Creators, SubmitSaga(c)
  PROVE  RegionInv'
<1>1. saga \in [Creators -> SagaRecords]
  BY DEF RegionInv, TypeOK
<1>2. "running" \in SagaStatuses /\ All("pending") \in [AZs -> StepStatuses]
  BY DEF SagaStatuses, StepStatuses, All
<1>3. saga' \in [Creators -> SagaRecords]
  BY <1>1, <1>2, SagaBecomesLemma DEF SubmitSaga
<1>4. pc' \in [Creators \cup Deleters -> Labels]
  BY PartsLemma, GotoLemma DEF SubmitSaga, Labels
<1>5. UNCHANGED <<az, built, row, asked, settled, found, snap, stopping, faults>>
  BY DEF SubmitSaga
<1>6. TypeOK'
  BY <1>3, <1>4, <1>5 DEF RegionInv, TypeOK
<1>7. (BuiltAZs /\ DetailsEarned(row.details) /\ CopiesEarned /\ RowAgrees)'
  BY <1>5 DEF RegionInv, BuiltAZs, DetailsEarned, CopiesEarned, RowAgrees
<1> QED BY <1>6, <1>7 DEF RegionInv

\* Steps that move a process and leave the row and the copies alone.
LEMMA QuietLemma ==
  ASSUME RegionInv, UNCHANGED <<sagaVars, row, found, snap>>, ControlOK'
  PROVE  RegionInv'
<1>1. UNCHANGED built
  BY DEF sagaVars
<1>2. RowOK' /\ CopiesOK'
  BY <1>1, PartsLemma, SameRowLemma, SameCopiesLemma DEF CopiesOK, CopiesEarned
<1> QED BY <1>2, FrameLemma

\* Rejected requests, the end of a saga and the checks of a deletion.
LEMMA MovesOnLemma ==
  ASSUME RegionInv,
         \/ \E c \in Creators : Reject(c) \/ SagaAnswers(c)
         \/ \E d \in Deleters : CheckDelete(d)
  PROVE  RegionInv'
<1>1. PICK p \in Creators \cup Deleters, label \in Labels : Goto(p, label)
  BY DEF Reject, SagaAnswers, CheckDelete, Labels
<1>2. UNCHANGED <<sagaVars, row, asked, settled, found, snap, stopping, faults>>
  BY DEF Reject, SagaAnswers, CheckDelete
<1>3. ControlOK'
  BY <1>1, <1>2, PartsLemma, GotoLemma DEF ControlOK
<1> QED BY <1>2, <1>3, QuietLemma

\* Register: all details are 'creating'.
LEMMA RegisterLemma ==
  ASSUME RegionInv, NEW c \in Creators, Register(c)
  PROVE  RegionInv'
<1>1. RowOK'
  <2>1. CASE UNCHANGED row
    BY <2>1, PartsLemma, SameRowLemma DEF Register, sagaVars
  <2>2. CASE row' = [status |-> "creating", details |-> All("creating")]
    <3>1. "creating" \in Details /\ "creating" \in RowStatuses
      BY DEF Details, RowStatuses
    <3>2. All("creating") \in [AZs -> Details] /\ \A a \in AZs : All("creating")[a] = "creating"
      BY <3>1, AllLemma
    <3> QED BY <2>2, <3>1, <3>2 DEF RowOK, DetailsEarned, RowAgrees
  <2> QED BY <2>1, <2>2 DEF Register
<1>2. ControlOK'
  <2>1. pc' \in [Creators \cup Deleters -> Labels]
    BY PartsLemma, GotoLemma DEF Register, Labels
  <2>2. faults' \in Nat
    BY PartsLemma, FaultLemma DEF Register
  <2> QED BY <2>1, <2>2, PartsLemma DEF Register, ControlOK
<1>3. CopiesOK'
  BY PartsLemma, SameCopiesLemma DEF Register, sagaVars, CopiesOK, CopiesEarned
<1> QED BY <1>1, <1>2, <1>3, FrameLemma DEF Register

\* The update of a row whose details are all one status other than 'running'.
LEMMA UniformRowLemma ==
  ASSUME RegionInv, UNCHANGED built, NEW s \in RowStatuses, NEW d \in Details,
         s # "running", d # "running",
         UpdateRow(s, All(d)) \/ UNCHANGED row
  PROVE  RowOK'
BY PartsLemma, NotRunningLemma, UpdateRowLemma, SameRowLemma

\* A watcher that stops waiting for the saga, and a deletion.
LEMMA GiveUpSagaLemma ==
  ASSUME RegionInv,
         \/ \E c \in Creators : SagaTimesOut(c) \/ SagaInterrupted(c)
         \/ \E d \in Deleters : MarkDeleted(d)
  PROVE  RegionInv'
<1>1. UNCHANGED <<sagaVars, asked, settled, found, snap, stopping>> /\ UNCHANGED built
  BY DEF SagaTimesOut, SagaInterrupted, GiveUpSaga, MarkDeleted, sagaVars
<1>2. RowOK'
  <2>1. \/ UpdateRow("failed", All("failed")) \/ UNCHANGED row
        \/ UpdateRow("interrupted", All("interrupted"))
        \/ UpdateRow("deleted", All("none"))
    BY DEF SagaTimesOut, SagaInterrupted, GiveUpSaga, MarkDeleted
  <2>2. /\ {"failed", "interrupted", "deleted"} \subseteq RowStatuses
        /\ {"failed", "interrupted", "none"} \subseteq Details
    BY DEF RowStatuses, Details
  <2> QED BY <1>1, <2>1, <2>2, UniformRowLemma
<1>3. ControlOK'
  <2>1. PICK p \in Creators \cup Deleters, label \in Labels : Goto(p, label)
    BY DEF SagaTimesOut, SagaInterrupted, GiveUpSaga, MarkDeleted, Labels
  <2>2. faults' \in Nat
    BY PartsLemma, FaultLemma DEF SagaTimesOut, SagaInterrupted, GiveUpSaga, MarkDeleted
  <2> QED BY <1>1, <2>1, <2>2, PartsLemma, GotoLemma DEF ControlOK
<1>4. CopiesOK'
  BY <1>1, PartsLemma, SameCopiesLemma DEF CopiesOK, CopiesEarned
<1> QED BY <1>1, <1>2, <1>3, <1>4, FrameLemma

\* Details read off the saga's steps never say 'running'.
LEMMA MarkFromStepsLemma ==
  ASSUME RegionInv, NEW c \in Creators, MarkFromSteps(c)
  PROVE  RegionInv'
<1> DEFINE d == [a \in AZs |-> StepDetail(saga[c].steps[a])]
<1>1. d \in [AZs -> Details] /\ DetailsEarned(d)
  BY DEF StepDetail, Details, DetailsEarned
<1>2. UNCHANGED <<sagaVars, row, asked, settled, snap, stopping>> /\ UNCHANGED built
  BY DEF MarkFromSteps, sagaVars
<1>3. CopiesOK'
  <2>1. found' = [found EXCEPT ![c] = d] \/ UNCHANGED found
    BY DEF MarkFromSteps
  <2>2. /\ found' \in [Creators -> [AZs -> Details]]
        /\ \A e \in Creators : DetailsEarned(found[e])'
    BY <1>1, <1>2, <2>1, PartsLemma, KeepFoundLemma, SameCopiesLemma
  <2> QED BY <1>2, <2>2, PartsLemma, SameCopiesLemma DEF CopiesOK, CopiesEarned
<1>4. ControlOK'
  <2>1. Goto(c, "markWrite") \/ Goto(c, "done")
    BY DEF MarkFromSteps
  <2>2. pc' \in [Creators \cup Deleters -> Labels]
    BY <2>1, PartsLemma, GotoLemma DEF Labels
  <2>3. faults' \in Nat
    BY PartsLemma, FaultLemma DEF MarkFromSteps
  <2> QED BY <1>2, <2>2, <2>3, PartsLemma DEF ControlOK
<1>5. RowOK'
  BY <1>2, PartsLemma, SameRowLemma
<1> QED BY <1>2, <1>3, <1>4, <1>5, FrameLemma

\* The details a watcher holds have the type of details and are earned.
LEMMA HeldLemma ==
  ASSUME RegionInv, NEW c \in Creators
  PROVE  /\ found[c] \in [AZs -> Details] /\ DetailsEarned(found[c])
         /\ snap[c] \in [AZs -> Details] /\ DetailsEarned(snap[c])
         /\ row.details \in [AZs -> Details] /\ DetailsEarned(row.details)
BY DEF RegionInv, TypeOK, CopiesEarned

\* A watcher that drops what it has found.
LEMMA DropFoundLemma ==
  ASSUME RegionInv, UNCHANGED built, NEW c \in Creators,
         found' = [found EXCEPT ![c] = All("none")] \/ UNCHANGED found,
         snap' = [snap EXCEPT ![c] = All("none")] \/ UNCHANGED snap
  PROVE  CopiesOK'
<1>1. All("none") \in [AZs -> Details] /\ DetailsEarned(All("none"))
  BY NotRunningLemma DEF Details
<1>2. /\ found' \in [Creators -> [AZs -> Details]]
      /\ \A e \in Creators : DetailsEarned(found[e])'
  BY <1>1, PartsLemma, KeepFoundLemma, SameCopiesLemma
<1>3. /\ snap' \in [Creators -> [AZs -> Details]]
      /\ \A e \in Creators : DetailsEarned(snap[e])'
  BY <1>1, PartsLemma, KeepSnapLemma, SameCopiesLemma
<1> QED BY <1>2, <1>3 DEF CopiesOK, CopiesEarned

\* The marks of a failed saga are written under the status 'failed'.
LEMMA WriteMarksLemma ==
  ASSUME RegionInv, NEW c \in Creators, WriteMarks(c)
  PROVE  RegionInv'
<1>1. UNCHANGED <<sagaVars, asked, settled, snap, stopping>> /\ UNCHANGED built
  BY DEF WriteMarks, sagaVars
<1>2. RowOK'
  <2>1. UpdateRow("failed", found[c]) \/ UNCHANGED row
    BY DEF WriteMarks
  <2>2. "failed" \in RowStatuses
    BY DEF RowStatuses
  <2> QED BY <1>1, <2>1, <2>2, PartsLemma, HeldLemma, UpdateRowLemma, SameRowLemma
<1>3. CopiesOK'
  BY <1>1, DropFoundLemma DEF WriteMarks
<1>4. ControlOK'
  <2>1. pc' \in [Creators \cup Deleters -> Labels]
    BY PartsLemma, GotoLemma DEF WriteMarks, Labels
  <2>2. faults' \in Nat
    BY PartsLemma, FaultLemma DEF WriteMarks
  <2> QED BY <1>1, <2>1, <2>2, PartsLemma DEF ControlOK
<1> QED BY <1>1, <1>2, <1>3, <1>4, FrameLemma

\* An AZ that says 'running' is running, so it has been built.
LEMMA AskLemma ==
  ASSUME RegionInv, NEW c \in Creators, NEW a \in AZs, Ask(c, a) \/ AskFails(c, a)
  PROVE  RegionInv'
<1>1. UNCHANGED <<sagaVars, row, pc, snap, stopping>> /\ UNCHANGED built
  BY DEF Ask, AskFails, sagaVars
<1>2. CopiesOK'
  <2>1. CASE UNCHANGED found
    BY <1>1, <2>1, PartsLemma, SameCopiesLemma DEF CopiesOK, CopiesEarned
  <2>2. CASE found' = [found EXCEPT ![c][a] = az[a]] /\ az[a] \in {"running", "failed"}
    <3> DEFINE d == [found[c] EXCEPT ![a] = az[a]]
    <3>1. found' = [found EXCEPT ![c] = d]
      BY <2>2
    <3>2. d \in [AZs -> Details]
      BY <2>2, HeldLemma DEF Details
    <3>3. DetailsEarned(d)
      BY <2>2, HeldLemma DEF RegionInv, BuiltAZs, DetailsEarned
    <3> HIDE DEF d
    <3>4. /\ found' \in [Creators -> [AZs -> Details]]
          /\ \A e \in Creators : DetailsEarned(found[e])'
      BY <1>1, <3>1, <3>2, <3>3, PartsLemma, KeepFoundLemma
    <3> QED BY <1>1, <3>4, PartsLemma, SameCopiesLemma DEF CopiesOK, CopiesEarned
  <2> QED BY <2>1, <2>2 DEF Ask, AskFails
<1>3. ControlOK'
  <2>1. asked' \in [Creators -> 0..NumAZs]
    BY PartsLemma, RegionAssumption DEF Ask, AskFails, ControlOK, AZs
  <2>2. settled' \in [Creators -> SUBSET AZs]
    BY PartsLemma DEF Ask, AskFails, ControlOK
  <2>3. faults' \in Nat
    BY PartsLemma, FaultLemma DEF Ask, AskFails
  <2> QED BY <1>1, <2>1, <2>2, <2>3, PartsLemma DEF ControlOK
<1>4. RowOK'
  BY <1>1, PartsLemma, SameRowLemma
<1> QED BY <1>1, <1>2, <1>3, <1>4, FrameLemma

\* The end of a tick.
LEMMA EndTickLemma ==
  ASSUME RegionInv, NEW c \in Creators, EndTick(c)
  PROVE  RegionInv'
<1>1. UNCHANGED <<sagaVars, row, settled, found, snap, stopping, faults>>
  BY DEF EndTick
<1>2. PICK label \in Labels : Goto(c, label)
  BY DEF EndTick, NextTick, Labels
<1>3. asked' \in [Creators -> 0..NumAZs]
  BY PartsLemma, RegionAssumption DEF EndTick, ControlOK
<1>4. ControlOK'
  BY <1>1, <1>2, <1>3, PartsLemma, GotoLemma DEF ControlOK
<1> QED BY <1>1, <1>4, QuietLemma

\* What is read from the row was earned when it was written.
LEMMA ReadRowLemma ==
  ASSUME RegionInv, NEW c \in Creators, ReadRow(c)
  PROVE  RegionInv'
<1>1. UNCHANGED <<sagaVars, row, asked, settled, stopping>> /\ UNCHANGED built
  BY DEF ReadRow, sagaVars
<1>2. CopiesOK'
  <2>1. CASE snap' = [snap EXCEPT ![c] = row.details] /\ UNCHANGED found
    <3>1. /\ snap' \in [Creators -> [AZs -> Details]]
          /\ \A e \in Creators : DetailsEarned(snap[e])'
      BY <1>1, <2>1, PartsLemma, HeldLemma, KeepSnapLemma
    <3> QED BY <1>1, <2>1, <3>1, PartsLemma, SameCopiesLemma DEF CopiesOK, CopiesEarned
  <2>2. CASE found' = [found EXCEPT ![c] = All("none")] /\ UNCHANGED snap
    BY <1>1, <2>2, DropFoundLemma
  <2> QED BY <2>1, <2>2 DEF ReadRow
<1>3. ControlOK'
  <2>1. PICK label \in Labels : Goto(c, label)
    BY DEF ReadRow, NextTick, Labels
  <2>2. faults' \in Nat
    <3>1. UNCHANGED faults \/ Fault
      BY DEF ReadRow
    <3> QED BY <3>1, PartsLemma, FaultLemma
  <2> QED BY <1>1, <2>1, <2>2, PartsLemma, GotoLemma DEF ControlOK
<1>4. RowOK'
  BY <1>1, PartsLemma, SameRowLemma
<1> QED BY <1>1, <1>2, <1>3, <1>4, FrameLemma

\* A merge of earned details is earned, and Overall says 'running' only of
\* details that do.
LEMMA WriteRowLemma ==
  ASSUME RegionInv, NEW c \in Creators, WriteRow(c)
  PROVE  RegionInv'
<1> DEFINE d == Merge(snap[c], found[c])
<1>1. UNCHANGED <<sagaVars, asked, settled, stopping>> /\ UNCHANGED built
  BY DEF WriteRow, sagaVars
<1>2. d \in [AZs -> Details] /\ DetailsEarned(d)
  BY HeldLemma, MergeLemma DEF DetailsEarned
<1>3. RowOK'
  <2>1. UpdateRow(Overall(d), d) \/ UNCHANGED row
    BY DEF WriteRow
  <2> HIDE DEF d
  <2>2. /\ Overall(d) \in RowStatuses
        /\ Overall(d) = "running" => \A a \in AZs : d[a] \in {"none", "running"}
    BY <1>2, OverallLemma
  <2> QED BY <1>1, <1>2, <2>1, <2>2, PartsLemma, UpdateRowLemma, SameRowLemma
<1>4. CopiesOK'
  BY <1>1, DropFoundLemma DEF WriteRow
<1>5. ControlOK'
  <2>1. PICK label \in Labels : Goto(c, label)
    BY DEF WriteRow, NextTick, Labels
  <2>2. faults' \in Nat
    <3>1. UNCHANGED faults \/ Fault
      BY DEF WriteRow
    <3> QED BY <3>1, PartsLemma, FaultLemma
  <2> QED BY <1>1, <2>1, <2>2, PartsLemma, GotoLemma DEF ControlOK
<1> QED BY <1>1, <1>3, <1>4, <1>5, FrameLemma

\* A watcher that stops polling marks the AZs it has not settled, never as 'running'.
LEMMA GiveUpPollLemma ==
  ASSUME RegionInv, NEW c \in Creators, PollTimesOut(c) \/ PollInterrupted(c)
  PROVE  RegionInv'
<1>1. UNCHANGED <<sagaVars, row, asked, settled, snap, stopping, faults>> /\ UNCHANGED built
  BY DEF PollTimesOut, PollInterrupted, GiveUpPoll, sagaVars
<1>2. CopiesOK'
  <2>1. PICK s \in {"failed", "interrupted"} : GiveUpPoll(c, s)
    BY DEF PollTimesOut, PollInterrupted
  <2> DEFINE d == [a \in AZs |-> IF a \in settled[c] THEN "none" ELSE s]
  <2>2. d \in [AZs -> Details] /\ DetailsEarned(d)
    BY DEF Details, DetailsEarned
  <2>3. found' = [found EXCEPT ![c] = d]
    BY <2>1 DEF GiveUpPoll
  <2> HIDE DEF d
  <2>4. /\ found' \in [Creators -> [AZs -> Details]]
        /\ \A e \in Creators : DetailsEarned(found[e])'
    BY <1>1, <2>2, <2>3, PartsLemma, KeepFoundLemma
  <2> QED BY <1>1, <2>4, PartsLemma, SameCopiesLemma DEF CopiesOK, CopiesEarned
<1>3. ControlOK'
  <2>1. Goto(c, "lastRead")
    BY DEF PollTimesOut, PollInterrupted, GiveUpPoll
  <2>2. pc' \in [Creators \cup Deleters -> Labels]
    BY <2>1, PartsLemma, GotoLemma DEF Labels
  <2> QED BY <1>1, <2>2, PartsLemma DEF ControlOK
<1>4. RowOK'
  BY <1>1, PartsLemma, SameRowLemma
<1> QED BY <1>1, <1>2, <1>3, <1>4, FrameLemma

-----------------------------------------------------------------------------
(* The invariant. *)

\* Every step keeps RegionInv.
LEMMA StepLemma == RegionInv /\ [Next]_vars => RegionInv'
<1> SUFFICES ASSUME RegionInv, [Next]_vars PROVE RegionInv'
  OBVIOUS
<1>1. ASSUME NEW a \in AZs, WorkflowEnds(a) \/ Replayed(a) \/ Reverted(a) PROVE RegionInv'
  BY <1>1, AZMovesLemma DEF WorkflowEnds, Replayed, Reverted, AZStatuses
<1>2. ASSUME NEW c \in Creators, SagaMoves(c) PROVE RegionInv'
  BY <1>2, SagaLemma
<1>3. ASSUME NEW c \in Creators, Create(c) PROVE RegionInv'
  <2>1. CASE SubmitSaga(c) BY <2>1, SubmitLemma
  <2>2. CASE Reject(c) \/ SagaAnswers(c) BY <2>2, MovesOnLemma
  <2>3. CASE Register(c) BY <2>3, RegisterLemma
  <2>4. CASE SagaTimesOut(c) \/ SagaInterrupted(c) BY <2>4, GiveUpSagaLemma
  <2>5. CASE MarkFromSteps(c) BY <2>5, MarkFromStepsLemma
  <2>6. CASE WriteMarks(c) BY <2>6, WriteMarksLemma
  <2>7. CASE \E a \in AZs : Ask(c, a) \/ AskFails(c, a) BY <2>7, AskLemma
  <2>8. CASE EndTick(c) BY <2>8, EndTickLemma
  <2>9. CASE ReadRow(c) BY <2>9, ReadRowLemma
  <2>10. CASE WriteRow(c) BY <2>10, WriteRowLemma
  <2>11. CASE PollTimesOut(c) \/ PollInterrupted(c) BY <2>11, GiveUpPollLemma
  <2> QED BY <1>3, <2>1, <2>2, <2>3, <2>4, <2>5, <2>6, <2>7, <2>8, <2>9, <2>10, <2>11 DEF Create
<1>4. ASSUME NEW d \in Deleters, CheckDelete(d) \/ MarkDeleted(d) PROVE RegionInv'
  BY <1>4, MovesOnLemma, GiveUpSagaLemma
<1>5. CASE Stop
  <2>1. UNCHANGED <<sagaVars, row, watchVars, faults>> /\ stopping' = TRUE
    BY <1>5 DEF Stop
  <2>2. ControlOK'
    BY <2>1, PartsLemma DEF ControlOK, watchVars
  <2> QED BY <2>1, <2>2, QuietLemma DEF watchVars
<1>6. CASE UNCHANGED vars
  <2>1. UNCHANGED <<sagaVars, row, pc, asked, settled, found, snap, stopping, faults>>
    BY <1>6 DEF vars, watchVars
  <2>2. ControlOK'
    BY <2>1, PartsLemma DEF ControlOK
  <2> QED BY <2>1, <2>2, QuietLemma
<1> QED BY <1>1, <1>2, <1>3, <1>4, <1>5, <1>6 DEF Next

\* The invariant of the region VPC: whatever the order of the watchers' reads and
\* writes, every 'running' that is stored, read or about to be written was earned.
THEOREM RegionSafety == Spec => []RegionInv
<1>1. Init => RegionInv
  BY InitLemma
<1>2. RegionInv /\ [Next]_vars => RegionInv'
  BY StepLemma
<1> QED BY <1>1, <1>2, PTL DEF Spec

\* Every variable keeps its type (CreateRegionVPC, its watchers and the deletions).
THEOREM RegionTypeCorrect == Spec => []TypeOK
<1>1. RegionInv => TypeOK
  BY DEF RegionInv
<1> QED BY <1>1, RegionSafety, PTL

\* A VPC shown as 'running' has been built in every AZ it lists
\* (computeOverallStatus over what pollAZWorkerStatuses has merged).
THEOREM RegistryTellsTheTruth == Spec => []RunningIsTrue
<1>1. RegionInv => RunningIsTrue
  BY DEF RegionInv, RunningIsTrue, RowAgrees, DetailsEarned
<1> QED BY <1>1, RegionSafety, PTL

-----------------------------------------------------------------------------
(* What is being built is in the registry.  The saga and RegisterVPC are two *)
(* steps of one goroutine, so the invariant follows a request's pc between   *)
(* them, and the row from its first INSERT on.                               *)

RegisteredInv ==
  /\ \A a \in AZs : az[a] # "absent" => \E c \in Creators : saga[c].status # "none"
  /\ \A c \in Creators : saga[c].status # "none" => pc[c] # "request"
  /\ \A c \in Creators :
       saga[c].status # "none" /\ pc[c] # "register" /\ faults = 0 => row.status # "absent"

\* A row is never taken away: deleteVPC marks it and leaves it in the table.
LEMMA RowStaysLemma ==
  ASSUME NEW status, NEW details, status # "absent",
         UpdateRow(status, details) \/ UNCHANGED row
  PROVE  row.status # "absent" => row'.status # "absent"
BY DEF UpdateRow

\* A step of a process that leaves the AZs and the sagas alone, and moves beyond RegisterVPC.
LEMMA MovesBeyondLemma ==
  ASSUME TypeOK, RegisteredInv, UNCHANGED sagaVars,
         UNCHANGED faults \/ Fault,
         NEW p \in Creators \cup Deleters, NEW label, Goto(p, label),
         label \notin {"request", "register"},
         row.status # "absent" => row'.status # "absent",
         pc[p] = "register" => row'.status # "absent" \/ Fault,
         p \in Creators /\ pc[p] = "request" => saga[p].status = "none"
  PROVE  RegisteredInv'
<1>1. UNCHANGED <<az, saga>>
  BY DEF sagaVars
<1>2. faults' = 0 => faults = 0 /\ ~Fault
  BY DEF Fault, TypeOK
<1>3. \A c \in Creators : pc'[c] = IF c = p THEN label ELSE pc[c]
  BY DEF Goto, TypeOK
<1> QED BY <1>1, <1>2, <1>3 DEF RegisteredInv

\* The AZs' own moves, which need a row in the AZ.
LEMMA AZMovesRegisteredLemma ==
  ASSUME TypeOK, RegisteredInv, NEW a \in AZs, NEW from, NEW to,
         from # "absent", AZMoves(a, from, to)
  PROVE  RegisteredInv'
<1>1. UNCHANGED <<saga, row, pc, faults>>
  BY DEF AZMoves, watchVars
<1>2. \A b \in AZs : az'[b] # "absent" => az[b] # "absent"
  BY DEF AZMoves, TypeOK
<1> QED BY <1>1, <1>2 DEF RegisteredInv

\* The saga engine asks AZs only for a saga that was submitted.
LEMMA SagaRegisteredLemma ==
  ASSUME TypeOK, RegisteredInv, NEW c \in Creators, SagaMoves(c)
  PROVE  RegisteredInv'
<1>1. saga[c].status # "none" /\ UNCHANGED <<row, watchVars>>
  BY DEF SagaMoves, StepSucceeds, StepFails, Compensates, SagaFails
<1>2. \A e \in Creators : saga'[e].status # "none" => saga[e].status # "none"
  BY <1>1 DEF SagaMoves, StepSucceeds, StepFails, Compensates, SagaFails, SagaBecomes, TypeOK
<1>3. saga'[c].status # "none"
  BY DEF SagaMoves, StepSucceeds, StepFails, Compensates, SagaFails, SagaBecomes, TypeOK
<1>4. faults' = 0 => faults = 0
  BY DEF SagaMoves, StepSucceeds, StepFails, Compensates, SagaFails, Fault, TypeOK
<1> QED BY <1>1, <1>2, <1>3, <1>4 DEF RegisteredInv, watchVars

\* A request that submits its saga is then at RegisterVPC.
LEMMA SubmitRegisteredLemma ==
  ASSUME TypeOK, RegisteredInv, NEW c \in Creators, SubmitSaga(c)
  PROVE  RegisteredInv'
<1>1. UNCHANGED <<az, row, faults>>
  BY DEF SubmitSaga
<1>2. \A e \in Creators : pc'[e] = IF e = c THEN "register" ELSE pc[e]
  BY DEF SubmitSaga, Goto, TypeOK
<1>3. /\ saga'[c].status = "running"
      /\ \A e \in Creators : e # c => saga'[e] = saga[e]
  BY DEF SubmitSaga, SagaBecomes, TypeOK
<1> QED BY <1>1, <1>2, <1>3 DEF RegisteredInv

\* A step that leaves the AZs, the sagas, the row and the control state alone.
LEMMA SameRegisteredLemma ==
  ASSUME TypeOK, RegisteredInv, UNCHANGED <<sagaVars, row, pc>>, UNCHANGED faults \/ Fault
  PROVE  RegisteredInv'
<1>1. UNCHANGED <<az, saga, row, pc>>
  BY DEF sagaVars
<1>2. faults' = 0 => faults = 0
  BY DEF Fault, TypeOK
<1> QED BY <1>1, <1>2 DEF RegisteredInv

\* The rest of a create request: RegisterVPC, and its watcher's steps.
LEMMA CreateRegisteredLemma ==
  ASSUME TypeOK, RegisteredInv, NEW c \in Creators, Create(c)
  PROVE  RegisteredInv'
<1>1. CASE SubmitSaga(c)
  BY <1>1, SubmitRegisteredLemma
<1>2. CASE \E a \in AZs : Ask(c, a) \/ AskFails(c, a)
  BY <1>2, SameRegisteredLemma DEF Ask, AskFails
<1>3. CASE Reject(c)
  <2>1. saga[c].status = "none"
    BY <1>3 DEF Reject, RegisteredInv
  <2> QED BY <1>3, <2>1, MovesBeyondLemma DEF Reject
<1>4. CASE Register(c)
  <2>1. row' = [status |-> "creating", details |-> All("creating")] \/ (Fault /\ UNCHANGED row)
    BY <1>4 DEF Register
  <2>2. (row.status # "absent" => row'.status # "absent") /\ (row'.status # "absent" \/ Fault)
    BY <2>1
  <2>3. UNCHANGED sagaVars /\ (UNCHANGED faults \/ Fault) /\ Goto(c, "wait") /\ pc[c] # "request"
    BY <1>4 DEF Register
  <2> QED BY <2>2, <2>3, MovesBeyondLemma
<1>5. CASE SagaAnswers(c) \/ MarkFromSteps(c) \/ EndTick(c) \/ ReadRow(c)
           \/ PollTimesOut(c) \/ PollInterrupted(c)
  <2>1. UNCHANGED sagaVars /\ UNCHANGED row /\ (UNCHANGED faults \/ Fault)
    BY <1>5 DEF SagaAnswers, MarkFromSteps, EndTick, ReadRow, PollTimesOut, PollInterrupted, GiveUpPoll
  <2>2. pc[c] \notin {"request", "register"}
    BY <1>5 DEF SagaAnswers, MarkFromSteps, EndTick, ReadRow, PollTimesOut, PollInterrupted, GiveUpPoll
  <2>3. PICK label : Goto(c, label) /\ label \notin {"request", "register"}
    BY <1>5 DEF SagaAnswers, MarkFromSteps, EndTick, ReadRow, NextTick, PollTimesOut,
                PollInterrupted, GiveUpPoll
  <2> QED BY <2>1, <2>2, <2>3, MovesBeyondLemma
<1>6. CASE SagaTimesOut(c) \/ SagaInterrupted(c) \/ WriteMarks(c) \/ WriteRow(c)
  <2>1. UNCHANGED sagaVars /\ (UNCHANGED faults \/ Fault)
    BY <1>6 DEF SagaTimesOut, SagaInterrupted, GiveUpSaga, WriteMarks, WriteRow
  <2>2. pc[c] \notin {"request", "register"}
    BY <1>6 DEF SagaTimesOut, SagaInterrupted, GiveUpSaga, WriteMarks, WriteRow
  <2>3. PICK label : Goto(c, label) /\ label \notin {"request", "register"}
    BY <1>6 DEF SagaTimesOut, SagaInterrupted, GiveUpSaga, WriteMarks, WriteRow, NextTick
  <2>4. row.status # "absent" => row'.status # "absent"
    BY <1>6 DEF SagaTimesOut, SagaInterrupted, GiveUpSaga, WriteMarks, WriteRow, UpdateRow, Overall
  <2> QED BY <2>1, <2>2, <2>3, <2>4, MovesBeyondLemma
<1> QED BY <1>1, <1>2, <1>3, <1>4, <1>5, <1>6 DEF Create

\* The deletions, which leave a row marked 'deleted'.
LEMMA DeleteRegisteredLemma ==
  ASSUME TypeOK, RegisteredInv, NEW d \in Deleters, CheckDelete(d) \/ MarkDeleted(d)
  PROVE  RegisteredInv'
<1>1. UNCHANGED sagaVars /\ (UNCHANGED faults \/ Fault) /\ pc[d] \notin {"request", "register"}
  BY DEF CheckDelete, MarkDeleted
<1>2. PICK label : Goto(d, label) /\ label \notin {"request", "register"}
  BY DEF CheckDelete, MarkDeleted
<1>3. row.status # "absent" => row'.status # "absent"
  BY DEF CheckDelete, MarkDeleted, UpdateRow
<1> QED BY <1>1, <1>2, <1>3, MovesBeyondLemma

\* Every step keeps RegisteredInv.
LEMMA RegisteredStepLemma ==
  ASSUME TypeOK, RegisteredInv, [Next]_vars
  PROVE  RegisteredInv'
<1>1. ASSUME NEW a \in AZs, WorkflowEnds(a) \/ Replayed(a) \/ Reverted(a)
      PROVE  RegisteredInv'
  BY <1>1, AZMovesRegisteredLemma DEF WorkflowEnds, Replayed, Reverted
<1>2. ASSUME NEW c \in Creators, SagaMoves(c) \/ Create(c) PROVE RegisteredInv'
  BY <1>2, SagaRegisteredLemma, CreateRegisteredLemma
<1>3. ASSUME NEW d \in Deleters, CheckDelete(d) \/ MarkDeleted(d) PROVE RegisteredInv'
  BY <1>3, DeleteRegisteredLemma
<1>4. CASE Stop \/ UNCHANGED vars
  BY <1>4, SameRegisteredLemma DEF Stop, vars, watchVars
<1> QED BY <1>1, <1>2, <1>3, <1>4 DEF Next

\* A VPC whose building an AZ has accepted is in the registry, whatever the requests,
\* their timeouts, the deletions and the shutdown, except in the gap between the two
\* steps of CreateRegionVPC and after a statement that failed.
THEOREM BuildingWasRegistered == Spec => []BuildingIsRegistered
<1>1. Init => RegisteredInv
  BY DEF Init, RegisteredInv, All, NoSaga
<1>2. TypeOK /\ RegisteredInv /\ [Next]_vars => RegisteredInv'
  BY RegisteredStepLemma
<1>3. TypeOK /\ RegisteredInv => BuildingIsRegistered
  BY DEF RegisteredInv, BuildingIsRegistered, TypeOK
<1> QED BY <1>1, <1>2, <1>3, RegionTypeCorrect, PTL DEF Spec

-----------------------------------------------------------------------------
(* The VPC that one request creates.  Its watcher is alone with the          *)
(* deletions, so what it has read and found can be followed to the row.      *)

\* The invariant of one watcher is the invariant when there is one request.
LEMMA OneWatcher ==
  ASSUME OneCreator, NEW c \in Creators,
         RowIsRegistered', TicksAreClean(c)', EndsSettled(c)',
         \A a \in AZs : RunningIsSettled(c, a)' /\ SettledIsKnown(c, a)'
  PROVE  WatcherInv'
<1>1. \A e \in Creators : e = c
  BY DEF OneCreator
<1> QED BY <1>1 DEF WatcherInv

\* A step that leaves the row and the watcher alone.
LEMMA WatcherFrame ==
  ASSUME WatcherInv, UNCHANGED <<row, asked, settled, found, snap>>,
         \A c \in Creators : pc'[c] = pc[c],
         stopping => stopping', faults > 0 => faults' > 0
  PROVE  WatcherInv'
  BY DEF WatcherInv, RowIsRegistered, TicksAreClean, RunningIsSettled, SettledIsKnown, EndsSettled

\* The details that say nothing.
LEMMA NoneLemma == All("none") \in [AZs -> Details] /\ \A a \in AZs : All("none")[a] = "none"
  BY AllLemma DEF Details

\* The number of faults only grows.
LEMMA FaultsGrow ==
  ASSUME TypeOK, UNCHANGED faults \/ Fault
  PROVE  faults > 0 => faults' > 0
  BY DEF TypeOK, Fault

\* A fault is remembered.
LEMMA FaultCounts ==
  ASSUME TypeOK, Fault
  PROVE  faults' > 0
  BY DEF TypeOK, Fault

\* A goto moves one process.
LEMMA GotoAt ==
  ASSUME TypeOK, NEW p \in Creators \cup Deleters, NEW label, Goto(p, label)
  PROVE  pc'[p] = label /\ \A q \in Creators \cup Deleters : q # p => pc'[q] = pc[q]
  BY DEF TypeOK, Goto

\* A deletion clears the details, and creates no row.
LEMMA DeleteWatched ==
  ASSUME TypeOK, WatcherInv, NEW d \in Deleters, MarkDeleted(d)
  PROVE  WatcherInv'
<1>1. /\ UNCHANGED <<asked, settled, found, snap, stopping>>
      /\ \A c \in Creators : pc'[c] = pc[c]
  BY GotoAt, RegionAssumption DEF MarkDeleted
<1>2. faults > 0 => faults' > 0
  BY FaultsGrow DEF MarkDeleted
<1>3. CASE UNCHANGED row
  BY <1>1, <1>2, <1>3, WatcherFrame
<1>4. CASE row' = [status |-> "deleted", details |-> All("none")] /\ row.status # "absent"
  <2>1. \A a \in AZs : row'.details[a] = "none"
    BY <1>4, NoneLemma
  <2>2. row'.status = "deleted"
    BY <1>4
  <2> QED BY <1>1, <1>2, <1>4, <2>1, <2>2
          DEF WatcherInv, RowIsRegistered, TicksAreClean, RunningIsSettled, SettledIsKnown, EndsSettled
<1> QED BY <1>3, <1>4 DEF MarkDeleted, UpdateRow

\* The steps of a create request that leave the row and the details alone, and do
\* not end it.
LEMMA MovesWatched ==
  ASSUME OneCreator, TypeOK, WatcherInv, NEW c \in Creators, UNCHANGED <<row, settled, found, snap>>,
         stopping => stopping', faults > 0 => faults' > 0,
         pc'[c] \in {"request", "register"} => pc[c] \in {"request", "register"},
         pc'[c] \in {"request", "register", "wait", "mark", "markWrite"} =>
            pc[c] \in {"request", "register", "wait", "mark", "markWrite"},
         pc'[c] \in {"request", "register", "wait"} \/ (pc'[c] = "poll" /\ asked'[c] = 0)
            => found[c] = All("none"),
         pc'[c] \in {"request", "register", "wait", "read", "write"} => asked'[c] = 0,
         pc'[c] \notin {"write", "lastWrite", "lastRead"},
         pc[c] \notin {"write", "lastWrite"},
         EndsSettled(c)'
  PROVE  WatcherInv'
  BY OneWatcher DEF WatcherInv, RowIsRegistered, TicksAreClean, RunningIsSettled, SettledIsKnown

\* The steps that wait, ask nobody and write nothing.
LEMMA QuietWatched ==
  ASSUME OneCreator, TypeOK, WatcherInv, NEW c \in Creators,
         SubmitSaga(c) \/ Reject(c) \/ SagaAnswers(c) \/ EndTick(c)
  PROVE  WatcherInv'
<1>1. UNCHANGED <<row, settled, found, snap, stopping, faults>>
  BY DEF SubmitSaga, Reject, SagaAnswers, EndTick
<1>2. CASE SubmitSaga(c)
  <2>1. pc[c] = "request" /\ pc'[c] = "register" /\ UNCHANGED asked
    BY <1>2, GotoAt DEF SubmitSaga
  <2> QED BY <1>1, <2>1, MovesWatched DEF WatcherInv, TicksAreClean, EndsSettled
<1>3. CASE Reject(c)
  <2>1. pc[c] = "request" /\ pc'[c] = "done" /\ UNCHANGED asked
    BY <1>3, GotoAt DEF Reject
  <2>2. row'.status = "absent"
    BY <1>1, <2>1 DEF WatcherInv, TicksAreClean
  <2> QED BY <1>1, <2>1, <2>2, MovesWatched DEF EndsSettled
<1>4. CASE SagaAnswers(c)
  <2>1. pc[c] = "wait" /\ pc'[c] \in {"poll", "mark"} /\ UNCHANGED asked
    BY <1>4, GotoAt DEF SagaAnswers
  <2> QED BY <1>1, <2>1, MovesWatched DEF WatcherInv, TicksAreClean, EndsSettled
<1>5. CASE EndTick(c)
  <2>1. /\ pc[c] = "poll" /\ asked'[c] = 0
        /\ pc'[c] = IF found[c] # All("none") THEN "read" ELSE NextTick(c)
    BY <1>5, GotoAt DEF EndTick, TypeOK
  <2>2. pc'[c] \in {"read", "poll", "done"} /\ (pc'[c] # "read" => found[c] = All("none"))
    BY <2>1 DEF NextTick
  <2>3. EndsSettled(c)'
    <3>1. SUFFICES ASSUME pc'[c] = "done", ~stopping, ~(faults > 0) PROVE row.status # "creating"
      BY <1>1 DEF EndsSettled
    <3>2. settled[c] = AZs /\ found[c] = All("none")
      BY <2>1, <3>1 DEF NextTick
    <3>3. \A a \in AZs : row.details[a] # "creating"
      BY <3>1, <3>2, NoneLemma DEF WatcherInv, SettledIsKnown
    <3> QED BY <3>3 DEF WatcherInv, RowIsRegistered, Has
  <2> QED BY <1>1, <2>1, <2>2, <2>3, MovesWatched
<1> QED BY <1>2, <1>3, <1>4, <1>5

\* RegisterVPC comes before any AZ is settled.
LEMMA RegisterWatched ==
  ASSUME OneCreator, TypeOK, WatcherInv, NEW c \in Creators, Register(c)
  PROVE  WatcherInv'
<1>1. /\ UNCHANGED <<asked, settled, found, snap, stopping>>
      /\ pc[c] = "register" /\ pc'[c] = "wait"
  BY GotoAt DEF Register
<1>2. faults > 0 => faults' > 0
  BY FaultsGrow DEF Register
<1>3. settled[c] = {} /\ found[c] = All("none") /\ snap[c] = All("none") /\ asked[c] = 0
  BY <1>1 DEF WatcherInv, TicksAreClean
<1>4. CASE UNCHANGED row
  BY <1>1, <1>2, <1>4, MovesWatched DEF WatcherInv, TicksAreClean, EndsSettled
<1>5. CASE row' = [status |-> "creating", details |-> All("creating")]
  <2>1. row'.status = "creating" /\ \A a \in AZs : row'.details[a] = "creating"
    BY <1>5, AllLemma DEF Details
  <2>2. RowIsRegistered'
    <3>1. 1 \in AZs
      BY RegionAssumption DEF AZs
    <3> QED BY <2>1, <3>1 DEF RowIsRegistered, Has
  <2>3. TicksAreClean(c)' /\ EndsSettled(c)'
    BY <1>1, <1>3 DEF TicksAreClean, EndsSettled
  <2>4. \A a \in AZs : RunningIsSettled(c, a)' /\ SettledIsKnown(c, a)'
    BY <1>1, <1>3, <2>1, NoneLemma DEF RunningIsSettled, SettledIsKnown
  <2> QED BY <2>2, <2>3, <2>4, OneWatcher
<1> QED BY <1>4, <1>5 DEF Register

\* A row whose saga is given up or has failed is written before any AZ is settled.
LEMMA UnsettledWatched ==
  ASSUME OneCreator, TypeOK, WatcherInv, NEW c \in Creators,
         UNCHANGED <<settled, snap, stopping>>, faults > 0 => faults' > 0,
         pc[c] \in {"wait", "mark", "markWrite"}, pc'[c] \in {"mark", "markWrite", "done"},
         \A a \in AZs : found'[c][a] \notin {"running", "creating"},
         row' = row \/ (/\ row.status # "absent" /\ row'.status \notin {"absent", "creating"}
                        /\ \A a \in AZs : row'.details[a] # "running"),
         EndsSettled(c)'
  PROVE  WatcherInv'
<1>1. settled[c] = {} /\ snap[c] = All("none")
  BY DEF WatcherInv, TicksAreClean
<1>2. \A a \in AZs : row.details[a] # "running"
  BY <1>1 DEF WatcherInv, RunningIsSettled
<1>3. RowIsRegistered'
  BY DEF WatcherInv, RowIsRegistered
<1>4. TicksAreClean(c)'
  BY <1>1 DEF TicksAreClean
<1>5. \A a \in AZs : RunningIsSettled(c, a)' /\ SettledIsKnown(c, a)'
  BY <1>1, <1>2, NoneLemma DEF RunningIsSettled, SettledIsKnown
<1> QED BY <1>3, <1>4, <1>5, OneWatcher

\* So are the three steps that do it.
LEMMA MarkWatched ==
  ASSUME OneCreator, TypeOK, WatcherInv, NEW c \in Creators,
         \/ SagaTimesOut(c) \/ SagaInterrupted(c) \/ MarkFromSteps(c) \/ WriteMarks(c)
  PROVE  WatcherInv'
<1>1. UNCHANGED <<settled, snap, stopping>>
  BY DEF SagaTimesOut, SagaInterrupted, GiveUpSaga, MarkFromSteps, WriteMarks
<1>2. faults > 0 => faults' > 0
  BY FaultsGrow DEF SagaTimesOut, SagaInterrupted, GiveUpSaga, MarkFromSteps, WriteMarks
<1>3. \A a \in AZs : found[c][a] \notin {"running", "creating"}
  <2>1. pc[c] \in {"wait", "mark", "markWrite"}
    BY DEF SagaTimesOut, SagaInterrupted, GiveUpSaga, MarkFromSteps, WriteMarks
  <2> QED BY <2>1 DEF WatcherInv, TicksAreClean, RunningIsSettled, SettledIsKnown
<1>4. CASE SagaTimesOut(c) \/ SagaInterrupted(c)
  <2>1. PICK s \in {"failed", "interrupted"} : GiveUpSaga(c, s)
    BY <1>4 DEF SagaTimesOut, SagaInterrupted
  <2>2. pc[c] = "wait" /\ pc'[c] = "mark" /\ UNCHANGED found
    BY <2>1, GotoAt DEF GiveUpSaga
  <2>3. row' = row \/ (/\ row.status # "absent" /\ row'.status \notin {"absent", "creating"}
                       /\ \A a \in AZs : row'.details[a] # "running")
    BY <2>1, AllLemma DEF GiveUpSaga, UpdateRow, Details
  <2>4. EndsSettled(c)'
    BY <2>2 DEF EndsSettled
  <2> QED BY <1>1, <1>2, <1>3, <2>2, <2>3, <2>4, UnsettledWatched
<1>5. CASE MarkFromSteps(c)
  <2>1. UNCHANGED row /\ pc[c] = "mark"
    BY <1>5 DEF MarkFromSteps
  <2>2. \A a \in AZs : found'[c][a] \notin {"running", "creating"}
    BY <1>3, <1>5 DEF MarkFromSteps, StepDetail, TypeOK
  <2>3. pc'[c] = "markWrite" \/ (pc'[c] = "done" /\ faults' > 0)
    BY <1>5, GotoAt, FaultCounts DEF MarkFromSteps
  <2> QED BY <1>1, <1>2, <2>1, <2>2, <2>3, UnsettledWatched DEF EndsSettled
<1>6. CASE WriteMarks(c)
  <2>1. pc[c] = "markWrite" /\ pc'[c] = "done"
    BY <1>6, GotoAt DEF WriteMarks
  <2>2. found'[c] = All("none")
    BY <1>6 DEF WriteMarks, TypeOK
  <2>3. CASE UpdateRow("failed", found[c])
    <3>1. row' = row \/ (/\ row.status # "absent" /\ row'.status \notin {"absent", "creating"}
                         /\ \A a \in AZs : row'.details[a] # "running")
      BY <1>3, <2>3 DEF UpdateRow
    <3>2. row'.status # "creating"
      BY <2>3 DEF UpdateRow
    <3> QED BY <1>1, <1>2, <2>1, <2>2, <3>1, <3>2, NoneLemma, UnsettledWatched DEF EndsSettled
  <2>4. CASE Fault /\ UNCHANGED row
    BY <1>1, <1>2, <2>1, <2>2, <2>4, NoneLemma, FaultCounts, UnsettledWatched DEF EndsSettled
  <2> QED BY <1>6, <2>3, <2>4 DEF WriteMarks
<1> QED BY <1>4, <1>5, <1>6

\* A watcher asks an AZ until it has settled, and keeps what the AZ said then.
LEMMA AskWatched ==
  ASSUME OneCreator, TypeOK, WatcherInv, NEW c \in Creators, NEW a \in AZs,
         Ask(c, a) \/ AskFails(c, a)
  PROVE  WatcherInv'
<1>1. UNCHANGED <<row, pc, snap, stopping>> /\ pc[c] = "poll" /\ asked'[c] = a /\ asked'[c] # 0
  BY RegionAssumption DEF Ask, AskFails, TypeOK, AZs
<1>2. faults > 0 => faults' > 0
  BY FaultsGrow DEF Ask, AskFails
<1>3. CASE UNCHANGED <<settled, found>>
  <2>1. EndsSettled(c)'
    BY <1>1 DEF EndsSettled
  <2> QED BY <1>1, <1>2, <1>3, <2>1, MovesWatched
<1>4. CASE /\ a \notin settled[c] /\ az[a] \in {"running", "failed"}
           /\ settled' = [settled EXCEPT ![c] = @ \cup {a}]
           /\ found' = [found EXCEPT ![c][a] = az[a]]
  <2>1. /\ settled'[c] = settled[c] \cup {a}
        /\ found'[c][a] = az[a]
        /\ \A b \in AZs : b # a => found'[c][b] = found[c][b]
    BY <1>4 DEF TypeOK
  <2>2. RowIsRegistered' /\ TicksAreClean(c)' /\ EndsSettled(c)'
    BY <1>1 DEF WatcherInv, RowIsRegistered, TicksAreClean, EndsSettled
  <2>3. row.details[a] # "running"
    BY <1>4 DEF WatcherInv, RunningIsSettled
  <2>4. ASSUME NEW b \in AZs PROVE RunningIsSettled(c, b)' /\ SettledIsKnown(c, b)'
    <3>1. RunningIsSettled(c, b) /\ SettledIsKnown(c, b)
      BY DEF WatcherInv
    <3>2. CASE b = a
      BY <1>1, <1>2, <1>4, <2>1, <2>3, <3>1, <3>2 DEF RunningIsSettled, SettledIsKnown
    <3>3. CASE b # a
      BY <1>1, <1>2, <2>1, <3>1, <3>3 DEF RunningIsSettled, SettledIsKnown
    <3> QED BY <3>2, <3>3
  <2> QED BY <2>2, <2>4, OneWatcher
<1> QED BY <1>3, <1>4 DEF Ask, AskFails

\* A watcher that stops between two ticks has details for the AZs that never settled.
LEMMA GiveUpWatched ==
  ASSUME OneCreator, TypeOK, WatcherInv, NEW c \in Creators, PollTimesOut(c) \/ PollInterrupted(c)
  PROVE  WatcherInv'
<1>1. PICK s \in {"failed", "interrupted"} : GiveUpPoll(c, s)
  BY DEF PollTimesOut, PollInterrupted
<1>2. /\ UNCHANGED <<row, asked, settled, snap, stopping, faults>>
      /\ pc[c] = "poll" /\ asked[c] = 0 /\ pc'[c] = "lastRead"
  BY <1>1, GotoAt DEF GiveUpPoll
<1>3. \A a \in AZs : found'[c][a] = IF a \in settled[c] THEN "none" ELSE s
  BY <1>1 DEF GiveUpPoll, TypeOK
<1>4. RowIsRegistered' /\ TicksAreClean(c)' /\ EndsSettled(c)'
  BY <1>2 DEF WatcherInv, RowIsRegistered, TicksAreClean, EndsSettled
<1>5. ASSUME NEW a \in AZs PROVE RunningIsSettled(c, a)' /\ SettledIsKnown(c, a)'
  <2>1. RunningIsSettled(c, a) /\ SettledIsKnown(c, a) /\ found[c][a] = "none" /\ snap[c][a] = "none"
    BY <1>2, NoneLemma DEF WatcherInv, TicksAreClean
  <2> QED BY <1>2, <1>3, <2>1 DEF RunningIsSettled, SettledIsKnown
<1> QED BY <1>4, <1>5, OneWatcher

\* A watcher takes a copy of the row, or drops what it found when there is none.
LEMMA ReadWatched ==
  ASSUME OneCreator, TypeOK, WatcherInv, NEW c \in Creators, ReadRow(c)
  PROVE  WatcherInv'
<1>1. UNCHANGED <<row, asked, settled, stopping>> /\ pc[c] \in {"read", "lastRead"}
  BY DEF ReadRow
<1>2. /\ faults > 0 => faults' > 0
      /\ snap[c] = All("none") /\ (pc[c] = "read" => asked[c] = 0)
  BY <1>1, FaultsGrow DEF ReadRow, WatcherInv, TicksAreClean
<1>3. RowIsRegistered'
  BY <1>1 DEF WatcherInv, RowIsRegistered
<1>4. CASE /\ snap' = [snap EXCEPT ![c] = row.details]
           /\ Goto(c, IF pc[c] = "read" THEN "write" ELSE "lastWrite")
           /\ UNCHANGED <<found, faults>>
  <2>1. /\ pc'[c] = (IF pc[c] = "read" THEN "write" ELSE "lastWrite")
        /\ snap'[c] = row.details
    BY <1>4, GotoAt DEF TypeOK
  <2>2. TicksAreClean(c)' /\ EndsSettled(c)'
    BY <1>1, <1>2, <2>1 DEF TicksAreClean, EndsSettled
  <2>3. ASSUME NEW a \in AZs PROVE RunningIsSettled(c, a)' /\ SettledIsKnown(c, a)'
    <3>1. RunningIsSettled(c, a) /\ SettledIsKnown(c, a)
      BY DEF WatcherInv
    <3> QED BY <1>1, <1>4, <2>1, <3>1 DEF RunningIsSettled, SettledIsKnown
  <2> QED BY <1>3, <2>2, <2>3, OneWatcher
<1>5. CASE /\ IF row.status = "absent" \/ Cancelled(c) THEN UNCHANGED faults ELSE Fault
           /\ found' = [found EXCEPT ![c] = All("none")]
           /\ Goto(c, IF pc[c] = "read" THEN NextTick(c) ELSE "done")
           /\ UNCHANGED snap
  <2>1. found'[c] = All("none")
    BY <1>5 DEF TypeOK
  <2>2. pc'[c] \in {"poll", "done"} /\ (pc'[c] = "poll" => asked'[c] = 0)
    <3>1. pc'[c] = IF pc[c] = "read" THEN NextTick(c) ELSE "done"
      BY <1>5, GotoAt
    <3> QED BY <1>1, <1>2, <3>1 DEF NextTick
  <2>3. row.status = "absent" \/ stopping \/ faults' > 0
    BY <1>1, <1>5, FaultCounts DEF Cancelled
  <2>4. TicksAreClean(c)' /\ EndsSettled(c)'
    BY <1>1, <1>2, <1>5, <2>1, <2>2, <2>3 DEF TicksAreClean, EndsSettled
  <2>5. ASSUME NEW a \in AZs PROVE RunningIsSettled(c, a)' /\ SettledIsKnown(c, a)'
    <3>1. RunningIsSettled(c, a) /\ SettledIsKnown(c, a) /\ snap[c][a] = "none"
      BY <1>2, NoneLemma DEF WatcherInv
    <3>2. row.status = "absent" => row.details[a] = "none"
      BY NoneLemma DEF WatcherInv, RowIsRegistered, NoRow
    <3>3. found'[c][a] = "none"
      BY <2>1, NoneLemma
    <3>4. RunningIsSettled(c, a)'
      BY <1>1, <1>5, <2>2, <3>1, <3>3 DEF RunningIsSettled
    <3>5. SettledIsKnown(c, a)'
      BY <1>1, <1>2, <1>5, <2>2, <2>3, <3>1, <3>2, <3>3 DEF SettledIsKnown
    <3> QED BY <3>4, <3>5
  <2> QED BY <1>3, <2>4, <2>5, OneWatcher
<1> QED BY <1>4, <1>5 DEF ReadRow

\* An AZ that is settled is written with what it said, now or before.
LEMMA MergedLemma ==
  ASSUME TypeOK, WatcherInv, NEW c \in Creators, pc[c] \in {"write", "lastWrite"}, NEW a \in AZs
  PROVE  LET m == Merge(snap[c], found[c])[a] IN
           /\ m = "running" => a \in settled[c]
           /\ row.details[a] = "running" => m = "running"
           /\ m = "creating" => stopping \/ faults > 0 \/ (pc[c] = "write" /\ a \notin settled[c])
<1>1. RunningIsSettled(c, a) /\ SettledIsKnown(c, a)
  BY DEF WatcherInv
<1>2. Merge(snap[c], found[c])[a] = IF found[c][a] = "none" THEN snap[c][a] ELSE found[c][a]
  BY DEF Merge
<1> QED BY <1>1, <1>2 DEF RunningIsSettled, SettledIsKnown

\* A merged row keeps what was settled; the last one is not 'creating'.
LEMMA WriteWatched ==
  ASSUME OneCreator, TypeOK, WatcherInv, NEW c \in Creators, WriteRow(c)
  PROVE  WatcherInv'
<1> DEFINE d == Merge(snap[c], found[c])
<1>1. UNCHANGED <<asked, settled, stopping>> /\ pc[c] \in {"write", "lastWrite"}
  BY DEF WriteRow
<1>2. /\ \/ ~Cancelled(c) /\ UpdateRow(Overall(d), d) /\ UNCHANGED faults
         \/ (IF Cancelled(c) THEN UNCHANGED faults ELSE Fault) /\ UNCHANGED row
      /\ faults > 0 => faults' > 0
  BY FaultsGrow DEF WriteRow
<1>3. found'[c] = All("none") /\ snap'[c] = All("none")
  BY DEF WriteRow, TypeOK
<1>4. pc'[c] = IF pc[c] = "write" THEN NextTick(c) ELSE "done"
  BY GotoAt DEF WriteRow
<1>5. pc'[c] \in {"poll", "done"} /\ (pc'[c] = "poll" => asked'[c] = 0)
  BY <1>1, <1>4 DEF NextTick, WatcherInv, TicksAreClean
<1>6. TicksAreClean(c)'
  BY <1>3, <1>5 DEF TicksAreClean
<1>7. \A a \in AZs : /\ d[a] = "running" => a \in settled[c]
                     /\ d[a] = "creating" => \/ stopping \/ faults > 0
                                             \/ pc[c] = "write" /\ a \notin settled[c]
  BY <1>1, MergedLemma
<1> HIDE DEF d
<1>8. CASE row.status # "absent" /\ row' = [status |-> Overall(d), details |-> d] /\ UNCHANGED faults
  <2>1. row'.status = Overall(d) /\ row'.details = d
    BY <1>8
  <2>2. Overall(d) # "absent" /\ (Overall(d) = "creating" => Has(d, "creating"))
    BY DEF Overall
  <2>3. RowIsRegistered'
    BY <2>1, <2>2 DEF RowIsRegistered
  <2>4. EndsSettled(c)'
    BY <1>1, <1>4, <1>7, <1>8, <2>1, <2>2 DEF EndsSettled, NextTick, Has
  <2>5. \A a \in AZs : RunningIsSettled(c, a)' /\ SettledIsKnown(c, a)'
    BY <1>1, <1>3, <1>5, <1>7, <1>8, <2>1, NoneLemma DEF RunningIsSettled, SettledIsKnown
  <2> QED BY <1>6, <2>3, <2>4, <2>5, OneWatcher
<1>9. CASE UNCHANGED row /\ (row.status = "absent" \/ stopping \/ faults' > 0)
  <2>1. RowIsRegistered' /\ EndsSettled(c)'
    BY <1>1, <1>9 DEF WatcherInv, RowIsRegistered, EndsSettled
  <2>2. ASSUME NEW a \in AZs PROVE RunningIsSettled(c, a)' /\ SettledIsKnown(c, a)'
    <3>1. RunningIsSettled(c, a)
      BY DEF WatcherInv
    <3>2. row.status = "absent" => row.details[a] = "none"
      BY NoneLemma DEF WatcherInv, RowIsRegistered, NoRow
    <3>3. found'[c][a] = "none" /\ snap'[c][a] = "none"
      BY <1>3, NoneLemma
    <3>4. RunningIsSettled(c, a)'
      BY <1>1, <1>5, <1>9, <3>1, <3>3 DEF RunningIsSettled
    <3>5. SettledIsKnown(c, a)'
      BY <1>1, <1>5, <1>9, <3>2, <3>3 DEF SettledIsKnown
    <3> QED BY <3>4, <3>5
  <2> QED BY <1>6, <2>1, <2>2, OneWatcher
<1> QED BY <1>2, <1>8, <1>9, FaultCounts DEF UpdateRow, Cancelled

\* A VPC without a row has no watcher that has read or settled anything.
LEMMA InitWatched == Init => WatcherInv
<1> SUFFICES ASSUME Init PROVE WatcherInv
  OBVIOUS
<1>1. /\ row = NoRow /\ faults = 0
      /\ \A c \in Creators : /\ pc[c] = "request" /\ asked[c] = 0 /\ settled[c] = {}
                             /\ found[c] = All("none") /\ snap[c] = All("none")
  BY DEF Init
<1>2. row.status = "absent" /\ \A a \in AZs : row.details[a] = "none"
  BY <1>1, NoneLemma DEF NoRow
<1> QED BY <1>1, <1>2, NoneLemma
        DEF WatcherInv, RowIsRegistered, TicksAreClean, RunningIsSettled, SettledIsKnown, EndsSettled

\* Every step keeps WatcherInv.
LEMMA StepWatched ==
  ASSUME OneCreator, TypeOK, WatcherInv, [Next]_vars
  PROVE  WatcherInv'
<1>1. ASSUME \/ \E a \in AZs : WorkflowEnds(a) \/ Replayed(a) \/ Reverted(a)
             \/ \E c \in Creators : SagaMoves(c)
      PROVE  WatcherInv'
  <2>1. UNCHANGED <<row, watchVars, stopping>> /\ (UNCHANGED faults \/ Fault)
    BY <1>1 DEF WorkflowEnds, Replayed, Reverted, AZMoves, SagaMoves, StepSucceeds, StepFails,
       Compensates, SagaFails
  <2> QED BY <2>1, FaultsGrow, WatcherFrame DEF watchVars
<1>2. ASSUME NEW c \in Creators, Create(c) PROVE WatcherInv'
  BY <1>2, QuietWatched, RegisterWatched, MarkWatched, AskWatched, GiveUpWatched, ReadWatched,
     WriteWatched DEF Create
<1>3. ASSUME NEW d \in Deleters, CheckDelete(d) \/ MarkDeleted(d) PROVE WatcherInv'
  <2>1. CASE CheckDelete(d)
    <3>1. \A c \in Creators : pc'[c] = pc[c]
      BY <2>1, GotoAt, RegionAssumption DEF CheckDelete
    <3> QED BY <2>1, <3>1, WatcherFrame DEF CheckDelete
  <2> QED BY <1>3, <2>1, DeleteWatched
<1>4. CASE Stop \/ UNCHANGED vars
  <2>1. UNCHANGED <<row, watchVars, faults>> /\ (stopping => stopping')
    BY <1>4 DEF Stop, vars
  <2> QED BY <2>1, WatcherFrame DEF watchVars
<1> QED BY <1>1, <1>2, <1>3, <1>4 DEF Next

\* What the watcher of the only request has read, found and settled is always known
\* to agree with the row.
THEOREM WatcherSafety == OneCreator => (Spec => []WatcherInv)
<1> SUFFICES ASSUME OneCreator PROVE Spec => []WatcherInv
  OBVIOUS
<1>1. TypeOK /\ WatcherInv /\ [Next]_vars => WatcherInv'
  BY StepWatched
<1> QED
  BY <1>1, InitWatched, RegionTypeCorrect, PTL DEF Spec

\* pollAZWorkerStatuses, its timeout, the shutdown and the saga's failure all leave a
\* row whose watcher has ended with a final status, unless a statement has failed or
\* the shutdown has cancelled one.
THEOREM CreatingRowsAreWatched == OneCreator => (Spec => []CreatingIsWatched)
<1> SUFFICES ASSUME OneCreator PROVE Spec => []CreatingIsWatched
  OBVIOUS
<1>1. WatcherInv => CreatingIsWatched
  BY DEF WatcherInv, RowIsRegistered, EndsSettled, CreatingIsWatched
<1> QED
  BY <1>1, WatcherSafety, PTL

\* A detail that says 'running' is written over by a deletion or by itself.
LEMMA RunningDetailStays ==
  ASSUME TypeOK, WatcherInv, [Next]_vars, NEW a \in AZs, row.details[a] = "running"
  PROVE  row'.details[a] = "running" \/ row'.status = "deleted"
<1>1. row.status # "absent"
  BY NoneLemma DEF WatcherInv, RowIsRegistered, NoRow
<1>2. \A c \in Creators : a \in settled[c]
  BY DEF WatcherInv, RunningIsSettled
<1>3. ASSUME NEW c \in Creators, WriteRow(c) PROVE row'.details[a] = "running"
  <2> DEFINE d == Merge(snap[c], found[c])
  <2>1. d[a] = "running"
    BY <1>3, MergedLemma DEF WriteRow
  <2>2. UpdateRow(Overall(d), d) \/ UNCHANGED row
    BY <1>3 DEF WriteRow
  <2> HIDE DEF d
  <2> QED BY <2>1, <2>2 DEF UpdateRow
<1>4. ASSUME NEW c \in Creators, Create(c), ~WriteRow(c) PROVE UNCHANGED row
  <2>1. pc[c] \notin {"request", "register", "wait", "mark", "markWrite"}
    BY <1>2 DEF WatcherInv, TicksAreClean
  <2> QED BY <1>4, <2>1 DEF Create, SubmitSaga, Reject, Register, SagaAnswers, SagaTimesOut,
          SagaInterrupted, GiveUpSaga, MarkFromSteps, WriteMarks, Ask, AskFails, EndTick, ReadRow,
          PollTimesOut, PollInterrupted, GiveUpPoll
<1>5. ASSUME NEW d \in Deleters, CheckDelete(d) \/ MarkDeleted(d)
      PROVE  UNCHANGED row \/ row'.status = "deleted"
  BY <1>5 DEF CheckDelete, MarkDeleted, UpdateRow
<1>6. ASSUME \/ \E b \in AZs : WorkflowEnds(b) \/ Replayed(b) \/ Reverted(b)
             \/ \E c \in Creators : SagaMoves(c)
             \/ Stop \/ UNCHANGED vars
      PROVE  UNCHANGED row
  BY <1>6 DEF WorkflowEnds, Replayed, Reverted, AZMoves, SagaMoves, StepSucceeds, StepFails,
     Compensates, SagaFails, Stop, vars
<1> QED BY <1>3, <1>4, <1>5, <1>6 DEF Next

\* No timeout and no shutdown of its watcher takes back an AZ that pollAZWorkerStatuses
\* has reported as 'running': only deleteVPC does.
THEOREM SettledDetailsStay == OneCreator => (Spec => SettledDetailStays)
<1> SUFFICES ASSUME OneCreator PROVE Spec => SettledDetailStays
  OBVIOUS
<1>1. TypeOK /\ WatcherInv /\ [Next]_vars =>
        [\A a \in AZs : row.details[a] = "running" =>
           row'.details[a] = "running" \/ row'.status = "deleted"]_vars
  BY RunningDetailStays
<1> QED
  BY <1>1, WatcherSafety, RegionTypeCorrect, PTL DEF Spec, SettledDetailStays

=============================================================================
