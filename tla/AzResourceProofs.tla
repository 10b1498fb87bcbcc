-------------------------- MODULE AzResourceProofs --------------------------
(***************************************************************************)
(* For any subnets, policies, handlers and number of faults: the variables *)
(* of AzResource keep their types, 'running' was earned, a row that was    *)
(* deleted in peace stays deleted, and the deletion of the VPC leaves      *)
(* behind only what was written after its counts.                          *)
(***************************************************************************)
EXTENDS AzResource, TLAPS

\* The two variables of the loops, wherever they stay as they are.
USE DEF loops

-----------------------------------------------------------------------------
(* The inductive invariant. *)

\* Whatever says that a workflow has completed says so after it has; a loop's verdict is
\* on a row it has listed.
BuiltInv ==
  \A n \in Names :
    /\ row[n] = "running" \/ work[n] = "completed" \/ reply[n] = "completed" => n \in built
    /\ verdict[n] = "running" => n \in built
    /\ verdict[n] # "none" => n \in listed

\* Nothing that writes anything but 'deleted' is on its way to a row deleted in peace.
QuietInv ==
  \A n \in quiet :
    /\ row[n] = "deleted" /\ reply[n] = "none" /\ n \notin listed
    /\ work[n] # "active" /\ (work[n] = "failed" => n \in Policies)
    /\ \A h \in Handlers : At(h, "idle") \/ op[h].name # n \/ (At(h, "mark") /\ n \in Policies)

\* A deletion of the VPC that has counted knows what it did not count.
FreeInv ==
  \A h \in Handlers : op[h].name = VPC =>
    /\ At(h, "zone") => Live(Subnets) \subseteq since[h]
    /\ At(h, "mark") => Live(Subnets) \cup CountedPolicies \subseteq since[h]

ResourceInv == TypeOK /\ BuiltInv /\ QuietInv /\ FreeInv

-----------------------------------------------------------------------------

\* One more fault is within the bound.
LEMMA FaultLemma ==
  ASSUME TypeOK, Fault \/ UNCHANGED faults
  PROVE  faults' \in 0..MaxFaults
BY AzResourceAssumption DEF TypeOK, Fault

\* There are no rows at the beginning.
LEMMA InitLemma == Init => ResourceInv
<1> SUFFICES ASSUME Init PROVE ResourceInv
  OBVIOUS
<1>1. VPC \in Names /\ 0 \in 0..MaxFaults
  BY AzResourceAssumption DEF Names
<1>2. TypeOK
  BY <1>1 DEF Init, TypeOK, Statuses, Works, Outcomes, Verdicts, Idle, Operations, Steps
<1>3. BuiltInv /\ QuietInv /\ FreeInv
  BY DEF Init, BuiltInv, QuietInv, FreeInv, Idle, At
<1> QED BY <1>2, <1>3 DEF ResourceInv

\* No deletion of the VPC comes to 'zone' or 'mark' in this step.
NoneCounts ==
  \A h \in Handlers : op'[h].name = VPC /\ op'[h].at \in {"zone", "mark"} => op'[h] = op[h]

\* A row that is written is noted by every deletion of the VPC that has counted.
LEMMA SetLemma ==
  ASSUME TypeOK, FreeInv, NEW n \in Names, NEW status \in Statuses, Set(n, status), NoneCounts
  PROVE  /\ row' \in [Names -> Statuses] /\ since' \in [Handlers -> SUBSET Names]
         /\ \A m \in Names : row'[m] = IF m = n THEN status ELSE row[m]
         /\ FreeInv'
<1>1. /\ row' \in [Names -> Statuses]
      /\ \A m \in Names : row'[m] = IF m = n THEN status ELSE row[m]
  BY DEF Set, TypeOK
<1>2. since' \in [Handlers -> SUBSET Names]
  BY DEF Set, Missed, TypeOK
<1>3. Subnets \subseteq Names /\ Policies \subseteq Names /\ VPC \notin Subnets \cup Policies
  BY AzResourceAssumption DEF Names
<1>4. Live(Subnets)' \subseteq Live(Subnets) \cup {n} /\ CountedPolicies' \subseteq CountedPolicies \cup {n}
  BY <1>1, <1>3 DEF Live, CountedPolicies
<1>5. VPC \notin Live(Subnets)' /\ VPC \notin CountedPolicies'
  BY <1>3 DEF Live, CountedPolicies
<1>6. ASSUME NEW h \in Handlers, op'[h].name = VPC, op'[h].at \in {"zone", "mark"}
      PROVE  op'[h] = op[h] /\ since'[h] = since[h] \cup ({n} \ {VPC})
  BY <1>6 DEF NoneCounts, Set, Missed, HasCounted
<1>7. FreeInv'
  BY <1>4, <1>5, <1>6 DEF FreeInv, At
<1> QED BY <1>1, <1>2, <1>7

\* A step that writes no row.
LEMMA LeaveLemma ==
  ASSUME TypeOK, FreeInv, Leave, NoneCounts
  PROVE  /\ row' \in [Names -> Statuses] /\ since' \in [Handlers -> SUBSET Names]
         /\ FreeInv'
<1>1. /\ UNCHANGED row /\ since' \in [Handlers -> SUBSET Names]
      /\ \A h \in Handlers : HasCounted(h)' => since'[h] = since[h]
  BY DEF Leave, Missed, TypeOK
<1>2. Live(Subnets)' = Live(Subnets) /\ CountedPolicies' = CountedPolicies
  BY <1>1 DEF Live, CountedPolicies
<1>3. \A h \in Handlers : op'[h].name = VPC /\ op'[h].at \in {"zone", "mark"} => op'[h] = op[h]
  BY DEF NoneCounts
<1> QED BY <1>1, <1>2, <1>3 DEF FreeInv, At, HasCounted, TypeOK

\* A step that has nothing to do with the rows.
LEMMA StillLemma ==
  ASSUME FreeInv, UNCHANGED <<row, since>>, NoneCounts
  PROVE  FreeInv'
<1>1. Live(Subnets)' = Live(Subnets) /\ CountedPolicies' = CountedPolicies
  BY DEF Live, CountedPolicies
<1>2. \A h \in Handlers : op'[h].name = VPC /\ op'[h].at \in {"zone", "mark"} => op'[h] = op[h]
  BY DEF NoneCounts
<1> QED BY <1>1, <1>2 DEF FreeInv, At

\* A handler's next step.
LEMMA OpLemma ==
  ASSUME TypeOK, NEW h \in Handlers,
         \/ Return(h) \/ \E step \in Steps : Go(h, step)
         \/ \E kind \in Operations, n \in Names, step \in Steps : Begin(h, kind, n, step)
  PROVE  /\ op' \in [Handlers -> [kind : Operations, name : Names, at : Steps]]
         /\ \A g \in Handlers : g # h => op'[g] = op[g]
<1>1. Idle \in [kind : Operations, name : Names, at : Steps]
  BY DEF Idle, Operations, Names, Steps
<1>2. op \in [Handlers -> [kind : Operations, name : Names, at : Steps]]
  BY DEF TypeOK
<1>3. CASE Return(h)
  BY <1>1, <1>2, <1>3 DEF Return
<1>4. ASSUME NEW step \in Steps, Go(h, step)
      PROVE  /\ op' \in [Handlers -> [kind : Operations, name : Names, at : Steps]]
             /\ \A g \in Handlers : g # h => op'[g] = op[g]
  BY <1>2, <1>4 DEF Go
<1>5. ASSUME NEW kind \in Operations, NEW n \in Names, NEW step \in Steps, Begin(h, kind, n, step)
      PROVE  /\ op' \in [Handlers -> [kind : Operations, name : Names, at : Steps]]
             /\ \A g \in Handlers : g # h => op'[g] = op[g]
  BY <1>2, <1>5 DEF Begin
<1> QED BY <1>3, <1>4, <1>5

-----------------------------------------------------------------------------
(* Steps that read: a request begins, or a count is made. *)

\* A request that begins is none of a row deleted in peace, unless it is the deletion
\* of a policy.
LEMMA StartLemma ==
  ASSUME ResourceInv, NEW h \in Handlers, NEW n \in Names,
         \/ \E kind \in {"deleteByName", "deleteByID"} : StartDelete(h, kind, n)
         \/ StartDeletePolicy(h, n)
         \/ StartReplay(h, n)
  PROVE  ResourceInv'
<1>1. TypeOK /\ BuiltInv /\ QuietInv /\ FreeInv
  BY DEF ResourceInv
<1>2. /\ UNCHANGED <<row, work, reply, listed, verdict, built, quiet, since>> /\ (Fault \/ UNCHANGED faults)
      /\ At(h, "idle")
  BY DEF StartDelete, StartDeletePolicy, StartReplay, restOfRead
<1>3. PICK kind \in Operations, step \in {"count", "mark", "reset"} :
        /\ Begin(h, kind, n, step)
        /\ n \in quiet => step = "mark" /\ n \in Policies
        /\ n = VPC => step # "mark"
  <2>1. ASSUME NEW kind \in {"deleteByName", "deleteByID"}, StartDelete(h, kind, n)
        PROVE  \E step \in {"count", "mark"} :
                 /\ Begin(h, kind, n, step) /\ n \notin quiet /\ (n = VPC => step # "mark")
    BY <1>1, <2>1 DEF StartDelete, QuietInv
  <2>2. CASE StartDeletePolicy(h, n)
    <3>1. n # VPC
      BY <2>2, AzResourceAssumption DEF StartDeletePolicy
    <3> QED BY <2>2, <3>1 DEF StartDeletePolicy, Operations
  <2>3. CASE StartReplay(h, n)
    BY <1>1, <2>3 DEF StartReplay, QuietInv, Operations
  <2> QED BY <2>1, <2>2, <2>3 DEF Operations
<1>4. /\ op' \in [Handlers -> [kind : Operations, name : Names, at : Steps]]
      /\ \A g \in Handlers : g # h => op'[g] = op[g]
      /\ op'[h].name = n /\ op'[h].at = step
  BY <1>1, <1>3, OpLemma DEF Steps, Begin, TypeOK
<1>5. NoneCounts
  BY <1>3, <1>4 DEF NoneCounts
<1>6. TypeOK' /\ BuiltInv'
  BY <1>1, <1>2, <1>4, FaultLemma DEF TypeOK, BuiltInv
<1>7. QuietInv'
  BY <1>1, <1>2, <1>3, <1>4 DEF QuietInv, At
<1>8. FreeInv'
  BY <1>1, <1>2, <1>5, StillLemma
<1> QED BY <1>6, <1>7, <1>8 DEF ResourceInv

\* The two counts of a deletion of the VPC.
LEMMA CountLemma ==
  ASSUME ResourceInv, NEW h \in Handlers, CountSubnets(h) \/ CheckZonePolicies(h)
  PROVE  ResourceInv'
<1>1. TypeOK /\ BuiltInv /\ QuietInv /\ FreeInv
  BY DEF ResourceInv
<1>2. UNCHANGED <<row, work, reply, listed, verdict, built, quiet>> /\ (Fault \/ UNCHANGED faults)
  BY DEF CountSubnets, CheckZonePolicies, restOfRead
<1>3. Live(Subnets)' = Live(Subnets) /\ CountedPolicies' = CountedPolicies
  BY <1>2 DEF Live, CountedPolicies
<1>4. Subnets \subseteq Names /\ Policies \subseteq Names /\ Subnets \cap Policies = {}
      /\ Live(Subnets) \subseteq Subnets /\ CountedPolicies \subseteq Policies
  BY AzResourceAssumption DEF Names, Live, CountedPolicies
<1>5. /\ op' \in [Handlers -> [kind : Operations, name : Names, at : Steps]]
      /\ \A g \in Handlers : g # h => op'[g] = op[g]
  BY <1>1, OpLemma DEF CountSubnets, CheckZonePolicies, Steps
<1>6. PICK missed \in SUBSET Names : since' = [since EXCEPT ![h] = missed]
  <2>1. since[h] \in SUBSET Names
    BY <1>1 DEF TypeOK
  <2> QED BY <1>4, <2>1 DEF CountSubnets, CheckZonePolicies
<1>7. /\ since' \in [Handlers -> SUBSET Names]
      /\ \A g \in Handlers : since'[g] = IF g = h THEN missed ELSE since[g]
  BY <1>1, <1>6 DEF TypeOK
<1>8. TypeOK' /\ BuiltInv'
  BY <1>1, <1>2, <1>5, <1>7, FaultLemma DEF TypeOK, BuiltInv
<1>9. \/ op'[h] = Idle
      \/ /\ At(h, "count") /\ op'[h] = [op[h] EXCEPT !.at = "zone"]
         /\ Live(Subnets) = {}
      \/ /\ At(h, "zone") /\ op'[h] = [op[h] EXCEPT !.at = "mark"]
         /\ \/ CountedPolicies = {} /\ missed = since[h] \ Policies
            \/ missed = since[h] \cup Policies
  BY <1>1, <1>6, <1>7 DEF CountSubnets, CheckZonePolicies, CountedSubnets, Go, Return, TypeOK
<1>10. QuietInv'
  <2>1. At(h, "count") \/ At(h, "zone")
    BY DEF CountSubnets, CheckZonePolicies
  <2>2. op[h].name \notin quiet
    BY <1>1, <2>1 DEF QuietInv, At
  <2>3. op'[h].at = "idle" \/ op'[h].name = op[h].name
    BY <1>1, <1>9 DEF Idle, TypeOK
  <2> QED BY <1>1, <1>2, <1>5, <2>2, <2>3 DEF QuietInv, At
<1>11. FreeInv'
  <2>1. ASSUME NEW g \in Handlers, g # h, op'[g].name = VPC
        PROVE  (At(g, "zone") => Live(Subnets) \subseteq since[g])'
               /\ (At(g, "mark") => Live(Subnets) \cup CountedPolicies \subseteq since[g])'
    BY <1>1, <1>3, <1>5, <1>7, <2>1 DEF FreeInv, At
  <2>2. ASSUME op'[h].name = VPC
        PROVE  (At(h, "zone") => Live(Subnets) \subseteq since[h])'
               /\ (At(h, "mark") => Live(Subnets) \cup CountedPolicies \subseteq since[h])'
    <3>1. CASE op'[h] = Idle
      BY <3>1 DEF Idle, At
    <3>2. CASE op'[h] = [op[h] EXCEPT !.at = "zone"] /\ Live(Subnets) = {}
      BY <1>1, <1>3, <3>2 DEF At, TypeOK
    <3>3. CASE /\ At(h, "zone") /\ op'[h] = [op[h] EXCEPT !.at = "mark"]
               /\ \/ CountedPolicies = {} /\ missed = since[h] \ Policies
                  \/ missed = since[h] \cup Policies
      <4>1. op[h].name = VPC /\ op'[h].at = "mark"
        BY <1>1, <2>2, <3>3 DEF TypeOK
      <4>2. Live(Subnets) \subseteq since[h]
        BY <1>1, <3>3, <4>1 DEF FreeInv
      <4>3. Live(Subnets) \cup CountedPolicies \subseteq missed
        BY <1>4, <3>3, <4>2
      <4> QED BY <1>3, <1>7, <4>1, <4>3 DEF At
    <3> QED BY <1>9, <3>1, <3>2, <3>3
  <2> QED BY <2>1, <2>2 DEF FreeInv
<1> QED BY <1>8, <1>10, <1>11 DEF ResourceInv

-----------------------------------------------------------------------------
(* Steps of a handler that write a row or its tasks. *)

\* A handler whose next step is none of a deletion's brings no count to an end.
LEMMA NoneCountsLemma ==
  ASSUME TypeOK, NEW h \in Handlers,
         \/ Return(h) \/ Go(h, "run")
         \/ \E n \in Names : Begin(h, "create", n, "submit")
  PROVE  /\ op' \in [Handlers -> [kind : Operations, name : Names, at : Steps]]
         /\ \A g \in Handlers : g # h => op'[g] = op[g]
         /\ op'[h].at \in {"idle", "run", "submit"} /\ NoneCounts
<1>1. /\ op' \in [Handlers -> [kind : Operations, name : Names, at : Steps]]
      /\ \A g \in Handlers : g # h => op'[g] = op[g]
  BY OpLemma DEF Steps, Operations
<1>2. op \in [Handlers -> [kind : Operations, name : Names, at : Steps]]
  BY DEF TypeOK
<1>3. op'[h].at \in {"idle", "run", "submit"}
  <2>1. CASE Return(h)
    BY <1>2, <2>1 DEF Return, Idle
  <2>2. CASE Go(h, "run")
    BY <1>2, <2>2 DEF Go
  <2>3. ASSUME NEW n \in Names, Begin(h, "create", n, "submit")
        PROVE  op'[h].at \in {"idle", "run", "submit"}
    BY <1>2, <2>3 DEF Begin
  <2> QED BY <2>1, <2>2, <2>3
<1>4. NoneCounts
  BY <1>1, <1>3 DEF NoneCounts
<1> QED BY <1>1, <1>3, <1>4

\* A creation takes a name that has no row, and so none deleted in peace.
LEMMA InsertLemma ==
  ASSUME ResourceInv, NEW h \in Handlers, NEW n \in Names, Insert(h, n)
  PROVE  ResourceInv'
<1>1. TypeOK /\ BuiltInv /\ QuietInv /\ FreeInv
  BY DEF ResourceInv
<1>2. /\ row[n] = "absent" /\ Set(n, "pending") /\ Begin(h, "create", n, "submit")
      /\ UNCHANGED <<work, reply, listed, verdict, built, quiet, faults>>
  BY DEF Insert, MayInsert
<1>3. /\ op' \in [Handlers -> [kind : Operations, name : Names, at : Steps]]
      /\ \A g \in Handlers : g # h => op'[g] = op[g]
      /\ NoneCounts
  BY <1>1, <1>2, NoneCountsLemma
<1>4. op'[h].name = n
  BY <1>1, <1>2 DEF Begin, TypeOK
<1>5. /\ row' \in [Names -> Statuses] /\ since' \in [Handlers -> SUBSET Names]
      /\ \A m \in Names : row'[m] = IF m = n THEN "pending" ELSE row[m]
      /\ FreeInv'
  BY <1>1, <1>2, <1>3, SetLemma DEF Statuses
<1>6. TypeOK' /\ BuiltInv'
  BY <1>1, <1>2, <1>3, <1>5 DEF TypeOK, BuiltInv
<1>7. quiet \subseteq Names /\ n \notin quiet
  BY <1>1, <1>2 DEF QuietInv, TypeOK
<1>8. QuietInv'
  BY <1>1, <1>2, <1>3, <1>4, <1>5, <1>7 DEF QuietInv, At
<1> QED BY <1>5, <1>6, <1>8 DEF ResourceInv

\* A handler that writes its row or its tasks, to anything that is not a success, and
\* is no deletion, works on no row deleted in peace.
LEMMA WriteLemma ==
  ASSUME ResourceInv, NEW h \in Handlers,
         At(h, "submit") \/ At(h, "reset") \/ At(h, "run"),
         Return(h) \/ Go(h, "run"),
         \/ Leave
         \/ \E status \in {"pending", "creating", "failed"} : Set(op[h].name, status),
         \/ UNCHANGED work
         \/ \E w \in {"active", "lost", "failed"} : work' = [work EXCEPT ![op[h].name] = w],
         UNCHANGED <<reply, listed, verdict, built, quiet>>, Fault \/ UNCHANGED faults
  PROVE  ResourceInv'
<1>1. TypeOK /\ BuiltInv /\ QuietInv /\ FreeInv
  BY DEF ResourceInv
<1> DEFINE n == op[h].name
<1>2. /\ op' \in [Handlers -> [kind : Operations, name : Names, at : Steps]]
      /\ \A g \in Handlers : g # h => op'[g] = op[g]
      /\ op'[h].at \in {"idle", "run", "submit"} /\ NoneCounts
  BY <1>1, NoneCountsLemma
<1>3. n \in Names /\ quiet \subseteq Names /\ n \notin quiet
  BY <1>1 DEF TypeOK, QuietInv, At
<1>4. op'[h].at = "idle" \/ op'[h].name = n
  BY <1>1 DEF Return, Go, Idle, TypeOK
<1>5. /\ row' \in [Names -> Statuses] /\ since' \in [Handlers -> SUBSET Names] /\ FreeInv'
      /\ \A m \in Names : row'[m] = row[m] \/ (m = n /\ row'[m] \in {"pending", "creating", "failed"})
  <2>1. CASE Leave
    BY <1>1, <1>2, <2>1, LeaveLemma DEF Leave
  <2>2. ASSUME NEW status \in {"pending", "creating", "failed"}, Set(n, status)
        PROVE  /\ row' \in [Names -> Statuses] /\ since' \in [Handlers -> SUBSET Names] /\ FreeInv'
               /\ \A m \in Names : row'[m] = row[m] \/ (m = n /\ row'[m] \in {"pending", "creating", "failed"})
    <3>1. status \in Statuses
      BY DEF Statuses
    <3> HIDE DEF n
    <3> QED BY <1>1, <1>2, <1>3, <2>2, <3>1, SetLemma
  <2> QED BY <2>1, <2>2
<1>6. /\ work' \in [Names -> Works]
      /\ \A m \in Names : work'[m] = work[m] \/ (m = n /\ work'[m] \in {"active", "lost", "failed"})
  BY <1>1, <1>3 DEF TypeOK, Works
<1> HIDE DEF n
<1>7. TypeOK' /\ BuiltInv'
  BY <1>1, <1>2, <1>5, <1>6, FaultLemma DEF TypeOK, BuiltInv
<1>8. QuietInv'
  BY <1>1, <1>2, <1>3, <1>4, <1>5, <1>6 DEF QuietInv, At
<1> QED BY <1>5, <1>7, <1>8 DEF ResourceInv

\* SubmitWorkflow, and the two steps of a replay.
LEMMA HandlerLemma ==
  ASSUME ResourceInv, NEW h \in Handlers, Submit(h) \/ ResetRow(h) \/ Run(h)
  PROVE  ResourceInv'
<1>1. CASE Submit(h)
  <2>1. /\ Leave \/ \E status \in {"pending", "creating", "failed"} : Set(op[h].name, status)
        /\ \/ UNCHANGED work
           \/ \E w \in {"active", "lost", "failed"} : work' = [work EXCEPT ![op[h].name] = w]
    BY <1>1 DEF Submit, SubmitFails
  <2> QED BY <1>1, <2>1, WriteLemma DEF Submit
<1>2. CASE ResetRow(h)
  <2>1. Leave \/ \E status \in {"pending", "creating", "failed"} : Set(op[h].name, status)
    BY <1>2 DEF ResetRow
  <2> QED BY <1>2, <2>1, WriteLemma DEF ResetRow
<1>3. CASE Run(h)
  <2>1. \/ UNCHANGED work
        \/ \E w \in {"active", "lost", "failed"} : work' = [work EXCEPT ![op[h].name] = w]
    BY <1>3 DEF Run
  <2> QED BY <1>3, <2>1, WriteLemma DEF Run, Leave
<1> QED BY <1>1, <1>2, <1>3

\* A deletion writes its row: what is deleted in peace becomes so here.
LEMMA MarkLemma ==
  ASSUME ResourceInv, NEW h \in Handlers, Mark(h)
  PROVE  ResourceInv'
<1>1. TypeOK /\ BuiltInv /\ QuietInv /\ FreeInv
  BY DEF ResourceInv
<1> DEFINE n == op[h].name
<1>2. /\ At(h, "mark") /\ Return(h) /\ UNCHANGED <<work, reply, listed, verdict, built>>
      /\ Fault \/ UNCHANGED faults
  BY DEF Mark
<1>3. /\ op' \in [Handlers -> [kind : Operations, name : Names, at : Steps]]
      /\ \A g \in Handlers : g # h => op'[g] = op[g]
      /\ NoneCounts
  BY <1>1, <1>2, NoneCountsLemma
<1>4. op'[h] = Idle
  BY <1>1, <1>2 DEF Return, TypeOK
<1>5. n \in Names /\ quiet \subseteq Names
  BY <1>1 DEF TypeOK
<1>6. CASE Fault /\ Leave /\ UNCHANGED quiet
  <2>1. row' \in [Names -> Statuses] /\ since' \in [Handlers -> SUBSET Names] /\ FreeInv'
        /\ UNCHANGED row
    BY <1>1, <1>3, <1>6, LeaveLemma DEF Leave
  <2>2. TypeOK' /\ BuiltInv'
    BY <1>1, <1>2, <1>3, <1>6, <2>1, FaultLemma DEF TypeOK, BuiltInv
  <2>3. QuietInv'
    BY <1>1, <1>2, <1>3, <1>4, <1>6, <2>1 DEF QuietInv, At, Idle
  <2> QED BY <2>1, <2>2, <2>3 DEF ResourceInv
<1>7. CASE /\ Set(n, DeletedStatus(h)) /\ UNCHANGED faults
           /\ quiet' = IF DeletedStatus(h) = "deleted" /\ Alone(h) THEN quiet \cup {n} ELSE quiet
  <2>1. DeletedStatus(h) \in {"deleted", "deleting"} /\ DeletedStatus(h) \in Statuses
    BY DEF DeletedStatus, Statuses
  <2>2. /\ row' \in [Names -> Statuses] /\ since' \in [Handlers -> SUBSET Names]
        /\ \A m \in Names : row'[m] = IF m = n THEN DeletedStatus(h) ELSE row[m]
        /\ FreeInv'
    <3> HIDE DEF n
    <3> QED BY <1>1, <1>3, <1>5, <1>7, <2>1, SetLemma
  <2>3. TypeOK' /\ BuiltInv'
    BY <1>1, <1>2, <1>3, <1>5, <1>7, <2>1, <2>2 DEF TypeOK, BuiltInv
  <2>4. ASSUME NEW m \in quiet
        PROVE  /\ row'[m] = "deleted" /\ reply'[m] = "none" /\ m \notin listed'
               /\ work'[m] # "active" /\ (work'[m] = "failed" => m \in Policies)
               /\ \A g \in Handlers : At(g, "idle")' \/ op'[g].name # m \/ (At(g, "mark")' /\ m \in Policies)
    <3>1. m = n => DeletedStatus(h) = "deleted"
      BY <1>1, <1>2, <2>4 DEF QuietInv, At, DeletedStatus
    <3> QED BY <1>1, <1>2, <1>3, <1>4, <1>5, <2>2, <2>4, <3>1 DEF QuietInv, At, Idle
  <2>5. ASSUME DeletedStatus(h) = "deleted", Alone(h)
        PROVE  /\ row'[n] = "deleted" /\ reply'[n] = "none" /\ n \notin listed'
               /\ work'[n] # "active" /\ (work'[n] = "failed" => n \in Policies)
               /\ \A g \in Handlers : At(g, "idle")' \/ op'[g].name # n \/ (At(g, "mark")' /\ n \in Policies)
    BY <1>2, <1>3, <1>4, <1>5, <2>2, <2>5 DEF Alone, At, Idle
  <2>6. QuietInv'
    BY <1>7, <2>4, <2>5 DEF QuietInv
  <2> QED BY <2>2, <2>3, <2>6 DEF ResourceInv
<1> QED BY <1>6, <1>7 DEF Mark

-----------------------------------------------------------------------------
(* The workflows, their replies and the loops. *)

\* The last reply of a workflow says what its tasks have come to.
LEMMA TasksEndLemma ==
  ASSUME ResourceInv, NEW n \in Names, TasksEnd(n)
  PROVE  ResourceInv'
<1>1. TypeOK /\ BuiltInv /\ QuietInv /\ FreeInv
  BY DEF ResourceInv
<1>2. /\ work[n] = "active" /\ reply[n] = "none" /\ UNCHANGED <<row, listed, verdict, op, since, quiet>>
      /\ Fault \/ UNCHANGED faults
  BY DEF TasksEnd
<1>3. /\ work' \in [Names -> Works] /\ reply' \in [Names -> Outcomes] /\ built' \subseteq Names
      /\ \A m \in Names \ {n} : work'[m] = work[m] /\ reply'[m] = reply[m]
      /\ built \subseteq built'
      /\ work'[n] = "completed" \/ reply'[n] = "completed" => n \in built'
  <2>1. CASE \E outcome \in {"completed", "failed"} :
               /\ work' = [work EXCEPT ![n] = outcome]
               /\ reply' = [reply EXCEPT ![n] = outcome]
               /\ built' = IF outcome = "completed" THEN built \cup {n} ELSE built
    BY <1>1, <2>1 DEF TypeOK, Works, Outcomes
  <2>2. CASE work' = [work EXCEPT ![n] = "lost"] /\ UNCHANGED <<reply, built>>
    BY <1>1, <1>2, <2>2 DEF TypeOK, Works
  <2> QED BY <2>1, <2>2 DEF TasksEnd
<1>4. TypeOK' /\ BuiltInv'
  BY <1>1, <1>2, <1>3, FaultLemma DEF TypeOK, BuiltInv
<1>5. n \notin quiet /\ quiet \subseteq Names
  BY <1>1, <1>2 DEF QuietInv, TypeOK
<1>6. QuietInv'
  BY <1>1, <1>2, <1>3, <1>5 DEF QuietInv, At
<1>7. FreeInv'
  BY <1>1, <1>2, StillLemma DEF NoneCounts
<1> QED BY <1>4, <1>6, <1>7 DEF ResourceInv

\* A reply, or the repair of a row by its tasks, writes 'running' only where it was
\* earned.
LEMMA OutcomeLemma ==
  ASSUME ResourceInv, NEW n \in Names, n \notin quiet,
         NEW status \in Statuses, status = "running" => n \in built,
         Set(n, status) \/ Leave,
         reply' \in [Names -> Outcomes], \A m \in Names : reply'[m] \in {reply[m], "none"},
         listed' \subseteq listed, verdict' \in [Names -> Verdicts],
         \A m \in Names : verdict'[m] # "none" => verdict'[m] = verdict[m] /\ m \in listed',
         UNCHANGED <<work, op, built, quiet>>, Fault \/ UNCHANGED faults
  PROVE  ResourceInv'
<1>1. TypeOK /\ BuiltInv /\ QuietInv /\ FreeInv
  BY DEF ResourceInv
<1>2. NoneCounts
  BY DEF NoneCounts
<1>3. /\ row' \in [Names -> Statuses] /\ since' \in [Handlers -> SUBSET Names] /\ FreeInv'
      /\ \A m \in Names : row'[m] = row[m] \/ (m = n /\ row'[m] = status)
  <2>1. CASE Leave
    BY <1>1, <1>2, <2>1, LeaveLemma DEF Leave
  <2>2. CASE Set(n, status)
    BY <1>1, <1>2, <2>2, SetLemma
  <2> QED BY <2>1, <2>2
<1>4. TypeOK' /\ BuiltInv'
  BY <1>1, <1>3, FaultLemma DEF TypeOK, BuiltInv, Outcomes
<1>5. quiet \subseteq Names
  BY <1>1 DEF TypeOK
<1>6. QuietInv'
  BY <1>1, <1>3, <1>5 DEF QuietInv, At
<1> QED BY <1>3, <1>4, <1>6 DEF ResourceInv

\* HandleReply.
LEMMA SettleLemma ==
  ASSUME ResourceInv, NEW n \in Names, Settle(n)
  PROVE  ResourceInv'
<1>1. TypeOK /\ BuiltInv /\ QuietInv
  BY DEF ResourceInv
<1> DEFINE status == StatusOf(reply[n])
<1>2. n \notin quiet /\ reply[n] \in {"completed", "failed"}
  BY <1>1 DEF Settle, QuietInv, TypeOK, Outcomes
<1>3. status \in Statuses /\ (status = "running" => n \in built)
  BY <1>1, <1>2 DEF StatusOf, Statuses, BuiltInv
<1>4. /\ reply' = [reply EXCEPT ![n] = "none"] /\ UNCHANGED <<work, listed, verdict, op, built, quiet>>
      /\ Fault \/ UNCHANGED faults
      /\ Set(n, status) \/ Leave
  BY DEF Settle
<1>5. /\ reply' \in [Names -> Outcomes] /\ \A m \in Names : reply'[m] \in {reply[m], "none"}
      /\ verdict' \in [Names -> Verdicts]
      /\ \A m \in Names : verdict'[m] # "none" => verdict'[m] = verdict[m] /\ m \in listed'
  BY <1>1, <1>4 DEF TypeOK, Outcomes, BuiltInv
<1> HIDE DEF status
<1> QED BY <1>2, <1>3, <1>4, <1>5, OutcomeLemma

\* compensateResource, and runCompensation of the firewall service: the verdict.
LEMMA JudgeLemma ==
  ASSUME ResourceInv, NEW n \in Names, Judge(n)
  PROVE  ResourceInv'
<1>1. TypeOK /\ BuiltInv /\ QuietInv /\ FreeInv
  BY DEF ResourceInv
<1> DEFINE v == VerdictOf(n)
<1>2. v \in Verdicts /\ (v = "running" => n \in built)
  BY <1>1 DEF VerdictOf, Verdicts, BuiltInv
<1>3. /\ n \in listed /\ verdict' = [verdict EXCEPT ![n] = v]
      /\ listed' = IF v = "none" THEN listed \ {n} ELSE listed
      /\ UNCHANGED <<row, work, reply, op, built, since, quiet, faults>>
  BY DEF Judge
<1> HIDE DEF v
<1>4. TypeOK' /\ BuiltInv'
  BY <1>1, <1>2, <1>3 DEF TypeOK, BuiltInv
<1>5. QuietInv'
  BY <1>1, <1>3 DEF QuietInv, At
<1>6. FreeInv'
  BY <1>1, <1>3, StillLemma DEF NoneCounts
<1> QED BY <1>4, <1>5, <1>6 DEF ResourceInv

\* The UPDATE of a loop.
LEMMA RepairLemma ==
  ASSUME ResourceInv, NEW n \in Names, Repair(n)
  PROVE  ResourceInv'
<1>1. TypeOK /\ BuiltInv /\ QuietInv
  BY DEF ResourceInv
<1> DEFINE status == verdict[n]
<1>2. n \notin quiet
  BY <1>1 DEF Repair, QuietInv, BuiltInv
<1>3. status \in Statuses /\ (status = "running" => n \in built)
  BY <1>1 DEF Repair, Statuses, Verdicts, BuiltInv, TypeOK
<1>4. /\ listed' = listed \ {n} /\ verdict' = [verdict EXCEPT ![n] = "none"]
      /\ UNCHANGED <<work, reply, op, built, quiet>>
      /\ Fault \/ UNCHANGED faults
      /\ Set(n, status) \/ Leave
  BY DEF Repair
<1>5. /\ reply' \in [Names -> Outcomes] /\ \A m \in Names : reply'[m] \in {reply[m], "none"}
      /\ verdict' \in [Names -> Verdicts]
      /\ \A m \in Names : verdict'[m] # "none" => verdict'[m] = verdict[m] /\ m \in listed'
  BY <1>1, <1>4 DEF TypeOK, Verdicts, BuiltInv
<1> HIDE DEF status
<1> QED BY <1>1, <1>2, <1>3, <1>4, <1>5, OutcomeLemma

\* A loop reads no row that is deleted.
LEMMA ListLemma ==
  ASSUME ResourceInv, Lists
  PROVE  ResourceInv'
<1>1. TypeOK /\ BuiltInv /\ QuietInv /\ FreeInv
  BY DEF ResourceInv
<1>2. VPC \in Names /\ Subnets \subseteq Names /\ Policies \subseteq Names
  BY DEF Names
<1>3. PICK S \in SUBSET Names : List(S)
  BY <1>2 DEF Lists, ListVPCs, ListSubnets, ListPolicies
<1>4. /\ UNCHANGED <<row, work, reply, op, built, since, quiet, faults>>
      /\ listed \subseteq listed' /\ listed' \subseteq Names /\ UNCHANGED verdict
      /\ \A n \in listed' : n \in listed \/ row[n] # "deleted"
  BY <1>1, <1>3 DEF List, Live, Gone, TypeOK
<1>5. TypeOK' /\ BuiltInv'
  BY <1>1, <1>4 DEF TypeOK, BuiltInv
<1>6. QuietInv'
  BY <1>1, <1>4 DEF QuietInv, At
<1>7. FreeInv'
  BY <1>1, <1>4, StillLemma DEF NoneCounts
<1> QED BY <1>5, <1>6, <1>7 DEF ResourceInv

-----------------------------------------------------------------------------
(* The theorems. *)

\* Every step keeps the inductive invariant.
LEMMA StepLemma == ResourceInv /\ [Next]_vars => ResourceInv'
<1> SUFFICES ASSUME ResourceInv, [Next]_vars PROVE ResourceInv'
  OBVIOUS
<1>1. ASSUME NEW h \in Handlers, Requests(h)
      PROVE  ResourceInv'
  BY <1>1, InsertLemma, StartLemma DEF Requests
<1>2. ASSUME NEW h \in Handlers, Handles(h)
      PROVE  ResourceInv'
  BY <1>2, CountLemma, HandlerLemma, MarkLemma DEF Handles
<1>3. ASSUME NEW n \in Names, TasksEnd(n) \/ Settle(n) \/ Judge(n) \/ Repair(n)
      PROVE  ResourceInv'
  BY <1>3, TasksEndLemma, SettleLemma, JudgeLemma, RepairLemma
<1>4. CASE Lists
  BY <1>4, ListLemma
<1>5. CASE UNCHANGED vars
  BY <1>5 DEF vars, ResourceInv, TypeOK, BuiltInv, QuietInv, FreeInv, At, Live, CountedPolicies
<1> QED BY <1>1, <1>2, <1>3, <1>4, <1>5 DEF Next

\* The inductive invariant holds throughout.
THEOREM ResourceSafety == Spec => []ResourceInv
<1> QED BY InitLemma, StepLemma, PTL DEF Spec

\* Every variable keeps its type.
THEOREM ResourceTypeCorrect == Spec => []TypeOK
<1>1. ResourceInv => TypeOK
  BY DEF ResourceInv
<1> QED BY <1>1, ResourceSafety, PTL

\* Whoever wrote it last, 'running' was earned: all the tasks of the row's workflow
\* had completed by then.
THEOREM RunningWasBuilt == Spec => []RunningIsBuilt
<1>1. ResourceInv => RunningIsBuilt
  BY DEF ResourceInv, BuiltInv, RunningIsBuilt
<1> QED BY <1>1, ResourceSafety, PTL

\* A row that was deleted while nothing else was at work on it stays deleted.
THEOREM DeletedInPeaceStays == Spec => []QuietlyDeletedStays
<1>1. ResourceInv => QuietlyDeletedStays
  BY DEF ResourceInv, QuietInv, QuietlyDeletedStays
<1> QED BY <1>1, ResourceSafety, PTL

\* A deletion of the VPC leaves behind only subnets and policies written since it
\* counted them, or that it could not count.
THEOREM VPCWasFree == Spec => VPCIsFree
<1>1. ResourceInv =>
      [\A h \in Handlers :
       (op[h].name = VPC /\ At(h, "mark") /\ row'[VPC] # row[VPC] /\ op'[h] = Idle) =>
         Live(Subnets) \cup CountedPolicies \subseteq since[h]]_vars
  BY DEF ResourceInv, FreeInv
<1> QED BY <1>1, ResourceSafety, PTL DEF VPCIsFree

=============================================================================
