---------------------------- MODULE TopVfwProofs ----------------------------
(***************************************************************************)
(* For any AZs, VPCs, ranges, requests, names and number of faults: the    *)
(* policies of the Top firewall service say 'running' and 'creating' only  *)
(* when they may, a deleted one is gone for good, and the deletion of a    *)
(* VPC leaves no policy of its zone that it could have counted.            *)
(***************************************************************************)
EXTENDS TopVfw, TLAPS

-----------------------------------------------------------------------------
(* The inductive invariant. *)

\* The row of a policy follows the request that inserts it.
RowFollows ==
  \A r \in Requests :
    /\ policy[r] # "absent" => at[r] \in {"resolve", "fanout", "done"}
    /\ at[r] \in {"resolve", "fanout"} => policy[r] \in {"creating", "deleted"}

\* The two ends of a policy are in AZs once they have been looked up.
EndsFound ==
  \A r \in Requests :
    /\ at[r] \in {"dst", "insert", "resolve", "fanout"} => src[r].az \in AZs
    /\ at[r] \in {"insert", "resolve", "fanout"} => dst[r].az \in AZs

\* A policy is sent, and then held, only after its request has come to its goroutines.
SentLate ==
  \A r \in Requests, a \in AZs :
    /\ leg[r][a] # "none" => at[r] \in {"fanout", "done"}
    /\ <<r, a>> \in held => at[r] \in {"fanout", "done"}

\* An AZ has what it has accepted, and one policy of each name.
AcceptedIsHeld == \A r \in Requests, a \in AZs : result[r][a] = "accepted" => <<r, a>> \in held

HeldOnce ==
  \A r, q \in Requests, a \in AZs :
    <<r, a>> \in held /\ <<q, a>> \in held /\ name[q] = name[r] => q = r

RunningHeld ==
  \A r \in Requests : policy[r] = "running" => \A a \in Targets(r) : a \in AZs /\ <<r, a>> \in held

\* Only a policy that is there has records.
RecordsFollow ==
  \A r \in Requests, a \in AZs : policy[r] \in {"absent", "deleted"} => record[r][a] = "none"

\* What is in a zone after the count was inserted since.
ZoneCounted == \A v \in VPCs : removal[v] = "mark" => ZonePolicies(v) \subseteq since[v]

VfwInv ==
  /\ TypeOK /\ RowFollows /\ EndsFound /\ SentLate /\ AcceptedIsHeld /\ HeldOnce
  /\ RunningHeld /\ RecordsFollow /\ ZoneCounted /\ CreatingIsUnderway

-----------------------------------------------------------------------------

\* One more fault is within the bound.
LEMMA FaultLemma ==
  ASSUME TypeOK, NoFault \/ Fault
  PROVE  faults' \in 0..MaxFaults
BY TopVfwAssumption DEF TypeOK, NoFault, Fault

\* What the lookup of an address finds is a zone in an AZ.
LEMMA FoundLemma ==
  ASSUME TypeOK, NEW ip, NEW end \in Found(ip)
  PROVE  end \in Ends /\ end.az \in AZs
<1>1. PICK k \in Mapped : end = [az |-> k[2], zone |-> mapped[k]]
  BY DEF Found, Holding
<1>2. k \in Ranges \X AZs /\ mapped[k] # Unmapped /\ mapped[k] \in Zones
  BY <1>1 DEF Mapped, TypeOK
<1> QED BY <1>1, <1>2 DEF Ends

\* Nothing is there at the beginning.
LEMMA InitLemma == Init => VfwInv
<1> SUFFICES ASSUME Init PROVE VfwInv
  OBVIOUS
<1>1. name \in [Requests -> Names]
  <2>1. (CHOOSE n \in Names : TRUE) \in Names
    BY TopVfwAssumption, Zenon
  <2>2. name \in [Requests -> {CHOOSE n \in Names : TRUE}]
    BY DEF Init
  <2> QED BY <2>1, <2>2
<1>2. faults \in 0..MaxFaults
  BY TopVfwAssumption DEF Init
<1>3. TypeOK
  BY <1>1, <1>2 DEF Init, TypeOK, Ends, Steps, Statuses, Legs
<1>4. RowFollows /\ EndsFound /\ SentLate /\ AcceptedIsHeld /\ HeldOnce /\ RunningHeld
      /\ RecordsFollow /\ ZoneCounted /\ CreatingIsUnderway
  BY DEF Init, RowFollows, EndsFound, SentLate, AcceptedIsHeld, HeldOnce, RunningHeld,
         RecordsFollow, ZoneCounted, CreatingIsUnderway
<1> QED BY <1>3, <1>4 DEF VfwInv

\* The mapping, the AZs and the start of a deletion of a VPC.
LEMMA AroundLemma ==
  ASSUME VfwInv, UNCHANGED <<at, policy, cut, row, fanout>>, NoFault \/ Fault,
         mapped' \in [Ranges \X AZs -> Zones \cup {Unmapped}],
         removal' \in [VPCs -> {"no", "mark"}], since' \in [VPCs -> SUBSET Requests],
         known' \subseteq AZs,
         \A v \in VPCs : removal'[v] = "mark" => ZonePolicies(v) \subseteq since'[v]
  PROVE  VfwInv'
<1>1. TypeOK'
  BY FaultLemma DEF VfwInv, TypeOK, row, fanout
<1>2. (RowFollows /\ EndsFound /\ SentLate /\ AcceptedIsHeld /\ HeldOnce)'
  BY DEF VfwInv, RowFollows, EndsFound, SentLate, AcceptedIsHeld, HeldOnce, row, fanout
<1>3. (RunningHeld /\ RecordsFollow /\ ZoneCounted /\ CreatingIsUnderway)'
  BY DEF VfwInv, RunningHeld, Targets, RecordsFollow, ZoneCounted, ZonePolicies,
         CreatingIsUnderway, row, fanout
<1> QED BY <1>1, <1>2, <1>3 DEF VfwInv

\* RegisterSubnet, RegisterAZ, CountZone and MarkVPCDeleted.
LEMMA ZonesLemma ==
  ASSUME VfwInv,
         \/ \E v \in VPCs : CountZone(v) \/ MarkVPCDeleted(v)
         \/ \E v \in VPCs, range \in Ranges, a \in AZs : RegisterSubnet(v, range, a)
         \/ \E a \in AZs : RegisterAZ(a)
  PROVE  VfwInv'
<1>1. TypeOK /\ ZoneCounted
  BY DEF VfwInv
<1>2. ASSUME NEW v \in VPCs, CountZone(v) PROVE VfwInv'
  <2>1. \/ CountedPolicies(v) = {} /\ since' = [since EXCEPT ![v] = {}]
        \/ since' = [since EXCEPT ![v] = Requests]
    BY <1>2 DEF CountZone
  <2>2. ZonePolicies(v) \subseteq CountedPolicies(v) /\ ZonePolicies(v) \subseteq Requests
    BY DEF ZonePolicies, CountedPolicies, Present
  <2>3. removal' = [removal EXCEPT ![v] = "mark"]
    BY <1>2 DEF CountZone
  <2>4. \A w \in VPCs : removal'[w] = "mark" => ZonePolicies(w) \subseteq since'[w]
    BY <1>1, <2>1, <2>2, <2>3 DEF TypeOK, ZoneCounted
  <2> QED BY <1>1, <1>2, <2>1, <2>3, <2>4, AroundLemma DEF CountZone, TypeOK
<1>3. ASSUME NEW v \in VPCs, MarkVPCDeleted(v) PROVE VfwInv'
  BY <1>1, <1>3, AroundLemma DEF MarkVPCDeleted, TypeOK, ZoneCounted, NoFault
<1>4. ASSUME NEW v \in VPCs, NEW range \in Ranges, NEW a \in AZs, RegisterSubnet(v, range, a)
      PROVE  VfwInv'
  <2>1. mapped' = [mapped EXCEPT ![<<range, a>>] = v] \/ mapped' = [mapped EXCEPT ![<<range, a>>] = NoZone]
    BY <1>4 DEF RegisterSubnet
  <2>2. mapped' \in [Ranges \X AZs -> Zones \cup {Unmapped}]
    BY <1>1, <2>1 DEF TypeOK, Zones
  <2> QED BY <1>1, <1>4, <2>2, AroundLemma DEF RegisterSubnet, TypeOK, ZoneCounted
<1>5. ASSUME NEW a \in AZs, RegisterAZ(a) PROVE VfwInv'
  BY <1>1, <1>5, AroundLemma DEF RegisterAZ, TypeOK, ZoneCounted, zones, NoFault
<1> QED BY <1>2, <1>3, <1>4, <1>5

-----------------------------------------------------------------------------
(* CreatePolicy. *)

\* A step of a request leaves those of the others alone.
LEMMA GoLemma ==
  ASSUME TypeOK, NEW r \in Requests, NEW step \in Steps, Go(r, step)
  PROVE  /\ at' \in [Requests -> Steps]
         /\ \A q \in Requests : at'[q] = IF q = r THEN step ELSE at[q]
BY DEF Go, TypeOK

\* The lookup of the source.
LEMMA FindSourceLemma ==
  ASSUME VfwInv, NEW r \in Requests, FindSource(r)
  PROVE  VfwInv'
<1> USE DEF zones, fanout
<1>1. TypeOK
  BY DEF VfwInv
<1>2. at[r] = "idle" /\ Go(r, "dst")
  BY DEF FindSource
<1>3a. PICK n \in Names, ip \in Addresses :
         \E end \in Found(ip) : name' = [name EXCEPT ![r] = n] /\ src' = [src EXCEPT ![r] = end]
  BY Zenon DEF FindSource
<1>3. PICK end \in Found(ip) : name' = [name EXCEPT ![r] = n] /\ src' = [src EXCEPT ![r] = end]
  BY <1>3a
<1>4. end \in Ends /\ end.az \in AZs
  BY <1>1, <1>3, FoundLemma
<1>5. at' \in [Requests -> Steps] /\ \A q \in Requests : at'[q] = IF q = r THEN "dst" ELSE at[q]
  BY <1>1, <1>2, GoLemma DEF Steps
<1>6. /\ src' \in [Requests -> Ends] /\ \A q \in Requests : src'[q] = IF q = r THEN end ELSE src[q]
      /\ name' \in [Requests -> Names] /\ \A q \in Requests : q # r => name'[q] = name[q]
  BY <1>1, <1>3, <1>4 DEF TypeOK
<1>7. UNCHANGED <<mapped, removal, since, known, dst, policy, cut, faults, record, leg, result, held>>
  BY DEF FindSource
<1>8. policy[r] = "absent" /\ \A a \in AZs : <<r, a>> \notin held
  BY <1>2 DEF VfwInv, RowFollows, SentLate
<1>9. TypeOK'
  BY <1>1, <1>5, <1>6, <1>7 DEF TypeOK
<1>10. (RowFollows /\ EndsFound /\ SentLate)'
  BY <1>2, <1>4, <1>5, <1>6, <1>7 DEF VfwInv, RowFollows, EndsFound, SentLate
<1>11. (AcceptedIsHeld /\ HeldOnce /\ RecordsFollow /\ CreatingIsUnderway)'
  BY <1>2, <1>5, <1>6, <1>7, <1>8
     DEF VfwInv, AcceptedIsHeld, HeldOnce, RecordsFollow, CreatingIsUnderway
<1>12. (RunningHeld /\ ZoneCounted)'
  BY <1>6, <1>7, <1>8 DEF VfwInv, RunningHeld, Targets, ZoneCounted, ZonePolicies
<1> QED BY <1>9, <1>10, <1>11, <1>12 DEF VfwInv

\* The lookup of the destination.
LEMMA FindDestLemma ==
  ASSUME VfwInv, NEW r \in Requests, FindDest(r)
  PROVE  VfwInv'
<1> USE DEF zones, fanout
<1>1. TypeOK
  BY DEF VfwInv
<1>2. /\ at[r] = "dst"
      /\ UNCHANGED <<mapped, removal, since, known, name, src, policy, cut, faults, record, leg,
                     result, held>>
  BY DEF FindDest
<1>3. policy[r] = "absent" /\ src[r].az \in AZs
      /\ \A a \in AZs : <<r, a>> \notin held /\ leg[r][a] = "none"
  BY <1>1, <1>2 DEF VfwInv, RowFollows, EndsFound, SentLate
<1>4. \/ Go(r, "done") /\ UNCHANGED dst
      \/ \E end \in Ends : /\ end.az \in AZs /\ dst' = [dst EXCEPT ![r] = end]
                           /\ Go(r, "insert")
  BY <1>1, FoundLemma DEF FindDest
<1>5. /\ dst' \in [Requests -> Ends] /\ \A q \in Requests : q # r => dst'[q] = dst[q]
      /\ Go(r, "insert") => dst'[r].az \in AZs
  <2>1. CASE Go(r, "done") /\ UNCHANGED dst
    BY <1>1, <2>1 DEF TypeOK, Go
  <2>2. ASSUME NEW end \in Ends, end.az \in AZs, dst' = [dst EXCEPT ![r] = end]
        PROVE  /\ dst' \in [Requests -> Ends] /\ \A q \in Requests : q # r => dst'[q] = dst[q]
               /\ dst'[r].az \in AZs
    BY <1>1, <2>2 DEF TypeOK
  <2> QED BY <1>4, <2>1, <2>2
<1>6. PICK step \in {"insert", "done"} : Go(r, step)
  BY <1>4
<1>7. at' \in [Requests -> Steps] /\ \A q \in Requests : at'[q] = IF q = r THEN step ELSE at[q]
  BY <1>1, <1>6, GoLemma DEF Steps
<1>8. TypeOK'
  BY <1>1, <1>2, <1>5, <1>7 DEF TypeOK
<1>9. (RowFollows /\ EndsFound /\ SentLate)'
  BY <1>2, <1>3, <1>5, <1>6, <1>7 DEF VfwInv, RowFollows, EndsFound, SentLate
<1>10. (AcceptedIsHeld /\ HeldOnce /\ RecordsFollow /\ CreatingIsUnderway)'
  BY <1>2, <1>3, <1>7 DEF VfwInv, AcceptedIsHeld, HeldOnce, RecordsFollow, CreatingIsUnderway
<1>11. (RunningHeld /\ ZoneCounted)'
  BY <1>2, <1>3, <1>5 DEF VfwInv, RunningHeld, Targets, ZoneCounted, ZonePolicies
<1> QED BY <1>8, <1>9, <1>10, <1>11 DEF VfwInv

\* A policy's row is inserted once, and noted by the deletions that have counted.
LEMMA InsertLemma ==
  ASSUME VfwInv, NEW r \in Requests, InsertPolicy(r)
  PROVE  VfwInv'
<1> USE DEF row, fanout
<1>1. TypeOK
  BY DEF VfwInv
<1>2. /\ at[r] = "insert"
      /\ UNCHANGED <<mapped, removal, known, cut, faults, name, src, dst, record, leg, result, held>>
  BY DEF InsertPolicy
<1>3. policy[r] = "absent" /\ \A a \in AZs : <<r, a>> \notin held /\ leg[r][a] = "none"
  BY <1>1, <1>2 DEF VfwInv, RowFollows, SentLate
<1>4. CASE Go(r, "done") /\ UNCHANGED <<policy, since>>
  <2>1. at' \in [Requests -> Steps] /\ \A q \in Requests : at'[q] = IF q = r THEN "done" ELSE at[q]
    BY <1>1, <1>4, GoLemma DEF Steps
  <2>2. TypeOK'
    BY <1>1, <1>2, <1>4, <2>1 DEF TypeOK
  <2>3. (RowFollows /\ EndsFound /\ SentLate /\ AcceptedIsHeld /\ HeldOnce)'
    BY <1>2, <1>3, <1>4, <2>1
       DEF VfwInv, RowFollows, EndsFound, SentLate, AcceptedIsHeld, HeldOnce
  <2>4. (RunningHeld /\ RecordsFollow /\ ZoneCounted /\ CreatingIsUnderway)'
    BY <1>2, <1>3, <1>4, <2>1
       DEF VfwInv, RunningHeld, Targets, RecordsFollow, ZoneCounted, ZonePolicies, CreatingIsUnderway
  <2> QED BY <2>2, <2>3, <2>4 DEF VfwInv
<1>5. CASE /\ Go(r, "resolve") /\ policy' = [policy EXCEPT ![r] = "creating"]
           /\ since' = [v \in VPCs |-> IF removal[v] = "mark" THEN since[v] \cup {r} ELSE {}]
  <2>1. at' \in [Requests -> Steps] /\ \A q \in Requests : at'[q] = IF q = r THEN "resolve" ELSE at[q]
    BY <1>1, <1>5, GoLemma DEF Steps
  <2>2. /\ policy' \in [Requests -> Statuses]
        /\ \A q \in Requests : policy'[q] = IF q = r THEN "creating" ELSE policy[q]
    BY <1>1, <1>5 DEF TypeOK, Statuses
  <2>3. since' \in [VPCs -> SUBSET Requests]
    BY <1>1, <1>5 DEF TypeOK
  <2>4. TypeOK'
    BY <1>1, <1>2, <2>1, <2>2, <2>3 DEF TypeOK
  <2>5. (RowFollows /\ EndsFound /\ SentLate /\ AcceptedIsHeld /\ HeldOnce)'
    BY <1>2, <1>3, <2>1, <2>2
       DEF VfwInv, RowFollows, EndsFound, SentLate, AcceptedIsHeld, HeldOnce
  <2>6. (RunningHeld /\ RecordsFollow /\ CreatingIsUnderway)'
    BY <1>2, <2>1, <2>2 DEF VfwInv, RunningHeld, Targets, RecordsFollow, CreatingIsUnderway
  <2>7. ZoneCounted'
    BY <1>2, <1>5, <2>2 DEF VfwInv, ZoneCounted, ZonePolicies
  <2> QED BY <2>4, <2>5, <2>6, <2>7 DEF VfwInv
<1> QED BY <1>4, <1>5 DEF InsertPolicy

\* An UPDATE of a policy's row, or a failed one.
LEMMA UpdatePolicyLemma ==
  ASSUME TypeOK, NEW r \in Requests, NEW status \in Present, UpdatePolicy(r, status)
  PROVE  /\ policy' \in [Requests -> Statuses] /\ cut' \subseteq Requests /\ cut \subseteq cut'
         /\ \A q \in Requests : q # r => policy'[q] = policy[q]
         /\ policy'[r] \in {policy[r], status} /\ (NoFault \/ Fault)
         /\ policy[r] \in {"absent", "deleted"} => policy'[r] = policy[r]
         /\ policy[r] = "creating" => policy'[r] = status \/ r \in cut'
BY DEF UpdatePolicy, Written, TypeOK, Statuses, Present

\* The addresses of the AZs: all of them are known, or the policy has failed.
LEMMA ResolveLemma ==
  ASSUME VfwInv, NEW r \in Requests, Resolve(r)
  PROVE  VfwInv'
<1> USE DEF zones, row
<1>1. TypeOK
  BY DEF VfwInv
<1>2. /\ at[r] = "resolve"
      /\ UNCHANGED <<mapped, removal, since, known, name, src, dst, record, result, held>>
  BY DEF Resolve
<1>3. policy[r] \in {"creating", "deleted"} /\ src[r].az \in AZs /\ dst[r].az \in AZs
  BY <1>2 DEF VfwInv, RowFollows, EndsFound
<1>4. CASE /\ Go(r, "fanout") /\ UNCHANGED <<policy, cut, faults>>
           /\ leg' = [leg EXCEPT ![r] = [a \in AZs |-> IF a \in Targets(r) THEN "record" ELSE "none"]]
  <2>1. at' \in [Requests -> Steps] /\ \A q \in Requests : at'[q] = IF q = r THEN "fanout" ELSE at[q]
    BY <1>1, <1>4, GoLemma DEF Steps
  <2>2. leg' \in [Requests -> [AZs -> Legs]] /\ \A q \in Requests : q # r => leg'[q] = leg[q]
    BY <1>1, <1>4 DEF TypeOK, Legs
  <2>3. TypeOK'
    BY <1>1, <1>2, <1>4, <2>1, <2>2 DEF TypeOK
  <2>4. (RowFollows /\ EndsFound /\ SentLate /\ AcceptedIsHeld /\ HeldOnce)'
    BY <1>2, <1>3, <1>4, <2>1, <2>2
       DEF VfwInv, RowFollows, EndsFound, SentLate, AcceptedIsHeld, HeldOnce
  <2>5. (RunningHeld /\ RecordsFollow /\ ZoneCounted /\ CreatingIsUnderway)'
    BY <1>2, <1>4, <2>1
       DEF VfwInv, RunningHeld, Targets, RecordsFollow, ZoneCounted, ZonePolicies, CreatingIsUnderway
  <2> QED BY <2>3, <2>4, <2>5 DEF VfwInv
<1>5. CASE Go(r, "done") /\ UpdatePolicy(r, "failed") /\ UNCHANGED leg
  <2>1. at' \in [Requests -> Steps] /\ \A q \in Requests : at'[q] = IF q = r THEN "done" ELSE at[q]
    BY <1>1, <1>5, GoLemma DEF Steps
  <2>2. /\ policy' \in [Requests -> Statuses] /\ cut' \subseteq Requests /\ cut \subseteq cut'
        /\ \A q \in Requests : q # r => policy'[q] = policy[q]
        /\ policy'[r] \in {policy[r], "failed"} /\ (NoFault \/ Fault)
        /\ policy[r] = "creating" => policy'[r] = "failed" \/ r \in cut'
    BY <1>1, <1>5, UpdatePolicyLemma DEF Present
  <2>3. TypeOK'
    BY <1>1, <1>2, <1>5, <2>1, <2>2, FaultLemma DEF TypeOK
  <2>4. (RowFollows /\ EndsFound /\ SentLate /\ AcceptedIsHeld /\ HeldOnce)'
    BY <1>2, <1>3, <1>5, <2>1, <2>2
       DEF VfwInv, RowFollows, EndsFound, SentLate, AcceptedIsHeld, HeldOnce
  <2>5. (RunningHeld /\ RecordsFollow /\ CreatingIsUnderway)'
    BY <1>2, <1>3, <2>1, <2>2 DEF VfwInv, RunningHeld, Targets, RecordsFollow, CreatingIsUnderway
  <2>6. ZoneCounted'
    BY <1>2, <1>3, <2>2 DEF VfwInv, ZoneCounted, ZonePolicies
  <2> QED BY <2>3, <2>4, <2>5, <2>6 DEF VfwInv
<1> QED BY <1>4, <1>5 DEF Resolve, Refuse

-----------------------------------------------------------------------------
(* The goroutines, the end of a request, deletion and restart. *)

\* What a goroutine leaves alone.
legSame == UNCHANGED <<mapped, removal, since, known, at, name, src, dst, policy, cut>>

\* A goroutine that sends a policy has a request that has come so far.
LEMMA LegLemma ==
  ASSUME VfwInv, NEW r \in Requests, NEW a \in AZs, NEW step \in Legs,
         leg[r][a] # "none", LegGoes(r, a, step), legSame, NoFault \/ Fault,
         record' \in [Requests -> [AZs -> {"none", "creating", "failed"}]],
         result' \in [Requests -> [AZs -> {"none", "accepted", "refused"}]],
         held' \subseteq Requests \X AZs, held \subseteq held',
         \A q \in Requests, b \in AZs : <<q, b>> \in held' => <<q, b>> \in held \/ <<q, b>> = <<r, a>>,
         AcceptedIsHeld', HeldOnce', RecordsFollow'
  PROVE  VfwInv'
<1> USE DEF legSame
<1>1. TypeOK /\ at[r] \in {"fanout", "done"}
  BY DEF VfwInv, SentLate
<1>2. /\ leg' \in [Requests -> [AZs -> Legs]]
      /\ \A q \in Requests, b \in AZs : leg'[q][b] = IF q = r /\ b = a THEN step ELSE leg[q][b]
  BY <1>1 DEF LegGoes, TypeOK
<1>3. TypeOK'
  BY <1>1, <1>2, FaultLemma DEF TypeOK
<1>4. (RowFollows /\ EndsFound /\ CreatingIsUnderway)'
  BY DEF VfwInv, RowFollows, EndsFound, CreatingIsUnderway
<1>5. SentLate'
  BY <1>1, <1>2 DEF VfwInv, SentLate
<1>6. (RunningHeld /\ ZoneCounted)'
  BY DEF VfwInv, RunningHeld, Targets, ZoneCounted, ZonePolicies
<1> QED BY <1>3, <1>4, <1>5, <1>6 DEF VfwInv

\* A goroutine's three steps.
LEMMA GoroutineLemma ==
  ASSUME VfwInv, NEW r \in Requests, NEW a \in AZs,
         CreateAZRecord(r, a) \/ PostPolicy(r, a) \/ UpdateAZRecord(r, a)
  PROVE  VfwInv'
<1> USE DEF zones, row
<1>1. TypeOK /\ AcceptedIsHeld /\ HeldOnce /\ RecordsFollow
  BY DEF VfwInv
<1>2. CASE CreateAZRecord(r, a)
  <2>1. /\ leg[r][a] # "none" /\ LegGoes(r, a, "post") /\ legSame
        /\ UNCHANGED <<result, held>> /\ (NoFault \/ Fault)
    BY <1>2 DEF CreateAZRecord, legSame
  <2>2. /\ record' \in [Requests -> [AZs -> {"none", "creating", "failed"}]]
        /\ \A q \in Requests, b \in AZs :
             record'[q][b] = record[q][b] \/ (q = r /\ policy[r] \in Present)
    <3>1. UNCHANGED record
          \/ record' = [record EXCEPT ![r][a] = IF Recordable(r) THEN "creating" ELSE record[r][a]]
      BY <1>2 DEF CreateAZRecord
    <3>0. record \in [Requests -> [AZs -> {"none", "creating", "failed"}]]
      BY <1>1 DEF TypeOK
    <3>2. CASE UNCHANGED record
      BY <3>0, <3>2
    <3>3. CASE Recordable(r) /\ record' = [record EXCEPT ![r][a] = "creating"]
      BY <3>0, <3>3 DEF Recordable
    <3>4. CASE ~Recordable(r) /\ record' = [record EXCEPT ![r][a] = record[r][a]]
      BY <3>0, <3>4
    <3> QED BY <3>1, <3>2, <3>3, <3>4
  <2>3. AcceptedIsHeld' /\ HeldOnce'
    BY <1>1, <2>1 DEF AcceptedIsHeld, HeldOnce, legSame
  <2>4. RecordsFollow'
    BY <1>1, <2>1, <2>2 DEF RecordsFollow, legSame, Present
  <2> QED BY <1>1, <2>1, <2>2, <2>3, <2>4, LegLemma DEF TypeOK, Legs
<1>3. CASE UpdateAZRecord(r, a)
  <2>1. /\ leg[r][a] # "none" /\ LegGoes(r, a, "done") /\ legSame
        /\ UNCHANGED <<result, held>> /\ (NoFault \/ Fault)
    BY <1>3 DEF UpdateAZRecord, legSame
  <2>2. /\ record' \in [Requests -> [AZs -> {"none", "creating", "failed"}]]
        /\ \A q \in Requests, b \in AZs : record[q][b] = "none" => record'[q][b] = "none"
    <3>1. PICK status \in {"none", "creating", "failed"} :
            /\ record' = record \/ record' = [record EXCEPT ![r][a] = status]
            /\ record[r][a] = "none" => status = "none"
      <4>1. record[r][a] \in {"none", "creating", "failed"}
        BY <1>1 DEF TypeOK
      <4>2. CASE UNCHANGED record
        BY <4>2
      <4>3. CASE record' = [record EXCEPT ![r][a] =
                              IF record[r][a] = "none" THEN record[r][a] ELSE RecordStatus(r, a)]
        BY <4>1, <4>3 DEF RecordStatus
      <4> QED BY <1>3, <4>2, <4>3 DEF UpdateAZRecord
    <3>2. record \in [Requests -> [AZs -> {"none", "creating", "failed"}]]
      BY <1>1 DEF TypeOK
    <3>3. CASE UNCHANGED record
      BY <3>2, <3>3
    <3>4. CASE record' = [record EXCEPT ![r][a] = status]
      BY <3>1, <3>2, <3>4
    <3> QED BY <3>1, <3>3, <3>4
  <2>3. AcceptedIsHeld' /\ HeldOnce'
    BY <1>1, <2>1 DEF AcceptedIsHeld, HeldOnce, legSame
  <2>4. RecordsFollow'
    BY <1>1, <2>1, <2>2 DEF RecordsFollow, legSame
  <2> QED BY <1>1, <2>1, <2>2, <2>3, <2>4, LegLemma DEF TypeOK, Legs
<1>4. CASE PostPolicy(r, a)
  <2>1. /\ leg[r][a] # "none" /\ LegGoes(r, a, "update") /\ legSame
        /\ UNCHANGED record /\ (NoFault \/ Fault)
    BY <1>4 DEF PostPolicy, legSame
  <2>2. PICK answer \in {"accepted", "refused"} : result' = [result EXCEPT ![r][a] = answer]
    BY <1>4 DEF PostPolicy
  <2>3. /\ result' \in [Requests -> [AZs -> {"none", "accepted", "refused"}]]
        /\ \A q \in Requests, b \in AZs : q # r \/ b # a => result'[q][b] = result[q][b]
        /\ result'[r][a] = answer
    BY <1>1, <2>2 DEF TypeOK
  <2>4. \/ UNCHANGED held /\ answer = "refused"
        \/ held' = held \cup {<<r, a>>} /\ ~HeldName(r, a)
    BY <1>1, <1>4, <2>3 DEF PostPolicy, TypeOK
  <2>5. /\ held' \subseteq Requests \X AZs /\ held \subseteq held'
        /\ \A q \in Requests, b \in AZs : <<q, b>> \in held' => <<q, b>> \in held \/ <<q, b>> = <<r, a>>
    BY <1>1, <2>4 DEF TypeOK
  <2>6. AcceptedIsHeld'
    BY <1>1, <2>3, <2>4, <2>5 DEF AcceptedIsHeld
  <2>7. HeldOnce'
    BY <1>1, <2>1, <2>4 DEF HeldOnce, HeldName, legSame
  <2>8. RecordsFollow'
    BY <1>1, <2>1 DEF RecordsFollow, legSame
  <2> QED BY <1>1, <2>1, <2>3, <2>5, <2>6, <2>7, <2>8, LegLemma DEF TypeOK, Legs
<1> QED BY <1>2, <1>3, <1>4

\* A policy becomes 'running' when all its AZs have it.
LEMMA FinishLemma ==
  ASSUME VfwInv, NEW r \in Requests, Finish(r)
  PROVE  VfwInv'
<1> USE DEF zones, row, fanout
<1>1. TypeOK
  BY DEF VfwInv
<1>2. /\ at[r] = "fanout" /\ Go(r, "done")
      /\ UNCHANGED <<mapped, removal, since, known, name, src, dst, record, leg, result, held>>
  BY DEF Finish
<1>3. /\ policy[r] \in {"creating", "deleted"}
      /\ \A a \in Targets(r) : a \in AZs
  BY <1>2 DEF VfwInv, RowFollows, EndsFound, Targets
<1>4. PICK status \in {"running", "failed"} :
        UpdatePolicy(r, status) /\ (status = "running" => AllSucceeded(r))
  BY DEF Finish
<1>5. status = "running" => \A a \in Targets(r) : <<r, a>> \in held
  BY <1>3, <1>4 DEF AllSucceeded, VfwInv, AcceptedIsHeld
<1>6. /\ policy' \in [Requests -> Statuses] /\ cut' \subseteq Requests /\ cut \subseteq cut'
      /\ \A q \in Requests : q # r => policy'[q] = policy[q]
      /\ policy'[r] \in {policy[r], status} /\ (NoFault \/ Fault)
      /\ policy[r] \in {"absent", "deleted"} => policy'[r] = policy[r]
      /\ policy[r] = "creating" => policy'[r] = status \/ r \in cut'
  BY <1>1, <1>4, UpdatePolicyLemma DEF Present
<1>7. at' \in [Requests -> Steps] /\ \A q \in Requests : at'[q] = IF q = r THEN "done" ELSE at[q]
  BY <1>1, <1>2, GoLemma DEF Steps
<1>8. TypeOK'
  BY <1>1, <1>2, <1>6, <1>7, FaultLemma DEF TypeOK
<1>9. (RowFollows /\ EndsFound /\ SentLate /\ AcceptedIsHeld /\ HeldOnce)'
  BY <1>2, <1>3, <1>6, <1>7 DEF VfwInv, RowFollows, EndsFound, SentLate, AcceptedIsHeld, HeldOnce
<1>10. RunningHeld'
  BY <1>2, <1>3, <1>5, <1>6 DEF VfwInv, RunningHeld, Targets
<1>11. (RecordsFollow /\ CreatingIsUnderway)'
  BY <1>2, <1>3, <1>6, <1>7 DEF VfwInv, RecordsFollow, CreatingIsUnderway
<1>12. ZoneCounted'
  BY <1>2, <1>3, <1>6 DEF VfwInv, ZoneCounted, ZonePolicies
<1> QED BY <1>8, <1>9, <1>10, <1>11, <1>12 DEF VfwInv

\* A deletion takes the records with it.
LEMMA DeleteLemma ==
  ASSUME VfwInv, NEW r \in Requests, DeletePolicy(r)
  PROVE  VfwInv'
<1> USE DEF zones, row
<1>1. TypeOK
  BY DEF VfwInv
<1>2. /\ policy[r] \in Present
      /\ UNCHANGED <<mapped, removal, since, known, at, name, src, dst, cut, faults, leg, result, held>>
  BY DEF DeletePolicy
<1>3. /\ policy' \in [Requests -> Statuses]
      /\ \A q \in Requests : policy'[q] = IF q = r THEN "deleted" ELSE policy[q]
      /\ record' \in [Requests -> [AZs -> {"none", "creating", "failed"}]]
      /\ \A q \in Requests, a \in AZs : record'[q][a] = IF q = r THEN "none" ELSE record[q][a]
  BY <1>1 DEF DeletePolicy, TypeOK, Statuses
<1>4. TypeOK'
  BY <1>1, <1>2, <1>3 DEF TypeOK
<1>5. (RowFollows /\ EndsFound /\ SentLate /\ AcceptedIsHeld /\ HeldOnce)'
  BY <1>2, <1>3 DEF VfwInv, RowFollows, EndsFound, SentLate, AcceptedIsHeld, HeldOnce, Present
<1>6. (RunningHeld /\ CreatingIsUnderway)'
  BY <1>2, <1>3 DEF VfwInv, RunningHeld, Targets, CreatingIsUnderway
<1>8. RecordsFollow'
  BY <1>3 DEF VfwInv, RecordsFollow
<1>7. ZoneCounted'
  BY <1>2, <1>3 DEF VfwInv, ZoneCounted, ZonePolicies
<1> QED BY <1>4, <1>5, <1>6, <1>7, <1>8 DEF VfwInv

\* A restart ends every request that is under way.
LEMMA RestartLemma ==
  ASSUME VfwInv, Restart
  PROVE  VfwInv'
<1> USE DEF zones, row
<1>1. TypeOK
  BY DEF VfwInv
<1>2. UNCHANGED <<mapped, removal, since, policy, name, src, dst, record, result, held>>
  BY DEF Restart
<1>3. /\ at' \in [Requests -> Steps]
      /\ \A q \in Requests : at'[q] = IF q \in Underway THEN "done" ELSE at[q]
  BY <1>1 DEF Restart, TypeOK, Steps
<1>4. /\ leg' \in [Requests -> [AZs -> Legs]]
      /\ \A q \in Requests, a \in AZs : leg'[q][a] = "none"
  BY DEF Restart, Legs
<1>5. cut' = cut \cup Underway /\ Underway \subseteq Requests /\ known' = {}
  BY DEF Restart, Underway
<1>6. TypeOK'
  BY <1>1, <1>2, <1>3, <1>4, <1>5, FaultLemma DEF Restart, TypeOK
<1>7. (RowFollows /\ EndsFound /\ SentLate /\ AcceptedIsHeld /\ HeldOnce)'
  BY <1>2, <1>3, <1>4
     DEF VfwInv, RowFollows, EndsFound, SentLate, AcceptedIsHeld, HeldOnce, Underway
<1>8. (RunningHeld /\ RecordsFollow /\ ZoneCounted)'
  BY <1>2 DEF VfwInv, RunningHeld, Targets, RecordsFollow, ZoneCounted, ZonePolicies
<1>9. CreatingIsUnderway'
  BY <1>2, <1>3, <1>5 DEF VfwInv, CreatingIsUnderway, Underway
<1> QED BY <1>6, <1>7, <1>8, <1>9 DEF VfwInv

-----------------------------------------------------------------------------
(* VfwInv is inductive. *)

\* One case for each kind of step.
LEMMA StepLemma == VfwInv /\ [Next]_vars => VfwInv'
<1> SUFFICES ASSUME VfwInv, [Next]_vars PROVE VfwInv'
  OBVIOUS
<1>1. ASSUME NEW r \in Requests, FindSource(r) \/ Creates(r) \/ DeletePolicy(r) PROVE VfwInv'
  BY <1>1, FindSourceLemma, FindDestLemma, InsertLemma, ResolveLemma, FinishLemma,
     GoroutineLemma, DeleteLemma DEF Creates
<1>2. CASE \/ \E v \in VPCs : CountZone(v) \/ MarkVPCDeleted(v)
           \/ \E v \in VPCs, range \in Ranges, a \in AZs : RegisterSubnet(v, range, a)
           \/ \E a \in AZs : RegisterAZ(a)
  BY <1>2, ZonesLemma
<1>3. CASE Restart
  BY <1>3, RestartLemma
<1>4. CASE UNCHANGED vars
  <2>1. UNCHANGED <<zones, known, at, policy, cut, faults, row, fanout>>
    BY <1>4 DEF vars, zones, row, fanout
  <2> QED BY <2>1, AroundLemma DEF VfwInv, TypeOK, ZoneCounted, zones, NoFault
<1> QED BY <1>1, <1>2, <1>3, <1>4 DEF Next

\* The invariant of the Top firewall service.
THEOREM VfwSafety == Spec => []VfwInv
<1>1. Init => VfwInv
  BY InitLemma
<1>2. VfwInv /\ [Next]_vars => VfwInv'
  BY StepLemma
<1> QED BY <1>1, <1>2, PTL DEF Spec

\* Every variable keeps its type (CreatePolicy, DeletePolicy, RegisterSubnet).
THEOREM VfwTypeCorrect == Spec => []TypeOK
<1>1. VfwInv => TypeOK
  BY DEF VfwInv
<1> QED BY <1>1, VfwSafety, PTL

\* A policy shown as 'running' is in the AZs of both its ends, under a name that no
\* other policy has there (PolicyService.CreatePolicy's goroutines).
THEOREM RunningPolicyIsHeld == Spec => []RunningIsHeld
<1>1. VfwInv => RunningIsHeld
  BY DEF VfwInv, RunningIsHeld, RunningHeld, HeldOnce
<1> QED BY <1>1, VfwSafety, PTL

\* A policy that stays 'creating' was cut short (CreatePolicy's ways out).
THEOREM CreatingPolicyIsUnderway == Spec => []CreatingIsUnderway
<1>1. VfwInv => CreatingIsUnderway
  BY DEF VfwInv
<1> QED BY <1>1, VfwSafety, PTL

\* Nothing brings a deleted policy or its records back (UpdatePolicyStatus and
\* CreateAZRecord of goroutines that are still at work).
THEOREM DeletedPolicyIsGone == Spec => DeletedIsGone
<1>1. VfwInv /\ VfwInv' /\ [Next]_vars =>
        [\A r \in Requests : policy[r] = "deleted" => /\ policy'[r] = "deleted"
                                                      /\ \A a \in AZs : record'[r][a] = "none"]_vars
  <2> SUFFICES ASSUME VfwInv, VfwInv', [Next]_vars, NEW r \in Requests, policy[r] = "deleted"
               PROVE  policy'[r] = "deleted"
    BY DEF VfwInv, RecordsFollow
  <2> USE DEF row, zones, fanout
  <2>1. ASSUME NEW q \in Requests, FindSource(q) \/ Creates(q) \/ DeletePolicy(q)
        PROVE  policy'[r] = "deleted"
    <3>1. CASE UNCHANGED policy
      BY <3>1
    <3>2. CASE InsertPolicy(q)
      <4>1. policy[q] = "absent"
        BY <3>2 DEF InsertPolicy, VfwInv, RowFollows
      <4> QED BY <3>2, <4>1 DEF InsertPolicy, VfwInv, TypeOK
    <3>3. ASSUME NEW status \in Present, UpdatePolicy(q, status) PROVE policy'[r] = "deleted"
      BY <3>3, UpdatePolicyLemma DEF VfwInv
    <3>4. CASE DeletePolicy(q)
      BY <3>4 DEF DeletePolicy, VfwInv, TypeOK
    <3> QED BY <2>1, <3>1, <3>2, <3>3, <3>4
            DEF FindSource, Creates, FindDest, Resolve, Refuse, Finish, CreateAZRecord,
                PostPolicy, UpdateAZRecord, Present
  <2>2. CASE ~\E q \in Requests : FindSource(q) \/ Creates(q) \/ DeletePolicy(q)
    BY <2>2 DEF Next, CountZone, MarkVPCDeleted, RegisterSubnet, RegisterAZ, Restart, vars
  <2> QED BY <2>1, <2>2
<1> QED BY <1>1, VfwSafety, PTL DEF Spec, DeletedIsGone

\* A deletion of a VPC leaves only policies inserted since its count (CheckZonePolicies
\* before DeleteVPC).
THEOREM ZoneIsLeftFree == Spec => ZoneIsFree
<1>1. VfwInv =>
        [\A v \in VPCs : removal[v] = "mark" /\ removal'[v] = "no" =>
           ZonePolicies(v) \subseteq since[v]]_vars
  BY DEF VfwInv, ZoneCounted
<1> QED BY <1>1, VfwSafety, PTL DEF ZoneIsFree

=============================================================================
