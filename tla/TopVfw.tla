------------------------------- MODULE TopVfw -------------------------------
(***************************************************************************)
(* The firewall service of the Top level: its policies, the AZs it knows,  *)
(* and the fan-out of a policy to the AZs of its source and destination;   *)
(* with the zones of the subnets that the Top VPC service registers, and   *)
(* the deletion of a VPC there, which counts the policies of its zone.     *)
(*                                                                         *)
(* A VPC has a zone of its own, so its name stands for the zone; NoZone is *)
(* the empty one.  An action is one SQL statement or one HTTP call.        *)
(***************************************************************************)
EXTENDS Naturals, FiniteSets

CONSTANTS
  AZs,        \* AZs of one region
  VPCs,       \* VPCs registered at the Top level
  Ranges,     \* CIDRs of subnets, as sets of addresses
  Requests,   \* requests to create a policy; stands for the policy's id too
  Names,      \* names of policies
  MaxMapped,  \* BOUND on ranges registered in AZs
  MaxFaults   \* BOUND on failed statements and calls, and on restarts

NoZone   == "no zone"
Unmapped == "unmapped"

ASSUME TopVfwAssumption ==
  /\ MaxMapped \in Nat /\ MaxFaults \in Nat
  /\ {NoZone, Unmapped} \cap VPCs = {} /\ "none" \notin AZs /\ Names # {}

VARIABLES
  mapped,    \* cidr_zone_mapping: the zone of each range in each AZ
  removal,   \* what a deletion of each VPC does next
  since,     \* (history) policies inserted since the deletion of each VPC counted
  known,     \* the AZs whose address is in the service's memory
  at,        \* next step of each request
  name,      \* name of the policy of each request
  src, dst,  \* what was found for its two addresses
  policy,    \* status of the row of each policy
  record,    \* status of the row of each policy for each AZ
  leg,       \* next step of the goroutine that sends each policy to each AZ
  result,    \* what each AZ answered
  held,      \* policies an AZ has a row for
  cut,       \* (history) policies whose last UPDATE failed or was never reached
  faults     \* failed statements and calls, and restarts, so far

zones  == <<mapped, removal, since>>
row    == <<name, src, dst>>
fanout == <<record, leg, result, held>>
vars   == <<mapped, removal, since, known, at, name, src, dst, policy, record, leg, result,
            held, cut, faults>>

Zones     == VPCs \cup {NoZone}
Addresses == UNION Ranges
NoEnd     == [az |-> "none", zone |-> NoZone]
Ends      == [az : AZs, zone : Zones] \cup {NoEnd}
Steps     == {"idle", "dst", "insert", "resolve", "fanout", "done"}
Legs      == {"none", "record", "post", "update", "done"}
Statuses  == {"absent", "creating", "running", "failed", "deleted"}
Present   == {"creating", "running", "failed"}

Fault == faults < MaxFaults /\ faults' = faults + 1
NoFault == UNCHANGED faults

Go(r, step) == at' = [at EXCEPT ![r] = step]

-----------------------------------------------------------------------------
(* The zones: CreateAZSubnet, FindZoneByIP. *)

Mapped == {k \in Ranges \X AZs : mapped[k] # Unmapped}

\* After the AZ has accepted the subnet: GetVPCByName, whose error leaves the zone
\* empty, and RegisterSubnet, whose error is only logged.  A deleted VPC has a zone, a
\* deleted subnet stays mapped, and the last VPC that registers a range has it.
RegisterSubnet(v, range, az) ==
  /\ mapped[range, az] # Unmapped \/ Cardinality(Mapped) < MaxMapped
  /\ \/ mapped' = [mapped EXCEPT ![<<range, az>>] = v] /\ NoFault
     \/ Fault /\ mapped' = [mapped EXCEPT ![<<range, az>>] = NoZone]
  /\ UNCHANGED <<removal, since, known, at, policy, cut, row, fanout>>

Holding(ip) == {k \in Mapped : ip \in k[1]}

\* The narrowest range that holds the address.
Found(ip) ==
  {[az |-> k[2], zone |-> mapped[k]] :
     k \in {k \in Holding(ip) : \A other \in Holding(ip) :
                                  Cardinality(k[1]) <= Cardinality(other[1])}}

-----------------------------------------------------------------------------
(* CreatePolicy, up to the goroutines. *)

\* No row for the address, or an error: the request is answered.
FindSource(r) ==
  /\ at[r] = "idle"
  /\ \E n \in Names, ip \in Addresses : \E end \in Found(ip) :
       name' = [name EXCEPT ![r] = n] /\ src' = [src EXCEPT ![r] = end]
  /\ Go(r, "dst")
  /\ UNCHANGED <<zones, known, dst, policy, cut, faults, fanout>>

FindDest(r) ==
  /\ at[r] = "dst"
  /\ \E ip \in Addresses :
       \/ /\ \E end \in Found(ip) : dst' = [dst EXCEPT ![r] = end]
          /\ Go(r, "insert")
       \/ Found(ip) = {} /\ Go(r, "done") /\ UNCHANGED dst
  /\ UNCHANGED <<zones, known, name, src, policy, cut, faults, fanout>>

Taken(n) == \E r \in Requests : policy[r] \in Present /\ name[r] = n

InsertPolicy(r) ==
  /\ at[r] = "insert"
  /\ IF Taken(name[r])
       THEN Go(r, "done") /\ UNCHANGED <<policy, since>>
       ELSE /\ Go(r, "resolve")
            /\ policy' = [policy EXCEPT ![r] = "creating"]
            /\ since' = [v \in VPCs |-> IF removal[v] = "mark" THEN since[v] \cup {r} ELSE {}]
  /\ UNCHANGED <<mapped, removal, known, cut, faults, row, fanout>>

\* Slip: the UPDATE brings a deleted row back.
WrittenAnyway(r, status) == status

\* UPDATE ... WHERE id: a deleted row is not there.
Written(r, status) == IF policy[r] \in Present THEN status ELSE policy[r]

UpdatePolicy(r, status) ==
  \/ policy' = [policy EXCEPT ![r] = Written(r, status)] /\ UNCHANGED cut /\ NoFault
  \/ Fault /\ cut' = cut \cup {r} /\ UNCHANGED policy

Targets(r) == {src[r].az, dst[r].az}

\* Slip: the row is not updated when an AZ is unknown.
RefuseSilently(r) == UNCHANGED <<policy, cut, faults>>

Refuse(r) == UpdatePolicy(r, "failed")

Resolve(r) ==
  /\ at[r] = "resolve"
  /\ IF Targets(r) \subseteq known
       THEN /\ Go(r, "fanout")
            /\ leg' = [leg EXCEPT ![r] = [a \in AZs |-> IF a \in Targets(r) THEN "record" ELSE "none"]]
            /\ UNCHANGED <<policy, cut, faults>>
       ELSE Go(r, "done") /\ Refuse(r) /\ UNCHANGED leg
  /\ UNCHANGED <<zones, known, row, record, result, held>>

-----------------------------------------------------------------------------
(* The goroutine of one AZ, and what waits for all of them. *)

LegGoes(r, a, step) == leg' = [leg EXCEPT ![r][a] = step]

\* The record refers to the policy's row.
Recordable(r) == policy[r] \in Present

CreateAZRecord(r, a) ==
  /\ leg[r][a] = "record"
  /\ LegGoes(r, a, "post")
  /\ \/ record' = [record EXCEPT ![r][a] = IF Recordable(r) THEN "creating" ELSE @] /\ NoFault
     \/ Fault /\ UNCHANGED record
  /\ UNCHANGED <<zones, known, at, policy, cut, row, result, held>>

HeldName(r, a) == \E q \in Requests : <<q, a>> \in held /\ name[q] = name[r]

\* The AZ's CreatePolicy: the name is unique there too, and a workflow that is not
\* submitted leaves the row.  The answer may be lost.
PostPolicy(r, a) ==
  /\ leg[r][a] = "post"
  /\ LegGoes(r, a, "update")
  /\ \/ /\ ~HeldName(r, a)
        /\ held' = held \cup {<<r, a>>}
        /\ \/ result' = [result EXCEPT ![r][a] = "accepted"] /\ NoFault
           \/ Fault /\ result' = [result EXCEPT ![r][a] = "refused"]
     \/ /\ \/ HeldName(r, a) /\ NoFault
           \/ Fault
        /\ result' = [result EXCEPT ![r][a] = "refused"]
        /\ UNCHANGED held
  /\ UNCHANGED <<zones, known, at, policy, cut, row, record>>

\* Slip: the record takes the AZ's answer.
RecordAnswer(r, a) == result[r][a]

\* The status of the AZ's record once it has answered; nothing ends its 'creating'.
RecordStatus(r, a) == IF result[r][a] = "accepted" THEN "creating" ELSE "failed"

UpdateAZRecord(r, a) ==
  /\ leg[r][a] = "update"
  /\ LegGoes(r, a, "done")
  /\ \/ record' = [record EXCEPT ![r][a] = IF @ = "none" THEN @ ELSE RecordStatus(r, a)] /\ NoFault
     \/ Fault /\ UNCHANGED record
  /\ UNCHANGED <<zones, known, at, policy, cut, row, result, held>>

\* Slip: the AZ of the source decides.
AllSucceededInSource(r) == result[r][src[r].az] = "accepted"

AllSucceeded(r) == \A a \in Targets(r) : result[r][a] = "accepted"

Finish(r) ==
  /\ at[r] = "fanout" /\ \A a \in Targets(r) : leg[r][a] = "done"
  /\ UpdatePolicy(r, IF AllSucceeded(r) THEN "running" ELSE "failed")
  /\ Go(r, "done")
  /\ UNCHANGED <<zones, known, row, fanout>>

-----------------------------------------------------------------------------
(* DeletePolicy: at the Top level only, in a transaction. *)

DeletePolicy(r) ==
  /\ policy[r] \in Present
  /\ policy' = [policy EXCEPT ![r] = "deleted"]
  /\ record' = [record EXCEPT ![r] = [a \in AZs |-> "none"]]
  /\ UNCHANGED <<zones, known, at, cut, faults, row, leg, result, held>>

-----------------------------------------------------------------------------
(* The deletion of a VPC at the Top level. *)

\* Slip: only the policies that leave the zone are counted.
CountedOfSource(v) == {r \in Requests : policy[r] \in {"creating", "running"} /\ src[r].zone = v}

CountedPolicies(v) ==
  {r \in Requests : /\ policy[r] \in Present \ {"failed"}
                    /\ v \in {src[r].zone, dst[r].zone}}

\* CheckZonePolicies: a count that fails is no obstacle.  A VPC always has a zone, which
\* its request requires.  BOUND: one deletion of a VPC at a time.
CountZone(v) ==
  /\ removal[v] = "no"
  /\ \/ CountedPolicies(v) = {} /\ NoFault /\ since' = [since EXCEPT ![v] = {}]
     \/ Fault /\ since' = [since EXCEPT ![v] = Requests]
  /\ removal' = [removal EXCEPT ![v] = "mark"]
  /\ UNCHANGED <<mapped, known, at, policy, cut, row, fanout>>

\* The row of the VPC is left out, and with it all that the UPDATE does or fails to do.
MarkVPCDeleted(v) ==
  /\ removal[v] = "mark"
  /\ removal' = [removal EXCEPT ![v] = "no"]
  /\ since' = [since EXCEPT ![v] = {}]
  /\ NoFault \/ Fault
  /\ UNCHANGED <<mapped, known, at, policy, cut, row, fanout>>

-----------------------------------------------------------------------------
(* The AZs the service knows.  A heartbeat adds none. *)

RegisterAZ(a) ==
  /\ a \notin known
  /\ known' = known \cup {a}
  /\ UNCHANGED <<zones, at, policy, cut, faults, row, fanout>>

Underway == {r \in Requests : at[r] \notin {"idle", "done"}}

\* The service stops and starts: its memory and its requests are lost.
Restart ==
  /\ Fault
  /\ known' = {}
  /\ at' = [r \in Requests |-> IF r \in Underway THEN "done" ELSE at[r]]
  /\ leg' = [r \in Requests |-> [a \in AZs |-> "none"]]
  /\ cut' = cut \cup Underway
  /\ UNCHANGED <<zones, policy, row, record, result, held>>

-----------------------------------------------------------------------------

Init ==
  /\ mapped = [k \in Ranges \X AZs |-> Unmapped]
  /\ removal = [v \in VPCs |-> "no"]
  /\ since = [v \in VPCs |-> {}]
  /\ known = {}
  /\ at = [r \in Requests |-> "idle"]
  /\ name \in [Requests -> {CHOOSE n \in Names : TRUE}]
  /\ src = [r \in Requests |-> NoEnd]
  /\ dst = [r \in Requests |-> NoEnd]
  /\ policy = [r \in Requests |-> "absent"]
  /\ record = [r \in Requests |-> [a \in AZs |-> "none"]]
  /\ leg = [r \in Requests |-> [a \in AZs |-> "none"]]
  /\ result = [r \in Requests |-> [a \in AZs |-> "none"]]
  /\ held = {} /\ cut = {} /\ faults = 0

Creates(r) ==
  \/ FindDest(r) \/ InsertPolicy(r) \/ Resolve(r) \/ Finish(r)
  \/ \E a \in AZs : CreateAZRecord(r, a) \/ PostPolicy(r, a) \/ UpdateAZRecord(r, a)

Next ==
  \/ \E r \in Requests : FindSource(r) \/ Creates(r) \/ DeletePolicy(r)
  \/ \E v \in VPCs : CountZone(v) \/ MarkVPCDeleted(v)
  \/ \E v \in VPCs, range \in Ranges, a \in AZs : RegisterSubnet(v, range, a)
  \/ \E a \in AZs : RegisterAZ(a)
  \/ Restart

Spec == Init /\ [][Next]_vars

-----------------------------------------------------------------------------
(* Properties. *)

\* Types of the variables.
TypeOK ==
  /\ mapped \in [Ranges \X AZs -> Zones \cup {Unmapped}]
  /\ removal \in [VPCs -> {"no", "mark"}]
  /\ since \in [VPCs -> SUBSET Requests]
  /\ known \subseteq AZs
  /\ at \in [Requests -> Steps]
  /\ name \in [Requests -> Names]
  /\ src \in [Requests -> Ends] /\ dst \in [Requests -> Ends]
  /\ policy \in [Requests -> Statuses]
  /\ record \in [Requests -> [AZs -> {"none", "creating", "failed"}]]
  /\ leg \in [Requests -> [AZs -> Legs]]
  /\ result \in [Requests -> [AZs -> {"none", "accepted", "refused"}]]
  /\ held \subseteq Requests \X AZs
  /\ cut \subseteq Requests
  /\ faults \in 0..MaxFaults

\* A policy says 'running' only if the AZs of its source and of its destination both
\* have it, and no other policy of that name: the goroutines answer in any order.
RunningIsHeld ==
  \A r \in Requests : policy[r] = "running" =>
    \A a \in Targets(r) :
      /\ <<r, a>> \in held
      /\ \A q \in Requests \ {r} : <<q, a>> \in held => name[q] # name[r]

\* A deletion that meets a creation under way is final, for the policy and its records.
DeletedIsGone ==
  [][\A r \in Requests : policy[r] = "deleted" => /\ policy'[r] = "deleted"
                                                  /\ \A a \in AZs : record'[r][a] = "none"]_vars

ZonePolicies(v) ==
  {r \in Requests : policy[r] \in {"creating", "running"} /\ v \in {src[r].zone, dst[r].zone}}

\* A deletion of a VPC leaves behind only policies of its zone that were inserted since
\* it counted them, or that it could not count.
ZoneIsFree ==
  [][\A v \in VPCs : removal[v] = "mark" /\ removal'[v] = "no" => ZonePolicies(v) \subseteq since[v]]_vars

\* A policy stays 'creating', where it keeps its zone's VPC from being deleted, only if
\* the service restarted or its last UPDATE failed.
CreatingIsUnderway ==
  \A r \in Requests : policy[r] = "creating" => at[r] \in {"resolve", "fanout"} \/ r \in cut
=============================================================================
