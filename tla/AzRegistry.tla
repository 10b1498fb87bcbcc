----------------------------- MODULE AzRegistry -----------------------------
(***************************************************************************)
(* The registry of the AZs in Redis: the registrations and the heartbeats  *)
(* of the AZ services, and the listing of a region's AZs.                  *)
(*                                                                         *)
(* An action is one Redis command of a handler of the Top service, or the  *)
(* sending of a request.  A process of an AZ is known by the number of its *)
(* start, which stands for the address it advertises too: every start may  *)
(* have a new one.  A process has one request under way at a time; those   *)
(* of a process that has stopped go on, or are cancelled with their        *)
(* connection.                                                             *)
(***************************************************************************)
EXTENDS Naturals

CONSTANTS
  AZs,        \* the AZs of one region
  MaxStarts,  \* BOUND on starts of AZ services, over all AZs
  MaxFaults   \* BOUND on Redis commands and answers that fail

ASSUME AzRegistryAssumption == MaxStarts \in Nat /\ MaxFaults \in Nat

VARIABLES
  rec,      \* az:<region>:<id> of each AZ: the address, and whether it is less than 5 minutes old
  members,  \* region:<region>:azs
  proc,     \* the process of each AZ: the number of its start, and what it does
  starts,   \* starts so far
  calls,    \* the requests the Top service is handling
  list,     \* the listing under way: the AZs still to get, and those it has got
  sure,     \* (history) AZs whose process wrote its address, with no earlier one at work
  stable,   \* (history) AZs that the listing under way has to find
  faults    \* failed commands and answers so far

vars == <<rec, members, proc, starts, calls, list, sure, stable, faults>>

Processes == 1..MaxStarts
NoAddr    == 0
NoRec     == [addr |-> NoAddr, fresh |-> FALSE, set |-> FALSE]
Records   == [addr : 0..MaxStarts, fresh : BOOLEAN, set : BOOLEAN]
Stages    == {"down", "registering", "beating"}
Calls     == [az : AZs, proc : Processes, at : {"set", "sadd", "get", "put", "add"},
              addr : 0..MaxStarts]
NoList    == [on |-> FALSE, todo |-> {}, found |-> {}]

Fault == faults < MaxFaults /\ faults' = faults + 1

CallOf(a)   == {m \in calls : m.az = a /\ m.proc = proc[a].n}
Late(a)     == {m \in calls : m.az = a /\ m.proc # proc[a].n}
Beating(a)  == proc[a].stage = "beating"
Healthy(a)  == rec[a].set /\ rec[a].fresh
Listable(a) == a \in members /\ rec[a].set

Unsure(a) == sure' = sure \ {a}

-----------------------------------------------------------------------------
(* The AZ service: RegisterToTopNSP once, then StartHeartbeat. *)

Start(a) ==
  /\ proc[a].stage = "down" /\ starts < MaxStarts
  /\ starts' = starts + 1
  /\ proc' = [proc EXCEPT ![a] = [n |-> starts', stage |-> "registering"]]
  /\ calls' = calls \cup {[az |-> a, proc |-> starts', at |-> "set", addr |-> starts']}
  /\ Unsure(a)
  /\ UNCHANGED <<rec, members, list, stable, faults>>

Stop(a) ==
  /\ proc[a].stage # "down"
  /\ proc' = [proc EXCEPT ![a].stage = "down"]
  /\ Unsure(a)
  /\ UNCHANGED <<rec, members, starts, calls, list, stable, faults>>

Beat(a) ==
  /\ Beating(a) /\ CallOf(a) = {}
  /\ calls' = calls \cup {[az |-> a, proc |-> proc[a].n, at |-> "get", addr |-> NoAddr]}
  /\ UNCHANGED <<rec, members, proc, starts, list, sure, stable, faults>>

\* Whatever the registration was answered, the process goes on to its heartbeats.
Answer(m) ==
  proc' = IF proc[m.az] = [n |-> m.proc, stage |-> "registering"]
            THEN [proc EXCEPT ![m.az].stage = "beating"] ELSE proc

-----------------------------------------------------------------------------
(* The handlers of the Top service. *)

\* Slip: RegisterAZ keeps the record that is there.
RegisteredUnlessThere(m) ==
  IF rec[m.az].set THEN rec[m.az] ELSE [addr |-> m.addr, fresh |-> TRUE, set |-> TRUE]

Registered(m) == [addr |-> m.addr, fresh |-> TRUE, set |-> TRUE]

RegisterSet(m) ==
  /\ m.at = "set"
  /\ \/ /\ rec' = [rec EXCEPT ![m.az] = Registered(m)]
        /\ calls' = (calls \ {m}) \cup {[m EXCEPT !.at = "sadd"]}
        /\ sure' = IF m \in CallOf(m.az) /\ proc[m.az].stage # "down" /\ Late(m.az) = {}
                     THEN sure \cup {m.az} ELSE sure
        /\ UNCHANGED <<proc, faults>>
     \/ /\ Fault                              \* an error, with or without its effect
        /\ rec' \in {rec, [rec EXCEPT ![m.az] = Registered(m)]}
        /\ calls' = calls \ {m}
        /\ Answer(m)
        /\ UNCHANGED sure
  /\ UNCHANGED <<members, starts, list, stable>>

RegisterSAdd(m) ==
  /\ m.at = "sadd"
  /\ \/ members' = members \cup {m.az} /\ UNCHANGED faults
     \/ Fault /\ members' \in {members, members \cup {m.az}}
  /\ calls' = calls \ {m}
  /\ Answer(m)
  /\ UNCHANGED <<rec, starts, list, sure, stable>>

\* Slip: a missing record reads as an address that nobody has.
AddrReadOrUnset(m) == IF rec[m.az].set THEN rec[m.az].addr ELSE MaxStarts + 1

AddrRead(m) == rec[m.az].addr

\* GetAZ: whatever its error, the record is taken for missing.
HeartbeatGet(m) ==
  /\ m.at = "get"
  /\ \/ /\ calls' = (calls \ {m}) \cup {[m EXCEPT !.at = "put", !.addr = AddrRead(m)]}
        /\ UNCHANGED <<sure, faults>>
     \/ /\ Fault /\ Unsure(m.az)
        /\ calls' = (calls \ {m}) \cup {[m EXCEPT !.at = "put", !.addr = NoAddr]}
  /\ UNCHANGED <<rec, members, proc, starts, list, stable>>

\* Slip: the heartbeat writes the record that is there, without renewing it.
RenewedAsRead(m) == [rec[m.az] EXCEPT !.set = TRUE]

\* The record that was read, or a new one that has no address.
Renewed(m) == [addr |-> m.addr, fresh |-> TRUE, set |-> TRUE]

HeartbeatSet(m) ==
  /\ m.at = "put"
  /\ \/ /\ rec' = [rec EXCEPT ![m.az] = Renewed(m)]
        /\ calls' = (calls \ {m}) \cup {[m EXCEPT !.at = "add"]}
        /\ UNCHANGED faults
     \/ /\ Fault
        /\ rec' \in {rec, [rec EXCEPT ![m.az] = Renewed(m)]}
        /\ calls' = calls \ {m}
  /\ UNCHANGED <<members, proc, starts, list, sure, stable>>

\* Its error is ignored.
HeartbeatSAdd(m) ==
  /\ m.at = "add"
  /\ calls' = calls \ {m}
  /\ \/ members' = members \cup {m.az} /\ UNCHANGED faults
     \/ Fault /\ UNCHANGED members
  /\ UNCHANGED <<rec, proc, starts, list, sure, stable>>

Handle(m) ==
  \/ RegisterSet(m) \/ RegisterSAdd(m)
  \/ HeartbeatGet(m) \/ HeartbeatSet(m) \/ HeartbeatSAdd(m)

\* The connection of a process that has stopped is closed: its request's context is
\* cancelled.
Cancel(m) ==
  /\ m \in Late(m.az) \/ proc[m.az].stage = "down"
  /\ calls' = calls \ {m}
  /\ UNCHANGED <<rec, members, proc, starts, list, sure, stable, faults>>

-----------------------------------------------------------------------------
(* Time. *)

\* Five minutes without a write.
Elapse(a) ==
  /\ rec[a].fresh
  /\ rec' = [rec EXCEPT ![a].fresh = FALSE]
  /\ UNCHANGED <<members, proc, starts, calls, list, sure, stable, faults>>

\* A day without one.  Heartbeats that are answered come every minute.
Expire(a) ==
  /\ rec[a].set /\ ~rec[a].fresh
  /\ IF Beating(a) THEN Fault ELSE UNCHANGED faults
  /\ rec' = [rec EXCEPT ![a] = NoRec]
  /\ Unsure(a)
  /\ stable' = stable \ {a}
  /\ UNCHANGED <<members, proc, starts, calls, list>>

-----------------------------------------------------------------------------
(* GetRegionAZs. *)

SMembers ==
  /\ ~list.on /\ members # {}
  /\ list' = [on |-> TRUE, todo |-> members, found |-> {}]
  /\ stable' = {a \in AZs : Listable(a)}
  /\ UNCHANGED <<rec, members, proc, starts, calls, sure, faults>>

\* Slip: the listing stops at the first AZ it cannot get.
TodoAfterStop(a, got) == IF got THEN list.todo \ {a} ELSE {}

\* The listing skips what it cannot get.
TodoAfter(a, got) == list.todo \ {a}

GetMember(a) ==
  /\ list.on /\ a \in list.todo
  /\ \/ /\ list' = [list EXCEPT !.todo = TodoAfter(a, rec[a].set),
                                !.found = IF rec[a].set THEN @ \cup {a} ELSE @]
        /\ UNCHANGED <<stable, faults>>
     \/ /\ Fault
        /\ list' = [list EXCEPT !.todo = TodoAfter(a, FALSE)]
        /\ stable' = stable \ {a}
  /\ UNCHANGED <<rec, members, proc, starts, calls, sure>>

EndList ==
  /\ list.on /\ list.todo = {}
  /\ list' = NoList /\ stable' = {}
  /\ UNCHANGED <<rec, members, proc, starts, calls, sure, faults>>

-----------------------------------------------------------------------------

Init ==
  /\ rec = [a \in AZs |-> NoRec]
  /\ members = {}
  /\ proc = [a \in AZs |-> [n |-> 0, stage |-> "down"]]
  /\ starts = 0
  /\ calls = {}
  /\ list = NoList
  /\ sure = {} /\ stable = {}
  /\ faults = 0

Next ==
  \/ \E a \in AZs : Start(a) \/ Stop(a) \/ Beat(a) \/ Elapse(a) \/ Expire(a) \/ GetMember(a)
  \/ \E m \in calls : Handle(m) \/ Cancel(m)
  \/ SMembers \/ EndList

HandleCallOf(a) == \E m \in CallOf(a) : Handle(m)

\* The ticker of the heartbeats goes on, and the Top service handles what it is sent.
Fairness == \A a \in AZs : WF_vars(Beat(a)) /\ WF_vars(HandleCallOf(a))

Spec == Init /\ [][Next]_vars /\ Fairness

-----------------------------------------------------------------------------
(* Properties. *)

\* Types of the variables.
TypeOK ==
  /\ rec \in [AZs -> Records]
  /\ members \subseteq AZs
  /\ proc \in [AZs -> [n : 0..MaxStarts, stage : Stages]]
  /\ starts \in 0..MaxStarts
  /\ calls \subseteq Calls
  /\ list \in [on : BOOLEAN, todo : SUBSET AZs, found : SUBSET AZs]
  /\ sure \subseteq AZs /\ stable \subseteq AZs
  /\ faults \in 0..MaxFaults

\* Once a process has written its address, with no request of an earlier one under way, it
\* stays in the registry as long as it runs: heartbeats read the record and
\* write it back, and only a read that fails, or a record that expires, loses it.
AddressStays == \A a \in sure : rec[a].set /\ rec[a].addr = proc[a].n

\* A listing finds every AZ that was there from its beginning to its end, whatever it
\* cannot get of the others.
ListingFindsStable == list.on /\ list.todo = {} => stable \subseteq list.found

\* An AZ that stays up is again and again healthy and in the list, even if its
\* registration failed: a heartbeat adds what is missing.
UpIsHealthy ==
  \A a \in AZs : <>[]Beating(a) => []<>(Healthy(a) /\ a \in members)
=============================================================================
