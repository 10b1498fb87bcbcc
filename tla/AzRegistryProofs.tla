-------------------------- MODULE AzRegistryProofs --------------------------
(***************************************************************************)
(* For any AZs and any number of starts and faults: the variables of       *)
(* AzRegistry keep their types, an address that was written stays as long  *)
(* as its process runs, and a listing misses no AZ that was there.         *)
(***************************************************************************)
EXTENDS AzRegistry, TLAPS

-----------------------------------------------------------------------------
(* The inductive invariant. *)

\* A call belongs to a process that has been started, and a process has one call.
OneCall ==
  /\ \A a \in AZs : proc[a].n <= starts /\ (proc[a].stage # "down" => proc[a].n # 0)
  /\ \A m \in calls : m.proc <= starts
  /\ \A m1, m2 \in calls : m1.az = m2.az /\ m1.proc = m2.proc => m1 = m2

\* A registration carries the address of its process.
OwnAddress == \A m \in calls : m.at = "set" => m.addr = m.proc

\* Whoever may still write the record of a sure AZ writes the address that is there.
SureAZ(a) ==
  /\ rec[a].set /\ rec[a].addr = proc[a].n
  /\ proc[a].stage # "down" /\ Late(a) = {}
  /\ \A m \in CallOf(a) : m.at = "put" => m.addr = proc[a].n

SureInv == \A a \in sure : SureAZ(a)

\* What the listing has to find has a record, and was found or is yet to be got.
StableInv ==
  /\ \A a \in stable : rec[a].set
  /\ list.on => stable \subseteq list.found \cup list.todo

RegistryInv == TypeOK /\ OneCall /\ OwnAddress /\ SureInv /\ StableInv

-----------------------------------------------------------------------------

\* One more fault is within the bound.
LEMMA FaultLemma ==
  ASSUME TypeOK, Fault \/ UNCHANGED faults
  PROVE  faults' \in 0..MaxFaults
BY AzRegistryAssumption DEF TypeOK, Fault

\* Nothing runs at the beginning.
LEMMA InitLemma == Init => RegistryInv
<1> SUFFICES ASSUME Init PROVE RegistryInv
  OBVIOUS
<1>1. 0 \in 0..MaxStarts /\ 0 \in 0..MaxFaults
  BY AzRegistryAssumption
<1>2. TypeOK
  BY <1>1 DEF Init, TypeOK, NoRec, Records, NoAddr, Stages, NoList
<1>3. OneCall /\ OwnAddress /\ SureInv /\ StableInv
  BY DEF Init, OneCall, OwnAddress, SureInv, StableInv, NoList
<1> QED BY <1>2, <1>3 DEF RegistryInv

\* The calls after one of them has ended or gone on.
LEMMA CallsLemma ==
  ASSUME RegistryInv, NEW m \in calls, UNCHANGED starts,
         \A a \in AZs : proc'[a].n = proc[a].n /\ (proc'[a].stage # "down" <=> proc[a].stage # "down"),
         \/ calls' = calls \ {m}
         \/ \E n \in Calls : /\ n.az = m.az /\ n.proc = m.proc /\ n.at # "set"
                             /\ calls' = (calls \ {m}) \cup {n}
  PROVE  calls' \subseteq Calls /\ OneCall' /\ OwnAddress'
<1>1. calls \subseteq Calls
  BY DEF RegistryInv, TypeOK
<1>2. CASE calls' = calls \ {m}
  BY <1>1, <1>2 DEF RegistryInv, OneCall, OwnAddress
<1>3. ASSUME NEW n \in Calls, n.az = m.az, n.proc = m.proc, n.at # "set",
             calls' = (calls \ {m}) \cup {n}
      PROVE  calls' \subseteq Calls /\ OneCall' /\ OwnAddress'
  BY <1>1, <1>3 DEF RegistryInv, OneCall, OwnAddress
<1> QED BY <1>2, <1>3

\* An AZ stays sure while its process and its record's address stay, and no call comes
\* that would write another.
LEMMA StaySureLemma ==
  ASSUME RegistryInv, NEW a \in sure, a \in AZs,
         rec'[a].set, rec'[a].addr = rec[a].addr,
         proc'[a].n = proc[a].n, proc'[a].stage # "down",
         \A m \in calls' : m.az = a =>
            \/ m \in calls
            \/ m.proc = proc[a].n /\ (m.at = "put" => m.addr = proc[a].n)
  PROVE  SureAZ(a)'
<1>1. SureAZ(a)
  BY DEF RegistryInv, SureInv
<1>2. \A m \in calls' : m.az = a => m.proc = proc[a].n /\ (m.at = "put" => m.addr = proc[a].n)
  BY <1>1 DEF SureAZ, Late, CallOf
<1>3. (Late(a) = {})' /\ (\A m \in CallOf(a) : m.at = "put" => m.addr = proc[a].n)'
  BY <1>2 DEF Late, CallOf
<1> QED BY <1>1, <1>3 DEF SureAZ

\* The list, when nobody reads it.
LEMMA StableLemma ==
  ASSUME RegistryInv, UNCHANGED list, stable' \subseteq stable,
         \A a \in stable' : rec[a].set => rec'[a].set
  PROVE  StableInv'
BY DEF RegistryInv, StableInv

\* The answer to a registration.
LEMMA AnswerLemma ==
  ASSUME RegistryInv, NEW m \in calls, Answer(m)
  PROVE  /\ proc' \in [AZs -> [n : 0..MaxStarts, stage : Stages]]
         /\ \A a \in AZs : /\ proc'[a].n = proc[a].n
                           /\ proc'[a].stage # "down" <=> proc[a].stage # "down"
BY DEF Answer, RegistryInv, TypeOK, Stages, Calls

-----------------------------------------------------------------------------
(* The AZ service. *)

\* A start has a number that no call and no process has.
LEMMA StartLemma ==
  ASSUME RegistryInv, NEW a \in AZs, Start(a)
  PROVE  RegistryInv'
<1>1. TypeOK /\ OneCall /\ OwnAddress /\ SureInv
  BY DEF RegistryInv
<1>2. starts \in Nat /\ starts' = starts + 1 /\ starts' \in 0..MaxStarts /\ starts' \in Processes
  BY <1>1, AzRegistryAssumption DEF Start, TypeOK, Processes
<1>3. /\ proc' \in [AZs -> [n : 0..MaxStarts, stage : Stages]]
      /\ proc'[a].n = starts' /\ proc'[a].stage # "down" /\ \A b \in AZs : b # a => proc'[b] = proc[b]
  BY <1>1, <1>2 DEF Start, TypeOK, Stages
<1> DEFINE new == [az |-> a, proc |-> starts', at |-> "set", addr |-> starts']
<1>4. calls' = calls \cup {new} /\ new \in Calls
  BY <1>2 DEF Start, Calls
<1>5. /\ UNCHANGED <<rec, members, list, stable, faults>>
      /\ sure' = sure \ {a}
  BY DEF Start, Unsure
<1>6. TypeOK'
  BY <1>1, <1>2, <1>3, <1>4, <1>5 DEF TypeOK
<1>7. OneCall'
  <2>1. \A b \in AZs : proc[b].n \in Nat /\ proc[b].n <= starts
    BY <1>1, AzRegistryAssumption DEF TypeOK, OneCall
  <2>2. \A m \in calls : m.proc \in Nat /\ m.proc <= starts
    BY <1>1, AzRegistryAssumption DEF TypeOK, OneCall, Calls, Processes
  <2>3. \A b \in AZs : proc'[b].n <= starts' /\ (proc'[b].stage # "down" => proc'[b].n # 0)
    <3>1. \A b \in AZs : b # a => proc'[b].n <= starts' /\ (proc'[b].stage # "down" => proc'[b].n # 0)
      BY <1>1, <1>2, <1>3, <2>1 DEF OneCall
    <3> QED BY <1>2, <1>3, <3>1
  <2>4. \A m \in calls' : m.proc <= starts'
    BY <1>2, <1>4, <2>2
  <2>5. \A m \in calls : m.proc # new.proc
    BY <1>2, <2>2
  <2>6. \A m1, m2 \in calls' : m1.az = m2.az /\ m1.proc = m2.proc => m1 = m2
    BY <1>1, <1>4, <2>5 DEF OneCall
  <2> QED BY <2>3, <2>4, <2>6 DEF OneCall
<1>8. OwnAddress'
  BY <1>1, <1>4 DEF OwnAddress
<1>9. SureInv'
  <2>1. ASSUME NEW b \in sure' PROVE SureAZ(b)'
    <3>1. b \in sure /\ b # a /\ b \in AZs
      BY <1>1, <1>5, <2>1 DEF TypeOK
    <3>2. rec'[b] = rec[b] /\ proc'[b] = proc[b] /\ SureAZ(b)
      BY <1>1, <1>3, <1>5, <3>1 DEF SureInv
    <3>3. \A m \in calls' : m.az = b => m \in calls
      BY <1>4, <3>1
    <3> QED BY <3>1, <3>2, <3>3, StaySureLemma DEF SureAZ
  <2> QED BY <2>1 DEF SureInv
<1>10. StableInv'
  BY <1>5, StableLemma
<1> QED BY <1>6, <1>7, <1>8, <1>9, <1>10 DEF RegistryInv

\* A stop leaves the calls of the process behind.
LEMMA StopLemma ==
  ASSUME RegistryInv, NEW a \in AZs, Stop(a)
  PROVE  RegistryInv'
<1>1. TypeOK /\ OneCall /\ OwnAddress /\ SureInv
  BY DEF RegistryInv
<1>2. /\ UNCHANGED <<rec, members, starts, calls, list, stable, faults>>
      /\ sure' = sure \ {a}
  BY DEF Stop, Unsure
<1>3. /\ proc' \in [AZs -> [n : 0..MaxStarts, stage : Stages]]
      /\ \A b \in AZs : proc'[b].n = proc[b].n /\ (b # a => proc'[b] = proc[b])
      /\ proc'[a].stage = "down"
  BY <1>1 DEF Stop, TypeOK, Stages
<1>4. TypeOK' /\ OneCall' /\ OwnAddress'
  BY <1>1, <1>2, <1>3 DEF TypeOK, OneCall, OwnAddress
<1>5. SureInv'
  <2>1. ASSUME NEW b \in sure' PROVE SureAZ(b)'
    <3>1. b \in sure /\ b # a /\ b \in AZs /\ SureAZ(b)
      BY <1>1, <1>2, <2>1 DEF TypeOK, SureInv
    <3> QED BY <1>2, <1>3, <3>1, StaySureLemma DEF SureAZ
  <2> QED BY <2>1 DEF SureInv
<1>6. StableInv'
  BY <1>2, StableLemma
<1> QED BY <1>4, <1>5, <1>6 DEF RegistryInv

\* A heartbeat is sent when no call of the process is under way.
LEMMA BeatLemma ==
  ASSUME RegistryInv, NEW a \in AZs, Beat(a)
  PROVE  RegistryInv'
<1>1. TypeOK /\ OneCall /\ OwnAddress /\ SureInv
  BY DEF RegistryInv
<1> DEFINE new == [az |-> a, proc |-> proc[a].n, at |-> "get", addr |-> NoAddr]
<1>2. /\ UNCHANGED <<rec, members, proc, starts, list, sure, stable, faults>>
      /\ calls' = calls \cup {new} /\ Beating(a) /\ CallOf(a) = {}
  BY DEF Beat
<1>3. proc[a].n \in 0..MaxStarts /\ proc[a].n # 0
  BY <1>1, <1>2 DEF TypeOK, Beating, OneCall
<1>4. new \in Calls
  BY <1>3, AzRegistryAssumption DEF Calls, Processes, NoAddr
<1>5. TypeOK'
  BY <1>1, <1>2, <1>4 DEF TypeOK
<1>6. OneCall' /\ OwnAddress'
  BY <1>1, <1>2 DEF OneCall, OwnAddress, CallOf
<1>7. SureInv'
  <2>1. ASSUME NEW b \in sure' PROVE SureAZ(b)'
    <3>1. b \in sure /\ b \in AZs /\ SureAZ(b)
      BY <1>1, <1>2, <2>1 DEF TypeOK, SureInv
    <3> QED BY <1>2, <3>1, StaySureLemma DEF SureAZ
  <2> QED BY <2>1 DEF SureInv
<1>8. StableInv'
  BY <1>2, StableLemma
<1> QED BY <1>5, <1>6, <1>7, <1>8 DEF RegistryInv

-----------------------------------------------------------------------------
(* The handlers of the Top service. *)

\* What a step of a call has to keep, once the calls themselves are in order.
LEMMA HandleLemma ==
  ASSUME RegistryInv, NEW m \in calls, UNCHANGED <<starts, list>>,
         calls' \subseteq Calls /\ OneCall' /\ OwnAddress',
         rec' \in [AZs -> Records], members' \subseteq AZs,
         proc' \in [AZs -> [n : 0..MaxStarts, stage : Stages]],
         sure' \subseteq AZs, SureInv',
         stable' \subseteq stable, \A a \in AZs : rec[a].set => rec'[a].set,
         Fault \/ UNCHANGED faults
  PROVE  RegistryInv'
<1>1. TypeOK'
  BY FaultLemma DEF RegistryInv, TypeOK
<1>2. StableInv'
  <2>1. \A a \in stable' : rec[a].set => rec'[a].set
    BY DEF RegistryInv, TypeOK
  <2> QED BY <2>1, StableLemma
<1> QED BY <1>1, <1>2 DEF RegistryInv

\* A record that is written for a call.
LEMMA RecordLemma ==
  ASSUME TypeOK, NEW m \in calls,
         rec' = [rec EXCEPT ![m.az] = [addr |-> m.addr, fresh |-> TRUE, set |-> TRUE]]
  PROVE  /\ m.az \in AZs /\ rec' \in [AZs -> Records]
         /\ rec'[m.az].set /\ rec'[m.az].addr = m.addr
         /\ \A a \in AZs : a # m.az => rec'[a] = rec[a]
         /\ \A a \in AZs : rec[a].set => rec'[a].set
<1>1. m.az \in AZs /\ m.addr \in 0..MaxStarts
  BY DEF TypeOK, Calls
<1>2. [addr |-> m.addr, fresh |-> TRUE, set |-> TRUE] \in Records
  BY <1>1 DEF Records
<1> QED BY <1>1, <1>2 DEF TypeOK

\* A registration writes its own address, and is sure of it when no other call of the
\* AZ is left.
LEMMA RegisterSetLemma ==
  ASSUME RegistryInv, NEW m \in calls, RegisterSet(m)
  PROVE  RegistryInv'
<1>1. TypeOK /\ OneCall /\ OwnAddress /\ SureInv
  BY DEF RegistryInv
<1>2. m.at = "set" /\ UNCHANGED <<members, starts, list, stable>> /\ m.az \in AZs
  BY <1>1 DEF RegisterSet, TypeOK, Calls
<1>3. CASE Fault /\ calls' = calls \ {m} /\ Answer(m) /\ UNCHANGED <<rec, sure>>
  <2>1. proc' \in [AZs -> [n : 0..MaxStarts, stage : Stages]]
        /\ \A a \in AZs : proc'[a].n = proc[a].n /\ (proc'[a].stage # "down" <=> proc[a].stage # "down")
    BY <1>3, AnswerLemma
  <2>2. calls' \subseteq Calls /\ OneCall' /\ OwnAddress'
    BY <1>2, <1>3, <2>1, CallsLemma
  <2>3. ASSUME NEW a \in sure' PROVE SureAZ(a)'
    <3>1. a \in sure /\ a \in AZs /\ SureAZ(a)
      BY <1>1, <1>3, <2>3 DEF TypeOK, SureInv
    <3> QED BY <1>3, <2>1, <3>1, StaySureLemma DEF SureAZ
  <2>4. SureInv'
    BY <2>3 DEF SureInv
  <2> QED BY <1>1, <1>2, <1>3, <2>1, <2>2, <2>4, HandleLemma DEF TypeOK
<1>4. CASE /\ rec' = [rec EXCEPT ![m.az] = Registered(m)]
           /\ calls' = (calls \ {m}) \cup {[m EXCEPT !.at = "sadd"]}
           /\ sure' = IF m \in CallOf(m.az) /\ proc[m.az].stage # "down" /\ Late(m.az) = {}
                        THEN sure \cup {m.az} ELSE sure
           /\ UNCHANGED <<proc, faults>>
  <2> DEFINE n == [m EXCEPT !.at = "sadd"]
  <2>1. n \in Calls /\ n.az = m.az /\ n.proc = m.proc /\ n.at = "sadd"
    BY <1>1 DEF TypeOK, Calls
  <2>2. calls' \subseteq Calls /\ OneCall' /\ OwnAddress'
    BY <1>2, <1>4, <2>1, CallsLemma
  <2>3. /\ rec' \in [AZs -> Records] /\ rec'[m.az].set /\ rec'[m.az].addr = m.addr
        /\ \A a \in AZs : a # m.az => rec'[a] = rec[a]
        /\ \A a \in AZs : rec[a].set => rec'[a].set
    BY <1>1, <1>4, RecordLemma DEF Registered
  <2>4. m.addr = m.proc
    BY <1>1, <1>2 DEF OwnAddress
  <2>5. ASSUME NEW a \in sure', a \in AZs, a = m.az, m \in CallOf(a), proc[a].stage # "down",
               Late(a) = {}
        PROVE  SureAZ(a)'
    <3>1. m.proc = proc[a].n
      BY <2>5 DEF CallOf
    <3>2. \A k \in calls' : k.az = a => k = n
      BY <1>1, <1>4, <2>5, <3>1 DEF Late, OneCall
    <3>3. (Late(a) = {})' /\ (\A k \in CallOf(a) : k.at = "put" => k.addr = proc[a].n)'
      BY <1>4, <2>1, <3>1, <3>2 DEF Late, CallOf
    <3> QED BY <1>4, <2>3, <2>4, <2>5, <3>1, <3>3 DEF SureAZ
  <2>6. ASSUME NEW a \in sure, a \in AZs PROVE SureAZ(a)'
    <3>1. SureAZ(a)
      BY <1>1, <2>6 DEF SureInv
    <3>2. CASE a = m.az
      <4>1. m.proc = proc[a].n
        BY <3>1, <3>2 DEF SureAZ, Late
      <4>2. rec'[a].set /\ rec'[a].addr = rec[a].addr
        BY <2>3, <2>4, <3>1, <3>2, <4>1 DEF SureAZ
      <4>3. \A k \in calls' : k.az = a => k \in calls \/ (k.proc = proc[a].n /\ k.at # "put")
        BY <1>4, <2>1, <4>1
      <4>4. proc'[a].n = proc[a].n /\ proc'[a].stage # "down"
        BY <1>4, <3>1 DEF SureAZ
      <4> QED BY <2>6, <4>2, <4>3, <4>4, StaySureLemma
    <3>3. CASE a # m.az
      <4>1. rec'[a].set /\ rec'[a].addr = rec[a].addr
        BY <2>3, <2>6, <3>1, <3>3 DEF SureAZ
      <4>2. \A k \in calls' : k.az = a => k \in calls
        BY <1>4, <2>1, <3>3
      <4>3. proc'[a].n = proc[a].n /\ proc'[a].stage # "down"
        BY <1>4, <3>1 DEF SureAZ
      <4> QED BY <2>6, <4>1, <4>2, <4>3, StaySureLemma
    <3> QED BY <3>2, <3>3
  <2>7. SureInv'
    BY <1>1, <1>2, <1>4, <2>5, <2>6 DEF SureInv, TypeOK
  <2> QED BY <1>1, <1>2, <1>4, <2>2, <2>3, <2>7, HandleLemma DEF TypeOK
<1>5. CASE /\ rec' = [rec EXCEPT ![m.az] = Registered(m)] /\ Fault
           /\ calls' = calls \ {m} /\ Answer(m) /\ UNCHANGED sure
  <2>1. proc' \in [AZs -> [n : 0..MaxStarts, stage : Stages]]
        /\ \A a \in AZs : proc'[a].n = proc[a].n /\ (proc'[a].stage # "down" <=> proc[a].stage # "down")
    BY <1>5, AnswerLemma
  <2>2. calls' \subseteq Calls /\ OneCall' /\ OwnAddress'
    BY <1>2, <1>5, <2>1, CallsLemma
  <2>3. /\ rec' \in [AZs -> Records] /\ rec'[m.az].set /\ rec'[m.az].addr = m.addr
        /\ \A a \in AZs : a # m.az => rec'[a] = rec[a]
        /\ \A a \in AZs : rec[a].set => rec'[a].set
    BY <1>1, <1>5, RecordLemma DEF Registered
  <2>4. ASSUME NEW a \in sure' PROVE SureAZ(a)'
    <3>1. a \in sure /\ a \in AZs /\ SureAZ(a)
      BY <1>1, <1>5, <2>4 DEF TypeOK, SureInv
    <3>2. rec'[a].set /\ rec'[a].addr = rec[a].addr
      <4>1. CASE a = m.az
        <5>1. m.addr = m.proc /\ m.proc = proc[a].n
          BY <1>1, <1>2, <3>1, <4>1 DEF OwnAddress, SureAZ, Late
        <5> QED BY <2>3, <3>1, <4>1, <5>1 DEF SureAZ
      <4>2. CASE a # m.az
        BY <2>3, <3>1, <4>2 DEF SureAZ
      <4> QED BY <4>1, <4>2
    <3>3. \A k \in calls' : k.az = a => k \in calls
      BY <1>5
    <3>4. proc'[a].n = proc[a].n /\ proc'[a].stage # "down"
      BY <2>1, <3>1 DEF SureAZ
    <3> QED BY <3>1, <3>2, <3>3, <3>4, StaySureLemma
  <2>5. SureInv'
    BY <2>4 DEF SureInv
  <2> QED BY <1>1, <1>2, <1>5, <2>1, <2>2, <2>3, <2>5, HandleLemma DEF TypeOK
<1> QED BY <1>3, <1>4, <1>5 DEF RegisterSet

\* A call that ends writes no record.
LEMMA EndLemma ==
  ASSUME RegistryInv, NEW m \in calls,
         RegisterSAdd(m) \/ HeartbeatSAdd(m) \/ Cancel(m) \/ (HeartbeatSet(m) /\ UNCHANGED rec /\ Fault)
         \/ UNCHANGED vars,
         calls' \in {calls, calls \ {m}}
  PROVE  RegistryInv'
<1>1. TypeOK /\ OneCall /\ OwnAddress /\ SureInv
  BY DEF RegistryInv
<1>2. /\ UNCHANGED <<rec, starts, list, sure, stable>> /\ (Fault \/ UNCHANGED faults)
      /\ members' = members \/ members' = members \cup {m.az}
  BY DEF RegisterSAdd, HeartbeatSAdd, Cancel, HeartbeatSet, vars
<1>3. proc' \in [AZs -> [n : 0..MaxStarts, stage : Stages]]
      /\ \A a \in AZs : proc'[a].n = proc[a].n /\ (proc'[a].stage # "down" <=> proc[a].stage # "down")
  <2>1. Answer(m) \/ UNCHANGED proc
    BY DEF RegisterSAdd, HeartbeatSAdd, Cancel, HeartbeatSet, vars
  <2> QED BY <1>1, <2>1, AnswerLemma DEF TypeOK
<1>4. calls' \subseteq Calls /\ OneCall' /\ OwnAddress'
  <2>1. CASE UNCHANGED calls
    BY <1>1, <1>2, <1>3, <2>1 DEF TypeOK, OneCall, OwnAddress
  <2> QED BY <1>2, <1>3, <2>1, CallsLemma
<1>5. members' \subseteq AZs
  BY <1>1, <1>2 DEF TypeOK, Calls
<1>6. ASSUME NEW a \in sure' PROVE SureAZ(a)'
  <2>1. a \in sure /\ a \in AZs /\ SureAZ(a)
    BY <1>1, <1>2, <1>6 DEF TypeOK, SureInv
  <2> QED BY <1>2, <1>3, <2>1, StaySureLemma DEF SureAZ
<1>7. SureInv'
  BY <1>6 DEF SureInv
<1> QED BY <1>1, <1>2, <1>3, <1>4, <1>5, <1>7, HandleLemma DEF TypeOK

\* A heartbeat reads the address that is there, or takes the record for missing.
LEMMA HeartbeatGetLemma ==
  ASSUME RegistryInv, NEW m \in calls, HeartbeatGet(m)
  PROVE  RegistryInv'
<1>1. TypeOK /\ OneCall /\ OwnAddress /\ SureInv
  BY DEF RegistryInv
<1>2. UNCHANGED <<rec, members, proc, starts, list, stable>> /\ m.az \in AZs
  BY <1>1 DEF HeartbeatGet, TypeOK, Calls
<1>3. PICK addr \in 0..MaxStarts :
        /\ calls' = (calls \ {m}) \cup {[m EXCEPT !.at = "put", !.addr = addr]}
        /\ \/ addr = rec[m.az].addr /\ UNCHANGED <<sure, faults>>
           \/ Fault /\ sure' = sure \ {m.az}
  <2>1. rec[m.az].addr \in 0..MaxStarts /\ NoAddr \in 0..MaxStarts
    BY <1>1, <1>2, AzRegistryAssumption DEF TypeOK, Records, NoAddr
  <2> QED BY <2>1 DEF HeartbeatGet, AddrRead, Unsure
<1> DEFINE n == [m EXCEPT !.at = "put", !.addr = addr]
<1>4. n \in Calls /\ n.az = m.az /\ n.proc = m.proc /\ n.at = "put" /\ n.addr = addr
  BY <1>1 DEF TypeOK, Calls
<1>5. calls' \subseteq Calls /\ OneCall' /\ OwnAddress'
  BY <1>2, <1>3, <1>4, CallsLemma
<1>6. ASSUME NEW a \in sure' PROVE SureAZ(a)'
  <2>1. a \in sure /\ a \in AZs /\ SureAZ(a)
    BY <1>1, <1>3, <1>6 DEF TypeOK, SureInv
  <2>2. CASE a = m.az
    <3>1. addr = rec[a].addr /\ addr = proc[a].n /\ m.proc = proc[a].n
      BY <1>3, <1>6, <2>1, <2>2 DEF SureAZ, Late
    <3> QED BY <1>2, <1>3, <1>4, <2>1, <2>2, <3>1, StaySureLemma DEF SureAZ
  <2>3. CASE a # m.az
    BY <1>2, <1>3, <1>4, <2>1, <2>3, StaySureLemma DEF SureAZ
  <2> QED BY <2>2, <2>3
<1>7. SureInv' /\ sure' \subseteq AZs
  BY <1>1, <1>3, <1>6 DEF SureInv, TypeOK
<1> QED BY <1>1, <1>2, <1>3, <1>5, <1>7, HandleLemma DEF TypeOK

\* A heartbeat writes what it has read.
LEMMA HeartbeatSetLemma ==
  ASSUME RegistryInv, NEW m \in calls, HeartbeatSet(m)
  PROVE  RegistryInv'
<1>1. TypeOK /\ OneCall /\ OwnAddress /\ SureInv
  BY DEF RegistryInv
<1>2. m.at = "put" /\ UNCHANGED <<members, proc, starts, list, sure, stable>> /\ m.az \in AZs
  BY <1>1 DEF HeartbeatSet, TypeOK, Calls
<1>3. CASE Fault /\ calls' = calls \ {m} /\ UNCHANGED rec
  BY <1>3, EndLemma
<1>4. CASE /\ rec' = [rec EXCEPT ![m.az] = Renewed(m)] /\ UNCHANGED faults
           /\ calls' = (calls \ {m}) \cup {[m EXCEPT !.at = "add"]}
  <2> DEFINE n == [m EXCEPT !.at = "add"]
  <2>1. n \in Calls /\ n.az = m.az /\ n.proc = m.proc /\ n.at = "add"
    BY <1>1 DEF TypeOK, Calls
  <2>2. calls' \subseteq Calls /\ OneCall' /\ OwnAddress'
    BY <1>2, <1>4, <2>1, CallsLemma
  <2>3. /\ rec' \in [AZs -> Records] /\ rec'[m.az].set /\ rec'[m.az].addr = m.addr
        /\ \A a \in AZs : a # m.az => rec'[a] = rec[a]
        /\ \A a \in AZs : rec[a].set => rec'[a].set
    BY <1>1, <1>4, RecordLemma DEF Renewed
  <2>4. ASSUME NEW a \in sure' PROVE SureAZ(a)'
    <3>1. a \in sure /\ a \in AZs /\ SureAZ(a)
      BY <1>1, <1>2, <2>4 DEF TypeOK, SureInv
    <3>2. CASE a = m.az
      <4>1. m \in CallOf(a) /\ m.proc = proc[a].n
        BY <3>1, <3>2 DEF SureAZ, Late, CallOf
      <4>2. rec'[a].addr = rec[a].addr
        BY <1>2, <2>3, <3>1, <3>2, <4>1 DEF SureAZ
      <4>3. \A k \in calls' : k.az = a => k \in calls \/ (k.proc = proc[a].n /\ k.at # "put")
        BY <1>4, <2>1, <4>1
      <4>4. rec'[a].set /\ proc'[a].n = proc[a].n /\ proc'[a].stage # "down"
        BY <1>2, <2>3, <3>1, <3>2 DEF SureAZ
      <4> QED BY <3>1, <4>2, <4>3, <4>4, StaySureLemma
    <3>3. CASE a # m.az
      <4>1. rec'[a].set /\ rec'[a].addr = rec[a].addr
        BY <2>3, <3>1, <3>3 DEF SureAZ
      <4>2. \A k \in calls' : k.az = a => k \in calls
        BY <1>4, <2>1, <3>3
      <4>3. proc'[a].n = proc[a].n /\ proc'[a].stage # "down"
        BY <1>2, <3>1 DEF SureAZ
      <4> QED BY <3>1, <4>1, <4>2, <4>3, StaySureLemma
    <3> QED BY <3>2, <3>3
  <2>5. SureInv'
    BY <2>4 DEF SureInv
  <2> QED BY <1>1, <1>2, <1>4, <2>2, <2>3, <2>5, HandleLemma DEF TypeOK
<1>5. CASE /\ rec' = [rec EXCEPT ![m.az] = Renewed(m)] /\ Fault
           /\ calls' = calls \ {m}
  <2>1. calls' \subseteq Calls /\ OneCall' /\ OwnAddress'
    BY <1>2, <1>5, <1>1, CallsLemma DEF TypeOK
  <2>2. /\ rec' \in [AZs -> Records] /\ rec'[m.az].set /\ rec'[m.az].addr = m.addr
        /\ \A a \in AZs : a # m.az => rec'[a] = rec[a]
        /\ \A a \in AZs : rec[a].set => rec'[a].set
    BY <1>1, <1>5, RecordLemma DEF Renewed
  <2>3. ASSUME NEW a \in sure' PROVE SureAZ(a)'
    <3>1. a \in sure /\ a \in AZs /\ SureAZ(a)
      BY <1>1, <1>2, <2>3 DEF TypeOK, SureInv
    <3>2. rec'[a].set /\ rec'[a].addr = rec[a].addr
      <4>1. CASE a = m.az
        <5>1. m \in CallOf(a)
          BY <3>1, <4>1 DEF SureAZ, Late, CallOf
        <5> QED BY <1>2, <2>2, <3>1, <4>1, <5>1 DEF SureAZ
      <4>2. CASE a # m.az
        BY <2>2, <3>1, <4>2 DEF SureAZ
      <4> QED BY <4>1, <4>2
    <3>3. \A k \in calls' : k.az = a => k \in calls
      BY <1>5
    <3>4. proc'[a].n = proc[a].n /\ proc'[a].stage # "down"
      BY <1>2, <3>1 DEF SureAZ
    <3> QED BY <3>1, <3>2, <3>3, <3>4, StaySureLemma
  <2>4. SureInv'
    BY <2>3 DEF SureInv
  <2> QED BY <1>1, <1>2, <1>5, <2>1, <2>2, <2>4, HandleLemma DEF TypeOK
<1> QED BY <1>3, <1>4, <1>5 DEF HeartbeatSet

-----------------------------------------------------------------------------
(* Time and the listing. *)

\* Records age and expire.
LEMMA TimeLemma ==
  ASSUME RegistryInv, NEW a \in AZs, Elapse(a) \/ Expire(a)
  PROVE  RegistryInv'
<1>1. TypeOK /\ OneCall /\ OwnAddress /\ SureInv
  BY DEF RegistryInv
<1>2. UNCHANGED <<members, proc, starts, calls, list>> /\ (Fault \/ UNCHANGED faults)
  BY DEF Elapse, Expire
<1>3. NoRec \in Records
  BY AzRegistryAssumption DEF NoRec, Records, NoAddr
<1>4. /\ rec' \in [AZs -> Records]
      /\ \A b \in AZs : b # a => rec'[b] = rec[b]
      /\ \/ rec'[a].set = rec[a].set /\ rec'[a].addr = rec[a].addr /\ UNCHANGED <<sure, stable>>
         \/ sure' = sure \ {a} /\ stable' = stable \ {a}
  <2>1. rec \in [AZs -> Records]
    BY <1>1 DEF TypeOK
  <2>2. CASE Elapse(a)
    <3>1. rec' = [rec EXCEPT ![a].fresh = FALSE] /\ UNCHANGED <<sure, stable>>
      BY <2>2 DEF Elapse
    <3> QED BY <2>1, <3>1 DEF Records
  <2>3. CASE Expire(a)
    <3>1. rec' = [rec EXCEPT ![a] = NoRec] /\ sure' = sure \ {a} /\ stable' = stable \ {a}
      BY <2>3 DEF Expire, Unsure
    <3> QED BY <1>3, <2>1, <3>1
  <2> QED BY <2>2, <2>3
<1>5. TypeOK' /\ OneCall' /\ OwnAddress'
  BY <1>1, <1>2, <1>4, FaultLemma DEF TypeOK, OneCall, OwnAddress
<1>6. ASSUME NEW b \in sure' PROVE SureAZ(b)'
  <2>1. b \in sure /\ b \in AZs /\ SureAZ(b)
    BY <1>1, <1>4, <1>6 DEF TypeOK, SureInv
  <2>2. rec'[b].set /\ rec'[b].addr = rec[b].addr
    BY <1>4, <1>6, <2>1 DEF SureAZ
  <2> QED BY <1>2, <2>1, <2>2, StaySureLemma DEF SureAZ
<1>7. StableInv'
  <2>1. \A b \in stable' : b \in AZs /\ (rec[b].set => rec'[b].set)
    BY <1>1, <1>4 DEF TypeOK
  <2> QED BY <1>2, <1>4, <2>1, StableLemma
<1> QED BY <1>5, <1>6, <1>7 DEF RegistryInv, SureInv

\* A listing starts with all members, and goes through them one by one.
LEMMA ListLemma ==
  ASSUME RegistryInv, SMembers \/ EndList \/ \E a \in AZs : GetMember(a)
  PROVE  RegistryInv'
<1>1. TypeOK /\ StableInv
  BY DEF RegistryInv
<1>2. UNCHANGED <<rec, members, proc, starts, calls, sure>> /\ (Fault \/ UNCHANGED faults)
  BY DEF SMembers, EndList, GetMember
<1>3. /\ list' \in [on : BOOLEAN, todo : SUBSET AZs, found : SUBSET AZs]
      /\ stable' \subseteq AZs /\ StableInv'
  <2>1. CASE SMembers
    BY <1>1, <2>1 DEF SMembers, TypeOK, StableInv, Listable
  <2>2. CASE EndList
    BY <1>1, <2>2 DEF EndList, NoList, TypeOK, StableInv
  <2>3. ASSUME NEW a \in AZs, GetMember(a)
        PROVE  /\ list' \in [on : BOOLEAN, todo : SUBSET AZs, found : SUBSET AZs]
               /\ stable' \subseteq AZs /\ StableInv'
    <3>1. CASE /\ list' = [list EXCEPT !.todo = list.todo \ {a},
                                       !.found = IF rec[a].set THEN list.found \cup {a} ELSE list.found]
               /\ UNCHANGED stable
      BY <1>1, <1>2, <3>1 DEF TypeOK, StableInv
    <3>2. CASE list' = [list EXCEPT !.todo = list.todo \ {a}] /\ stable' = stable \ {a}
      BY <1>1, <1>2, <3>2 DEF TypeOK, StableInv
    <3> QED BY <2>3, <3>1, <3>2 DEF GetMember, TodoAfter
  <2> QED BY <2>1, <2>2, <2>3
<1>4. TypeOK'
  BY <1>1, <1>2, <1>3, FaultLemma DEF TypeOK
<1>5. (OneCall /\ OwnAddress /\ SureInv)'
  BY <1>2 DEF RegistryInv, OneCall, OwnAddress, SureInv, SureAZ, Late, CallOf
<1> QED BY <1>3, <1>4, <1>5 DEF RegistryInv

-----------------------------------------------------------------------------
(* RegistryInv is inductive. *)

\* One case for each kind of step.
LEMMA StepLemma == RegistryInv /\ [Next]_vars => RegistryInv'
<1> SUFFICES ASSUME RegistryInv, [Next]_vars PROVE RegistryInv'
  OBVIOUS
<1>1. ASSUME NEW a \in AZs, Start(a) \/ Stop(a) \/ Beat(a) \/ Elapse(a) \/ Expire(a) \/ GetMember(a)
      PROVE  RegistryInv'
  BY <1>1, StartLemma, StopLemma, BeatLemma, TimeLemma, ListLemma
<1>2. ASSUME NEW m \in calls, Handle(m) \/ Cancel(m) PROVE RegistryInv'
  <2>1. CASE RegisterSAdd(m) \/ HeartbeatSAdd(m) \/ Cancel(m)
    <3>1. calls' = calls \ {m}
      BY <2>1 DEF RegisterSAdd, HeartbeatSAdd, Cancel
    <3> QED BY <2>1, <3>1, EndLemma
  <2> QED BY <1>2, <2>1, RegisterSetLemma, HeartbeatGetLemma, HeartbeatSetLemma DEF Handle
<1>3. CASE SMembers \/ EndList
  BY <1>3, ListLemma
<1>4. CASE UNCHANGED vars
  BY <1>4 DEF vars, RegistryInv, TypeOK, OneCall, OwnAddress, SureInv, SureAZ, Late, CallOf,
              StableInv
<1> QED BY <1>1, <1>2, <1>3, <1>4 DEF Next

\* The invariant of the registry.
THEOREM RegistrySafety == Spec => []RegistryInv
<1>1. Init => RegistryInv
  BY InitLemma
<1>2. RegistryInv /\ [Next]_vars => RegistryInv'
  BY StepLemma
<1> QED BY <1>1, <1>2, PTL DEF Spec

\* Every variable keeps its type (RegisterAZ, Heartbeat, GetRegionAZs).
THEOREM RegistryTypeCorrect == Spec => []TypeOK
<1>1. RegistryInv => TypeOK
  BY DEF RegistryInv
<1> QED BY <1>1, RegistrySafety, PTL

\* The address a process has written stays while it runs (Heartbeat reads the record
\* and writes it back).
THEOREM AddressIsKept == Spec => []AddressStays
<1>1. RegistryInv => AddressStays
  BY DEF RegistryInv, SureInv, SureAZ, AddressStays
<1> QED BY <1>1, RegistrySafety, PTL

\* A listing finds what was there throughout (GetRegionAZs skips what it cannot get).
THEOREM ListingIsComplete == Spec => []ListingFindsStable
<1>1. RegistryInv => ListingFindsStable
  BY DEF RegistryInv, StableInv, ListingFindsStable
<1> QED BY <1>1, RegistrySafety, PTL

=============================================================================
