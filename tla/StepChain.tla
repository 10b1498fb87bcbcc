------------------------------ MODULE StepChain ------------------------------
(***************************************************************************)
(* What a workflow promises the resource it builds, with no process, queue *)
(* or table in sight: the steps are carried out on the devices one after   *)
(* the other, and the resource gets one outcome, 'running' when all of     *)
(* them are done and 'failed' when one of them cannot be.                  *)
(***************************************************************************)
EXTENDS Naturals

CONSTANT NumSteps

VARIABLES
  executed,   \* the steps carried out
  outcome     \* "open", "running" or "failed"

chainVars == <<executed, outcome>>

ChainInit == executed = {} /\ outcome = "open"

ExecuteNext(i) ==
  /\ outcome = "open"
  /\ i \notin executed
  /\ 1..(i - 1) \subseteq executed
  /\ executed' = executed \cup {i}
  /\ UNCHANGED outcome

Succeed ==
  /\ outcome = "open"
  /\ executed = 1..NumSteps
  /\ outcome' = "running"
  /\ UNCHANGED executed

Fail ==
  /\ outcome = "open"
  /\ executed # 1..NumSteps
  /\ outcome' = "failed"
  /\ UNCHANGED executed

ChainNext == (\E i \in 1..NumSteps : ExecuteNext(i)) \/ Succeed \/ Fail

ChainSpec == ChainInit /\ [][ChainNext]_chainVars

=============================================================================
