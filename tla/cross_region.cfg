CONSTANTS
  AZs = {a1, a2}
  VPC1AZs = {a1}
  VPC2AZs = {a2}
  Creators = {c1}
  Deleters = {}
  Replayers = {}
  Looping = {}
  GoingVPCs = {}
  TimeoutsFire = FALSE
  MayStop = FALSE
  MaxFaults = 0
SPECIFICATION Spec
INVARIANT CreateIsAccepted
CHECK_DEADLOCK FALSE
