CONSTANTS
  AZs = {a1}
  VPC1AZs = {a1}
  VPC2AZs = {a1}
  Creators = {c1, c2}
  Deleters = {d1}
  Replayers = {r1, r2}
  Looping = {a1}
  GoingVPCs = {}
  TimeoutsFire = FALSE
  MayStop = FALSE
  MaxFaults = 0
SPECIFICATION Spec
PROPERTY WorkingStays
CHECK_DEADLOCK FALSE
