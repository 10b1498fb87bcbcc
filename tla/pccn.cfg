CONSTANTS
  AZs = {a1, a2}
  VPC1AZs = {a1, a2}
  VPC2AZs = {a2}
  Creators = {c1}
  Deleters = {d1}
  Replayers = {}
  Looping = {a1}
  GoingVPCs = {1}
  TimeoutsFire = TRUE
  MayStop = TRUE
  MaxFaults = 1
SPECIFICATION Spec
INVARIANTS TypeOK OutcomeIsAnswered
PROPERTIES RemovedEverywhere CreatingEnds DeletingEnds
CHECK_DEADLOCK FALSE
