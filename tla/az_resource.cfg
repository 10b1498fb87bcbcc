SPECIFICATION Spec
CONSTANTS
  VPC = v
  Subnets = {s1}
  Policies = {p1}
  Handlers = {h1, h2}
  MaxFaults = 1
SYMMETRY Symmetry
INVARIANTS
  TypeOK
  RunningIsBuilt
  QuietlyDeletedStays
PROPERTIES
  VPCIsFree
CHECK_DEADLOCK FALSE
