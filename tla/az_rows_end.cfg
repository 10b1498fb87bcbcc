SPECIFICATION Spec
CONSTANTS
  VPC = v
  Subnets = {s1}
  Policies = {p1}
  Handlers = {h1}
  MaxFaults = 1
PROPERTIES
  RowsEnd
CHECK_DEADLOCK FALSE
