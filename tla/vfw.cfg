SPECIFICATION Spec
CONSTANTS
  AZs = {a1, a2}
  VPCs = {v1}
  Ranges = {{i1}, {i1, i2}}
  Requests = {r1, r2}
  Names = {n1}
  MaxMapped = 2
  MaxFaults = 1
SYMMETRY Symmetry
INVARIANTS
  TypeOK
  RunningIsHeld
  CreatingIsUnderway
PROPERTIES
  DeletedIsGone
  ZoneIsFree
CHECK_DEADLOCK FALSE
