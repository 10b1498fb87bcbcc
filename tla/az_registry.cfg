SPECIFICATION Spec
CONSTANTS
  AZs = {a1, a2}
  MaxStarts = 2
  MaxFaults = 1
INVARIANTS
  TypeOK
  AddressStays
  ListingFindsStable
PROPERTIES
  UpIsHealthy
CHECK_DEADLOCK FALSE
