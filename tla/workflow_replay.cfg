SPECIFICATION Spec
CONSTANTS
  NumSteps = 2
  Submitter = submit
  Consumers = {c1, c2}
  Replayers = {r1}
  MayFail = {1}
  MaxRetries = 0
  TimeoutsFire = TRUE
  MaxPublishes = 3
  MaxFaults = 0
  MaxRedeliveries = 0
  MaxReplays = 2
SYMMETRY Symmetry
CHECK_DEADLOCK FALSE
INVARIANTS
  ExecutedInOrder
  RunningIsComplete
  CountedOnce
PROPERTY
  RunningStays
