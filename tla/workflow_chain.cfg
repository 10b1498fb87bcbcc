SPECIFICATION FairSpec
CONSTANTS
  NumSteps = 3
  Submitter = submit
  Consumers = {c1, c2}
  Replayers = {}
  MayFail = {2}
  MaxRetries = 1
  TimeoutsFire = FALSE
  MaxPublishes = 3
  MaxFaults = 0
  MaxRedeliveries = 0
  MaxReplays = 0
CHECK_DEADLOCK FALSE
INVARIANTS
  TypeOK
PROPERTIES
  ImplementsChain
  ExecutedIsRecorded
  Settles
