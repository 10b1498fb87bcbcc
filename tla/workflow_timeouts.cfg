SPECIFICATION FairSpec
CONSTANTS
  NumSteps = 2
  Submitter = submit
  Consumers = {c1}
  Replayers = {}
  MayFail = {1}
  MaxRetries = 1
  TimeoutsFire = TRUE
  MaxPublishes = 2
  MaxFaults = 2
  MaxRedeliveries = 0
  MaxReplays = 0
CHECK_DEADLOCK FALSE
PROPERTIES
  SettlesButForOrphans
  CompletedIsRepaired
