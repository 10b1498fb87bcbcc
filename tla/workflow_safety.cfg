SPECIFICATION Spec
CONSTANTS
  NumSteps = 2
  Submitter = submit
  Consumers = {c1}
  Replayers = {r1}
  MayFail = {1}
  MaxRetries = 0
  TimeoutsFire = FALSE
  MaxPublishes = 4
  MaxFaults = 1
  MaxRedeliveries = 1
  MaxReplays = 1
CHECK_DEADLOCK FALSE
INVARIANTS
  NoStepSkipped
  CompletedWasExecuted
  RunningIsLast
