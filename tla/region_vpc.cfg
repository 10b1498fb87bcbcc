SPECIFICATION FairSpec
CONSTANTS
  NumAZs = 2
  Creators = {c1}
  Deleters = {d1}
  TimeoutsFire = TRUE
  MayStop = TRUE
  MaxFaults = 1
CHECK_DEADLOCK FALSE
INVARIANTS
  TypeOK
  RunningIsTrue
  BuildingIsRegistered
  CreatingIsWatched
PROPERTIES
  SettledDetailStays
  WatcherEnds
  Reported
