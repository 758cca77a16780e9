SPECIFICATION MainSpec
CONSTANTS
  Conns = {c1, c2}
  MaxConnections = 1
  Malformed = Malformed
  Envs <- SomeEnvs
CHECK_DEADLOCK FALSE
INVARIANTS
  
  CountersBalance
  DrainedMeansEmpty
PROPERTIES
  NoAddDuringWait
  NothingAcceptedAfterShutdown
  UsesPool
  CancelStops
  SignalOrErrorExits
