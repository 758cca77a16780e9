SPECIFICATION FairSpec
CONSTANTS
  Procs = {p1, p2, p3, p4}
  MaxConnections = 0
INVARIANTS
  SlotsMatchHolders
  ActiveMatchesSem
  ParkedOnlyWhenFull
PROPERTIES
  NoOvertaking
  BlockingReturns
