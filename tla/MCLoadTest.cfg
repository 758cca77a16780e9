SPECIFICATION Spec
CONSTANTS
  workers = 2
  rampUp = 2
  duration = 2
  connTimeout = 1
  ConnDeadline = 2
  Backoff = 1
  MaxRequests = 3
CHECK_DEADLOCK FALSE
INVARIANTS
  FinalAddsUp
  LiveLag
  ExitBound
PROPERTIES
  Ends
