SPECIFICATION FairSpec
CONSTANTS
  Base = 3
  MaxMessageSize = 5
  ValidTypes = {1}
  Outboxes <- SomeOutboxes
  MaxStream = 7
CHECK_DEADLOCK FALSE
INVARIANTS
  LengthChecks
  Accounted
  CleanEOF
  DecodersAgree
PROPERTIES
  ReaderReturns
