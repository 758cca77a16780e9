SPECIFICATION FairSpec
CONSTANTS
  IdleTimeout = 1
  ChallengeTimeout = 2
  WriteTimeout = 1
  ClockSkew = 1
  MaxAttempts = 3
  Difficulty = 20
CHECK_DEADLOCK FALSE
PROPERTY TimeoutIsReported
