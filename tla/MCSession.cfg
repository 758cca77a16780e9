SPECIFICATION FairSession
CONSTANTS
  IdleTimeout = 1
  ChallengeTimeout = 3
  WriteTimeout = 1
  ClockSkew = 2
  MaxAttempts = 3
  Difficulty = 20
  ClientTimeout = 5
  DialTimeout = 1
  MaxQueued = 1
  maxIterations = 3
  contextCheckInterval = 2
  reportInterval = 2
  Hashes <- SomeHashes
CHECK_DEADLOCK FALSE
INVARIANTS
  ReplyOrder
  OneReplyEach
  MetricsMatchReplies
  
  TimeBounds
  
  
  
PROPERTIES
  SessionEnds
