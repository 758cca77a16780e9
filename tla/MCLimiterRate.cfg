SPECIFICATION Spec
CONSTANTS
  a = a
  b = b
  c = c
  IPs <- TwoIPs
  Watched = a
  ShardCount = 2
  ShardOf <- SweptLast
  Unit = 2
  Burst = 2
  Rate = 3
  CleanupAge = 2
  MaxBuckets = 0
  MaxTime = 4
  MaxGrants = 9
INVARIANT RateBound
PROPERTY ImplementsTokenBucket
