SPECIFICATION Spec
CONSTANTS
  a = a
  b = b
  c = c
  IPs <- TwoIPs
  Watched = a
  ShardCount = 2
  ShardOf <- SweptLast
  Unit = 2
  Burst = 2
  Rate = 1
  CleanupAge = 0
  MaxBuckets = 0
  MaxTime = 3
  MaxGrants = 5
INVARIANT RateBound
