SPECIFICATION FairSpec
CONSTANTS
  a = a
  b = b
  c = c
  IPs <- ThreeIPs
  Watched = a
  ShardCount = 2
  ShardOf <- PairAndOne
  Unit = 2
  Burst = 1
  Rate = 2
  CleanupAge = 0
  MaxBuckets = 1
  MaxTime = 2
  MaxGrants = 1
INVARIANTS
  BucketCountExact
  BucketCountBound
PROPERTY StaleRemoved
