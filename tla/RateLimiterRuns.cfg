SPECIFICATION Spec
CONSTANTS
  Keys = {k1, k2, k3}
  Watched = {k1}
  Costs = {2, 3}
  Capacity = 3
  Refill = 1
  MaxBuckets = 2
  BucketTtl = 3
  CleanupInterval = 2
  MaxTime = 5
  MaxCrowding = 1
  k1 = k1
  k2 = k2
  k3 = k3
SYMMETRY Symmetry
INVARIANTS
  RateKept
  RefusedOverRate
  TwoBucketsRate
  StaleBucketsGo
