\* One caller of two servers with different clocks; Redis forgets idle buckets.
SPECIFICATION Spec
CONSTANTS
  v = v
  w = w
  Identities = {i1}
  Servers = {v, w}
  MaxSkew = 2
  Distributed = TRUE
  Window = 6
  Grain = 3
  Rounding = 1
  MaxRequests = 2
  Second = 2
  CleanupEvery = 3
  MaxTime = 12
  Skew <- Skewed
INVARIANTS
  QuotaHolds
CHECK_DEADLOCK FALSE
