\* Two callers of one server, whose idle buckets are dropped.
SPECIFICATION Spec
CONSTANTS
  v = v
  w = w
  Identities = {i1, i2}
  Servers = {v}
  MaxSkew = 0
  Distributed = FALSE
  Window = 3
  Grain = 6
  Rounding = 1
  MaxRequests = 1
  Second = 2
  CleanupEvery = 3
  MaxTime = 13
  Skew <- Exact
INVARIANTS
  QuotaHolds
  RetryAfterIsEnough
SYMMETRY Symmetry
CHECK_DEADLOCK FALSE
