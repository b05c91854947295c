\* A caller that asks at the very millisecond it was told, after it asked too early: the
\* sums of what was refilled for each early request may fall short of a token.
SPECIFICATION Spec
CONSTANTS
  v = v
  w = w
  Identities = {i1}
  Servers = {v}
  MaxSkew = 0
  Distributed = FALSE
  Window = 3
  Grain = 6
  Rounding = 1
  MaxRequests = 1
  Second = 2
  CleanupEvery = 3
  MaxTime = 13
  Skew <- Exact
INVARIANTS
  RetryAfterIsExact
CHECK_DEADLOCK FALSE
