\* As many callers as clients in the pool.
SPECIFICATION FairSpec
CONSTANTS
  Callers = {a, b}
  Nobody = Nobody
  Gone = Gone
  Slots = {s1}
  PoolSize = 2
  TTL = 2
  MaxTime = 0
  MaxCalls = 3
  MaxFaults = 0
PROPERTIES
  EveryCallEnds
CHECK_DEADLOCK FALSE
