\* Fair callers of one slot of the PostgreSQL store, as many clients as callers, so that
\* the pool may run dry, and one refused query.
SPECIFICATION FairSpec
CONSTANTS
  Callers = {a, b, c}
  Nobody = Nobody
  Gone = Gone
  Slots = {s1}
  PoolSize = 3
  TTL = 2
  MaxTime = 2
  MaxCalls = 4
  MaxFaults = 1
INVARIANTS
  NoOtherLeak
PROPERTIES
  OnlyTwoTraps
  ImplementsSingleFlight
  NoRerunWithinTTL
CHECK_DEADLOCK FALSE
