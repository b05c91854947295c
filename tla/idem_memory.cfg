\* Fair callers of two slots of the in-memory store; results expire.
SPECIFICATION FairSpec
CONSTANTS
  Callers = {a, b, c}
  Nobody = Nobody
  Slots = {s1, s2}
  TTL = 2
  MaxTime = 3
  MaxCalls = 4
INVARIANTS
  OneHolder
PROPERTIES
  EveryCallEnds
  ImplementsSingleFlight
  NoRerunWithinTTL
  NoOvertaking
CHECK_DEADLOCK FALSE
