\* Two servers consume two events; two faults and a command sent twice.
SPECIFICATION LiveSpec
CONSTANTS
  Events = {e1, e2}
  Consumers = {c1, c2}
  BatchSize = 2
  MaxResends = 1
  MaxFaults = 2
INVARIANTS
  HandledOnce
  LossLeavesTrace
PROPERTIES
  EventsArriveUndisturbed
CHECK_DEADLOCK FALSE
