\* One fault is enough to lose an event.
SPECIFICATION LiveSpec
CONSTANTS
  Events = {e1, e2}
  Consumers = {c1}
  BatchSize = 2
  MaxResends = 0
  MaxFaults = 1
PROPERTIES
  EventsArrive
CHECK_DEADLOCK FALSE
