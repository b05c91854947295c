\* A replay that fails undoes one that succeeded meanwhile.
SPECIFICATION Spec
CONSTANTS
  other = other
  Events = {e1}
  Subscriptions <- AllOrOther
  Endpoints = {w1}
  Replayers = {r1, r2}
  MaxAttempts = 1
  BatchLimit = 2
  MaxChanges = 0
  MaxReplays = 2
PROPERTIES
  StaysReplayed
CHECK_DEADLOCK FALSE
