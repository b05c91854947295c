\* The types, and the retries of a dispatch.
SPECIFICATION Spec
CONSTANTS
  other = other
  Events = {e1}
  Subscriptions <- AllOrOther
  Endpoints = {w1, w2}
  Replayers = {r1, r2}
  MaxAttempts = 2
  BatchLimit = 2
  MaxChanges = 1
  MaxReplays = 3
INVARIANTS
  TypeOK
  RetriesAreDue
SYMMETRY Symmetry
CHECK_DEADLOCK FALSE
