\* One event, two endpoints that change, and two operators that replay letters one by
\* one and in batches.
SPECIFICATION Spec
CONSTANTS
  other = other
  Events = {e1}
  Subscriptions <- AllOrOther
  Endpoints = {w1, w2}
  Replayers = {r1, r2}
  MaxAttempts = 2
  BatchLimit = 2
  MaxChanges = 1
  MaxReplays = 3
INVARIANTS
  NothingDropped
  ReplayedWasDelivered
  AttemptsNeverOverstate
  LettersTellAll
SYMMETRY Symmetry
CHECK_DEADLOCK FALSE
