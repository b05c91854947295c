\* All operations race over the in-memory repository.
SPECIFICATION Spec
CONSTANTS
  Intents = {i1}
  NoIntent = NoIntent
  Handlers = {h1, h2}
  Keys = {k1, k2}
  Chargebacks = {c1}
  Operations = {"create", "confirm", "capture", "cancel", "refund", "dispute", "resolve"}
  SharedRecords = TRUE
  MaxAmount = 2
  MaxCandidates = 2
  MaxRequests = 5
  MaxFaults = 0
INVARIANTS
  ProcessingIsExclusive
  TransitionsAccepted
  CapturedWithinAuthorized
  BooksBalance
  EventsMatchState
PROPERTIES
  ImplementsLifecycle
  ChargebackDecidedOnce
SYMMETRY Symmetry
CHECK_DEADLOCK FALSE
