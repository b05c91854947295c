\* Two life-cycle requests with different keys over PostgreSQL rows.
SPECIFICATION Spec
CONSTANTS
  Intents = {i1}
  NoIntent = NoIntent
  Handlers = {h1, h2}
  Keys = {k1, k2}
  Chargebacks = {c1}
  Operations = {"create", "confirm", "capture", "cancel"}
  SharedRecords = FALSE
  MaxAmount = 2
  MaxCandidates = 2
  MaxRequests = 3
  MaxFaults = 0
PROPERTIES
  StatusFollowsStateMachine
SYMMETRY Symmetry
CHECK_DEADLOCK FALSE
