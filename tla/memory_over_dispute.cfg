\* Two disputes with different keys over the in-memory repository.
SPECIFICATION Spec
CONSTANTS
  Intents = {i1}
  NoIntent = NoIntent
  Handlers = {h1, h2}
  Keys = {k1, k2}
  Chargebacks = {c1, c2}
  Operations = {"create", "confirm", "dispute"}
  SharedRecords = TRUE
  MaxAmount = 1
  MaxCandidates = 2
  MaxRequests = 4
  MaxFaults = 0
INVARIANTS
  DisputedWithinCaptured
SYMMETRY Symmetry
CHECK_DEADLOCK FALSE
