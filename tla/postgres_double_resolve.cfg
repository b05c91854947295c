\* Two resolutions of one chargeback over PostgreSQL rows.
SPECIFICATION Spec
CONSTANTS
  Intents = {i1}
  NoIntent = NoIntent
  Handlers = {h1, h2}
  Keys = {k1, k2}
  Chargebacks = {c1}
  Operations = {"create", "confirm", "dispute", "resolve"}
  SharedRecords = FALSE
  MaxAmount = 1
  MaxCandidates = 2
  MaxRequests = 5
  MaxFaults = 0
PROPERTIES
  ChargebackDecidedOnce
SYMMETRY Symmetry
CHECK_DEADLOCK FALSE
