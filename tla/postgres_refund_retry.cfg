\* A refund retried with its own key after a crash.
SPECIFICATION Spec
CONSTANTS
  Intents = {i1}
  NoIntent = NoIntent
  Handlers = {h1, h2}
  Keys = {k1}
  Chargebacks = {c1}
  Operations = {"create", "confirm", "refund"}
  SharedRecords = FALSE
  MaxAmount = 2
  MaxCandidates = 2
  MaxRequests = 4
  MaxFaults = 1
INVARIANTS
  OneRefundPerKey
SYMMETRY Symmetry
CHECK_DEADLOCK FALSE
