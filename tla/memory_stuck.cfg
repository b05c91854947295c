\* Fair handlers; the router may have no candidate to offer.
SPECIFICATION FairSpec
CONSTANTS
  Intents = {i1}
  NoIntent = NoIntent
  Handlers = {h1}
  Keys = {k1, k2}
  Chargebacks = {c1}
  Operations = {"create", "confirm"}
  SharedRecords = TRUE
  MaxAmount = 1
  MaxCandidates = 1
  MaxRequests = 3
  MaxFaults = 0
PROPERTIES
  ProcessingEnds
CHECK_DEADLOCK FALSE
