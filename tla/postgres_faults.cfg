\* Fair handlers capture and refund over PostgreSQL rows, and two calls fail.
SPECIFICATION FairSpec
CONSTANTS
  Intents = {i1}
  NoIntent = NoIntent
  Handlers = {h1, h2}
  Keys = {k1}
  Chargebacks = {c1}
  Operations = {"create", "confirm", "capture", "refund"}
  SharedRecords = FALSE
  MaxAmount = 2
  MaxCandidates = 1
  MaxRequests = 4
  MaxFaults = 2
INVARIANTS
  AtMostOnce
  BooksNeverOverstate
  RowsInOrder
PROPERTIES
  EveryRequestEnds
CHECK_DEADLOCK FALSE
