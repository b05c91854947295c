\* The reconciliation of a ledger in PostgreSQL may add up what no moment had.
SPECIFICATION PSpec
CONSTANTS
  Ids = {1, 2, 3, 4}
  Limits = {1, 2}
  Listings = {"ledger_postgres"}
  EntryTypes <- MCEntryTypes
  MaxTime = 1
  MaxChanges = 1
CONSTRAINT WalkGoesOn
INVARIANTS
  PostgresSummaryOfOneMoment
CHECK_DEADLOCK FALSE
