\* Every list function; four items, pages of one or two, items of one time in any order of identifiers;
\* three items where the order of arrival is free (FewItems).
SPECIFICATION PSpec
CONSTANTS
  Ids = {1, 2, 3, 4}
  Limits = {1, 2}
  Listings <- AllListings
  EntryTypes <- MCEntryTypes
  MaxTime = 1
  MaxChanges = 1
CONSTRAINTS
  WalkGoesOn
  FewItems
INVARIANTS
  NoItemTwice
  NothingSkipped
  SummaryOfOneMoment
CHECK_DEADLOCK FALSE
