----------------------------- MODULE MCPagination -----------------------------
(* Model-checking definitions for Pagination. *)
EXTENDS Pagination

MCEntryTypes == {"capture", "refund"}

\* Nothing that happens after the walk's end is of interest.
WalkGoesOn == walk.pc # "done"

\* Bound: the two lists whose items may show up late and differ in time, identifier
\* and filter end with three of them.
FewItems == listing \in {"intents_postgres", "events_durable"} => Len(store) <= 3
=============================================================================
