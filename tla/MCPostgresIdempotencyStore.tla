---------------------- MODULE MCPostgresIdempotencyStore ----------------------
(* Model-checking definitions for PostgresIdempotencyStore. *)
EXTENDS PostgresIdempotencyStore, TLC

\* Callers are interchangeable, and so are slots.
Symmetry == Permutations(Callers) \cup Permutations(Slots)
=============================================================================
