---------------------- MODULE MCMemoryIdempotencyStore ----------------------
(* Model-checking definitions for MemoryIdempotencyStore. *)
EXTENDS MemoryIdempotencyStore, TLC

\* Callers are interchangeable, and so are slots.
Symmetry == Permutations(Callers) \cup Permutations(Slots)
=============================================================================
