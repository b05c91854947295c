-------------------------- MODULE MCDurableEventBus --------------------------
(* Model-checking definitions for DurableEventBus. *)
EXTENDS DurableEventBus, TLC

Symmetry == Permutations(Events) \cup Permutations(Consumers)
=============================================================================
