------------------------ MODULE MCPaymentOrchestrator ------------------------
(* Model-checking definitions for PaymentOrchestrator. *)
EXTENDS PaymentOrchestrator, TLC

\* Handlers are interchangeable, and so are keys.
Symmetry == Permutations(Handlers) \cup Permutations(Keys)
=============================================================================
