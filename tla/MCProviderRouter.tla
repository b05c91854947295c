-------------------------- MODULE MCProviderRouter --------------------------
(* Model-checking definitions for ProviderRouter. *)
EXTENDS ProviderRouter, TLC

CONSTANTS a, b, c   \* providers; c does not support the payment method

Policy == <<a, c, b>>

Symmetry == Permutations(Payments)
=============================================================================
