------------------------------ MODULE MCWebhooks ------------------------------
(* Model-checking definitions for Webhooks. *)
EXTENDS Webhooks, TLC

CONSTANT other   \* the type of an event that is never published

\* An endpoint asks for everything, or only for the other type.
AllOrOther == { {}, {other} }

Symmetry == Permutations(Replayers)
=============================================================================
