--------------------------- MODULE MCRateLimiter ---------------------------
(* Model-checking definitions for RateLimiter. *)
EXTENDS RateLimiter, TLC

CONSTANTS v, w   \* servers

\* The second server's clock is ahead of the first one's.
Skewed == v :> 0 @@ w :> MaxSkew

Exact == v :> 0

Symmetry == Permutations(Identities)
=============================================================================
