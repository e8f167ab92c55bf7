--------------------------- MODULE MCRateLimiter ---------------------------
(* Three requests against limits of 1 and 2, two ticks to the second: every *)
(* counter can be met below and at its limit and after it has expired.      *)
EXTENDS RateLimiter, TLC

Symmetry == Permutations(Requests)
=============================================================================
