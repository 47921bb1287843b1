---------------------------- MODULE MCRateLimiter ----------------------------
(* RateLimiter with a few requests, more than two windows admit.            *)
EXTENDS RateLimiter, TLC

\* No definition tells two requests apart.
Symmetry == Permutations(Requests)
=============================================================================
