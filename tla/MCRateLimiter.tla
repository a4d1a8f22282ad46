---------------------------- MODULE MCRateLimiter ----------------------------
(* The rate limiter with few checks and short windows. *)
EXTENDS RateLimiter, TLC

Symmetry == Permutations(Checks)
=============================================================================
