---------------------------- MODULE MCRateLimiter ----------------------------
(* One client more than the LRU has room for. *)
EXTENDS RateLimiter

CONSTANTS p1, c1, c2, c3

MCSymmetry == Permutations(Client)
=============================================================================
