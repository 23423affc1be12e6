------------------------- MODULE MCResultSnapshots -------------------------
(* Two processes compete for the lease. *)
EXTENDS ResultSnapshots, TLC

CONSTANTS w1, w2

MCSymmetry == Permutations(Worker)
=============================================================================
