---------------------------- MODULE MCBrowserVote ----------------------------
(* Two tabs, two processes, one rotation of the secret. *)
EXTENDS BrowserVote, TLC

CONSTANTS t1, t2, o1, o2, i1, i2

MCSymmetry == Permutations(Tab) \cup Permutations(Option)
=============================================================================
