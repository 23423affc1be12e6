--------------------------- MODULE MCVotingWindow ---------------------------
(* One process, where an opening and a close may run at once, beside cold  *)
(* reads; what another process commits is SkipPut.                         *)
EXTENDS VotingWindow, TLC

CONSTANTS i1, j1, j2, g1, r1, r2

MCAt == [c \in Job \cup Reader \cup Request |-> i1]
MCTo == (j1 :> "open") @@ (j2 :> "closed")

MCSymmetry == Permutations(Request)
=============================================================================
