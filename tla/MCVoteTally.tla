---------------------------- MODULE MCVoteTally ----------------------------
(* Two voters, one of them posting twice, against two processes. *)
EXTENDS VoteTally, TLC

CONSTANTS r1, r2, r3, t1, t2, i1, i2

MCTokenOf == [r \in Request |-> IF r = r3 THEN t2 ELSE t1]

(* The second POST of t1 goes to the other process and may or may not      *)
(* repeat the first one's option.                                          *)
MCPosts == [r \in Request |->
              CASE r = r1 -> {<<i1, 1>>}
                [] r = r2 -> {<<i2, 1>>, <<i2, 2>>}
                [] r = r3 -> {<<i1, 2>>}]
=============================================================================
