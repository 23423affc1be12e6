---------------------------- MODULE MCPollCache ----------------------------
(* Two processes; the first serves an administrator and a viewer, the      *)
(* second another administrator, or the schedule worker.                   *)
EXTENDS PollCache

CONSTANTS i1, i2, w1, w2, g1, g2

MCAt == [x \in Writer \cup Reader |-> IF x \in {w1, g1} THEN i1 ELSE i2]
=============================================================================
