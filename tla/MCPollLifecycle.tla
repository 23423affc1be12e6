-------------------------- MODULE MCPollLifecycle --------------------------
(* One poll, an administrator, two processes that may both lead. *)
EXTENDS PollLifecycle

CONSTANTS p1, p2, a1, a2, o1, o2
=============================================================================
