------------------------------ MODULE PollFSM ------------------------------
(***************************************************************************)
(* The life every poll promises its audience: it is announced at most once,*)
(* with a voting window that then never moves, goes on air at most once,   *)
(* and once closed stays closed.  PollLifecycle implements it with rows,   *)
(* row locks, administrators and schedule workers.                         *)
(***************************************************************************)
EXTENDS Naturals

CONSTANTS Poll

VARIABLES state,        \* state[p]
          scheduledAt   \* scheduledAt[p]: when the window begins, 0 if unknown

vars == <<state, scheduledAt>>

Init == /\ state = [p \in Poll |-> "none"]
        /\ scheduledAt = [p \in Poll |-> 0]

Draft(p) == /\ state[p] = "none"
            /\ state' = [state EXCEPT ![p] = "draft"]
            /\ UNCHANGED scheduledAt

(* Whoever announces chooses the time. *)
Announce(p) == /\ state[p] \in {"none", "draft"}
               /\ state' = [state EXCEPT ![p] = "scheduled"]
               /\ scheduledAt'[p] \in Nat \ {0}
               /\ scheduledAt' = [scheduledAt EXCEPT ![p] = scheduledAt'[p]]

Air(p) == /\ state[p] = "scheduled"
          /\ state' = [state EXCEPT ![p] = "open"]
          /\ UNCHANGED scheduledAt

End(p) == /\ state[p] \in {"scheduled", "open"}
          /\ state' = [state EXCEPT ![p] = "closed"]
          /\ UNCHANGED scheduledAt

Next == \E p \in Poll : \/ Draft(p)
                        \/ Announce(p)
                        \/ Air(p)
                        \/ End(p)

Spec == Init /\ [][Next]_vars
=============================================================================
