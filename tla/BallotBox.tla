----------------------------- MODULE BallotBox -----------------------------
(***************************************************************************)
(* What a poll promises its voters, with no servers, counters or flushes:  *)
(* a token's first choice is sealed and never replaced, and only sealed    *)
(* choices are ever published, each token once.  VoteTally implements this *)
(* specification with Redis SET NX keys, per-process counters and          *)
(* background flushes.                                                     *)
(***************************************************************************)
EXTENDS Naturals

CONSTANTS Token,       \* vote tokens (the nonces of their payloads)
          NumOptions   \* options of the poll are the ordinals 1..NumOptions

VARIABLES ballot,      \* ballot[t]: the option sealed for t, 0 if none
          published    \* tokens whose ballots the shared tally includes

vars == <<ballot, published>>

Option == 1 .. NumOptions

Sealed == {t \in Token : ballot[t] # 0}

Init == /\ ballot = [t \in Token |-> 0]
        /\ published = {}

(* The first choice made with a token is the only one. *)
Seal(t, o) == /\ ballot[t] = 0
              /\ ballot' = [ballot EXCEPT ![t] = o]
              /\ UNCHANGED published

(* A batch of sealed ballots reaches the shared tally at once. *)
Publish(batch) == /\ batch \subseteq Sealed \ published
                  /\ published' = published \cup batch
                  /\ UNCHANGED ballot

Next == \/ \E t \in Token, o \in Option : Seal(t, o)
        \/ \E batch \in SUBSET Token : Publish(batch)

Spec == Init /\ [][Next]_vars
=============================================================================
