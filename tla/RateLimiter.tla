----------------------------- MODULE RateLimiter -----------------------------
(***************************************************************************)
(* The limiter that GET /polls/{id}, POST token and POST votes share: one  *)
(* token bucket per poll and client address, in an LRU of bounded size.    *)
(* Time is counted in refills of one token.  Beside it runs the limiter    *)
(* one would have with unbounded memory, which knows its clients: it is    *)
(* history, against which the real one is measured.                        *)
(***************************************************************************)
EXTENDS Integers, SequencesExt

CONSTANTS
  Poll, Client,
  Proxy, NoAddress, \* the ingress; a header that is missing or no address
  TrustProxy,       \* Config.TrustProxyHeaders
  Burst, MaxKeys,
  MaxTime, MaxRequests  \* bounds of the clock and of the requests

ASSUME LimiterAssumption ==
  /\ IsFiniteSet(Poll) /\ IsFiniteSet(Client)
  /\ NoAddress \notin Client
  /\ Proxy \notin Client
  /\ TrustProxy \in BOOLEAN
  /\ Burst \in Nat
  /\ MaxKeys \in Nat \ {0}
  /\ MaxTime \in Nat
  /\ MaxRequests \in Nat

VARIABLES
  clock, requests,
  recent,   \* the keys of the LRU, the latest used first
  tokens,   \* tokens[k]: what k's bucket holds, a full one if k has none
  evicted,  \* evicted[k]: how often k's bucket was evicted
  ideal,    \* ideal[v]: v's bucket in the unbounded limiter
  granted,  \* granted[v]: requests of v let through
  lead,     \* lead[v]: how many more than the unbounded limiter let through
  others    \* others[v]: voters seen since v was, all (v too) if it never was

vars == <<clock, requests, recent, tokens, evicted, ideal, granted, lead,
          others>>

Voter == Poll \X Client
Key   == Poll \X (Client \cup {Proxy})

TypeOK ==
  /\ clock \in Nat
  /\ requests \in Nat
  /\ recent \in Seq(Key) /\ Len(recent) <= MaxKeys
  /\ tokens \in [Key -> 0 .. Burst]
  /\ evicted \in [Key -> Nat]
  /\ ideal \in [Voter -> 0 .. Burst]
  /\ granted \in [Voter -> Nat]
  /\ lead \in [Voter -> Int]
  /\ others \in [Voter -> SUBSET Voter]

Init ==
  /\ clock = 0
  /\ requests = 0
  /\ recent = << >>
  /\ tokens = [k \in Key |-> Burst]
  /\ evicted = [k \in Key |-> 0]
  /\ ideal = [v \in Voter |-> Burst]
  /\ granted = [v \in Voter |-> 0]
  /\ lead = [v \in Voter |-> 0]
  /\ others = [v \in Voter |-> Voter]

-----------------------------------------------------------------------------
(* What a request of client c looks like: its address is at the connection *)
(* or, behind a trusted ingress, in X-Forwarded-For or X-Real-IP.  The     *)
(* ingress is one that sets a header itself: what a client sent there does *)
(* not get through, and no request comes without (all such would share the *)
(* bucket of the ingress).                                                 *)
Delivered(c) ==
  IF TrustProxy
  THEN [forwarded : {c}, real : Client \cup {NoAddress}, remote : {Proxy}]
         \cup [forwarded : {NoAddress}, real : {c}, remote : {Proxy}]
  ELSE [forwarded : Client \cup {NoAddress}, real : Client \cup {NoAddress},
        remote : {c}]

(* Mutant: the connection's address, whatever the deployment. *)
ClientIP_Remote(req) == req.remote

ClientIP(req) ==
  IF TrustProxy /\ req.forwarded # NoAddress THEN req.forwarded
  ELSE IF TrustProxy /\ req.real # NoAddress THEN req.real
  ELSE req.remote

VoteRateLimitKey(p, req) == <<p, ClientIP(req)>>

(* Mutant: Peek instead of Get. *)
Used_Peek(k) == IF k \in ToSet(recent) THEN recent ELSE <<k>> \o recent

(* Get or Add: k becomes the latest used key. *)
Used(k) ==
  IF k \in ToSet(recent)
  THEN <<k>> \o RemoveAt(recent, CHOOSE n \in DOMAIN recent : recent[n] = k)
  ELSE <<k>> \o recent

(* The LRU forgets what does not fit. *)
Fitting(s) == SubSeq(s, 1, IF Len(s) > MaxKeys THEN MaxKeys ELSE Len(s))

(* Mutant: a new bucket starts without tokens. *)
Fresh_Empty == 0

Fresh == Burst

(* Mutants: Allow takes nothing; it takes what is not there. *)
Left_Free(n) == n
Left_Debt(n) == n - 1

(* rate.Limiter.Allow: what is left of n tokens, one request later. *)
Left(n) == IF n > 0 THEN n - 1 ELSE 0

One(n) == IF n > 0 THEN 1 ELSE 0

(* A request of client c for poll p. *)
Allow(p, c, req) ==
  LET me   == <<p, c>>
      k    == VoteRateLimitKey(p, req)
      kept == Fitting(Used(k))
      out  == ToSet(recent) \ ToSet(kept)
      pass == One(tokens[k])
  IN
  /\ requests < MaxRequests
  /\ requests' = requests + 1
  /\ recent' = kept
  /\ tokens' = [x \in Key |-> IF x \in out THEN Fresh
                              ELSE IF x = k THEN Left(tokens[k]) ELSE tokens[x]]
  /\ evicted' = [x \in Key |-> IF x \in out THEN evicted[x] + 1 ELSE evicted[x]]
  /\ ideal' = [ideal EXCEPT ![me] = Left(@)]
  /\ granted' = [granted EXCEPT ![me] = @ + pass]
  /\ lead' = [lead EXCEPT ![me] = @ + pass - One(ideal[me])]
  /\ others' = [v \in Voter |-> IF v = me THEN {} ELSE others[v] \cup {me}]
  /\ UNCHANGED clock

Refilled(n) == IF n < Burst THEN n + 1 ELSE Burst

Tick ==
  /\ clock < MaxTime
  /\ clock' = clock + 1
  /\ tokens' = [k \in Key |-> Refilled(tokens[k])]
  /\ ideal' = [v \in Voter |-> Refilled(ideal[v])]
  /\ UNCHANGED <<requests, recent, granted, lead, evicted, others>>

Next ==
  \/ \E p \in Poll, c \in Client : \E req \in Delivered(c) : Allow(p, c, req)
  \/ Tick

Spec == Init /\ [][Next]_vars

-----------------------------------------------------------------------------
(* "Fails open toward real users": at no time has a client been let        *)
(* through less often than by a limiter that forgets nobody, whoever else  *)
(* asked, through whichever header its address came.                       *)
FailsOpen == \A v \in Voter : lead[v] >= 0

(* And never by more than what the evictions of its bucket give away.      *)
Bounded == \A v \in Voter : granted[v] <= Burst * (1 + evicted[v]) + clock

(* A client is forgotten only after MaxKeys others were seen: the limit of *)
(* a client that keeps asking holds however many clients there are.        *)
BusyClientsKept ==
  \A v \in Voter : v \notin others[v] /\ Cardinality(others[v]) < MaxKeys
                    => v \in ToSet(recent)
=============================================================================
