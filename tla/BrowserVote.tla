----------------------------- MODULE BrowserVote -----------------------------
(***************************************************************************)
(* One browser, one poll: its tabs share localStorage but not their        *)
(* JavaScript memory, fetch a vote token each when they find none, and     *)
(* retry over a network that delays and loses calls and replies.  Any of   *)
(* the API's processes may answer; their signing secrets are rotated one   *)
(* process at a time.  Expiry is left out: every call falls into the       *)
(* voting window, in which neither tokens nor outcomes expire.             *)
(***************************************************************************)
EXTENDS Integers, FiniteSets, Sequences

CONSTANTS
  Tab, Option, Process,
  None, Absent,                               \* no value; no such field
  MaxTokens, MaxSecret, MaxLoads, MaxSubmits  \* bounds

VARIABLES
  secret,   \* secret[i]: VOTE_TOKEN_SECRET of process i; secret[i] - 1 is its PREV
  issued,   \* issued[k]: the secret token k is signed with
  claimed,  \* claimed[k]: the option of the dedup key of token k
  stray,    \* votes under way whose page no longer waits for them
  stored,   \* the record in localStorage
  page,     \* page[t]: what tab t shows, "away" before its first load
  ref,      \* ref[t]: tokenRef
  memory,   \* memory[t]: its memoryRecords
  choice,   \* choice[t]: the option it submits
  call,     \* call[t]: the request it waits for
  reply,    \* reply[t]: the answer to that request
  closed,   \* closed[t]: closedRejectionCountRef
  told,     \* told[t]: the option it names as counted
  loads, submits,
  refusals, overtakes  \* history: the 401s pages met; the tokens pages stored
                       \* although the browser had voted meanwhile
server == <<secret, issued, claimed>>
bounds == <<loads, submits>>
vars == <<server, stray, stored, page, ref, memory, choice, call, reply, closed,
          told, bounds, refusals, overtakes>>

Token    == 1 .. MaxTokens
Outcome  == {"accepted", "duplicate"}
Waiting  == {"preparing", "submitting", "refreshing"}
Editable == {"ready", "unavailable", "rate-limited", "error"}

\* A call of a page: Ask is POST token.
Vote(k, o) == [token |-> k, option |-> o]
Ask        == Vote(None, None)
Votes      == [token : Token, option : Option]

Reply(s, x) == [status |-> s, value |-> x]
Replies ==
  [status : {"limited", "unauthorized", "closed", "failed"}, value : {None}]
    \cup [status : {"token"}, value : Token]
    \cup [status : Outcome, value : Option]

\* A record of vote-token.ts, dated if it has an expiresAt.  Its outcome may be
\* Absent or, there but undefined, None.
Record == [token : Token \cup {None}, outcome : Outcome \cup {None, Absent},
           dated : BOOLEAN]
NoRecord == [token |-> None, outcome |-> Absent, dated |-> FALSE]

ASSUME BrowserAssumption ==
  /\ {MaxTokens, MaxSecret, MaxLoads, MaxSubmits} \subseteq Nat
  /\ None \notin Option \cup Nat \cup Outcome \cup Votes \cup {Ask} \cup Replies
  /\ Absent \notin Outcome \cup {None}

TypeOK ==
  /\ secret \in [Process -> 0 .. MaxSecret]
  /\ issued \in Seq(0 .. MaxSecret) /\ Len(issued) <= MaxTokens
  /\ claimed \in [Token -> Option \cup {None}]
  /\ stray \subseteq Votes
  /\ stored \in Record
  /\ page \in [Tab -> Waiting \cup Editable \cup Outcome
                        \cup {"away", "server-closed"}]
  /\ ref \in [Tab -> Token \cup {None}]
  /\ memory \in [Tab -> Record]
  /\ choice \in [Tab -> Option \cup {None}]
  /\ call \in [Tab -> Votes \cup {Ask, None}]
  /\ reply \in [Tab -> Replies \cup {None}]
  /\ closed \in [Tab -> 0 .. MaxSubmits]
  /\ told \in [Tab -> Option \cup {None}]
  /\ \A t \in Tab : call[t] = None => reply[t] = None
  /\ loads \in 0 .. MaxLoads
  /\ submits \in 0 .. MaxSubmits
  /\ {refusals, overtakes} \subseteq Nat

Init ==
  /\ secret = [i \in Process |-> 0]
  /\ issued = <<>>
  /\ claimed = [k \in Token |-> None]
  /\ stray = {}
  /\ stored = NoRecord
  /\ page = [t \in Tab |-> "away"]
  /\ memory = [t \in Tab |-> NoRecord]
  /\ closed = [t \in Tab |-> 0]
  /\ ref = [t \in Tab |-> None] /\ choice = ref
  /\ call = ref /\ reply = ref /\ told = ref
  /\ loads = 0 /\ submits = 0
  /\ refusals = 0 /\ overtakes = 0

-----------------------------------------------------------------------------
(* The pages. *)

\* Mutant: an answer stays behind when its call ends.
Settle_KeepsReply(t, p) ==
  /\ page' = [page EXCEPT ![t] = p]
  /\ call' = [call EXCEPT ![t] = None]
  /\ reply' = reply

\* The call is over and the page shows p.
Settle(t, p) ==
  /\ page' = [page EXCEPT ![t] = p]
  /\ call' = [call EXCEPT ![t] = None]
  /\ reply' = [reply EXCEPT ![t] = None]

\* {...readStoredRecord, ...memory}: a field memory has hides the stored one.
Read(t) ==
  [token   |-> IF memory[t].token # None THEN memory[t].token ELSE stored.token,
   outcome |-> IF memory[t].outcome # Absent THEN memory[t].outcome
                                             ELSE stored.outcome,
   dated   |-> memory[t].dated \/ stored.dated]

ValidToken(record) == IF record.dated THEN record.token ELSE None

\* writeRecord; what is read back has every field, undefined or not.
Defined(outcome) == IF outcome = Absent THEN None ELSE outcome
Write(t, record) ==
  /\ memory' = [memory EXCEPT ![t] = record]
  /\ stored' = [token |-> record.token, outcome |-> Defined(record.outcome),
                dated |-> record.dated]

\* What a call the page drops leaves under way.
Dropped(t) ==
  IF call[t] \in Votes /\ reply[t] = None THEN {call[t]} ELSE {}

\* The page is opened or reloaded; an outcome without a date is removed.
Load(t) ==
  LET lapsed == stored.outcome \in Outcome /\ ~stored.dated
      first  == IF lapsed \/ stored.outcome \notin Outcome THEN "preparing"
                                                           ELSE stored.outcome
  IN  /\ loads < MaxLoads
      /\ loads' = loads + 1
      /\ stray' = stray \cup Dropped(t)
      /\ stored' = IF lapsed THEN NoRecord ELSE stored
      /\ Settle(t, first)
      /\ ref' = [ref EXCEPT ![t] = None]
      /\ memory' = [memory EXCEPT ![t] = NoRecord]
      /\ choice' = [choice EXCEPT ![t] = None]
      /\ closed' = [closed EXCEPT ![t] = 0]
      /\ told' = [told EXCEPT ![t] = None]
      /\ UNCHANGED <<server, submits, refusals, overtakes>>

\* The effect of a fresh page: a stored token makes it ready.
Prepare(t) ==
  LET k == ValidToken(Read(t))
  IN  /\ page[t] = "preparing" /\ call[t] = None
      /\ IF k # None
         THEN /\ page' = [page EXCEPT ![t] = "ready"]
              /\ ref' = [ref EXCEPT ![t] = k]
              /\ UNCHANGED call
         ELSE call' = [call EXCEPT ![t] = Ask] /\ UNCHANGED <<page, ref>>
      /\ UNCHANGED <<server, stray, stored, memory, choice, reply, closed, told,
                     bounds, refusals, overtakes>>

\* A click on the button: the vote, or first the token it needs.
Submit(t, o) ==
  LET k == IF ref[t] # None THEN ref[t] ELSE ValidToken(Read(t))
  IN  /\ page[t] \in Editable
      /\ submits < MaxSubmits
      /\ submits' = submits + 1
      /\ page' = [page EXCEPT ![t] = "submitting"]
      /\ choice' = [choice EXCEPT ![t] = o]
      /\ ref' = [ref EXCEPT ![t] = k]
      /\ call' = [call EXCEPT ![t] = IF k = None THEN Ask ELSE Vote(k, o)]
      /\ UNCHANGED <<server, stray, stored, memory, reply, closed, told, loads,
                     refusals, overtakes>>

\* What the page does with the token k it waited for.
Continue(t, k) ==
  /\ ref' = [ref EXCEPT ![t] = k]
  /\ \/ page[t] = "preparing" /\ Settle(t, "ready")
     \/ page[t] = "refreshing" /\ Settle(t, "error")
     \/ /\ page[t] = "submitting"
        /\ call' = [call EXCEPT ![t] = Vote(k, choice[t])]
        /\ reply' = [reply EXCEPT ![t] = None]
        /\ UNCHANGED page

\* Mutant: a token that arrives is not weighed against another tab's.
TokenFromAnotherTab_Unread == None
TokenFromAnotherTab == ValidToken(stored)

\* Mutant: the new record is not built upon the one that was there.
NextRecord_Fresh(t, k) == [token |-> k, outcome |-> Absent, dated |-> TRUE]

\* What was there, with the token and its date.
NextRecord(t, k) == [token |-> k, outcome |-> Read(t).outcome, dated |-> TRUE]

\* A token arrives; one that another tab stored meanwhile goes before it.
TokenReply(t) ==
  LET other == TokenFromAnotherTab
      k     == reply[t].value
  IN  /\ call[t] = Ask /\ reply[t] # None /\ reply[t].status = "token"
      /\ IF other # None
         THEN Continue(t, other) /\ UNCHANGED <<memory, stored, overtakes>>
         ELSE /\ Continue(t, k)
              /\ Write(t, NextRecord(t, k))
              /\ overtakes' = IF stored.outcome \in Outcome THEN overtakes + 1
                                                             ELSE overtakes
      /\ UNCHANGED <<server, stray, choice, closed, told, bounds, refusals>>

\* The reply to a vote says what became of it: markVoteOutcome.
VoteReply(t) ==
  LET r == reply[t]
  IN  /\ call[t] \in Votes /\ r # None /\ r.status \in Outcome
      /\ Write(t, [token |-> None, outcome |-> r.status, dated |-> TRUE])
      /\ Settle(t, r.status)
      /\ told' = [told EXCEPT ![t] = r.value]
      /\ UNCHANGED <<server, stray, ref, choice, closed, bounds, refusals,
                     overtakes>>

\* 409 closed: believed the second time.
ClosedReply(t) ==
  LET n == closed[t] + 1
  IN  /\ reply[t] = Reply("closed", None)
      /\ closed' = [closed EXCEPT ![t] = n]
      /\ Settle(t, IF n >= 2 THEN "server-closed" ELSE "unavailable")
      /\ UNCHANGED <<server, stray, stored, ref, memory, choice, told, bounds,
                     refusals, overtakes>>

\* 401: resetVoteToken drops the token, and another is asked for.
Unauthorized(t) ==
  /\ reply[t] = Reply("unauthorized", None)
  /\ Write(t, [token |-> None, outcome |-> Defined(Read(t).outcome),
               dated |-> FALSE])
  /\ page' = [page EXCEPT ![t] = "refreshing"]
  /\ ref' = [ref EXCEPT ![t] = None]
  /\ call' = [call EXCEPT ![t] = Ask]
  /\ reply' = [reply EXCEPT ![t] = None]
  /\ refusals' = refusals + 1
  /\ UNCHANGED <<server, stray, choice, closed, told, bounds, overtakes>>

\* 429, 503 and the other errors, of either call.
Failure(t) ==
  /\ reply[t] \in {Reply("limited", None), Reply("failed", None)}
  /\ Settle(t, IF reply[t].status = "limited" THEN "rate-limited" ELSE "error")
  /\ UNCHANGED <<server, stray, stored, ref, memory, choice, closed, told,
                 bounds, refusals, overtakes>>

\* Ten seconds without an answer, or a broken connection.
GiveUp(t) ==
  /\ call[t] # None
  /\ stray' = stray \cup Dropped(t)
  /\ Settle(t, "error")
  /\ UNCHANGED <<server, stored, ref, memory, choice, closed, told, bounds,
                 refusals, overtakes>>

-----------------------------------------------------------------------------
(* The API. *)

\* VerifyVoteToken: signed with the current or the previous secret.
Verifies(i, k) == issued[k] \in {secret[i], secret[i] - 1}

\* Mutant: SET without NX.
TryClaim_Overwrites(v) == claimed' = [claimed EXCEPT ![v.token] = v.option]

\* SET NX GET: the first option stays.
TryClaim(v) ==
  claimed' = [claimed EXCEPT ![v.token] = IF @ = None THEN v.option ELSE @]

\* castVoteHandler on process i answers r; "failed" is any other error, one
\* that follows the claim included.
CastVote(i, v, r) ==
  \/ r = Reply("limited", None) /\ UNCHANGED claimed
  \/ ~Verifies(i, v.token) /\ r = Reply("unauthorized", None) /\ UNCHANGED claimed
  \/ /\ Verifies(i, v.token)
     /\ r \in {Reply("closed", None), Reply("failed", None)}
     /\ UNCHANGED claimed
  \/ /\ Verifies(i, v.token)
     /\ TryClaim(v)
     /\ r \in {Reply("failed", None),
               IF claimed[v.token] = None THEN Reply("accepted", v.option)
                  ELSE Reply("duplicate", claimed'[v.token])}

\* issueVoteTokenHandler.
Issue(t, i) ==
  /\ call[t] = Ask /\ reply[t] = None
  /\ \/ /\ Len(issued) < MaxTokens
        /\ issued' = Append(issued, secret[i])
        /\ reply' = [reply EXCEPT ![t] = Reply("token", Len(issued) + 1)]
     \/ /\ \E s \in {"limited", "failed"} :
             reply' = [reply EXCEPT ![t] = Reply(s, None)]
        /\ UNCHANGED issued
  /\ UNCHANGED <<secret, claimed, stray, stored, page, ref, memory, choice, call,
                 closed, told, bounds, refusals, overtakes>>

Serve(t, i) ==
  /\ call[t] \in Votes /\ reply[t] = None
  /\ \E r \in Replies :
       CastVote(i, call[t], r) /\ reply' = [reply EXCEPT ![t] = r]
  /\ UNCHANGED <<secret, issued, stray, stored, page, ref, memory, choice, call,
                 closed, told, bounds, refusals, overtakes>>

ServeStray(v, i) ==
  /\ v \in stray
  /\ \E r \in Replies : CastVote(i, v, r)
  /\ stray' = stray \ {v}
  /\ UNCHANGED <<secret, issued, stored, page, ref, memory, choice, call, reply,
                 closed, told, bounds, refusals, overtakes>>

\* A process is restarted with the next secret; none runs two ahead.
Rotate(i) ==
  /\ secret[i] < MaxSecret
  /\ \A j \in Process : secret[i] <= secret[j]
  /\ secret' = [secret EXCEPT ![i] = @ + 1]
  /\ UNCHANGED <<issued, claimed, stray, stored, page, ref, memory, choice, call,
                 reply, closed, told, bounds, refusals, overtakes>>

Next ==
  \/ \E t \in Tab :
       \/ Load(t) \/ Prepare(t) \/ GiveUp(t)
       \/ TokenReply(t) \/ VoteReply(t) \/ ClosedReply(t)
       \/ Unauthorized(t) \/ Failure(t)
       \/ \E o \in Option : Submit(t, o)
       \/ \E i \in Process : Issue(t, i) \/ Serve(t, i)
  \/ \E i \in Process :
       Rotate(i) \/ \E v \in stray : ServeStray(v, i)

Spec == Init /\ [][Next]_vars

-----------------------------------------------------------------------------
\* vote-token.ts:104 looks for another tab's token a second time: tokens that
\* tabs hold or could still find are one, and one more for each that a 401
\* dropped or that a page stored after the browser had voted and forgotten its.
Held == ({stored.token} \cup {ref[t] : t \in Tab}
           \cup {v.token : v \in (stray \cup {call[t] : t \in Tab}) \ {None}})
        \ {None}
TabsShareToken == Cardinality(Held) <= 1 + refusals + overtakes

\* Reloads, timeouts, retries and lost or late calls never give a browser a
\* second ballot; each of the two ways above gives it at most one more.
Ballots   == {k \in Token : claimed[k] # None}
OneBallot == Cardinality(Ballots) <= 1 + refusals + overtakes

\* The option a page names as counted is the one its token's key holds,
\* whichever of the voter's clicks reached the API first.
ToldTheTruth ==
  \A t \in Tab : told[t] # None => claimed[ref[t]] = told[t]

\* Until a 401, no tab's late write makes the browser forget that it voted.
OutcomeKept ==
  refusals = 0 /\ (\E t \in Tab : page[t] \in Outcome) =>
    stored.outcome \in Outcome
=============================================================================
