----------------------------- MODULE VoteTally -----------------------------
(***************************************************************************)
(* The vote hot path of one open poll: POST /votes on several API          *)
(* processes, the dedup keys and counter hashes in Redis, the in-memory    *)
(* counters of each process, its once-a-second flusher, and its shutdown.  *)
(*                                                                         *)
(* A counter is modelled by the set of the requests whose increment it     *)
(* holds (its value is the cardinality per field), so that a lost or a     *)
(* repeated increment can be told.  In Redis an increment may be applied   *)
(* more than once, hence applied[r] is a number: the hash field of option  *)
(* o holds the sum of applied[r] over the requests counted for o.          *)
(***************************************************************************)
EXTENDS Naturals, FiniteSets

CONSTANTS
  Request,      \* POST /v1/polls/{id}/votes requests that reach the dedup claim
  Token,        \* vote tokens, by nonce
  Instance,     \* API process incarnations (a restarted process is a new one)
  NoInstance,   \* the instance of a request that has not arrived
  TokenOf,      \* TokenOf[r]: the token request r carries
  Posts,        \* Posts[r]: the <<instance, option_id>> r may be sent with
  NumOptions,   \* the poll's options are 1..NumOptions
  LostReplies,  \* may Redis apply a claim and its reply be lost?
  MaxCuts,      \* bound on pipelines cut after some of their commands applied
  MayStop       \* instances that are ever stopped, by SIGTERM or by a crash

ASSUME TallyAssumption ==
  /\ NumOptions \in Nat \ {0}
  /\ NoInstance \notin Instance
  /\ TokenOf \in [Request -> Token]
  /\ Posts \in [Request -> SUBSET (Instance \X (1 .. NumOptions))]
  /\ LostReplies \in BOOLEAN
  /\ MaxCuts \in Nat
  /\ MayStop \subseteq Instance

VARIABLES
  phase,    \* phase[r]: where request r is in castVoteHandler
  inst,     \* inst[r]: the instance serving r
  option,   \* option[r]: the option_id of its body
  prev,     \* prev[r]: the earlier option a duplicate is answered with
  claim,    \* claim[t]: value of Redis key dedup:{poll}:{nonce}, 0 if absent
  applied,  \* applied[r]: how often r's HINCRBY took effect in Redis
  mem,      \* mem[i]: increments in the instance's PollCounters
  delta,    \* delta[i]: increments swapped out by a FlushPoll in progress
  cursor,   \* cursor[i]: the flusher's position, see the FlushPoll actions
  proc,     \* proc[i]: the process's life, from "up" to "exited" or "killed"
  final,    \* final[i]: the flusher's last FlushAll, after ctx.Done
  cuts,     \* pipelines cut so far
  early     \* history: the votes i had accepted when it was signalled

vars == <<phase, inst, option, prev, claim, applied, mem, delta, cursor, proc,
          final, cuts, early>>

handlerVars == <<phase, inst, option, prev, claim>>
flushVars   == <<applied, mem, delta, cursor, cuts>>
lifeVars    == <<proc, final, early>>

Option    == 1 .. NumOptions
Duplicate == NumOptions + 1   \* the `duplicate` counter comes after the options
Field     == 1 .. Duplicate
Idle      == 0
Sending   == Duplicate + 1    \* every field is swapped, the pipeline is running

InFlight  == {"claiming", "accepting", "rejecting"}
Answered  == {"accepted", "duplicate", "unavailable"}
Phase     == InFlight \cup Answered \cup {"new", "dropped"}
Listening == {"up", "signalled"}
Alive     == Listening \cup {"draining"}

TypeOK ==
  /\ phase \in [Request -> Phase]
  /\ inst \in [Request -> Instance \cup {NoInstance}]
  /\ option \in [Request -> Option \cup {0}]
  /\ prev \in [Request -> Option \cup {0}]
  /\ claim \in [Token -> Option \cup {0}]
  /\ applied \in [Request -> Nat]
  /\ mem \in [Instance -> SUBSET Request]
  /\ delta \in [Instance -> SUBSET Request]
  /\ cursor \in [Instance -> Idle .. Sending]
  /\ proc \in [Instance -> Alive \cup {"exited", "killed"}]
  /\ final \in [Instance -> {"no", "running", "flushed", "failed"}]
  /\ cuts \in Nat
  /\ early \in [Instance -> SUBSET Request]

Init ==
  /\ phase = [r \in Request |-> "new"]
  /\ inst = [r \in Request |-> NoInstance]
  /\ option = [r \in Request |-> 0]
  /\ prev = [r \in Request |-> 0]
  /\ claim = [t \in Token |-> 0]
  /\ applied = [r \in Request |-> 0]
  /\ mem = [i \in Instance |-> {}]
  /\ delta = [i \in Instance |-> {}]
  /\ cursor = [i \in Instance |-> Idle]
  /\ proc = [i \in Instance |-> "up"]
  /\ final = [i \in Instance |-> "no"]
  /\ cuts = 0
  /\ early = [i \in Instance |-> {}]

(* The counter r's increment goes to, once r is counted. *)
FieldOf(r) == IF phase[r] = "duplicate" THEN Duplicate ELSE option[r]

InFlightAt(i) == {r \in Request : inst[r] = i /\ phase[r] \in InFlight}
AcceptedAt(i) == {r \in Request : inst[r] = i /\ phase[r] = "accepted"}

-----------------------------------------------------------------------------
(* castVoteHandler *)

(* A request passes the limiter, the token check, the cached poll's window *)
(* and the option range, none of which changes the tally.                  *)
Arrive(r, i, o) ==
  /\ phase[r] = "new"
  /\ <<i, o>> \in Posts[r]
  /\ proc[i] \in Listening
  /\ phase' = [phase EXCEPT ![r] = "claiming"]
  /\ inst' = [inst EXCEPT ![r] = i]
  /\ option' = [option EXCEPT ![r] = o]
  /\ UNCHANGED <<prev, claim, flushVars, lifeVars>>

(* Mutants: SET GET without NX; the key's value off by one. *)
SetNX_Overwrites(r) == claim' = [claim EXCEPT ![TokenOf[r]] = option[r]]
SetNX_OffByOne(r) == claim' = [claim EXCEPT ![TokenOf[r]] = option[r] + 1]

(* SET key option NX GET EX ttl: the key keeps its first value, which is   *)
(* also the reply.                                                         *)
SetNX(r) ==
  claim' = IF claim[TokenOf[r]] = 0
           THEN [claim EXCEPT ![TokenOf[r]] = option[r]]
           ELSE claim

(* Mutants: a repeated POST with the same option is accepted again; the     *)
(* duplicate reply echoes the request instead of Redis.                    *)
TryClaim_AcceptsRetries(r) ==
  /\ phase[r] = "claiming"
  /\ SetNX(r)
  /\ phase' = [phase EXCEPT ![r] = IF claim[TokenOf[r]] \in {0, option[r]}
                                   THEN "accepting" ELSE "rejecting"]
  /\ prev' = [prev EXCEPT ![r] = claim[TokenOf[r]]]
  /\ UNCHANGED <<inst, option, flushVars, lifeVars>>

TryClaim_EchoesRequest(r) ==
  /\ phase[r] = "claiming"
  /\ SetNX(r)
  /\ phase' = [phase EXCEPT ![r] = IF claim[TokenOf[r]] = 0 THEN "accepting"
                                                             ELSE "rejecting"]
  /\ prev' = [prev EXCEPT ![r] = option[r]]
  /\ UNCHANGED <<inst, option, flushVars, lifeVars>>

TryClaim(r) ==
  /\ phase[r] = "claiming"
  /\ SetNX(r)
  /\ phase' = [phase EXCEPT ![r] = IF claim[TokenOf[r]] = 0 THEN "accepting"
                                                             ELSE "rejecting"]
  /\ prev' = [prev EXCEPT ![r] = claim[TokenOf[r]]]
  /\ UNCHANGED <<inst, option, flushVars, lifeVars>>

(* Redis runs the command but the reply is lost; the client library sends  *)
(* it again or gives up.                                                   *)
LoseClaimReply(r) ==
  /\ LostReplies
  /\ phase[r] = "claiming"
  /\ SetNX(r)
  /\ UNCHANGED <<phase, inst, option, prev, flushVars, lifeVars>>

ClaimUnavailable(r) ==
  /\ phase[r] = "claiming"
  /\ phase' = [phase EXCEPT ![r] = "unavailable"]
  /\ UNCHANGED <<inst, option, prev, claim, flushVars, lifeVars>>

AcceptVote(r) ==
  /\ phase[r] = "accepting"
  /\ phase' = [phase EXCEPT ![r] = "accepted"]
  /\ mem' = [mem EXCEPT ![inst[r]] = @ \cup {r}]
  /\ UNCHANGED <<inst, option, prev, claim, applied, delta, cursor, cuts,
                 lifeVars>>

RejectDuplicate(r) ==
  /\ phase[r] = "rejecting"
  /\ phase' = [phase EXCEPT ![r] = "duplicate"]
  /\ mem' = [mem EXCEPT ![inst[r]] = @ \cup {r}]
  /\ UNCHANGED <<inst, option, prev, claim, applied, delta, cursor, cuts,
                 lifeVars>>

-----------------------------------------------------------------------------
(* The flusher goroutine: FlushAll on each tick, and once after ctx.Done *)

(* select may still take a ready tick when ctx is done as well. *)
StartFlush(i) ==
  /\ cursor[i] = Idle
  /\ proc[i] \in Alive
  /\ final[i] = "no"
  /\ cursor' = [cursor EXCEPT ![i] = 1]
  /\ UNCHANGED <<handlerVars, applied, mem, delta, cuts, lifeVars>>

StartFinalFlush(i) ==
  /\ cursor[i] = Idle
  /\ proc[i] \in Alive \ {"up"}
  /\ final[i] = "no"
  /\ final' = [final EXCEPT ![i] = "running"]
  /\ cursor' = [cursor EXCEPT ![i] = 1]
  /\ UNCHANGED <<handlerVars, applied, mem, delta, cuts, proc, early>>

(* Mutant: the counters are read but not reset. *)
SwapField_NoReset(i) ==
  /\ cursor[i] \in Field
  /\ delta' = [delta EXCEPT ![i] = @ \cup {r \in mem[i] : FieldOf(r) = cursor[i]}]
  /\ cursor' = [cursor EXCEPT ![i] = @ + 1]
  /\ UNCHANGED <<handlerVars, mem, applied, cuts, lifeVars>>

(* One Swap(0): handlers may add to any field between two of them. *)
SwapField(i) ==
  /\ cursor[i] \in Field
  /\ LET taken == {r \in mem[i] : FieldOf(r) = cursor[i]}
     IN  /\ delta' = [delta EXCEPT ![i] = @ \cup taken]
         /\ mem' = [mem EXCEPT ![i] = @ \ taken]
  /\ cursor' = [cursor EXCEPT ![i] = @ + 1]
  /\ UNCHANGED <<handlerVars, applied, cuts, lifeVars>>

(* The first k commands of i's pipeline take effect. *)
Increment(i, k) ==
  applied' = [r \in Request |-> IF r \in delta[i] /\ FieldOf(r) <= k
                                THEN applied[r] + 1 ELSE applied[r]]

(* Mutant: Run returns after whatever flush was in progress at ctx.Done. *)
EndFlush_AnyIsFinal(i, outcome) ==
  /\ cursor' = [cursor EXCEPT ![i] = Idle]
  /\ final' = IF proc[i] # "up" THEN [final EXCEPT ![i] = outcome] ELSE final

(* Mutant: the flusher never reports that its final flush is over. *)
EndFlush_NoDone(i, outcome) ==
  /\ cursor' = [cursor EXCEPT ![i] = Idle]
  /\ final' = final

(* FlushPoll returns; a final flush is the flusher's last act. *)
EndFlush(i, outcome) ==
  /\ cursor' = [cursor EXCEPT ![i] = Idle]
  /\ final' = IF final[i] = "running" THEN [final EXCEPT ![i] = outcome]
                                      ELSE final

(* Every command succeeds; with nothing swapped no pipeline is sent. *)
FlushOk(i) ==
  /\ cursor[i] = Sending
  /\ Increment(i, Duplicate)
  /\ delta' = [delta EXCEPT ![i] = {}]
  /\ EndFlush(i, "flushed")
  /\ UNCHANGED <<handlerVars, mem, cuts, proc, early>>

(* The connection breaks after Redis ran the first k commands. The client  *)
(* library sends the whole pipeline again or gives up.                     *)
CutPipeline(i) ==
  /\ cursor[i] = Sending
  /\ delta[i] # {}
  /\ cuts < MaxCuts
  /\ cuts' = cuts + 1
  /\ \E k \in Field : Increment(i, k)
  /\ UNCHANGED <<handlerVars, mem, delta, cursor, lifeVars>>

(* Mutant: a failed flush discards what it swapped out. *)
FlushFail_Discards(i) ==
  /\ cursor[i] = Sending
  /\ delta[i] # {}
  /\ delta' = [delta EXCEPT ![i] = {}]
  /\ EndFlush(i, "failed")
  /\ UNCHANGED <<handlerVars, mem, applied, cuts, proc, early>>

(* Exec returns an error: RestoreDeltas adds everything back. *)
FlushFail(i) ==
  /\ cursor[i] = Sending
  /\ delta[i] # {}
  /\ mem' = [mem EXCEPT ![i] = @ \cup delta[i]]
  /\ delta' = [delta EXCEPT ![i] = {}]
  /\ EndFlush(i, "failed")
  /\ UNCHANGED <<handlerVars, applied, cuts, proc, early>>

-----------------------------------------------------------------------------
(* The life of a process: main.run *)

(* SIGTERM cancels ctx: from here the flusher and Shutdown race. *)
Signal(i) ==
  /\ i \in MayStop
  /\ proc[i] = "up"
  /\ proc' = [proc EXCEPT ![i] = "signalled"]
  /\ early' = [early EXCEPT ![i] = AcceptedAt(i)]
  /\ UNCHANGED <<handlerVars, flushVars, final>>

(* mainSrv.Shutdown closes the listeners and waits for active requests. *)
Shutdown(i) ==
  /\ proc[i] = "signalled"
  /\ proc' = [proc EXCEPT ![i] = "draining"]
  /\ UNCHANGED <<handlerVars, flushVars, final, early>>

(* Whatever the process held in memory is gone. *)
Terminate(i, how) ==
  /\ proc' = [proc EXCEPT ![i] = how]
  /\ phase' = [r \in Request |-> IF r \in InFlightAt(i) THEN "dropped"
                                                        ELSE phase[r]]
  /\ mem' = [mem EXCEPT ![i] = {}]
  /\ delta' = [delta EXCEPT ![i] = {}]
  /\ cursor' = [cursor EXCEPT ![i] = Idle]
  /\ UNCHANGED <<inst, option, prev, claim, applied, cuts, final, early>>

(* Shutdown has drained every request, bgWG.Wait has seen the flusher return. *)
Exit(i) ==
  /\ proc[i] = "draining"
  /\ InFlightAt(i) = {}
  /\ final[i] \in {"flushed", "failed"}
  /\ Terminate(i, "exited")

(* Shutdown gives up after its ten seconds: run returns without bgWG.Wait. *)
DrainTimeout(i) ==
  /\ proc[i] = "draining"
  /\ InFlightAt(i) # {}
  /\ Terminate(i, "killed")

(* The process dies, or a listener fails and run returns at once. *)
Crash(i) ==
  /\ i \in MayStop
  /\ proc[i] \in Alive
  /\ Terminate(i, "killed")

-----------------------------------------------------------------------------
Handle(r) == \/ TryClaim(r)
             \/ ClaimUnavailable(r)
             \/ AcceptVote(r)
             \/ RejectDuplicate(r)

Flush(i) == \/ StartFlush(i)
            \/ StartFinalFlush(i)
            \/ SwapField(i)
            \/ FlushOk(i)
            \/ FlushFail(i)

Life(i) == \/ Signal(i)
           \/ Shutdown(i)
           \/ Exit(i)
           \/ DrainTimeout(i)
           \/ Crash(i)

Next ==
  \/ \E r \in Request, i \in Instance, o \in Option : Arrive(r, i, o)
  \/ \E r \in Request : Handle(r) \/ LoseClaimReply(r)
  \/ \E i \in Instance : Flush(i) \/ CutPipeline(i) \/ Life(i)

Spec == Init /\ [][Next]_vars

(* Handlers and goroutines are scheduled; the ticker fires; a shutdown     *)
(* that began proceeds; select, which chooses at random, takes ctx.Done    *)
(* some time; Redis does not refuse every pipeline for ever.               *)
Fairness ==
  /\ \A r \in Request : WF_vars(Handle(r))
  /\ \A i \in Instance : /\ WF_vars(Flush(i))
                         /\ SF_vars(StartFinalFlush(i))
                         /\ SF_vars(FlushOk(i))
                         /\ WF_vars(Shutdown(i))
                         /\ WF_vars(Exit(i))

FairSpec == Spec /\ Fairness

-----------------------------------------------------------------------------
(* Safety *)

Counted   == {r \in Request : phase[r] \in {"accepting", "accepted"}}
Published == {r \in Request : phase[r] = "accepted" /\ applied[r] > 0}

(* TryClaim: of all the POSTs that carry one token, on any instances and in *)
(* any order, with retries after lost replies, at most one is counted.     *)
OneVotePerToken ==
  \A q, r \in Counted : TokenOf[q] = TokenOf[r] => q = r

(* The counters and the dedup keys agree: a vote is counted for the option *)
(* its token's key holds, so the tally can be recounted from the keys.     *)
TalliesMatchClaims == \A r \in Counted : claim[TokenOf[r]] = option[r]

(* The option a duplicate is answered with is the one its key holds. *)
DuplicateNamesClaim ==
  \A r \in Request : phase[r] \in {"rejecting", "duplicate"} =>
     prev[r] # 0 /\ prev[r] = claim[TokenOf[r]]

(* SwapDeltas: an increment is in one place only, the counters, the        *)
(* swapped-out deltas or (once) Redis; each pipeline cut half-way adds at   *)
(* most one more to Redis.                                                 *)
CountedOnce ==
  \A r \in Request, i \in Instance :
    /\ applied[r] <= 1 + cuts
    /\ r \in mem[i] \cup delta[i] => applied[r] <= cuts
    /\ r \notin mem[i] \cap delta[i]

(* FlushPoll and RestoreDeltas: whatever Redis answers, a counted vote of a *)
(* living process is in its memory or in Redis.                            *)
NoVoteLost ==
  \A r \in Request, i \in Instance :
    /\ phase[r] \in {"accepted", "duplicate"}
    /\ inst[r] = i
    /\ proc[i] \in Alive
    => r \in mem[i] \cup delta[i] \/ applied[r] > 0

(* Run's final flush: a process that exits cleanly, its final flush done,  *)
(* leaves no vote behind that it had accepted when it was signalled.       *)
EarlyVotesKept ==
  \A i \in Instance :
    proc[i] = "exited" /\ final[i] = "flushed" =>
      \A r \in early[i] : applied[r] > 0

(* Keys are ballots; a token is published once its vote's increment reached *)
(* Redis.                                                                  *)
Box == INSTANCE BallotBox
         WITH ballot <- claim, published <- {TokenOf[r] : r \in Published}

(* The hot path implements the ballot box: no race of POSTs, no failed or  *)
(* repeated flush, crash or shutdown unseals a token's choice, publishes a *)
(* vote that no key holds, or takes a published one back.                  *)
ImplementsBallotBox == Box!Spec

-----------------------------------------------------------------------------
(* Liveness, under FairSpec *)

(* A vote of a process that is not shut down reaches Redis. *)
VotesReachRedis ==
  \A r \in Request, i \in Instance :
    r \in AcceptedAt(i) ~> applied[r] > 0 \/ proc[i] # "up"

(* A signalled process ends: the drain and the final flush never block each *)
(* other.                                                                  *)
ShutdownEnds ==
  \A i \in Instance : proc[i] = "signalled" ~> proc[i] \notin Alive

-----------------------------------------------------------------------------
(* What the repository's comments promise and the code does not keep       *)

(* main.go: "so votes accepted just before shutdown still reach Redis". *)
CleanExitKeepsVotes ==
  \A i \in Instance :
    proc[i] = "exited" /\ final[i] = "flushed" =>
      \A r \in AcceptedAt(i) : applied[r] > 0

(* dedup.go: the option reported is that of "the earlier, successful vote". *)
DuplicateMeansCounted ==
  \A r \in Request : phase[r] = "duplicate" =>
    \E q \in Request \ {r} : /\ TokenOf[q] = TokenOf[r]
                             /\ option[q] = prev[r]
                             /\ phase[q] \notin {"new", "unavailable"}

(* counter.go: a vote is "counted exactly once". *)
AppliedOnce == \A r \in Request : applied[r] <= 1
=============================================================================
