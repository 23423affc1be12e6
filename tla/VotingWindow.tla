---------------------------- MODULE VotingWindow ----------------------------
(***************************************************************************)
(* One announced poll from its opening to its last snapshot, against the   *)
(* clock: transitions of its row, the poll caches of processes that start  *)
(* with nothing in them, the gate of castVoteHandler, the creation of the  *)
(* counters, the flusher, and the snapshotter with its five seconds of     *)
(* grace.  No part waits for another; what relates them is only how long   *)
(* each takes.  Every call ends within Latency and every loop runs every   *)
(* Period, the processes share one clock, one of them leads throughout and *)
(* none stops: VoteTally, PollCache and ResultSnapshots are about that.    *)
(***************************************************************************)
EXTENDS Naturals

CONSTANTS
  Process,   \* API processes
  Job,       \* transitions: admin handlers and workers, many in one process
  Reader,    \* GET /polls/{id} requests, which fill a cold cache
  Request,   \* POST /votes requests, each with a token of its own
  NoRequest,
  At,        \* At[c]: the process that runs c, one of the above
  To,        \* To[j]: the state job j asks for
  Period,    \* of the refresh, the flusher and the snapshotter
  Latency,   \* bound on any transaction, query, pipeline or handler
  Grace,     \* closeGrace
  ClosesAt,  \* polls.closes_at
  Second,    \* what a token's expiry is cut to
  Instant,   \* bound on when a process starts or a transition begins, and
  MaxTime    \* of the clock

ASSUME WindowAssumption ==
  /\ At \in [Job \cup Reader \cup Request -> Process]
  /\ To \in [Job -> {"open", "closed"}]
  /\ NoRequest \notin Request
  /\ {Period, Latency, Grace, ClosesAt, MaxTime} \subseteq Nat
  /\ Second \in Nat \ {0}

(* How slow the parts may be for the grace to be long enough. *)
ASSUME GraceAssumption ==
  /\ 0 < Latency /\ 2 * Latency <= Period
  /\ 5 * Latency + 3 * Period < Grace

VARIABLES
  clock,
  row,       \* polls.state
  closedAt,  \* polls.closed_at
  openedOn,  \* history: when the opening and
  closedOn,  \*   the close were committed, 0 if they were not
  job,       \* job[j]: how far transition j is
  started,   \* started[i]: when process i started, 0 when it is down
  seen,      \* seen[i]: the state in i's cache, "none" while it has no entry
  active,    \* active[i]: is the poll in i's actively refreshed set?
  listed,    \* listed[i]: how far the refresh of i is and what it read
  fetch,     \* fetch[g]: the same for a Get
  polls,     \* polls[i]: i's counters of the poll, named after their creator
  pos,       \* pos[r]: how far the vote of r is
  at,        \* at[r]: when r was let in, 0 when it no longer counts
  kept,      \* kept[r]: the counters r works on
  snapNow,   \* the now of the leader's tick, 0 when it is over
  snapped,   \* votes counted in the latest snapshot
  listDue, flushDue, snapDue  \* when each loop runs next

rowVars   == <<row, closedAt, openedOn, closedOn>>
cacheVars == <<started, seen, active, listed, listDue, fetch>>
voteVars  == <<pos, at, polls, kept>>
snapVars  == <<snapNow, snapped, snapDue>>
vars == <<clock, rowVars, job, cacheVars, voteVars, flushDue, snapVars>>

State == {"scheduled", "open", "closed"}
Live  == {"scheduled", "open"}
Idle  == [step |-> "idle", since |-> 0]
NoGet == [read |-> "none", since |-> 0]

TypeOK ==
  /\ clock \in Nat
  /\ row \in State
  /\ {closedAt, openedOn, closedOn} \subseteq Nat
  /\ job \in [Job -> [step : {"idle", "tx", "put"}, since : Nat]]
  /\ started \in [Process -> Nat]
  /\ seen \in [Process -> State \cup {"none"}]
  /\ active \in [Process -> BOOLEAN]
  /\ listed \in [Process -> State \cup {"none", "asked", "unasked", "nothing"}]
  /\ fetch \in [Reader -> [read : State \cup {"none", "asked"}, since : Nat]]
  /\ polls \in [Process -> Request \cup {NoRequest}]
  /\ pos \in [Request -> {"out", "in", "miss", "hold", "held", "sent",
                          "counted", "refused"}]
  /\ at \in [Request -> Nat]
  /\ kept \in [Request -> Request \cup {NoRequest}]
  /\ snapNow \in Nat
  /\ snapped \subseteq Request
  /\ listDue \in [Process -> Nat]
  /\ flushDue \in [Process -> Nat]
  /\ snapDue \in Nat

(* The poll is announced, or was just opened by a process that is not one  *)
(* of these; none of them runs yet but the leader.                         *)
Init ==
  /\ clock = 1
  /\ row \in Live
  /\ closedAt = 0
  /\ openedOn = IF row = "open" THEN clock ELSE 0
  /\ closedOn = 0
  /\ job = [j \in Job |-> Idle]
  /\ started = [i \in Process |-> 0]
  /\ seen = [i \in Process |-> "none"]
  /\ active = [i \in Process |-> FALSE]
  /\ listed = [i \in Process |-> "none"]
  /\ fetch = [g \in Reader |-> NoGet]
  /\ polls = [i \in Process |-> NoRequest]
  /\ pos = [r \in Request |-> "out"]
  /\ at = [r \in Request |-> 0]
  /\ kept = [r \in Request |-> NoRequest]
  /\ snapNow = 0
  /\ snapped = {}
  /\ listDue = [i \in Process |-> 0]
  /\ flushDue = [i \in Process |-> 0]
  /\ snapDue \in 1 .. Period

Up(c) == started[At[c]] # 0

-----------------------------------------------------------------------------
(* TransitionPoll and the Put that follows it *)

AllowedTransition(from, to) ==
  <<from, to>> \in {<<"scheduled", "open">>, <<"scheduled", "closed">>,
                    <<"open", "closed">>}

(* Mutant: the Put comes before the COMMIT. *)
Begin_Puts(j) ==
  /\ job[j].step = "idle"
  /\ Up(j)
  /\ AllowedTransition(row, To[j])
  /\ clock \in Instant
  /\ job' = [job EXCEPT ![j] = [step |-> "tx", since |-> clock]]
  /\ seen' = [seen EXCEPT ![At[j]] = To[j]]
  /\ UNCHANGED <<clock, rowVars, started, active, listed, listDue, fetch,
                 voteVars, flushDue, snapVars>>

(* BEGIN: the transaction's now().  A transaction that could not succeed   *)
(* any more changes nothing and is left out.                               *)
Begin(j) ==
  /\ job[j].step = "idle"
  /\ Up(j)
  /\ AllowedTransition(row, To[j])
  /\ clock \in Instant
  /\ job' = [job EXCEPT ![j] = [step |-> "tx", since |-> clock]]
  /\ UNCHANGED <<clock, rowVars, cacheVars, voteVars, flushDue, snapVars>>

(* The row lock, the check and the COMMIT, as one step (PollLifecycle):    *)
(* closed_at is when the transaction began, not when it got the lock.      *)
Commit(j) ==
  /\ job[j].step = "tx"
  /\ AllowedTransition(row, To[j])
  /\ row' = To[j]
  /\ closedAt' = IF To[j] = "closed" THEN job[j].since ELSE closedAt
  /\ openedOn' = IF To[j] = "open" THEN clock ELSE openedOn
  /\ closedOn' = IF To[j] = "closed" THEN clock ELSE closedOn
  /\ job' = [job EXCEPT ![j] = [step |-> "put", since |-> clock]]
  /\ UNCHANGED <<clock, cacheVars, voteVars, flushDue, snapVars>>

Refuse(j) ==
  /\ job[j].step = "tx"
  /\ ~AllowedTransition(row, To[j])
  /\ job' = [job EXCEPT ![j] = Idle]
  /\ UNCHANGED <<clock, rowVars, cacheVars, voteVars, flushDue, snapVars>>

Put(j) ==
  /\ job[j].step = "put"
  /\ seen' = [seen EXCEPT ![At[j]] = To[j]]
  /\ active' = [active EXCEPT ![At[j]] = To[j] \in Live]
  /\ job' = [job EXCEPT ![j] = Idle]
  /\ UNCHANGED <<clock, rowVars, started, listed, listDue, fetch, voteVars,
                 flushDue, snapVars>>

(* The reply to the COMMIT is lost, or another instance's worker ran j. *)
SkipPut(j) ==
  /\ job[j].step = "put"
  /\ job' = [job EXCEPT ![j] = Idle]
  /\ UNCHANGED <<clock, rowVars, cacheVars, voteVars, flushDue, snapVars>>

-----------------------------------------------------------------------------
(* The cache: main starts its Run, which refreshes before its first tick *)

Start(i) ==
  /\ started[i] = 0
  /\ clock \in Instant
  /\ started' = [started EXCEPT ![i] = clock]
  /\ listed' = [listed EXCEPT ![i] = "unasked"]
  /\ listDue' = [listDue EXCEPT ![i] = clock + Period]
  /\ flushDue' = [flushDue EXCEPT ![i] = clock + Period]
  /\ UNCHANGED <<clock, rowVars, job, seen, active, fetch, voteVars, snapVars>>

(* refresh copies the active set: is the poll asked for by its id? *)
StartRefresh(i) ==
  /\ started[i] # 0
  /\ clock = listDue[i]
  /\ listed[i] = "none"
  /\ listed' = [listed EXCEPT ![i] = IF active[i] THEN "asked" ELSE "unasked"]
  /\ listDue' = [listDue EXCEPT ![i] = @ + Period]
  /\ UNCHANGED <<clock, rowVars, job, started, seen, active, fetch, voteVars,
                 flushDue, snapVars>>

(* Mutant: a poll that was live at the last tick is not read again. *)
ListPolls_OnlyLive(i) ==
  /\ listed[i] \in {"asked", "unasked"}
  /\ listed' = [listed EXCEPT ![i] = IF row \in Live THEN row ELSE "nothing"]
  /\ UNCHANGED <<clock, rowVars, job, started, seen, active, listDue, fetch,
                 voteVars, flushDue, snapVars>>

ListPolls(i) ==
  /\ listed[i] \in {"asked", "unasked"}
  /\ listed' = [listed EXCEPT ![i] = IF row \in Live \/ @ = "asked"
                                     THEN row ELSE "nothing"]
  /\ UNCHANGED <<clock, rowVars, job, started, seen, active, listDue, fetch,
                 voteVars, flushDue, snapVars>>

(* The initial refresh: the ticker is created when it has ended. *)
Initial(i) == listed[i] # "none" /\ listDue[i] = started[i] + Period

(* Mutant: what was not read is stored as well. *)
StoreFresh_All(i) ==
  /\ listed[i] \in State \cup {"nothing"}
  /\ seen' = [seen EXCEPT ![i] = listed[i]]
  /\ active' = [active EXCEPT ![i] = listed[i] \in Live]
  /\ listed' = [listed EXCEPT ![i] = "none"]
  /\ listDue' = [listDue EXCEPT ![i] = IF Initial(i) THEN clock + Period ELSE @]
  /\ UNCHANGED <<clock, rowVars, job, started, fetch, voteVars, flushDue,
                 snapVars>>

StoreFresh(i) ==
  /\ listed[i] \in State \cup {"nothing"}
  /\ seen' = [seen EXCEPT ![i] = IF listed[i] \in State THEN listed[i] ELSE @]
  /\ active' = [active EXCEPT ![i] = listed[i] \in Live]
  /\ listed' = [listed EXCEPT ![i] = "none"]
  /\ listDue' = [listDue EXCEPT ![i] = IF Initial(i) THEN clock + Period ELSE @]
  /\ UNCHANGED <<clock, rowVars, job, started, fetch, voteVars, flushDue,
                 snapVars>>

(* Get: a miss, the query, and store, which asks neither what is cached by *)
(* now nor for the poll to be refreshed.                                   *)
Miss(g) ==
  /\ fetch[g].read = "none"
  /\ Up(g)
  /\ seen[At[g]] = "none"
  /\ fetch' = [fetch EXCEPT ![g] = [read |-> "asked", since |-> clock]]
  /\ UNCHANGED <<clock, rowVars, job, started, seen, active, listed, listDue,
                 voteVars, flushDue, snapVars>>

LoadPoll(g) ==
  /\ fetch[g].read = "asked"
  /\ fetch' = [fetch EXCEPT ![g].read = row]
  /\ UNCHANGED <<clock, rowVars, job, started, seen, active, listed, listDue,
                 voteVars, flushDue, snapVars>>

StorePoll(g) ==
  /\ fetch[g].read \in State
  /\ seen' = [seen EXCEPT ![At[g]] = fetch[g].read]
  /\ fetch' = [fetch EXCEPT ![g] = NoGet]
  /\ UNCHANGED <<clock, rowVars, job, started, active, listed, listDue,
                 voteVars, flushDue, snapVars>>

-----------------------------------------------------------------------------
(* castVoteHandler *)

(* closes_at cut to the whole second the token holds. *)
Expiry_OneEarlier == (ClosesAt \div Second) * Second - Second

Expiry == (ClosesAt \div Second) * Second

(* The verified token has not expired, there is a cached poll (it is not   *)
(* fetched here), it is open, and the window has not ended.                *)
Admits(i) == Expiry > clock /\ seen[i] = "open" /\ clock < ClosesAt

Arrive(r) ==
  /\ pos[r] = "out"
  /\ Up(r)
  /\ IF Admits(At[r])
     THEN pos' = [pos EXCEPT ![r] = "in"] /\ at' = [at EXCEPT ![r] = clock]
     ELSE pos' = [pos EXCEPT ![r] = "refused"] /\ UNCHANGED at
  /\ UNCHANGED <<clock, rowVars, job, cacheVars, polls, kept, flushDue,
                 snapVars>>

(* ForPoll: Load, then LoadOrStore of an allocation of one's own. *)
LoadCounters(r) ==
  LET pc == polls[At[r]] IN
  /\ pos[r] = "in"
  /\ kept' = [kept EXCEPT ![r] = pc]
  /\ pos' = [pos EXCEPT ![r] = IF pc = NoRequest THEN "miss" ELSE "hold"]
  /\ UNCHANGED <<clock, rowVars, job, cacheVars, at, polls, flushDue,
                 snapVars>>

StoreCounters(r) ==
  /\ pos[r] = "miss"
  /\ polls' = [polls EXCEPT ![At[r]] = IF @ = NoRequest THEN r ELSE @]
  /\ kept' = [kept EXCEPT ![r] = polls'[At[r]]]
  /\ pos' = [pos EXCEPT ![r] = "hold"]
  /\ UNCHANGED <<clock, rowVars, job, cacheVars, at, flushDue, snapVars>>

AcceptVote(r) ==
  /\ pos[r] = "hold"
  /\ pos' = [pos EXCEPT ![r] = "held"]
  /\ at' = [at EXCEPT ![r] = 0]
  /\ UNCHANGED <<clock, rowVars, job, cacheVars, polls, kept, flushDue,
                 snapVars>>

(* The claim failed (before ForPoll), or found an earlier vote (after it). *)
RejectVote(r) ==
  /\ pos[r] \in {"in", "hold"}
  /\ pos' = [pos EXCEPT ![r] = "refused"]
  /\ at' = [at EXCEPT ![r] = 0]
  /\ kept' = [kept EXCEPT ![r] = NoRequest]
  /\ UNCHANGED <<clock, rowVars, job, cacheVars, polls, flushDue, snapVars>>

-----------------------------------------------------------------------------
(* FlushPoll and the snapshotter *)

Move(votes, to) == pos' = [r \in Request |-> IF r \in votes THEN to ELSE pos[r]]

Sent(i) == {r \in Request : pos[r] = "sent" /\ At[r] = i}

(* SwapDeltas of the counters Range finds, the others are out of reach. *)
Flush(i) ==
  /\ started[i] # 0
  /\ clock = flushDue[i]
  /\ Sent(i) = {}
  /\ Move({r \in Request : /\ pos[r] = "held"
                           /\ At[r] = i
                           /\ kept[r] = polls[i]}, "sent")
  /\ flushDue' = [flushDue EXCEPT ![i] = @ + Period]
  /\ UNCHANGED <<clock, rowVars, job, cacheVars, at, polls, kept,
                 snapVars>>

Increment(i) ==
  /\ Sent(i) # {}
  /\ Move(Sent(i), "counted")
  /\ UNCHANGED <<clock, rowVars, job, cacheVars, at, polls, kept,
                 flushDue, snapVars>>

(* The leader's tick: its now is taken after the election, which takes up  *)
(* to Latency from the tick on.                                            *)
IsLeader ==
  /\ snapNow = 0
  /\ snapDue <= clock
  /\ snapNow' = clock
  /\ snapDue' = snapDue + Period
  /\ UNCHANGED <<clock, rowVars, job, cacheVars, voteVars, flushDue, snapped>>

(* Mutant: review finding B2, closed polls are no candidates. *)
Candidate_OpenOnly == row = "open"

Candidate == row = "open" \/ (row = "closed" /\ closedAt + Grace > snapNow)

(* The candidates, the counts and the insert as one step: the counts, read *)
(* last, can only grow, and no transition makes a candidate no candidate.  *)
Snapshot ==
  /\ snapNow # 0
  /\ snapNow' = 0
  /\ snapped' = IF Candidate THEN {r \in Request : pos[r] = "counted"}
                             ELSE snapped
  /\ UNCHANGED <<clock, rowVars, job, cacheVars, voteVars, flushDue, snapDue>>

-----------------------------------------------------------------------------
(* Whatever has to happen now happens before the clock moves on. *)
ProcessInTime(i) ==
  /\ clock < listDue[i]
  /\ clock < flushDue[i]
  /\ listed[i] = "none" \/ clock + Period < listDue[i] + Latency
  /\ Sent(i) = {} \/ clock + Period < flushDue[i] + Latency

LeaderInTime == IF snapNow = 0 THEN clock < snapDue + Latency
                               ELSE clock < snapNow + Latency

Tick ==
  /\ clock < MaxTime
  /\ \A j \in Job : job[j].step = "idle" \/ clock < job[j].since + Latency
  /\ \A i \in Process : started[i] = 0 \/ ProcessInTime(i)
  /\ \A g \in Reader : \/ fetch[g].read = "none"
                       \/ clock < fetch[g].since + Latency
  /\ \A r \in Request : \/ pos[r] \notin {"in", "miss", "hold"}
                        \/ clock < at[r] + Latency
  /\ LeaderInTime
  /\ clock' = clock + 1
  /\ UNCHANGED <<rowVars, job, cacheVars, voteVars, flushDue, snapVars>>

Next ==
  \/ \E j \in Job : Begin(j) \/ Commit(j) \/ Refuse(j) \/ Put(j) \/ SkipPut(j)
  \/ \E i \in Process : \/ Start(i) \/ StartRefresh(i) \/ ListPolls(i)
                        \/ StoreFresh(i) \/ Flush(i) \/ Increment(i)
  \/ \E g \in Reader : Miss(g) \/ LoadPoll(g) \/ StorePoll(g)
  \/ \E r \in Request : \/ Arrive(r) \/ LoadCounters(r) \/ StoreCounters(r)
                        \/ AcceptVote(r) \/ RejectVote(r)
  \/ IsLeader \/ Snapshot
  \/ Tick

Spec == Init /\ [][Next]_vars

-----------------------------------------------------------------------------
Accepted == {r \in Request : pos[r] \in {"held", "sent", "counted"}}
LetIn    == Accepted \cup {r \in Request : pos[r] \in {"in", "miss", "hold"}}

(* A process whose cache follows the close: the close did not overtake the *)
(* Put of the opening (two handlers of one process may run at once, and a  *)
(* late Put(open) into a refresh that no longer asks for the poll is       *)
(* corrected by nothing), and the process had the time to warm up (a late  *)
(* Get stores what the refresh does not ask for).                          *)
Settled(i) ==
  /\ openedOn + Latency < closedOn
  /\ started[i] + 2 * Latency < closedOn

(* Votes are let in for at most a refresh interval after a close, plus the *)
(* time a refresh takes (poll_cache.go promises "at most the refresh       *)
(* interval"), by the processes that were settled when it was committed.   *)
BoundedStaleness ==
  row = "closed" =>
    \A r \in Request : pos[r] = "in" /\ Settled(At[r]) =>
      at[r] <= closedOn + Period + Latency

(* Whom the grace has to wait for: a process that is not settled lets      *)
(* votes in until closes_at, which is too late if the close came before it.*)
Prompt(i) == ClosesAt <= closedAt \/ Settled(i)

(* Five seconds of grace are enough: when they and the snapshot they still *)
(* allow are over, every vote a prompt process let in, stale as its cache  *)
(* may have been, slow as its flush was, is part of the last snapshot, and *)
(* so of the published results.                                            *)
GraceSuffices ==
  row = "closed" /\ clock >= closedAt + Grace + Latency =>
    \A r \in LetIn : Prompt(At[r]) => r \in snapped

(* A poll that was cancelled before it opened, or whose opening is still   *)
(* to be committed, takes no vote, whatever Put and refresh left in caches.*)
OnlyOpenedPolls == LetIn # {} => openedOn # 0

(* A false rejection is the wrong direction of error (R14): who is refused *)
(* votes before the opening has spread or a new process has warmed up,     *)
(* after the close, or in the last second of the window, which the cut of  *)
(* the token's expiry takes away.                                          *)
NotTurnedAway ==
  [][\A r \in Request : pos'[r] = "refused" /\ pos[r] = "out" =>
       \/ row # "open"
       \/ clock <= openedOn + Period + Latency
       \/ clock <= started[At[r]] + Period + 2 * Latency
       \/ clock + Second > ClosesAt]_vars
=============================================================================
