-------------------------- MODULE ResultSnapshots --------------------------
(***************************************************************************)
(* The durable results of one poll: the Redis lease that elects a leader   *)
(* among the processes, the leader's snapshotter that copies the Redis     *)
(* counters into a row of poll_result_snapshots, floored at the latest     *)
(* row, and Redis losing its data.  The processes share one clock: a row   *)
(* is dated by its leader's time.Now(), and leaders whose clocks differ    *)
(* could date theirs in another order.  The rejected counters are floored  *)
(* like the options and left out.                                          *)
(***************************************************************************)
EXTENDS Naturals, FiniteSets, FiniteSetsExt

CONSTANTS
  Worker,     \* snapshotters, one per process
  NoWorker,   \* the holder of a free lease
  NumOptions,
  Lease,      \* leaderLease
  Punctual,   \* do ticks end within the lease and outside Redis restarts?
  MaxTime,    \* bound of the clock
  MaxVotes,   \* bound on votes flushed to Redis
  MaxLosses   \* bound on losses of Redis' data

ASSUME SnapshotAssumption ==
  /\ NoWorker \notin Worker
  /\ NumOptions \in Nat \ {0}
  /\ Lease \in Nat \ {0}
  /\ Punctual \in BOOLEAN
  /\ MaxTime \in Nat \ {0}
  /\ {MaxVotes, MaxLosses} \subseteq Nat

VARIABLES
  clock,
  holder,   \* value of Redis key "leader"
  expiry,   \* when that key expires
  tally,    \* tally[o]: the poll's counter hash in Redis
  cast,     \* history: cast[o], the votes ever flushed for option o
  rows,     \* rows[t]: the snapshot row with snapshot_at = t
  pc,       \* pc[w]: where worker w is
  at,       \* at[w]: `now` of its tick
  reading,  \* reading[w]: the counters it read
  prev,     \* prev[w]: the row it floors at
  losses    \* losses so far

leaseVars == <<holder, expiry>>
countVars == <<tally, cast, losses>>
workVars  == <<pc, at, reading, prev>>
vars == <<clock, leaseVars, countVars, rows, workVars>>

Option  == 1 .. NumOptions
Time    == 1 .. MaxTime
Counts  == [Option -> Nat]
Row     == [total : Nat, count : Counts]

NoVotes == [o \in Option |-> 0]
Empty   == [total |-> 0, count |-> NoVotes]
NoRow   == [total |-> 0, count |-> <<>>]

(* The sum of the counts, option by option. *)
Sum(count) ==
  LET upto[n \in 0 .. NumOptions] ==
        IF n = 0 THEN 0 ELSE upto[n - 1] + count[n]
  IN  upto[NumOptions]

Written    == {t \in Time : rows[t] # NoRow}

TypeOK ==
  /\ clock \in Time
  /\ holder \in Worker \cup {NoWorker}
  /\ expiry \in Nat
  /\ tally \in Counts
  /\ cast \in Counts
  /\ rows \in [Time -> Row \cup {NoRow}]
  /\ pc \in [Worker -> {"idle", "check", "renew", "start", "read", "load",
                        "insert"}]
  /\ at \in [Worker -> Time \cup {0}]
  /\ reading \in [Worker -> Counts]
  /\ prev \in [Worker -> Row]
  /\ losses \in Nat

Init ==
  /\ clock = 1
  /\ holder = NoWorker
  /\ expiry = 0
  /\ tally = NoVotes
  /\ cast = NoVotes
  /\ rows = [t \in Time |-> NoRow]
  /\ pc = [w \in Worker |-> "idle"]
  /\ at = [w \in Worker |-> 0]
  /\ reading = [w \in Worker |-> NoVotes]
  /\ prev = [w \in Worker |-> Empty]
  /\ losses = 0

(* Workers that believe they lead and have not finished their tick. *)
Busy == {w \in Worker : pc[w] \notin {"idle", "check"}}

-----------------------------------------------------------------------------
(* The environment: time, flushers, and Redis *)

Advance ==
  /\ clock < MaxTime
  /\ Punctual => Busy = {} \/ clock + 1 < expiry
  /\ clock' = clock + 1
  /\ UNCHANGED <<leaseVars, countVars, rows, workVars>>

(* A flush of some process adds a vote. *)
FlushVote(o) ==
  /\ Sum(cast) < MaxVotes
  /\ tally' = [tally EXCEPT ![o] = @ + 1]
  /\ cast' = [cast EXCEPT ![o] = @ + 1]
  /\ UNCHANGED <<clock, leaseVars, losses, rows, workVars>>

(* Redis restarts empty, the lease included. *)
LoseRedis ==
  /\ losses < MaxLosses
  /\ Punctual => Busy = {}
  /\ losses' = losses + 1
  /\ tally' = NoVotes
  /\ holder' = NoWorker
  /\ UNCHANGED <<clock, expiry, cast, rows, workVars>>

-----------------------------------------------------------------------------
(* IsLeader *)

Held == holder # NoWorker /\ clock < expiry

(* SET leader w NX EX lease *)
Claim(w) ==
  /\ pc[w] = "idle"
  /\ IF Held THEN UNCHANGED leaseVars
             ELSE holder' = w /\ expiry' = clock + Lease
  /\ pc' = [pc EXCEPT ![w] = "check"]
  /\ UNCHANGED <<clock, countVars, rows, at, reading, prev>>

(* Mutant: whoever finds a lease takes it for its own. *)
Check_AnyHolder(w) ==
  /\ pc[w] = "check"
  /\ pc' = [pc EXCEPT ![w] = IF Held THEN "renew" ELSE "idle"]
  /\ UNCHANGED <<clock, leaseVars, countVars, rows, at, reading, prev>>

(* GET leader *)
Check(w) ==
  /\ pc[w] = "check"
  /\ pc' = [pc EXCEPT ![w] = IF Held /\ holder = w THEN "renew" ELSE "idle"]
  /\ UNCHANGED <<clock, leaseVars, countVars, rows, at, reading, prev>>

(* EXPIRE leader lease: prolongs the key, whoever holds it by now. *)
Renew(w) ==
  /\ pc[w] = "renew"
  /\ expiry' = IF Held THEN clock + Lease ELSE expiry
  /\ pc' = [pc EXCEPT ![w] = "start"]
  /\ UNCHANGED <<clock, holder, countVars, rows, at, reading, prev>>

-----------------------------------------------------------------------------
(* tick and snapshotOne *)

Start(w) ==
  /\ pc[w] = "start"
  /\ at' = [at EXCEPT ![w] = clock]
  /\ pc' = [pc EXCEPT ![w] = "read"]
  /\ UNCHANGED <<clock, leaseVars, countVars, rows, reading, prev>>

ReadCounts(w) ==
  /\ pc[w] = "read"
  /\ reading' = [reading EXCEPT ![w] = tally]
  /\ pc' = [pc EXCEPT ![w] = "load"]
  /\ UNCHANGED <<clock, leaseVars, countVars, rows, at, prev>>

(* ORDER BY snapshot_at DESC LIMIT 1 *)
LatestSnapshot == IF Written = {} THEN NoRow ELSE rows[Max(Written)]

(* Mutant: a poll without snapshots is not treated apart. *)
Latest_NoRowsUnhandled == LatestSnapshot

(* The row to floor at; none floors at nothing. *)
Latest == IF LatestSnapshot = NoRow THEN Empty ELSE LatestSnapshot

LoadPrevious(w) ==
  /\ pc[w] = "load"
  /\ prev' = [prev EXCEPT ![w] = Latest]
  /\ pc' = [pc EXCEPT ![w] = "insert"]
  /\ UNCHANGED <<clock, leaseVars, countVars, rows, at, reading>>

Larger(a, b) == IF a > b THEN a ELSE b

(* Mutants: the reading is stored as it is; it is taken for an increment. *)
Merge_NoFloor(p, next) == [total |-> Sum(next), count |-> next]
Merge_Adds(p, next) ==
  [total |-> Larger(p.total, Sum(next)),
   count |-> [o \in Option |-> p.count[o] + next[o]]]

(* mergeSnapshot *)
Merge(p, next) ==
  [total |-> Larger(p.total, Sum(next)),
   count |-> [o \in Option |-> Larger(p.count[o], next[o])]]

(* A worker's tick is over. *)
Finish(w) ==
  /\ pc' = [pc EXCEPT ![w] = "idle"]
  /\ at' = [at EXCEPT ![w] = 0]
  /\ reading' = [reading EXCEPT ![w] = NoVotes]
  /\ prev' = [prev EXCEPT ![w] = Empty]

InsertSnapshot(w) ==
  /\ pc[w] = "insert"
  /\ rows[at[w]] = NoRow
  /\ rows' = [rows EXCEPT ![at[w]] = Merge(prev[w], reading[w])]
  /\ Finish(w)
  /\ UNCHANGED <<clock, leaseVars, countVars>>

(* A query fails, the primary key is taken, or the process is replaced. *)
Abort(w) ==
  /\ pc[w] # "idle"
  /\ Finish(w)
  /\ UNCHANGED <<clock, leaseVars, countVars, rows>>

-----------------------------------------------------------------------------
(* The administrator's pages *)

(* GET results; an option's share is its count over total, 0 of 0. *)
Results == IF LatestSnapshot = NoRow THEN Empty ELSE LatestSnapshot

(* GET timeseries: the points by time. *)
Timeseries == [t \in Written |-> rows[t]]

-----------------------------------------------------------------------------
Elect(w) == Claim(w) \/ Check(w) \/ Renew(w)

Snapshot(w) == \/ Start(w)
               \/ ReadCounts(w)
               \/ LoadPrevious(w)
               \/ InsertSnapshot(w)

Next ==
  \/ Advance
  \/ \E o \in Option : FlushVote(o)
  \/ LoseRedis
  \/ \E w \in Worker : Elect(w) \/ Snapshot(w) \/ Abort(w)

Spec == Init /\ [][Next]_vars

-----------------------------------------------------------------------------
(* The lease: two processes are in a leader's tick at once only if a tick  *)
(* outlasted its lease or Redis lost the key under it.  The renewal is     *)
(* part of the tick: one whose GET and EXPIRE straddle the expiry is not   *)
(* Punctual, and the rows that two leaders then write are RowsGrow's case. *)
LeaderAlone == Punctual => Cardinality(Busy) <= 1

(* "total_accepted and option_counts grow monotonically from snapshot to   *)
(* snapshot": whatever Redis loses between ticks, no later point of the    *)
(* chart falls below an earlier one.                                       *)
RowsGrow ==
  \A s, t \in DOMAIN Timeseries : s < t =>
    /\ Timeseries[s].total <= Timeseries[t].total
    /\ \A o \in Option : Timeseries[s].count[o] <= Timeseries[t].count[o]

(* No row claims votes that were never flushed, however readings, floors   *)
(* and losses of Redis interleave.                                         *)
NeverOvercounts ==
  \A t \in Written, o \in Option : rows[t].count[o] <= cast[o]

(* The results page shows count / total_accepted: no option has more than  *)
(* all votes, and unless Redis lost data the shares add up to all of them. *)
SharesAddUp ==
  /\ \A o \in Option : Results.count[o] <= Results.total
  /\ losses = 0 => Sum(Results.count) = Results.total
=============================================================================
