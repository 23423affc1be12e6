------------------------- MODULE VotingWindowProofs -------------------------
(***************************************************************************)
(* The grace of the snapshotter is long enough, for any processes, calls   *)
(* and durations that satisfy GraceAssumption.  The inductive invariant is *)
(* a chain of deadlines, each relative to the commit of the close: until   *)
(* when a cache may still say open, until when a vote it let in may still  *)
(* be on its way to the counters, to Redis, and to a snapshot.             *)
(***************************************************************************)
EXTENDS VotingWindow, TLAPS

Gated == {"in", "miss", "hold"}

(* What runs has run for at most Latency. *)
Timely ==
  /\ \A j \in Job : job[j].step # "idle" =>
       /\ job[j].since <= clock
       /\ clock <= job[j].since + Latency
  /\ \A i \in Process : listed[i] # "none" =>
       started[i] # 0 /\ clock + Period <= listDue[i] + Latency
  /\ \A g \in Reader : fetch[g].read # "none" =>
       /\ fetch[g].since <= clock
       /\ clock <= fetch[g].since + Latency
  /\ \A r \in Request : pos[r] = "sent" =>
       clock + Period <= flushDue[At[r]] + Latency
  /\ \A r \in Request : pos[r] \in Gated => /\ at[r] <= clock
                                            /\ clock <= at[r] + Latency
  /\ snapNow # 0 => /\ snapNow <= clock /\ clock <= snapNow + Latency
                    /\ snapNow + Period <= snapDue + Latency

(* Every loop is due within a Period, the leader's now is Latency later. *)
Due ==
  /\ \A i \in Process : started[i] # 0 =>
       /\ started[i] <= clock
       /\ clock <= listDue[i] /\ listDue[i] <= clock + Period
       /\ clock <= flushDue[i] /\ flushDue[i] <= clock + Period
  /\ snapNow = 0 => clock <= snapDue + Latency
  /\ snapDue <= clock + Period

(* closed_at is the start of a transaction that ended within Latency, and  *)
(* a Put(open) that is still to come is the only one there will be.        *)
RowOK ==
  /\ 0 < clock
  /\ row = "open" => openedOn # 0
  /\ openedOn <= clock
  /\ row = "closed" => /\ closedAt <= closedOn /\ closedOn <= closedAt + Latency
                       /\ closedOn <= clock
  /\ \A j \in Job : job[j].step = "put" =>
       IF To[j] = "open"
       THEN openedOn # 0 /\ row # "scheduled" /\ job[j].since = openedOn
       ELSE row = "closed"

(* No cache is ahead of the row; while the poll is live one that has been  *)
(* refreshed keeps refreshing it; and one that was settled when the poll   *)
(* closed says open no longer than a refresh that starts within Period.    *)
AheadOK(i) ==
  /\ seen[i] = "open" => row # "scheduled" /\ openedOn # 0
  /\ listed[i] = "open" => row # "scheduled" /\ openedOn # 0
  /\ listed[i] \in {"closed", "nothing"} => row = "closed"

WarmOK(i) ==
  started[i] # 0 /\ row # "closed" =>
    /\ ~Initial(i) => active[i] /\ seen[i] # "none"
    /\ listed[i] = "unasked" => Initial(i)

ClosedOK(i) ==
  started[i] # 0 /\ row = "closed" /\ Settled(i) =>
    /\ listed[i] \in Live => listDue[i] <= closedOn + Period
    /\ listed[i] \in {"unasked", "nothing"} => seen[i] # "open"
    /\ seen[i] = "open" =>
         /\ active[i]
         /\ \/ listDue[i] <= closedOn + Period
            \/ /\ listed[i] \in {"asked", "closed"}
               /\ listDue[i] <= closedOn + 2 * Period

(* None takes longer than Period + Latency to learn of the opening, or,    *)
(* when it has just started, than Period + 2 * Latency.                    *)
OpenOK(i) ==
  started[i] # 0 /\ row = "open" =>
    /\ listed[i] = "scheduled" =>
         listDue[i] <= openedOn + Period \/ Initial(i)
    /\ seen[i] # "open" =>
         \/ listDue[i] <= openedOn + Period
         \/ listDue[i] <= started[i] + Period + Latency
         \/ /\ listed[i] \in {"asked", "unasked", "open"}
            /\ \/ listDue[i] <= openedOn + 2 * Period
               \/ listDue[i] <= started[i] + 2 * Period + Latency

(* A Get of a poll that is live began before the cache was first filled,   *)
(* and ends before the first tick.                                         *)
FetchOK(g) ==
  fetch[g].read # "none" =>
    /\ started[At[g]] # 0
    /\ fetch[g].read = "open" => row # "scheduled" /\ openedOn # 0
    /\ fetch[g].read = "closed" => row = "closed"
    /\ row # "closed" =>
         \/ Initial(At[g])
         \/ /\ listed[At[g]] = "none"
            /\ fetch[g].since + Period <= listDue[At[g]]
            /\ listDue[At[g]] <= started[At[g]] + Period + Latency
    /\ row = "closed" /\ Settled(At[g]) => fetch[g].read \notin Live

(* Where a vote is, and until when after the close it may be there. *)
PlaceOK(r) ==
  /\ pos[r] # "out" => started[At[r]] # 0
  /\ pos[r] \in Gated \cup {"held", "sent", "counted"} => openedOn # 0
  /\ pos[r] \in {"hold", "held"} => /\ kept[r] # NoRequest
                                   /\ kept[r] = polls[At[r]]
  /\ r \in snapped => pos[r] = "counted"

DeadlineOK(r) ==
  row = "closed" /\ Prompt(At[r]) =>
    /\ pos[r] \in Gated => at[r] <= closedOn + Period + Latency
    /\ pos[r] = "held" =>
         flushDue[At[r]] <= closedOn + 2 * Period + 2 * Latency
    /\ pos[r] = "sent" =>
         flushDue[At[r]] <= closedOn + 3 * Period + 2 * Latency
    /\ pos[r] = "counted" /\ r \notin snapped =>
         IF snapNow = 0 THEN snapDue <= closedOn + 3 * Period + 3 * Latency
                        ELSE snapNow <= closedOn + 3 * Period + 4 * Latency

Caches == \A i \in Process : AheadOK(i) /\ WarmOK(i) /\ ClosedOK(i) /\ OpenOK(i)
Reads  == \A g \in Reader : FetchOK(g)
Places == \A r \in Request : PlaceOK(r)
Deadlines == \A r \in Request : DeadlineOK(r)

IInv ==
  TypeOK /\ Timely /\ Due /\ RowOK /\ Caches /\ Reads /\ Places /\ Deadlines
-----------------------------------------------------------------------------
LEMMA Durations ==
  /\ Period \in Nat /\ Latency \in Nat /\ Grace \in Nat
  /\ 0 < Latency /\ Latency < Period /\ 2 * Latency <= Period
  /\ 5 * Latency + 3 * Period < Grace
BY WindowAssumption, GraceAssumption

(* The variables of the window keep their types, for any processes, calls  *)
(* and durations.                                                          *)
LEMMA TypeStep ==
  TypeOK /\ [Next]_vars
    => TypeOK'
<1> SUFFICES ASSUME TypeOK, [Next]_vars
             PROVE  TypeOK'
    OBVIOUS
<1> USE Durations, WindowAssumption DEF TypeOK, State, rowVars, cacheVars,
      voteVars, snapVars
<1>1. ASSUME NEW j \in Job, Begin(j)
      PROVE  TypeOK'
  BY <1>1 DEF Begin
<1>2. ASSUME NEW j \in Job, Commit(j)
      PROVE  TypeOK'
  BY <1>2 DEF Commit, AllowedTransition
<1>3. ASSUME NEW j \in Job, Refuse(j)
      PROVE  TypeOK'
  BY <1>3 DEF Refuse, Idle
<1>4. ASSUME NEW j \in Job, SkipPut(j)
      PROVE  TypeOK'
  BY <1>4 DEF SkipPut, Idle
<1>5. ASSUME NEW j \in Job, Put(j)
      PROVE  TypeOK'
  BY <1>5 DEF Put, Idle
<1>6. ASSUME NEW i \in Process, Start(i)
      PROVE  TypeOK'
  BY <1>6 DEF Start
<1>7. ASSUME NEW i \in Process, StartRefresh(i)
      PROVE  TypeOK'
  BY <1>7 DEF StartRefresh
<1>8. ASSUME NEW i \in Process, ListPolls(i)
      PROVE  TypeOK'
  BY <1>8 DEF ListPolls
<1>9. ASSUME NEW i \in Process, StoreFresh(i)
      PROVE  TypeOK'
  BY <1>9 DEF StoreFresh
<1>10. ASSUME NEW g \in Reader, Miss(g)
      PROVE  TypeOK'
  BY <1>10 DEF Miss, Up
<1>11. ASSUME NEW g \in Reader, LoadPoll(g)
      PROVE  TypeOK'
  BY <1>11 DEF LoadPoll
<1>12. ASSUME NEW g \in Reader, StorePoll(g)
      PROVE  TypeOK'
  BY <1>12 DEF StorePoll, NoGet
<1>13. ASSUME NEW r \in Request, Arrive(r)
      PROVE  TypeOK'
  <2>1. /\ pos' \in [Request -> {"out", "in", "miss", "hold", "held", "sent",
                                "counted", "refused"}]
        /\ at' \in [Request -> Nat]
    <3>1. CASE Admits(At[r])
      BY <1>13, <3>1 DEF Arrive
    <3>2. CASE ~Admits(At[r])
      BY <1>13, <3>2 DEF Arrive
    <3> QED BY <3>1, <3>2
  <2>2. UNCHANGED <<clock, rowVars, job, cacheVars, polls, kept, flushDue,
                    snapVars>>
    BY <1>13 DEF Arrive
  <2> QED BY <2>1, <2>2
<1>14. ASSUME NEW r \in Request, LoadCounters(r)
      PROVE  TypeOK'
  BY <1>14 DEF LoadCounters
<1>15. ASSUME NEW r \in Request, StoreCounters(r)
      PROVE  TypeOK'
  BY <1>15 DEF StoreCounters
<1>16. ASSUME NEW r \in Request, AcceptVote(r)
      PROVE  TypeOK'
  BY <1>16 DEF AcceptVote
<1>17. ASSUME NEW r \in Request, RejectVote(r)
      PROVE  TypeOK'
  BY <1>17 DEF RejectVote
<1>18. ASSUME NEW i \in Process, Flush(i)
      PROVE  TypeOK'
  BY <1>18 DEF Flush, Move, Sent
<1>19. ASSUME NEW i \in Process, Increment(i)
      PROVE  TypeOK'
  BY <1>19 DEF Increment, Move, Sent
<1>20. CASE IsLeader
  BY <1>20 DEF IsLeader
<1>21. CASE Snapshot
  BY <1>21 DEF Snapshot
<1>22. CASE Tick
  BY <1>22 DEF Tick
<1>23. CASE UNCHANGED vars
  BY <1>23 DEF vars
<1> QED
  BY <1>1, <1>2, <1>3, <1>4, <1>5, <1>6, <1>7, <1>8, <1>9, <1>10, <1>11, <1>12,
  <1>13, <1>14, <1>15, <1>16, <1>17, <1>18, <1>19, <1>20, <1>21, <1>22, <1>23
  DEF Next

(* No step makes a call older than Latency. *)
LEMMA TimelyStep ==
  TypeOK /\ Timely /\ Due /\ RowOK /\ Places /\ [Next]_vars
    => Timely'
<1> SUFFICES ASSUME TypeOK, Timely, Due, RowOK, Places, [Next]_vars
             PROVE  Timely'
    OBVIOUS
<1> USE Durations, WindowAssumption DEF TypeOK, Timely, Due, Gated, rowVars,
      cacheVars, voteVars, snapVars
<1>1. ASSUME NEW j \in Job, Begin(j)
      PROVE  Timely'
  BY <1>1 DEF Begin
<1>2. ASSUME NEW j \in Job, Commit(j)
      PROVE  Timely'
  BY <1>2 DEF Commit, AllowedTransition
<1>3. ASSUME NEW j \in Job, Refuse(j)
      PROVE  Timely'
  BY <1>3 DEF Refuse, Idle
<1>4. ASSUME NEW j \in Job, SkipPut(j)
      PROVE  Timely'
  BY <1>4 DEF SkipPut, Idle
<1>5. ASSUME NEW j \in Job, Put(j)
      PROVE  Timely'
  BY <1>5 DEF Put, Idle
<1>6. ASSUME NEW i \in Process, Start(i)
      PROVE  Timely'
  BY <1>6 DEF Start, RowOK, Places, PlaceOK
<1>7. ASSUME NEW i \in Process, StartRefresh(i)
      PROVE  Timely'
  BY <1>7 DEF StartRefresh
<1>8. ASSUME NEW i \in Process, ListPolls(i)
      PROVE  Timely'
  BY <1>8 DEF ListPolls
<1>9. ASSUME NEW i \in Process, StoreFresh(i)
      PROVE  Timely'
  BY <1>9 DEF StoreFresh
<1>10. ASSUME NEW g \in Reader, Miss(g)
      PROVE  Timely'
  BY <1>10 DEF Miss, Up
<1>11. ASSUME NEW g \in Reader, LoadPoll(g)
      PROVE  Timely'
  BY <1>11 DEF LoadPoll
<1>12. ASSUME NEW g \in Reader, StorePoll(g)
      PROVE  Timely'
  BY <1>12 DEF StorePoll, NoGet
<1>13. ASSUME NEW r \in Request, Arrive(r)
      PROVE  Timely'
  BY <1>13 DEF Arrive, Up
<1>14. ASSUME NEW r \in Request, LoadCounters(r)
      PROVE  Timely'
  BY <1>14 DEF LoadCounters
<1>15. ASSUME NEW r \in Request, StoreCounters(r)
      PROVE  Timely'
  BY <1>15 DEF StoreCounters
<1>16. ASSUME NEW r \in Request, AcceptVote(r)
      PROVE  Timely'
  BY <1>16 DEF AcceptVote
<1>17. ASSUME NEW r \in Request, RejectVote(r)
      PROVE  Timely'
  BY <1>17 DEF RejectVote
<1>18. ASSUME NEW i \in Process, Flush(i)
      PROVE  Timely'
  BY <1>18 DEF Flush, Move, Sent
<1>19. ASSUME NEW i \in Process, Increment(i)
      PROVE  Timely'
  BY <1>19 DEF Increment, Move, Sent
<1>20. CASE IsLeader
  BY <1>20 DEF IsLeader
<1>21. CASE Snapshot
  BY <1>21 DEF Snapshot
<1>22. CASE Tick
  <2> USE <1>22 DEF Tick, ProcessInTime, LeaderInTime, Sent
  <2>1. ASSUME NEW j \in Job, job[j].step # "idle"
        PROVE  clock + 1 <= job[j].since + Latency
    <3>1. clock < job[j].since + Latency
      BY <2>1
    <3>2. job[j].since \in Nat
      OBVIOUS
    <3> QED BY <3>1, <3>2
  <2>2. ASSUME NEW i \in Process, listed[i] # "none"
        PROVE  clock + 1 + Period <= listDue[i] + Latency
    BY <2>2
  <2>3. ASSUME NEW g \in Reader, fetch[g].read # "none"
        PROVE  clock + 1 <= fetch[g].since + Latency
    <3>1. clock < fetch[g].since + Latency
      BY <2>3
    <3>2. fetch[g].since \in Nat
      OBVIOUS
    <3> QED BY <3>1, <3>2
  <2>4. ASSUME NEW r \in Request, pos[r] = "sent"
        PROVE  clock + 1 + Period <= flushDue[At[r]] + Latency
    <3>1. At[r] \in Process /\ r \in Sent(At[r]) /\ started[At[r]] # 0
      BY <2>4 DEF Places, PlaceOK
    <3> QED BY <3>1
  <2>5. ASSUME NEW r \in Request, pos[r] \in Gated
        PROVE  clock + 1 <= at[r] + Latency
    BY <2>5
  <2>6. snapNow # 0 => clock + 1 <= snapNow + Latency
    OBVIOUS
  <2>7. clock' = clock + 1
    OBVIOUS
  <2>8. UNCHANGED <<job, started, listed, fetch, pos, at, listDue, flushDue,
                    snapNow, snapDue>>
    OBVIOUS
  <2>9. /\ \A i \in Process : listed[i] # "none" => started[i] # 0
        /\ clock \in Nat
    OBVIOUS
  <2> QED BY <2>1, <2>2, <2>3, <2>4, <2>5, <2>6, <2>7, <2>8, <2>9
<1>23. CASE UNCHANGED vars
  BY <1>23 DEF vars
<1> QED
  BY <1>1, <1>2, <1>3, <1>4, <1>5, <1>6, <1>7, <1>8, <1>9, <1>10, <1>11, <1>12,
  <1>13, <1>14, <1>15, <1>16, <1>17, <1>18, <1>19, <1>20, <1>21, <1>22, <1>23
  DEF Next

(* A loop that runs is due again a Period later. *)
LEMMA DueStep ==
  TypeOK /\ Timely /\ Due /\ [Next]_vars
    => Due'
<1> SUFFICES ASSUME TypeOK, Timely, Due, [Next]_vars
             PROVE  Due'
    OBVIOUS
<1> USE Durations, WindowAssumption DEF TypeOK, Timely, Due, rowVars,
      cacheVars, voteVars, snapVars
<1>1. ASSUME NEW i \in Process, Start(i)
      PROVE  Due'
  BY <1>1 DEF Start
<1>2. ASSUME NEW i \in Process, StartRefresh(i)
      PROVE  Due'
  BY <1>2 DEF StartRefresh
<1>3. ASSUME NEW i \in Process, StoreFresh(i)
      PROVE  Due'
  BY <1>3 DEF StoreFresh, Initial
<1>4. ASSUME NEW i \in Process, Flush(i)
      PROVE  Due'
  BY <1>4 DEF Flush, Move, Sent
<1>5. CASE IsLeader
  BY <1>5 DEF IsLeader
<1>6. CASE Snapshot
  BY <1>6 DEF Snapshot
<1>7. CASE Tick
  BY <1>7 DEF Tick, ProcessInTime, LeaderInTime
<1>8. CASE UNCHANGED <<clock, started, listDue, flushDue, snapNow, snapDue>>
  BY <1>8
<1> QED
  BY <1>1, <1>2, <1>3, <1>4, <1>5, <1>6, <1>7, <1>8
  DEF Next, Begin, Commit, Refuse, SkipPut, Put, ListPolls, Miss, LoadPoll,
      StorePoll, Arrive, LoadCounters, StoreCounters, AcceptVote, RejectVote,
      Increment, vars

(* The close is committed within Latency of closed_at. *)
LEMMA RowStep ==
  TypeOK /\ Timely /\ RowOK /\ [Next]_vars
    => RowOK'
<1> SUFFICES ASSUME TypeOK, Timely, RowOK, [Next]_vars
             PROVE  RowOK'
    OBVIOUS
<1> USE Durations, WindowAssumption DEF TypeOK, Timely, RowOK, State, rowVars,
      cacheVars, voteVars, snapVars
<1>1. ASSUME NEW j \in Job, Begin(j)
      PROVE  RowOK'
  BY <1>1 DEF Begin
<1>2. ASSUME NEW j \in Job, Commit(j)
      PROVE  RowOK'
  BY <1>2 DEF Commit, AllowedTransition
<1>3. ASSUME NEW j \in Job, Refuse(j)
      PROVE  RowOK'
  BY <1>3 DEF Refuse, Idle
<1>4. ASSUME NEW j \in Job, SkipPut(j)
      PROVE  RowOK'
  BY <1>4 DEF SkipPut, Idle
<1>5. ASSUME NEW j \in Job, Put(j)
      PROVE  RowOK'
  BY <1>5 DEF Put, Idle
<1>6. CASE Tick
  BY <1>6 DEF Tick
<1>7. CASE UNCHANGED <<clock, rowVars, job>>
  BY <1>7
<1> QED
  BY <1>1, <1>2, <1>3, <1>4, <1>5, <1>6, <1>7
  DEF Next, Start, StartRefresh, ListPolls, StoreFresh, Miss, LoadPoll,
      StorePoll, Arrive, LoadCounters, StoreCounters, AcceptVote, RejectVote,
      Flush, Increment, IsLeader, Snapshot, vars

(* No cache gets ahead of the row. *)
LEMMA AheadStep ==
  TypeOK /\ RowOK /\ Caches /\ Reads /\ [Next]_vars
    => \A k \in Process : AheadOK(k)'
<1> SUFFICES ASSUME TypeOK, RowOK, Caches, Reads, [Next]_vars,
                    NEW k \in Process
             PROVE  AheadOK(k)'
    OBVIOUS
<1>0. AheadOK(k)
    BY DEF Caches
<1> USE Durations, WindowAssumption DEF TypeOK, RowOK, AheadOK, State, Live,
      rowVars, cacheVars, voteVars, snapVars
<1>1. ASSUME NEW j \in Job, Commit(j)
      PROVE  AheadOK(k)'
  BY <1>0, <1>1 DEF Commit, AllowedTransition
<1>2. ASSUME NEW j \in Job, Put(j)
      PROVE  AheadOK(k)'
  BY <1>0, <1>2 DEF Put, Idle
<1>3. ASSUME NEW i \in Process, Start(i)
      PROVE  AheadOK(k)'
  BY <1>0, <1>3 DEF Start
<1>4. ASSUME NEW i \in Process, StartRefresh(i)
      PROVE  AheadOK(k)'
  BY <1>0, <1>4 DEF StartRefresh
<1>5. ASSUME NEW i \in Process, ListPolls(i)
      PROVE  AheadOK(k)'
  BY <1>0, <1>5 DEF ListPolls
<1>6. ASSUME NEW i \in Process, StoreFresh(i)
      PROVE  AheadOK(k)'
  BY <1>0, <1>6 DEF StoreFresh
<1>7. ASSUME NEW g \in Reader, StorePoll(g)
      PROVE  AheadOK(k)'
  BY <1>0, <1>7 DEF StorePoll, NoGet, Reads, FetchOK
<1>8. CASE UNCHANGED <<row, openedOn, seen, listed>>
  BY <1>0, <1>8
<1> QED
  BY <1>1, <1>2, <1>3, <1>4, <1>5, <1>6, <1>7, <1>8
  DEF Next, Begin, Refuse, SkipPut, Miss, LoadPoll, Arrive, LoadCounters,
      StoreCounters, AcceptVote, RejectVote, Flush, Increment, IsLeader,
      Snapshot, Tick, vars

(* A cache that was refreshed while the poll was live goes on doing so. *)
LEMMA WarmStep ==
  TypeOK /\ Timely /\ Due /\ RowOK /\ Caches /\ Reads /\ [Next]_vars
    => \A k \in Process : WarmOK(k)'
<1> SUFFICES ASSUME TypeOK, Timely, Due, RowOK, Caches, Reads, [Next]_vars,
                    NEW k \in Process
             PROVE  WarmOK(k)'
    OBVIOUS
<1>0. AheadOK(k) /\ WarmOK(k)
    BY DEF Caches
<1> USE Durations, WindowAssumption DEF TypeOK, Timely, Due, RowOK, AheadOK,
      WarmOK, Initial, State, Live, rowVars, cacheVars, voteVars, snapVars
<1>1. ASSUME NEW j \in Job, Commit(j)
      PROVE  WarmOK(k)'
  BY <1>0, <1>1 DEF Commit, AllowedTransition
<1>2. ASSUME NEW j \in Job, Put(j)
      PROVE  WarmOK(k)'
  BY <1>0, <1>2 DEF Put, Idle
<1>3. ASSUME NEW i \in Process, Start(i)
      PROVE  WarmOK(k)'
  BY <1>0, <1>3 DEF Start
<1>4. ASSUME NEW i \in Process, StartRefresh(i)
      PROVE  WarmOK(k)'
  BY <1>0, <1>4 DEF StartRefresh
<1>5. ASSUME NEW i \in Process, ListPolls(i)
      PROVE  WarmOK(k)'
  BY <1>0, <1>5 DEF ListPolls
<1>6. ASSUME NEW i \in Process, StoreFresh(i)
      PROVE  WarmOK(k)'
  <2>1. CASE i = k
    <3>1. row' = row /\ started' = started /\ listed'[k] = "none"
      BY <1>6, <2>1 DEF StoreFresh
    <3>2. row # "closed" => listed[k] \in Live
      BY <1>0, <1>6, <2>1 DEF StoreFresh
    <3>3. listed[k] \in Live => active'[k]
      BY <1>6, <2>1 DEF StoreFresh
    <3>4. listed[k] \in Live => seen'[k] = listed[k]
      BY <1>6, <2>1 DEF StoreFresh
    <3> QED BY <3>1, <3>2, <3>3, <3>4
  <2>2. CASE i # k
    BY <1>0, <1>6, <2>2 DEF StoreFresh
  <2> QED BY <2>1, <2>2
<1>7. ASSUME NEW g \in Reader, StorePoll(g)
      PROVE  WarmOK(k)'
  BY <1>0, <1>7 DEF StorePoll, NoGet, Reads, FetchOK
<1>8. CASE UNCHANGED <<row, started, seen, active, listed, listDue>>
  BY <1>0, <1>8
<1> QED
  BY <1>1, <1>2, <1>3, <1>4, <1>5, <1>6, <1>7, <1>8
  DEF Next, Begin, Refuse, SkipPut, Miss, LoadPoll, Arrive, LoadCounters,
      StoreCounters, AcceptVote, RejectVote, Flush, Increment, IsLeader,
      Snapshot, Tick, vars

(* A settled cache learns of the close in time. *)
LEMMA ClosedStep ==
  TypeOK /\ Timely /\ Due /\ RowOK /\ Caches /\ Reads /\ [Next]_vars
    => \A k \in Process : ClosedOK(k)'
<1> SUFFICES ASSUME TypeOK, Timely, Due, RowOK, Caches, Reads, [Next]_vars,
                    NEW k \in Process
             PROVE  ClosedOK(k)'
    OBVIOUS
<1>0. AheadOK(k) /\ WarmOK(k) /\ ClosedOK(k)
    BY DEF Caches
<1> USE Durations, WindowAssumption DEF TypeOK, Timely, Due, RowOK, ClosedOK,
      Settled, State, Live, rowVars, cacheVars, voteVars, snapVars
<1>1. ASSUME NEW j \in Job, Commit(j)
      PROVE  ClosedOK(k)'
  BY <1>0, <1>1 DEF Commit, AllowedTransition, AheadOK, WarmOK, Initial
<1>2. ASSUME NEW j \in Job, Put(j)
      PROVE  ClosedOK(k)'
  BY <1>0, <1>2 DEF Put, Idle
<1>3. ASSUME NEW i \in Process, Start(i)
      PROVE  ClosedOK(k)'
  BY <1>0, <1>3 DEF Start
<1>4. ASSUME NEW i \in Process, StartRefresh(i)
      PROVE  ClosedOK(k)'
  BY <1>0, <1>4 DEF StartRefresh
<1>5. ASSUME NEW i \in Process, ListPolls(i)
      PROVE  ClosedOK(k)'
  BY <1>0, <1>5 DEF ListPolls
<1>6. ASSUME NEW i \in Process, StoreFresh(i)
      PROVE  ClosedOK(k)'
  <2>1. UNCHANGED <<clock, row, started, openedOn, closedOn>>
    BY <1>6 DEF StoreFresh
  <2>2. CASE k # i
    <3>1. UNCHANGED <<listed[k], seen[k], active[k], listDue[k]>>
      BY <1>6, <2>2 DEF StoreFresh
    <3> QED BY <1>0, <2>1, <3>1
  <2>3. CASE k = i
    <3> SUFFICES ASSUME started[k] # 0, row = "closed", Settled(k)
                 PROVE  ClosedOK(k)'
        BY <2>1
    <3>1. listDue'[k] = listDue[k]
      BY <1>6, <2>3 DEF StoreFresh, Initial
    <3>2. listed'[k] = "none" /\ active'[k] = (listed[k] \in Live)
      BY <1>6, <2>3 DEF StoreFresh
    <3>3. CASE listed[k] \in Live
      BY <1>0, <1>6, <2>1, <2>3, <3>1, <3>2, <3>3 DEF StoreFresh
    <3>4. CASE listed[k] \in {"closed", "nothing"}
      <4>1. seen'[k] # "open"
        BY <1>0, <1>6, <2>3, <3>4 DEF StoreFresh
      <4> QED BY <2>1, <3>2, <4>1
    <3> QED BY <1>6, <2>3, <3>3, <3>4 DEF StoreFresh
  <2> QED BY <2>2, <2>3
<1>7. ASSUME NEW g \in Reader, StorePoll(g)
      PROVE  ClosedOK(k)'
  BY <1>0, <1>7 DEF StorePoll, NoGet, Reads, FetchOK
<1>8. CASE UNCHANGED <<row, openedOn, closedOn, started, seen, active, listed,
                       listDue>>
  BY <1>0, <1>8
<1> QED
  BY <1>1, <1>2, <1>3, <1>4, <1>5, <1>6, <1>7, <1>8
  DEF Next, Begin, Refuse, SkipPut, Miss, LoadPoll, Arrive, LoadCounters,
      StoreCounters, AcceptVote, RejectVote, Flush, Increment, IsLeader,
      Snapshot, Tick, vars

(* Every cache learns of the opening in time. *)
LEMMA OpenStep ==
  TypeOK /\ Timely /\ Due /\ RowOK /\ Caches /\ Reads /\ [Next]_vars
    => \A k \in Process : OpenOK(k)'
<1> SUFFICES ASSUME TypeOK, Timely, Due, RowOK, Caches, Reads, [Next]_vars,
                    NEW k \in Process
             PROVE  OpenOK(k)'
    OBVIOUS
<1>0. AheadOK(k) /\ OpenOK(k)
    BY DEF Caches
<1> USE Durations, WindowAssumption DEF TypeOK, Timely, Due, RowOK, OpenOK,
      Initial, State, Live, rowVars, cacheVars, voteVars, snapVars
<1>1. ASSUME NEW j \in Job, Commit(j)
      PROVE  OpenOK(k)'
  BY <1>0, <1>1 DEF Commit, AllowedTransition
<1>2. ASSUME NEW j \in Job, Put(j)
      PROVE  OpenOK(k)'
  BY <1>0, <1>2 DEF Put, Idle
<1>3. ASSUME NEW i \in Process, Start(i)
      PROVE  OpenOK(k)'
  BY <1>0, <1>3 DEF Start
<1>4. ASSUME NEW i \in Process, StartRefresh(i)
      PROVE  OpenOK(k)'
  BY <1>0, <1>4 DEF StartRefresh
<1>5. ASSUME NEW i \in Process, ListPolls(i)
      PROVE  OpenOK(k)'
  BY <1>0, <1>5 DEF ListPolls, AheadOK
<1>6. ASSUME NEW i \in Process, StoreFresh(i)
      PROVE  OpenOK(k)'
  BY <1>0, <1>6 DEF StoreFresh, AheadOK
<1>7. ASSUME NEW g \in Reader, StorePoll(g)
      PROVE  OpenOK(k)'
  BY <1>0, <1>7 DEF StorePoll, NoGet, Reads, FetchOK
<1>8. CASE UNCHANGED <<row, openedOn, started, seen, listed, listDue>>
  BY <1>0, <1>8
<1> QED
  BY <1>1, <1>2, <1>3, <1>4, <1>5, <1>6, <1>7, <1>8
  DEF Next, Begin, Refuse, SkipPut, Miss, LoadPoll, Arrive, LoadCounters,
      StoreCounters, AcceptVote, RejectVote, Flush, Increment, IsLeader,
      Snapshot, Tick, vars

(* A Get that is late stores nothing that is live. *)
LEMMA FetchStep ==
  TypeOK /\ Timely /\ Due /\ RowOK /\ Caches /\ Reads /\ [Next]_vars
    => \A f \in Reader : FetchOK(f)'
<1> SUFFICES ASSUME TypeOK, Timely, Due, RowOK, Caches, Reads, [Next]_vars,
                    NEW f \in Reader
             PROVE  FetchOK(f)'
    OBVIOUS
<1>0. FetchOK(f) /\ WarmOK(At[f]) /\ AheadOK(At[f]) /\ At[f] \in Process
    BY WindowAssumption DEF Caches, Reads
<1> USE Durations, WindowAssumption DEF TypeOK, Timely, Due, RowOK, FetchOK,
      Settled, Initial, State, Live, rowVars, cacheVars, voteVars, snapVars
<1>1. ASSUME NEW j \in Job, Commit(j)
      PROVE  FetchOK(f)'
  BY <1>0, <1>1 DEF Commit, AllowedTransition
<1>2. ASSUME NEW i \in Process, Start(i)
      PROVE  FetchOK(f)'
  BY <1>0, <1>2 DEF Start
<1>3. ASSUME NEW i \in Process, StartRefresh(i)
      PROVE  FetchOK(f)'
  BY <1>0, <1>3 DEF StartRefresh
<1>4. ASSUME NEW i \in Process, ListPolls(i)
      PROVE  FetchOK(f)'
  BY <1>0, <1>4 DEF ListPolls
<1>5. ASSUME NEW i \in Process, StoreFresh(i)
      PROVE  FetchOK(f)'
  BY <1>0, <1>5 DEF StoreFresh
<1>6. ASSUME NEW g \in Reader, Miss(g)
      PROVE  FetchOK(f)'
  BY <1>0, <1>6 DEF Miss, Up, WarmOK
<1>7. ASSUME NEW g \in Reader, LoadPoll(g)
      PROVE  FetchOK(f)'
  BY <1>0, <1>7 DEF LoadPoll
<1>8. ASSUME NEW g \in Reader, StorePoll(g)
      PROVE  FetchOK(f)'
  BY <1>0, <1>8 DEF StorePoll, NoGet
<1>9. CASE UNCHANGED <<row, openedOn, closedOn, started, listed, listDue,
                       fetch>>
  BY <1>0, <1>9
<1> QED
  BY <1>1, <1>2, <1>3, <1>4, <1>5, <1>6, <1>7, <1>8, <1>9
  DEF Next, Begin, Refuse, SkipPut, Put, Arrive, LoadCounters,
      StoreCounters, AcceptVote, RejectVote, Flush, Increment, IsLeader,
      Snapshot, Tick, vars

(* A vote passes from a handler to counters the flusher finds, to Redis    *)
(* and to a snapshot.                                                      *)
LEMMA PlaceStep ==
  TypeOK /\ Caches /\ RowOK /\ Places /\ [Next]_vars
    => \A v \in Request : PlaceOK(v)'
<1> SUFFICES ASSUME TypeOK, Caches, RowOK, Places, [Next]_vars,
                    NEW v \in Request
             PROVE  PlaceOK(v)'
    OBVIOUS
<1>0. PlaceOK(v) /\ At[v] \in Process /\ AheadOK(At[v])
    BY WindowAssumption DEF Places, Caches
<1> USE Durations, WindowAssumption DEF TypeOK, PlaceOK, Gated, rowVars,
      cacheVars, voteVars, snapVars
<1>1. ASSUME NEW j \in Job, Commit(j)
      PROVE  PlaceOK(v)'
  BY <1>0, <1>1 DEF Commit, AllowedTransition, RowOK
<1>2. ASSUME NEW i \in Process, Start(i)
      PROVE  PlaceOK(v)'
  BY <1>0, <1>2 DEF Start
<1>3. ASSUME NEW r \in Request, Arrive(r)
      PROVE  PlaceOK(v)'
  BY <1>0, <1>3 DEF Arrive, Up, Admits, AheadOK
<1>4. ASSUME NEW r \in Request, LoadCounters(r)
      PROVE  PlaceOK(v)'
  BY <1>0, <1>4 DEF LoadCounters
<1>5. ASSUME NEW r \in Request, StoreCounters(r)
      PROVE  PlaceOK(v)'
  BY <1>0, <1>5 DEF StoreCounters
<1>6. ASSUME NEW r \in Request, AcceptVote(r)
      PROVE  PlaceOK(v)'
  BY <1>0, <1>6 DEF AcceptVote
<1>7. ASSUME NEW r \in Request, RejectVote(r)
      PROVE  PlaceOK(v)'
  BY <1>0, <1>7 DEF RejectVote
<1>8. ASSUME NEW i \in Process, Flush(i)
      PROVE  PlaceOK(v)'
  BY <1>0, <1>8 DEF Flush, Move, Sent
<1>9. ASSUME NEW i \in Process, Increment(i)
      PROVE  PlaceOK(v)'
  BY <1>0, <1>9 DEF Increment, Move, Sent
<1>10. CASE Snapshot
  BY <1>0, <1>10 DEF Snapshot
<1>11. CASE UNCHANGED <<openedOn, started, pos, kept, polls, snapped>>
  BY <1>0, <1>11
<1> QED
  BY <1>1, <1>2, <1>3, <1>4, <1>5, <1>6, <1>7, <1>8, <1>9, <1>10, <1>11
  DEF Next, Begin, Refuse, SkipPut, Put, StartRefresh, ListPolls,
      StoreFresh, Miss, LoadPoll, StorePoll, IsLeader, Tick, vars

(* No vote is let in, or stays where it is, for longer than it may. *)
LEMMA DeadlineStep ==
  TypeOK /\ Timely /\ Due /\ RowOK /\ Caches /\ Places /\ Deadlines /\
  [Next]_vars
    => \A v \in Request : DeadlineOK(v)'
<1> SUFFICES ASSUME TypeOK, Timely, Due, RowOK, Caches, Places, Deadlines,
                    [Next]_vars,
                    NEW v \in Request
             PROVE  DeadlineOK(v)'
    OBVIOUS
<1>0. PlaceOK(v) /\ DeadlineOK(v) /\ At[v] \in Process /\ ClosedOK(At[v])
    BY WindowAssumption DEF Places, Deadlines, Caches
<1> USE Durations, WindowAssumption DEF TypeOK, Timely, Due, RowOK, DeadlineOK,
      Prompt, Settled, Gated, rowVars, cacheVars, voteVars, snapVars
<1>1. ASSUME NEW j \in Job, Commit(j)
      PROVE  DeadlineOK(v)'
  <2>1. UNCHANGED <<clock, started, pos, at, flushDue, snapped, snapNow,
                    snapDue>>
    BY <1>1 DEF Commit
  <2>2. CASE To[j] = "open"
    BY <1>1, <2>2 DEF Commit
  <2>3. CASE To[j] = "closed"
    <3>1. closedOn' = clock /\ clock \in Nat
      BY <1>1, <2>3 DEF Commit
    <3>2. pos[v] \in {"held", "sent"} => flushDue[At[v]] <= clock + Period
      BY <1>0 DEF PlaceOK
    <3>3. snapDue <= clock + Period /\ (snapNow # 0 => snapNow <= clock)
      OBVIOUS
    <3>4. pos[v] \in {"in", "miss", "hold"} => at[v] <= clock
      OBVIOUS
    <3>5. flushDue[At[v]] \in Nat /\ at[v] \in Nat /\ snapDue \in Nat
          /\ snapNow \in Nat
      BY <1>0
    <3> QED BY <2>1, <3>1, <3>2, <3>3, <3>4, <3>5
  <2> QED BY <2>2, <2>3
<1>2. ASSUME NEW i \in Process, Start(i)
      PROVE  DeadlineOK(v)'
  BY <1>0, <1>2 DEF Start, PlaceOK
<1>3. ASSUME NEW r \in Request, Arrive(r)
      PROVE  DeadlineOK(v)'
  BY <1>0, <1>3 DEF Arrive, Up, Admits, ClosedOK
<1>4. ASSUME NEW r \in Request, LoadCounters(r)
      PROVE  DeadlineOK(v)'
  BY <1>0, <1>4 DEF LoadCounters
<1>5. ASSUME NEW r \in Request, StoreCounters(r)
      PROVE  DeadlineOK(v)'
  BY <1>0, <1>5 DEF StoreCounters
<1>6. ASSUME NEW r \in Request, AcceptVote(r)
      PROVE  DeadlineOK(v)'
  BY <1>0, <1>6 DEF AcceptVote, PlaceOK
<1>7. ASSUME NEW r \in Request, RejectVote(r)
      PROVE  DeadlineOK(v)'
  BY <1>0, <1>7 DEF RejectVote
<1>8. ASSUME NEW i \in Process, Flush(i)
      PROVE  DeadlineOK(v)'
  BY <1>0, <1>8 DEF Flush, Move, Sent, PlaceOK
<1>9. ASSUME NEW i \in Process, Increment(i)
      PROVE  DeadlineOK(v)'
  BY <1>0, <1>9 DEF Increment, Move, Sent
<1>10. CASE IsLeader
  BY <1>0, <1>10 DEF IsLeader
<1>11. CASE Snapshot
  BY <1>0, <1>11 DEF Snapshot, Candidate
<1>12. CASE UNCHANGED <<rowVars, started, pos, at, flushDue, snapped, snapNow,
                       snapDue>>
  BY <1>0, <1>12
<1> QED
  BY <1>1, <1>2, <1>3, <1>4, <1>5, <1>6, <1>7, <1>8, <1>9, <1>10, <1>11, <1>12
  DEF Next, Begin, Refuse, SkipPut, Put, StartRefresh, ListPolls,
      StoreFresh, Miss, LoadPoll, StorePoll, Tick, vars

THEOREM Inductive == Spec => []IInv
<1>1. Init => IInv
  <2> SUFFICES ASSUME Init PROVE IInv
    OBVIOUS
  <2> USE WindowAssumption, Durations DEF Init, Idle, NoGet, State, Live
  <2>1. TypeOK
    BY DEF TypeOK
  <2>2. Timely /\ Due /\ RowOK
    BY DEF Timely, Due, RowOK, Gated
  <2>3. Caches /\ Reads
    BY DEF Caches, AheadOK, WarmOK, ClosedOK, OpenOK, Reads, FetchOK
  <2>4. Places /\ Deadlines
    BY DEF Places, PlaceOK, Deadlines, DeadlineOK, Gated
  <2> QED BY <2>1, <2>2, <2>3, <2>4 DEF IInv
<1>2. IInv /\ [Next]_vars => IInv'
  <2> SUFFICES ASSUME IInv, [Next]_vars PROVE IInv'
    OBVIOUS
  <2>1. TypeOK' /\ Timely' /\ Due' /\ RowOK'
    BY TypeStep, TimelyStep, DueStep, RowStep DEF IInv
  <2>2. Caches'
    BY AheadStep, WarmStep, ClosedStep, OpenStep DEF IInv, Caches
  <2>3. Reads' /\ Places' /\ Deadlines'
    BY FetchStep, PlaceStep, DeadlineStep DEF IInv, Reads, Places, Deadlines
  <2> QED BY <2>1, <2>2, <2>3 DEF IInv
<1> QED BY <1>1, <1>2, PTL DEF Spec

-----------------------------------------------------------------------------
(* The variables of the window keep their types.                           *)
THEOREM TypeCorrect == Spec => []TypeOK
BY Inductive, PTL DEF IInv

Over == row = "closed" /\ clock >= closedAt + Grace + Latency

(* When the grace and the snapshot it may still allow are over, no vote of *)
(* a prompt process is under way or missing in the last snapshot, and a    *)
(* snapshot that runs finds the poll to be no candidate.                   *)
LEMMA GraceOver ==
  ASSUME IInv, Over
  PROVE  /\ \A r \in Request : Prompt(At[r]) =>
              /\ pos[r] \notin Gated \cup {"held", "sent"}
              /\ pos[r] = "counted" => r \in snapped
         /\ snapNow # 0 => ~Candidate
<1> USE Durations DEF IInv, TypeOK, Over
<1>1. clock >= closedOn + Grace /\ closedOn <= closedAt + Latency
  BY DEF RowOK
<1>2. ASSUME NEW r \in Request, Prompt(At[r])
      PROVE  /\ pos[r] \notin Gated \cup {"held", "sent"}
             /\ pos[r] = "counted" => r \in snapped
  <2>1. DeadlineOK(r) /\ PlaceOK(r) /\ At[r] \in Process
    BY WindowAssumption DEF Places, Deadlines
  <2>2. pos[r] \notin Gated
    BY <1>1, <1>2, <2>1 DEF Timely, DeadlineOK
  <2>3. pos[r] # "held"
    BY <1>1, <1>2, <2>1 DEF Due, DeadlineOK, PlaceOK
  <2>4. pos[r] # "sent"
    BY <1>1, <1>2, <2>1 DEF Timely, DeadlineOK
  <2>5. ASSUME pos[r] = "counted", r \notin snapped PROVE FALSE
    <3>1. CASE snapNow = 0
      BY <1>1, <1>2, <2>1, <2>5, <3>1 DEF Due, DeadlineOK, RowOK
    <3>2. CASE snapNow # 0
      BY <1>1, <1>2, <2>1, <2>5, <3>2 DEF Timely, DeadlineOK, RowOK
    <3> QED BY <3>1, <3>2
  <2> QED BY <2>2, <2>3, <2>4, <2>5
<1>3. snapNow # 0 => ~Candidate
  BY DEF Candidate, Timely
<1> QED BY <1>2, <1>3

LEMMA GraceKept == IInv => GraceSuffices
<1> SUFFICES ASSUME IInv, Over, NEW v \in LetIn, Prompt(At[v])
             PROVE  v \in snapped
    BY DEF GraceSuffices, Over
<1>1. v \in Request /\ pos[v] \in Gated \cup {"held", "sent", "counted"}
  BY DEF LetIn, Accepted, Gated
<1>2. pos[v] \notin Gated \cup {"held", "sent"}
  BY <1>1, GraceOver
<1>3. pos[v] = "counted" => v \in snapped
  BY <1>1, GraceOver
<1> QED BY <1>1, <1>2, <1>3

(* closeGrace is long enough: when five transactions, queries or pipelines *)
(* and three rounds of the loops fit into it, no vote that a prompt        *)
(* process let in misses the last snapshot.                                *)
THEOREM GraceIsEnough == Spec => []GraceSuffices
BY GraceKept, Inductive, PTL

(* The result is final when the grace and a last snapshot are over: from   *)
(* then on no snapshot changes what was published, whatever is still let   *)
(* in, and no prompt process lets in a vote that would be missing there.   *)
ResultIsFinal ==
  [][row = "closed" /\ clock >= closedAt + Grace + Latency =>
       /\ snapped' = snapped
       /\ \A r \in LetIn' : Prompt(At[r])' => r \in snapped]_vars

THEOREM FinalResult == Spec => ResultIsFinal
<1>1. ASSUME IInv, Next, Over
      PROVE  snapped' = snapped /\ Over'
  <2> USE <1>1, Durations DEF IInv, TypeOK
  <2>1. snapNow # 0 => ~Candidate
    BY GraceOver
  <2>2. snapped' = snapped
    BY <2>1 DEF Next, Begin, Commit, Refuse, Put, SkipPut, Start, StartRefresh,
       ListPolls, StoreFresh, Miss, LoadPoll, StorePoll, Arrive, LoadCounters,
       StoreCounters, AcceptVote, RejectVote, Flush, Increment, IsLeader,
       Snapshot, Tick, snapVars
  <2>3. ASSUME NEW j \in Job PROVE ~Commit(j)
    BY DEF Commit, AllowedTransition, Over
  <2>4. row' = row /\ closedAt' = closedAt
    BY <2>3 DEF Next, Begin, Refuse, Put, SkipPut, Start, StartRefresh,
       ListPolls, StoreFresh, Miss, LoadPoll, StorePoll, Arrive, LoadCounters,
       StoreCounters, AcceptVote, RejectVote, Flush, Increment, IsLeader,
       Snapshot, Tick, rowVars
  <2>5. clock' = clock \/ clock' = clock + 1
    BY <2>3 DEF Next, Begin, Refuse, Put, SkipPut, Start, StartRefresh,
       ListPolls, StoreFresh, Miss, LoadPoll, StorePoll, Arrive, LoadCounters,
       StoreCounters, AcceptVote, RejectVote, Flush, Increment, IsLeader,
       Snapshot, Tick
  <2> QED BY <2>2, <2>4, <2>5 DEF Over
<1>2. ASSUME IInv, IInv', Next, Over
      PROVE  /\ snapped' = snapped
             /\ \A r \in LetIn' : Prompt(At[r])' => r \in snapped
  <2>1. snapped' = snapped /\ Over'
    BY <1>1, <1>2
  <2>2. GraceSuffices'
    BY GraceKept, <1>2, PTL
  <2> QED BY <2>1, <2>2 DEF GraceSuffices, Over
<1>3. IInv /\ IInv' /\ [Next]_vars =>
        [row = "closed" /\ clock >= closedAt + Grace + Latency =>
           /\ snapped' = snapped
           /\ \A r \in LetIn' : Prompt(At[r])' => r \in snapped]_vars
  BY <1>2, Zenon DEF Over
<1> QED BY <1>3, Inductive, PTL DEF Spec, ResultIsFinal

(* A poll whose opening is not committed takes no vote.                    *)
THEOREM OnlyOpened == Spec => []OnlyOpenedPolls
<1>1. IInv => OnlyOpenedPolls
  BY DEF IInv, Places, PlaceOK, OnlyOpenedPolls, LetIn, Accepted, Gated
<1> QED BY <1>1, Inductive, PTL

(* A settled process lets votes in for at most Period + Latency after a    *)
(* close.                                                                  *)
THEOREM Staleness == Spec => []BoundedStaleness
<1>1. IInv => BoundedStaleness
  BY DEF IInv, Deadlines, DeadlineOK, Prompt, BoundedStaleness, Gated
<1> QED BY <1>1, Inductive, PTL

LEMMA ExpiryBound == Expiry + Second > ClosesAt /\ Expiry <= ClosesAt
BY WindowAssumption DEF Expiry

(* Nobody is refused while the poll is open, but for the time the opening  *)
(* takes to spread or a process to warm up, and for the last second of the *)
(* window.                                                                 *)
THEOREM NoFalseRejection == Spec => NotTurnedAway
<1>1. ASSUME IInv, Next, NEW r \in Request,
             pos'[r] = "refused", pos[r] = "out", row = "open",
             clock > openedOn + Period + Latency,
             clock > started[At[r]] + Period + 2 * Latency
      PROVE  clock + Second > ClosesAt
  <2> USE <1>1, Durations, WindowAssumption DEF IInv, TypeOK
  <2>1. Arrive(r)
    <3>1. ~UNCHANGED voteVars
      BY DEF voteVars
    <3>2. ASSUME NEW q \in Request, Arrive(q) \/ LoadCounters(q)
                   \/ StoreCounters(q) \/ AcceptVote(q) \/ RejectVote(q)
          PROVE  Arrive(r)
      <4>1. q = r
        BY <3>2 DEF Arrive, LoadCounters, StoreCounters, AcceptVote, RejectVote
      <4>2. pos[r] \notin {"in", "miss", "hold"}
        OBVIOUS
      <4> QED BY <3>2, <4>1, <4>2
          DEF LoadCounters, StoreCounters, AcceptVote, RejectVote
    <3>3. ASSUME NEW i \in Process PROVE ~Flush(i) /\ ~Increment(i)
      BY DEF Flush, Increment, Move
    <3> QED BY <3>1, <3>2, <3>3, Zenon
        DEF Next, Begin, Commit, Refuse, Put, SkipPut, Start, StartRefresh,
            ListPolls, StoreFresh, Miss, LoadPoll, StorePoll, IsLeader,
            Snapshot, Tick
  <2>2. At[r] \in Process /\ OpenOK(At[r]) /\ started[At[r]] # 0
    BY <2>1 DEF Caches, Arrive, Up
  <2>3. seen[At[r]] = "open"
    BY <2>2 DEF OpenOK, Due, Timely
  <2>4. Expiry <= clock \/ ClosesAt <= clock
    BY <2>1, <2>3 DEF Arrive, Admits, Expiry
  <2> QED BY <2>4, ExpiryBound DEF Expiry
<1>2. ASSUME IInv, Next, NEW r \in Request,
             pos'[r] = "refused", pos[r] = "out"
      PROVE  \/ row # "open"
             \/ clock <= openedOn + Period + Latency
             \/ clock <= started[At[r]] + Period + 2 * Latency
             \/ clock + Second > ClosesAt
  BY <1>1, <1>2, Durations, WindowAssumption DEF IInv, TypeOK
<1>3. IInv /\ [Next]_vars =>
        [\A r \in Request : pos'[r] = "refused" /\ pos[r] = "out" =>
           \/ row # "open"
           \/ clock <= openedOn + Period + Latency
           \/ clock <= started[At[r]] + Period + 2 * Latency
           \/ clock + Second > ClosesAt]_vars
  BY <1>2, Zenon
<1> QED BY <1>3, Inductive, PTL DEF Spec, NotTurnedAway
=============================================================================
