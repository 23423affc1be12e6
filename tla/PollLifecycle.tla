--------------------------- MODULE PollLifecycle ---------------------------
(***************************************************************************)
(* The polls table: administrators create polls and request transitions,   *)
(* the schedule worker of whichever process believes itself the leader     *)
(* opens due polls and closes expired ones.  All of them run TransitionPoll*)
(* transactions that lock the row, check the FSM, write the state and an   *)
(* audit record.  opened_at and closed_at are left out.                    *)
(***************************************************************************)
EXTENDS Naturals, Sequences

CONSTANTS
  Poll,
  NoPoll,    \* the poll of an actor with no transaction
  Admin,     \* administrators' requests in progress
  Opener,    \* schedule workers, one per API process
  NoActor,   \* the holder of an unlocked row
  MaxTime,   \* bound of the clock
  MaxFaults, \* bound on failures of the database
  Window     \* voting_window_seconds

ASSUME LifecycleAssumption ==
  /\ NoPoll \notin Poll
  /\ Admin \cap Opener = {}
  /\ NoActor \notin Admin \cup Opener
  /\ MaxTime \in Nat
  /\ MaxFaults \in Nat
  /\ Window \in Nat \ {0}

VARIABLES
  clock,
  state,        \* polls.state; "none" for a row not inserted yet
  scheduledAt,  \* polls.scheduled_at, 0 for NULL
  closesAt,     \* polls.closes_at, 0 for NULL
  audit,        \* audit[p]: the poll.transition records of p, oldest first
  lock,         \* lock[p]: who holds the row lock of p
  pc,           \* pc[a]: where actor a is
  req,          \* req[a]: the poll, target state and scheduled_at a works on
  seen,         \* seen[a]: the state a's transaction read
  tickAt,       \* tickAt[o]: `now` of the tick o runs
  stage,        \* stage[o]: which half of the tick o is in
  queue,        \* queue[o]: polls its last list query returned, still to do
  faults        \* failures of the database so far

rowVars  == <<state, scheduledAt, closesAt, audit>>
tickVars == <<tickAt, stage, queue>>
vars     == <<clock, rowVars, lock, pc, req, seen, tickVars, faults>>

Actor   == Admin \cup Opener
State   == {"none", "draft", "scheduled", "open", "closed"}
Target  == State \ {"none"}
Request == [poll : Poll \cup {NoPoll}, to : Target, at : Nat]

NoRequest == [poll |-> NoPoll, to |-> "draft", at |-> 0]

TypeOK ==
  /\ clock \in Nat
  /\ state \in [Poll -> State]
  /\ scheduledAt \in [Poll -> Nat]
  /\ closesAt \in [Poll -> {t \in Nat : t = 0 \/ t > Window}]
  /\ audit \in [Poll -> Seq([from : State, to : State])]
  /\ lock \in [Poll -> Actor \cup {NoActor}]
  /\ pc \in [Actor -> {"idle", "insert", "lock", "update", "list", "next"}]
  /\ req \in [Actor -> Request]
  /\ seen \in [Actor -> State]
  /\ tickAt \in [Opener -> Nat]
  /\ stage \in [Opener -> {"idle", "opening", "closing"}]
  /\ queue \in [Opener -> SUBSET Poll]
  /\ faults \in Nat

Init ==
  /\ clock = 0
  /\ state = [p \in Poll |-> "none"]
  /\ scheduledAt = [p \in Poll |-> 0]
  /\ closesAt = [p \in Poll |-> 0]
  /\ audit = [p \in Poll |-> <<>>]
  /\ lock = [p \in Poll |-> NoActor]
  /\ pc = [a \in Actor |-> "idle"]
  /\ req = [a \in Actor |-> NoRequest]
  /\ seen = [a \in Actor |-> "none"]
  /\ tickAt = [o \in Opener |-> 0]
  /\ stage = [o \in Opener |-> "idle"]
  /\ queue = [o \in Opener |-> {}]
  /\ faults = 0

(* Mutant: a scheduled poll may be moved to another time. *)
AllowedTransition_Reschedules(from, to) ==
  \/ from \in {"draft", "scheduled"} /\ to = "scheduled"
  \/ from = "scheduled" /\ to \in {"open", "closed"}
  \/ from = "open" /\ to = "closed"

AllowedTransition(from, to) ==
  \/ from = "draft" /\ to = "scheduled"
  \/ from = "scheduled" /\ to \in {"open", "closed"}
  \/ from = "open" /\ to = "closed"

(* Mutant: the trigger does not treat a missing scheduled_at apart. *)
ClosesAt_NoNull(at) == at + Window

(* The polls_set_closes_at trigger, fired when scheduled_at is written. *)
ClosesAt(at) == IF at = 0 THEN 0 ELSE at + Window

Advance ==
  /\ clock < MaxTime
  /\ clock' = clock + 1
  /\ UNCHANGED <<rowVars, lock, pc, req, seen, tickVars, faults>>

-----------------------------------------------------------------------------
(* Administrators.  A request is validated against the clock first, and    *)
(* reaches the database later.                                             *)

Valid(to, at) == IF to = "scheduled" THEN at > clock ELSE at = 0

(* The row's id is fresh: no two requests create the same poll. *)
RequestCreate(a, p, to, at) ==
  /\ pc[a] = "idle"
  /\ state[p] = "none"
  /\ \A b \in Actor : req[b].poll # p
  /\ to \in {"draft", "scheduled"}
  /\ Valid(to, at)
  /\ pc' = [pc EXCEPT ![a] = "insert"]
  /\ req' = [req EXCEPT ![a] = [poll |-> p, to |-> to, at |-> at]]
  /\ UNCHANGED <<clock, rowVars, lock, seen, tickVars, faults>>

RequestTransition(a, p, to, at) ==
  /\ pc[a] = "idle"
  /\ state[p] # "none"
  /\ to \in {"scheduled", "open", "closed"}
  /\ Valid(to, at)
  /\ pc' = [pc EXCEPT ![a] = "lock"]
  /\ req' = [req EXCEPT ![a] = [poll |-> p, to |-> to, at |-> at]]
  /\ UNCHANGED <<clock, rowVars, lock, seen, tickVars, faults>>

(* The transaction of actor a is over; a schedule worker goes on with its  *)
(* queue.                                                                  *)
EndTx(a) ==
  /\ pc' = [pc EXCEPT ![a] = IF a \in Opener THEN "next" ELSE "idle"]
  /\ req' = [req EXCEPT ![a] = NoRequest]
  /\ seen' = [seen EXCEPT ![a] = "none"]

(* CreatePoll commits: the row, its options and the poll.create record. *)
CreatePoll(a) ==
  LET p == req[a].poll IN
  /\ pc[a] = "insert"
  /\ state' = [state EXCEPT ![p] = req[a].to]
  /\ scheduledAt' = [scheduledAt EXCEPT ![p] = req[a].at]
  /\ closesAt' = [closesAt EXCEPT ![p] = ClosesAt(req[a].at)]
  /\ EndTx(a)
  /\ UNCHANGED <<clock, audit, lock, tickVars, faults>>

-----------------------------------------------------------------------------
(* TransitionPoll *)

(* Mutant: SELECT state without FOR UPDATE. *)
LockPoll_NoForUpdate(a) ==
  LET p == req[a].poll IN
  /\ pc[a] = "lock"
  /\ lock' = lock
  /\ seen' = [seen EXCEPT ![a] = state[p]]
  /\ pc' = [pc EXCEPT ![a] = "update"]
  /\ UNCHANGED <<clock, rowVars, req, tickVars, faults>>

(* SELECT state ... FOR UPDATE waits for the holder's transaction to end   *)
(* and reads what it left.                                                 *)
LockPoll(a) ==
  LET p == req[a].poll IN
  /\ pc[a] = "lock"
  /\ lock[p] = NoActor
  /\ lock' = [lock EXCEPT ![p] = a]
  /\ seen' = [seen EXCEPT ![a] = state[p]]
  /\ pc' = [pc EXCEPT ![a] = "update"]
  /\ UNCHANGED <<clock, rowVars, req, tickVars, faults>>

Unlock(a) == lock' = [p \in Poll |-> IF lock[p] = a THEN NoActor ELSE lock[p]]

(* The UPDATE, the audit record and the commit. *)
CommitTransition(a) ==
  LET p  == req[a].poll
      to == req[a].to
  IN
  /\ pc[a] = "update"
  /\ AllowedTransition(seen[a], to)
  /\ state' = [state EXCEPT ![p] = to]
  /\ IF to = "scheduled"
     THEN /\ scheduledAt' = [scheduledAt EXCEPT ![p] = req[a].at]
          /\ closesAt' = [closesAt EXCEPT ![p] = ClosesAt(req[a].at)]
     ELSE UNCHANGED <<scheduledAt, closesAt>>
  /\ audit' = [audit EXCEPT ![p] = Append(@, [from |-> seen[a], to |-> to])]
  /\ Unlock(a)
  /\ EndTx(a)
  /\ UNCHANGED <<clock, tickVars, faults>>

(* TransitionError: the edge does not exist from the state that was read. *)
RefuseTransition(a) ==
  /\ pc[a] = "update"
  /\ ~AllowedTransition(seen[a], req[a].to)
  /\ Unlock(a)
  /\ EndTx(a)
  /\ UNCHANGED <<clock, rowVars, tickVars, faults>>

(* Any statement of the transaction fails and it is rolled back. *)
Rollback(a) ==
  /\ pc[a] \in {"insert", "lock", "update"}
  /\ faults < MaxFaults
  /\ faults' = faults + 1
  /\ Unlock(a)
  /\ EndTx(a)
  /\ UNCHANGED <<clock, rowVars, tickVars>>

-----------------------------------------------------------------------------
(* The schedule worker *)

(* A tick of a worker whose elector says it leads; two may at once. *)
Tick(o) ==
  /\ pc[o] = "idle"
  /\ tickAt' = [tickAt EXCEPT ![o] = clock]
  /\ stage' = [stage EXCEPT ![o] = "opening"]
  /\ pc' = [pc EXCEPT ![o] = "list"]
  /\ UNCHANGED <<clock, rowVars, lock, req, seen, queue, faults>>

(* Mutants: the time is not compared; only polls of this very tick. *)
DuePolls_AnyTime(now)  == {p \in Poll : state[p] = "scheduled"}
DuePolls_ThisTick(now) == {p \in Poll : /\ state[p] = "scheduled"
                                        /\ scheduledAt[p] = now}

DuePolls(now) == {p \in Poll : state[p] = "scheduled" /\ scheduledAt[p] <= now}

ExpiredPolls(now) == {p \in Poll : state[p] = "open" /\ closesAt[p] <= now}

List(o) ==
  /\ pc[o] = "list"
  /\ queue' = [queue EXCEPT ![o] = IF stage[o] = "opening"
                                   THEN DuePolls(tickAt[o])
                                   ELSE ExpiredPolls(tickAt[o])]
  /\ pc' = [pc EXCEPT ![o] = "next"]
  /\ UNCHANGED <<clock, rowVars, lock, req, seen, tickAt, stage, faults>>

(* The list query fails: this half of the tick is skipped. *)
ListFails(o) ==
  /\ pc[o] = "list"
  /\ faults < MaxFaults
  /\ faults' = faults + 1
  /\ pc' = [pc EXCEPT ![o] = "next"]
  /\ UNCHANGED <<clock, rowVars, lock, req, seen, tickVars>>

(* The next poll of the list, in whatever order the query returned it. *)
TakePoll(o) ==
  /\ pc[o] = "next"
  /\ \E p \in queue[o] :
       /\ queue' = [queue EXCEPT ![o] = @ \ {p}]
       /\ req' = [req EXCEPT ![o] =
                    [poll |-> p,
                     to   |-> IF stage[o] = "opening" THEN "open" ELSE "closed",
                     at   |-> 0]]
  /\ pc' = [pc EXCEPT ![o] = "lock"]
  /\ UNCHANGED <<clock, rowVars, lock, seen, tickAt, stage, faults>>

(* Mutant: the tick ends after openDue. *)
EndStage_OpensOnly(o) ==
  /\ pc[o] = "next"
  /\ queue[o] = {}
  /\ stage' = [stage EXCEPT ![o] = "idle"]
  /\ pc' = [pc EXCEPT ![o] = "idle"]
  /\ UNCHANGED <<clock, rowVars, lock, req, seen, tickAt, queue, faults>>

(* openDue is followed by closeExpired, with the same `now`. *)
EndStage(o) ==
  /\ pc[o] = "next"
  /\ queue[o] = {}
  /\ IF stage[o] = "opening"
     THEN /\ stage' = [stage EXCEPT ![o] = "closing"]
          /\ pc' = [pc EXCEPT ![o] = "list"]
     ELSE /\ stage' = [stage EXCEPT ![o] = "idle"]
          /\ pc' = [pc EXCEPT ![o] = "idle"]
  /\ UNCHANGED <<clock, rowVars, lock, req, seen, tickAt, queue, faults>>

-----------------------------------------------------------------------------
Tx(a) == \/ CreatePoll(a)
         \/ LockPoll(a)
         \/ CommitTransition(a)
         \/ RefuseTransition(a)

Work(o) == \/ Tick(o)
           \/ List(o)
           \/ TakePoll(o)
           \/ EndStage(o)

Next ==
  \/ Advance
  \/ \E a \in Admin, p \in Poll, to \in Target, at \in 0 .. MaxTime :
       RequestCreate(a, p, to, at) \/ RequestTransition(a, p, to, at)
  \/ \E a \in Actor : Tx(a) \/ Rollback(a)
  \/ \E o \in Opener : Work(o) \/ ListFails(o)

Spec == Init /\ [][Next]_vars

(* Time passes, the processes are scheduled and lead again and again, and  *)
(* row locks are granted in turn; the database fails MaxFaults times.      *)
Fairness ==
  /\ WF_vars(Advance)
  /\ \A a \in Admin : WF_vars(Tx(a))
  /\ \A o \in Opener : WF_vars(Work(o) \/ Tx(o)) /\ SF_vars(LockPoll(o))

FairSpec == Spec /\ Fairness

-----------------------------------------------------------------------------
(* The audit log: with concurrent administrators and workers, the records  *)
(* of a poll still form one chain, each from where the last one led, the   *)
(* last one leading to the state of the row.                               *)
AuditIsChain ==
  \A p \in Poll :
    /\ \A k \in 1 .. Len(audit[p]) - 1 : audit[p][k].to = audit[p][k + 1].from
    /\ audit[p] # <<>> => audit[p][Len(audit[p])].to = state[p]

(* "a poll's voting window is fixed and cacheable from the moment it's     *)
(* scheduled": scheduled_at and closes_at are written once.                *)
WindowFixed ==
  [][\A p \in Poll : scheduledAt[p] # 0 =>
       scheduledAt'[p] = scheduledAt[p] /\ closesAt'[p] = closesAt[p]]_vars

(* A worker acts on a list that is old by the time it has the lock, but it *)
(* never opens a poll before scheduled_at nor closes it before closes_at.  *)
NeverEarly ==
  [][\A p \in Poll : state'[p] # state[p] /\ lock[p] \in Opener =>
       IF state'[p] = "open" THEN scheduledAt[p] <= clock
                             ELSE closesAt[p] <= clock]_vars

FSM == INSTANCE PollFSM

(* Rows, locks and workers implement the life promised of a poll; above    *)
(* all, no interleaving reopens a closed poll or opens it twice.           *)
ImplementsPollFSM == FSM!Spec

(* B4: nobody has to click "open" in the exact second the spot airs. *)
DuePollsOpen ==
  \A p \in Poll : state[p] = "scheduled" /\ scheduledAt[p] <= clock
                  ~> state[p] \in {"open", "closed"}

(* Nobody has to click "close" after the broadcast. *)
ExpiredPollsClose ==
  \A p \in Poll : state[p] = "open" /\ closesAt[p] <= clock
                  ~> state[p] = "closed"
=============================================================================
