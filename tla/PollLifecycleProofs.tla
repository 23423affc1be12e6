------------------------ MODULE PollLifecycleProofs ------------------------
(***************************************************************************)
(* Proofs about PollLifecycle for any polls, actors, window and bounds.    *)
(***************************************************************************)
EXTENDS PollLifecycle, TLAPS

(* A transaction past SELECT ... FOR UPDATE holds the row's lock, nobody   *)
(* else does, and what it read is still what the row holds.                *)
LockInv ==
  /\ \A a \in Actor : pc[a] = "update" =>
       /\ req[a].poll \in Poll
       /\ lock[req[a].poll] = a
       /\ seen[a] = state[req[a].poll]
  /\ \A p \in Poll : lock[p] # NoActor =>
       pc[lock[p]] = "update" /\ req[lock[p]].poll = p

(* An insert works on a row of its own, a transition on an existing one.   *)
ReqInv ==
  \A a \in Actor :
    /\ pc[a] \in {"insert", "lock"} => req[a].poll \in Poll
    /\ pc[a] = "insert" =>
         /\ a \in Admin
         /\ state[req[a].poll] = "none"
         /\ req[a].to \in {"draft", "scheduled"}
         /\ \A b \in Actor \ {a} : req[b].poll # req[a].poll
    /\ pc[a] \in {"lock", "update"} =>
         state[req[a].poll] # "none" /\ req[a].to # "draft"
    /\ req[a].to = "draft" => req[a].at = 0
    /\ req[a].to = "scheduled" => req[a].at # 0

(* The window is there exactly from the moment the poll is scheduled.      *)
WindowInv ==
  \A p \in Poll :
    /\ scheduledAt[p] = 0 <=> state[p] \in {"none", "draft"}
    /\ closesAt[p] = ClosesAt(scheduledAt[p])

(* Whatever is left of a worker's list was due, and still is. *)
Due(o, p) ==
  IF stage[o] = "opening"
  THEN scheduledAt[p] # 0 /\ scheduledAt[p] <= tickAt[o]
  ELSE closesAt[p] # 0 /\ closesAt[p] <= tickAt[o]

QueueInv ==
  \A o \in Opener :
    /\ tickAt[o] <= clock
    /\ \A p \in queue[o] : Due(o, p)
    /\ pc[o] \in {"lock", "update"} =>
         /\ Due(o, req[o].poll)
         /\ req[o].to = IF stage[o] = "opening" THEN "open" ELSE "closed"
    /\ pc[o] \in {"idle", "list"} => queue[o] = {}

(* A row without records is as it was created. *)
AuditInv ==
  /\ AuditIsChain
  /\ \A p \in Poll : state[p] = "none" => audit[p] = <<>>

IInv == TypeOK /\ LockInv /\ ReqInv /\ WindowInv /\ QueueInv /\ AuditInv

USE DEF rowVars, tickVars, Actor, State, Target

-----------------------------------------------------------------------------
(* Initial states *)

LEMMA InitIInv == Init => IInv
BY LifecycleAssumption
   DEF Init, IInv, TypeOK, LockInv, ReqInv, WindowInv, QueueInv, AuditInv,
       AuditIsChain, Due, ClosesAt, Request, NoRequest

-----------------------------------------------------------------------------
(* Typing and the transactions *)

(* Every action keeps the types. *)
LEMMA TypeStep ==
  TypeOK /\ LockInv /\ ReqInv /\ [Next]_vars => TypeOK'
<1> SUFFICES ASSUME TypeOK, LockInv, ReqInv, [Next]_vars PROVE TypeOK'
  OBVIOUS
<1> USE LifecycleAssumption
<1>0. CASE UNCHANGED vars
  BY <1>0 DEF vars, TypeOK, LockInv, ReqInv, Request
<1>1. CASE Advance
  BY <1>1 DEF Advance, TypeOK, LockInv, ReqInv, Request
<1>2. ASSUME NEW a \in Admin, NEW p \in Poll, NEW to \in Target, NEW at \in 0
              .. MaxTime, RequestCreate(a, p, to, at)
      PROVE  TypeOK'
  BY <1>2 DEF RequestCreate, Valid, TypeOK, LockInv, ReqInv, Request
<1>3. ASSUME NEW a \in Admin, NEW p \in Poll, NEW to \in Target, NEW at \in 0
              .. MaxTime, RequestTransition(a, p, to, at)
      PROVE  TypeOK'
  BY <1>3 DEF RequestTransition, Valid, TypeOK, LockInv, ReqInv, Request
<1>4. ASSUME NEW a \in Actor, CreatePoll(a)
      PROVE  TypeOK'
  BY <1>4 DEF CreatePoll, EndTx, ClosesAt, NoRequest, TypeOK, LockInv,
      ReqInv, Request
<1>5. ASSUME NEW a \in Actor, LockPoll(a)
      PROVE  TypeOK'
  BY <1>5 DEF LockPoll, TypeOK, LockInv, ReqInv, Request
<1>6. ASSUME NEW a \in Actor, CommitTransition(a)
      PROVE  TypeOK'
  <2>1. /\ req[a].poll \in Poll
        /\ req[a].to \in Target
        /\ req[a].at \in Nat
        /\ seen[a] \in State
    BY <1>6 DEF CommitTransition, TypeOK, LockInv, Request
  <2>2. /\ scheduledAt' \in [Poll -> Nat]
        /\ closesAt' \in [Poll -> {t \in Nat : t = 0 \/ t > Window}]
    <3>1. ClosesAt(req[a].at) \in {t \in Nat : t = 0 \/ t > Window}
      BY <2>1 DEF ClosesAt
    <3>2. CASE req[a].to = "scheduled"
      <4>1. /\ scheduledAt' = [scheduledAt EXCEPT ![req[a].poll] = req[a].at]
            /\ closesAt' = [closesAt EXCEPT ![req[a].poll] = ClosesAt(req[a].at)]
        BY <1>6, <3>2 DEF CommitTransition
      <4>2. QED
        BY <2>1, <3>1, <4>1 DEF TypeOK
    <3>3. CASE req[a].to # "scheduled"
      BY <1>6, <3>3 DEF CommitTransition, TypeOK
    <3>4. QED
      BY <3>2, <3>3
  <2>3. audit' \in [Poll -> Seq([from : State, to : State])]
    <3>1. Append(audit[req[a].poll], [from |-> seen[a], to |-> req[a].to])
            \in Seq([from : State, to : State])
      BY <2>1 DEF TypeOK
    <3>2. QED
      BY <1>6, <2>1, <3>1 DEF CommitTransition, TypeOK
  <2>4. /\ clock' \in Nat
        /\ state' \in [Poll -> State]
        /\ lock' \in [Poll -> Actor \cup {NoActor}]
        /\ seen' \in [Actor -> State]
        /\ UNCHANGED <<tickAt, stage, queue, faults>>
    BY <1>6, <2>1 DEF CommitTransition, Unlock, EndTx, TypeOK
  <2>5. pc' \in [Actor -> {"idle", "insert", "lock", "update", "list", "next"}]
    BY <1>6 DEF CommitTransition, EndTx, TypeOK
  <2>6. req' \in [Actor -> Request]
    BY <1>6 DEF CommitTransition, EndTx, NoRequest, Request, TypeOK
  <2>7. QED
    BY <2>2, <2>3, <2>4, <2>5, <2>6 DEF TypeOK
<1>7. ASSUME NEW a \in Actor, RefuseTransition(a)
      PROVE  TypeOK'
  BY <1>7 DEF RefuseTransition, Unlock, EndTx, NoRequest, TypeOK, LockInv,
      ReqInv, Request
<1>8. ASSUME NEW a \in Actor, Rollback(a)
      PROVE  TypeOK'
  BY <1>8 DEF Rollback, Unlock, EndTx, NoRequest, TypeOK, LockInv, ReqInv,
      Request
<1>9. ASSUME NEW o \in Opener, Tick(o)
      PROVE  TypeOK'
  BY <1>9 DEF Tick, TypeOK, LockInv, ReqInv, Request
<1>10. ASSUME NEW o \in Opener, List(o)
      PROVE  TypeOK'
  BY <1>10 DEF List, DuePolls, ExpiredPolls, TypeOK, LockInv, ReqInv,
      Request
<1>11. ASSUME NEW o \in Opener, ListFails(o)
      PROVE  TypeOK'
  BY <1>11 DEF ListFails, TypeOK, LockInv, ReqInv, Request
<1>12. ASSUME NEW o \in Opener, TakePoll(o)
      PROVE  TypeOK'
  <2>1. PICK p \in queue[o] :
          /\ queue' = [queue EXCEPT ![o] = @ \ {p}]
          /\ req' = [req EXCEPT ![o] =
                       [poll |-> p,
                        to   |-> IF stage[o] = "opening" THEN "open"
                                                         ELSE "closed",
                        at   |-> 0]]
    BY <1>12 DEF TakePoll
  <2>2. p \in Poll
    BY DEF TypeOK
  <2>3. req' \in [Actor -> Request]
    BY <2>1, <2>2 DEF TypeOK, Request
  <2>4. queue' \in [Opener -> SUBSET Poll]
    BY <2>1 DEF TypeOK
  <2>5. QED
    BY <1>12, <2>3, <2>4 DEF TakePoll, TypeOK
<1>13. ASSUME NEW o \in Opener, EndStage(o)
      PROVE  TypeOK'
  BY <1>13 DEF EndStage, TypeOK
<1>14. QED
  BY <1>0, <1>1, <1>2, <1>3, <1>4, <1>5, <1>6, <1>7, <1>8, <1>9, <1>10,
      <1>11, <1>12, <1>13
     DEF Next, Tx, Work

(* Row locks are exclusive and what is read under them stays true. *)
LEMMA LockStep ==
  TypeOK /\ LockInv /\ ReqInv /\ [Next]_vars => LockInv'
<1> SUFFICES ASSUME TypeOK, LockInv, ReqInv, [Next]_vars PROVE LockInv'
  OBVIOUS
<1> USE LifecycleAssumption
<1>0. CASE UNCHANGED vars
  BY <1>0 DEF vars, TypeOK, LockInv, ReqInv, Request
<1>1. CASE Advance
  BY <1>1 DEF Advance, TypeOK, LockInv, ReqInv, Request
<1>2. ASSUME NEW a \in Admin, NEW p \in Poll, NEW to \in Target, NEW at \in 0
              .. MaxTime, RequestCreate(a, p, to, at)
      PROVE  LockInv'
  BY <1>2 DEF RequestCreate, Valid, TypeOK, LockInv, ReqInv, Request
<1>3. ASSUME NEW a \in Admin, NEW p \in Poll, NEW to \in Target, NEW at \in 0
              .. MaxTime, RequestTransition(a, p, to, at)
      PROVE  LockInv'
  BY <1>3 DEF RequestTransition, Valid, TypeOK, LockInv, ReqInv, Request
<1>4. ASSUME NEW a \in Actor, CreatePoll(a)
      PROVE  LockInv'
  BY <1>4 DEF CreatePoll, EndTx, ClosesAt, NoRequest, TypeOK, LockInv,
      ReqInv, Request
<1>5. ASSUME NEW a \in Actor, LockPoll(a)
      PROVE  LockInv'
  BY <1>5 DEF LockPoll, TypeOK, LockInv, ReqInv, Request
<1>6. ASSUME NEW a \in Actor, CommitTransition(a)
      PROVE  LockInv'
  BY <1>6 DEF CommitTransition, AllowedTransition, Unlock, EndTx, ClosesAt,
      NoRequest, TypeOK, LockInv, ReqInv, Request
<1>7. ASSUME NEW a \in Actor, RefuseTransition(a)
      PROVE  LockInv'
  BY <1>7 DEF RefuseTransition, Unlock, EndTx, NoRequest, TypeOK, LockInv,
      ReqInv, Request
<1>8. ASSUME NEW a \in Actor, Rollback(a)
      PROVE  LockInv'
  BY <1>8 DEF Rollback, Unlock, EndTx, NoRequest, TypeOK, LockInv, ReqInv,
      Request
<1>9. ASSUME NEW o \in Opener, Tick(o)
      PROVE  LockInv'
  BY <1>9 DEF Tick, TypeOK, LockInv, ReqInv, Request
<1>10. ASSUME NEW o \in Opener, List(o)
      PROVE  LockInv'
  BY <1>10 DEF List, DuePolls, ExpiredPolls, TypeOK, LockInv, ReqInv,
      Request
<1>11. ASSUME NEW o \in Opener, ListFails(o)
      PROVE  LockInv'
  BY <1>11 DEF ListFails, TypeOK, LockInv, ReqInv, Request
<1>12. ASSUME NEW o \in Opener, TakePoll(o)
      PROVE  LockInv'
  BY <1>12 DEF TakePoll, TypeOK, LockInv, ReqInv, Request
<1>13. ASSUME NEW o \in Opener, EndStage(o)
      PROVE  LockInv'
  BY <1>13 DEF EndStage, TypeOK, LockInv, ReqInv, Request
<1>14. QED
  BY <1>0, <1>1, <1>2, <1>3, <1>4, <1>5, <1>6, <1>7, <1>8, <1>9, <1>10,
      <1>11, <1>12, <1>13
     DEF Next, Tx, Work

(* Transactions keep working on rows that exist, inserts on fresh ones. *)
LEMMA ReqStep ==
  TypeOK /\ LockInv /\ ReqInv /\ WindowInv /\ QueueInv /\ [Next]_vars => ReqInv'
<1> SUFFICES ASSUME TypeOK, LockInv, ReqInv, WindowInv, QueueInv, [Next]_vars PROVE ReqInv'
  OBVIOUS
<1> USE LifecycleAssumption
<1>0. CASE UNCHANGED vars
  BY <1>0 DEF vars, TypeOK, LockInv, ReqInv, Request
<1>1. CASE Advance
  BY <1>1 DEF Advance, TypeOK, LockInv, ReqInv, Request
<1>2. ASSUME NEW a \in Admin, NEW p \in Poll, NEW to \in Target, NEW at \in 0
              .. MaxTime, RequestCreate(a, p, to, at)
      PROVE  ReqInv'
  BY <1>2 DEF RequestCreate, Valid, TypeOK, LockInv, ReqInv, Request
<1>3. ASSUME NEW a \in Admin, NEW p \in Poll, NEW to \in Target, NEW at \in 0
              .. MaxTime, RequestTransition(a, p, to, at)
      PROVE  ReqInv'
  BY <1>3 DEF RequestTransition, Valid, TypeOK, LockInv, ReqInv, Request
<1>4. ASSUME NEW a \in Actor, CreatePoll(a)
      PROVE  ReqInv'
  BY <1>4 DEF CreatePoll, EndTx, ClosesAt, NoRequest, TypeOK, LockInv,
      ReqInv, Request
<1>5. ASSUME NEW a \in Actor, LockPoll(a)
      PROVE  ReqInv'
  BY <1>5 DEF LockPoll, TypeOK, LockInv, ReqInv, Request
<1>6. ASSUME NEW a \in Actor, CommitTransition(a)
      PROVE  ReqInv'
  BY <1>6 DEF CommitTransition, AllowedTransition, Unlock, EndTx, ClosesAt,
      NoRequest, TypeOK, LockInv, ReqInv, Request
<1>7. ASSUME NEW a \in Actor, RefuseTransition(a)
      PROVE  ReqInv'
  BY <1>7 DEF RefuseTransition, Unlock, EndTx, NoRequest, TypeOK, LockInv,
      ReqInv, Request
<1>8. ASSUME NEW a \in Actor, Rollback(a)
      PROVE  ReqInv'
  BY <1>8 DEF Rollback, Unlock, EndTx, NoRequest, TypeOK, LockInv, ReqInv,
      Request
<1>9. ASSUME NEW o \in Opener, Tick(o)
      PROVE  ReqInv'
  BY <1>9 DEF Tick, TypeOK, LockInv, ReqInv, Request
<1>10. ASSUME NEW o \in Opener, List(o)
      PROVE  ReqInv'
  BY <1>10 DEF List, DuePolls, ExpiredPolls, TypeOK, LockInv, ReqInv,
      Request
<1>11. ASSUME NEW o \in Opener, ListFails(o)
      PROVE  ReqInv'
  BY <1>11 DEF ListFails, TypeOK, LockInv, ReqInv, Request
<1>12. ASSUME NEW o \in Opener, TakePoll(o)
      PROVE  ReqInv'
  BY <1>12 DEF TakePoll, TypeOK, LockInv, ReqInv, Request, WindowInv,
      QueueInv, Due, ClosesAt
<1>13. ASSUME NEW o \in Opener, EndStage(o)
      PROVE  ReqInv'
  BY <1>13 DEF EndStage, TypeOK, LockInv, ReqInv, Request
<1>14. QED
  BY <1>0, <1>1, <1>2, <1>3, <1>4, <1>5, <1>6, <1>7, <1>8, <1>9, <1>10,
      <1>11, <1>12, <1>13
     DEF Next, Tx, Work

-----------------------------------------------------------------------------
(* Windows, lists and the audit log *)

(* The window is written with the state, and only once. *)
LEMMA WindowStep ==
  TypeOK /\ LockInv /\ ReqInv /\ WindowInv /\ [Next]_vars => WindowInv'
<1> SUFFICES ASSUME TypeOK, LockInv, ReqInv, WindowInv, [Next]_vars PROVE WindowInv'
  OBVIOUS
<1> USE LifecycleAssumption
<1>0. CASE UNCHANGED vars
  BY <1>0 DEF vars, TypeOK, LockInv, ReqInv, WindowInv, Request, ClosesAt
<1>1. CASE Advance
  BY <1>1 DEF Advance, TypeOK, LockInv, ReqInv, WindowInv, Request, ClosesAt
<1>2. ASSUME NEW a \in Admin, NEW p \in Poll, NEW to \in Target, NEW at \in 0
              .. MaxTime, RequestCreate(a, p, to, at)
      PROVE  WindowInv'
  BY <1>2 DEF RequestCreate, Valid, TypeOK, LockInv, ReqInv, WindowInv,
      Request, ClosesAt
<1>3. ASSUME NEW a \in Admin, NEW p \in Poll, NEW to \in Target, NEW at \in 0
              .. MaxTime, RequestTransition(a, p, to, at)
      PROVE  WindowInv'
  BY <1>3 DEF RequestTransition, Valid, TypeOK, LockInv, ReqInv, WindowInv,
      Request, ClosesAt
<1>4. ASSUME NEW a \in Actor, CreatePoll(a)
      PROVE  WindowInv'
  BY <1>4 DEF CreatePoll, EndTx, NoRequest, TypeOK, LockInv, ReqInv,
      WindowInv, Request, ClosesAt
<1>5. ASSUME NEW a \in Actor, LockPoll(a)
      PROVE  WindowInv'
  BY <1>5 DEF LockPoll, TypeOK, LockInv, ReqInv, WindowInv, Request,
      ClosesAt
<1>6. ASSUME NEW a \in Actor, CommitTransition(a)
      PROVE  WindowInv'
  BY <1>6 DEF CommitTransition, AllowedTransition, Unlock, EndTx, NoRequest,
      TypeOK, LockInv, ReqInv, WindowInv, Request, ClosesAt
<1>7. ASSUME NEW a \in Actor, RefuseTransition(a)
      PROVE  WindowInv'
  BY <1>7 DEF RefuseTransition, Unlock, EndTx, NoRequest, TypeOK, LockInv,
      ReqInv, WindowInv, Request, ClosesAt
<1>8. ASSUME NEW a \in Actor, Rollback(a)
      PROVE  WindowInv'
  BY <1>8 DEF Rollback, Unlock, EndTx, NoRequest, TypeOK, LockInv, ReqInv,
      WindowInv, Request, ClosesAt
<1>9. ASSUME NEW o \in Opener, Tick(o)
      PROVE  WindowInv'
  BY <1>9 DEF Tick, TypeOK, LockInv, ReqInv, WindowInv, Request, ClosesAt
<1>10. ASSUME NEW o \in Opener, List(o)
      PROVE  WindowInv'
  BY <1>10 DEF List, DuePolls, ExpiredPolls, TypeOK, LockInv, ReqInv,
      WindowInv, Request, ClosesAt
<1>11. ASSUME NEW o \in Opener, ListFails(o)
      PROVE  WindowInv'
  BY <1>11 DEF ListFails, TypeOK, LockInv, ReqInv, WindowInv, Request,
      ClosesAt
<1>12. ASSUME NEW o \in Opener, TakePoll(o)
      PROVE  WindowInv'
  BY <1>12 DEF TakePoll, TypeOK, LockInv, ReqInv, WindowInv, Request,
      ClosesAt
<1>13. ASSUME NEW o \in Opener, EndStage(o)
      PROVE  WindowInv'
  BY <1>13 DEF EndStage, TypeOK, LockInv, ReqInv, WindowInv, Request,
      ClosesAt
<1>14. QED
  BY <1>0, <1>1, <1>2, <1>3, <1>4, <1>5, <1>6, <1>7, <1>8, <1>9, <1>10,
      <1>11, <1>12, <1>13
     DEF Next, Tx, Work

(* Time and other transactions never make a due poll not due. *)
LEMMA QueueStep ==
  TypeOK /\ LockInv /\ ReqInv /\ WindowInv /\ QueueInv /\ [Next]_vars => QueueInv'
<1> SUFFICES ASSUME TypeOK, LockInv, ReqInv, WindowInv, QueueInv, [Next]_vars PROVE QueueInv'
  OBVIOUS
<1> USE LifecycleAssumption
<1>0. CASE UNCHANGED vars
  BY <1>0 DEF vars, TypeOK, LockInv, ReqInv, WindowInv, QueueInv, Due,
      Request, ClosesAt
<1>1. CASE Advance
  BY <1>1 DEF Advance, TypeOK, LockInv, ReqInv, WindowInv, QueueInv, Due,
      Request, ClosesAt
<1>2. ASSUME NEW a \in Admin, NEW p \in Poll, NEW to \in Target, NEW at \in 0
              .. MaxTime, RequestCreate(a, p, to, at)
      PROVE  QueueInv'
  BY <1>2 DEF RequestCreate, Valid, TypeOK, LockInv, ReqInv, WindowInv,
      QueueInv, Due, Request, ClosesAt
<1>3. ASSUME NEW a \in Admin, NEW p \in Poll, NEW to \in Target, NEW at \in 0
              .. MaxTime, RequestTransition(a, p, to, at)
      PROVE  QueueInv'
  BY <1>3 DEF RequestTransition, Valid, TypeOK, LockInv, ReqInv, WindowInv,
      QueueInv, Due, Request, ClosesAt
<1>4. ASSUME NEW a \in Actor, CreatePoll(a)
      PROVE  QueueInv'
  BY <1>4 DEF CreatePoll, EndTx, NoRequest, TypeOK, LockInv, ReqInv,
      WindowInv, QueueInv, Due, Request, ClosesAt
<1>5. ASSUME NEW a \in Actor, LockPoll(a)
      PROVE  QueueInv'
  BY <1>5 DEF LockPoll, TypeOK, LockInv, ReqInv, WindowInv, QueueInv, Due,
      Request, ClosesAt
<1>6. ASSUME NEW a \in Actor, CommitTransition(a)
      PROVE  QueueInv'
  <2>1. \A p \in Poll : scheduledAt[p] # 0 =>
          scheduledAt'[p] = scheduledAt[p] /\ closesAt'[p] = closesAt[p]
    BY <1>6 DEF CommitTransition, AllowedTransition, TypeOK, LockInv, WindowInv
  <2>2. \A p \in Poll : closesAt[p] # 0 => scheduledAt[p] # 0
    BY DEF WindowInv, ClosesAt
  <2>3. \A o \in Opener, p \in Poll : Due(o, p) => Due(o, p)'
    BY <1>6, <2>1, <2>2 DEF CommitTransition, Due
  <2>4. \A o \in Opener : pc'[o] \in {"lock", "update"} =>
          o # a /\ pc[o] = pc'[o] /\ req'[o] = req[o] /\ req[o].poll \in Poll
    BY <1>6 DEF CommitTransition, EndTx, TypeOK, LockInv, ReqInv
  <2>5. \A o \in Opener : pc'[o] \in {"idle", "list"} => pc[o] \in {"idle", "list"}
    BY <1>6 DEF CommitTransition, EndTx, TypeOK
  <2>6. \A o \in Opener : queue[o] \subseteq Poll
    BY DEF TypeOK
  <2>7. QED
    BY <1>6, <2>3, <2>4, <2>5, <2>6 DEF CommitTransition, QueueInv
<1>7. ASSUME NEW a \in Actor, RefuseTransition(a)
      PROVE  QueueInv'
  BY <1>7 DEF RefuseTransition, Unlock, EndTx, NoRequest, TypeOK, LockInv,
      ReqInv, WindowInv, QueueInv, Due, Request, ClosesAt
<1>8. ASSUME NEW a \in Actor, Rollback(a)
      PROVE  QueueInv'
  BY <1>8 DEF Rollback, Unlock, EndTx, NoRequest, TypeOK, LockInv, ReqInv,
      WindowInv, QueueInv, Due, Request, ClosesAt
<1>9. ASSUME NEW o \in Opener, Tick(o)
      PROVE  QueueInv'
  BY <1>9 DEF Tick, TypeOK, LockInv, ReqInv, WindowInv, QueueInv, Due,
      Request, ClosesAt
<1>10. ASSUME NEW o \in Opener, List(o)
      PROVE  QueueInv'
  <2>1. queue' = [queue EXCEPT ![o] = IF stage[o] = "opening"
                                      THEN DuePolls(tickAt[o])
                                      ELSE ExpiredPolls(tickAt[o])]
    BY <1>10 DEF List
  <2>2. \A p \in DuePolls(tickAt[o]) :
          scheduledAt[p] # 0 /\ scheduledAt[p] <= tickAt[o]
    BY DEF DuePolls, WindowInv
  <2>3. \A p \in ExpiredPolls(tickAt[o]) :
          closesAt[p] # 0 /\ closesAt[p] <= tickAt[o]
    <3>1. TAKE p \in ExpiredPolls(tickAt[o])
    <3>2. p \in Poll /\ state[p] = "open" /\ closesAt[p] <= tickAt[o]
      BY DEF ExpiredPolls
    <3>3. scheduledAt[p] \in Nat \ {0} /\ closesAt[p] = ClosesAt(scheduledAt[p])
      BY <3>2 DEF WindowInv, TypeOK
    <3>4. closesAt[p] # 0
      BY <3>3 DEF ClosesAt
    <3>5. QED
      BY <3>2, <3>4
  <2>4. \A p \in queue'[o] : Due(o, p)
    BY <2>1, <2>2, <2>3 DEF Due, TypeOK
  <2>5. \A u \in Opener, p \in Poll : Due(u, p) <=> Due(u, p)'
    BY <1>10 DEF List, Due
  <2>6. queue'[o] \subseteq Poll /\ \A u \in Opener : queue[u] \subseteq Poll
    BY <2>1 DEF TypeOK, DuePolls, ExpiredPolls
  <2>7. \A u \in Opener : pc'[u] \in {"lock", "update"} => req[u].poll \in Poll
    BY <1>10 DEF List, TypeOK, LockInv, ReqInv
  <2>8. ASSUME NEW u \in Opener
        PROVE  /\ tickAt'[u] <= clock'
               /\ \A p \in queue'[u] : Due(u, p)'
               /\ pc'[u] \in {"lock", "update"} =>
                    /\ Due(u, req[u].poll)'
                    /\ req'[u].to = IF stage'[u] = "opening" THEN "open"
                                                             ELSE "closed"
               /\ pc'[u] \in {"idle", "list"} => queue'[u] = {}
    <3>1. CASE u = o
      BY <1>10, <2>4, <2>5, <2>6, <3>1 DEF List, TypeOK, QueueInv
    <3>2. CASE u # o
      <4>1. /\ queue'[u] = queue[u] /\ pc'[u] = pc[u] /\ req'[u] = req[u]
            /\ stage'[u] = stage[u] /\ tickAt'[u] = tickAt[u] /\ clock' = clock
        BY <1>10, <2>1, <3>2 DEF List, TypeOK
      <4>2. /\ tickAt[u] <= clock
            /\ \A p \in queue[u] : Due(u, p)
            /\ pc[u] \in {"lock", "update"} =>
                 /\ Due(u, req[u].poll)
                 /\ req[u].to = IF stage[u] = "opening" THEN "open"
                                                         ELSE "closed"
            /\ pc[u] \in {"idle", "list"} => queue[u] = {}
        BY DEF QueueInv
      <4>3. QED
        BY <2>5, <2>6, <2>7, <4>1, <4>2
    <3>3. QED
      BY <3>1, <3>2
  <2>9. QED
    BY <2>8 DEF QueueInv
<1>11. ASSUME NEW o \in Opener, ListFails(o)
      PROVE  QueueInv'
  BY <1>11 DEF ListFails, TypeOK, LockInv, ReqInv, WindowInv, QueueInv, Due,
      Request, ClosesAt
<1>12. ASSUME NEW o \in Opener, TakePoll(o)
      PROVE  QueueInv'
  BY <1>12 DEF TakePoll, TypeOK, LockInv, ReqInv, WindowInv, QueueInv, Due,
      Request, ClosesAt
<1>13. ASSUME NEW o \in Opener, EndStage(o)
      PROVE  QueueInv'
  <2>1. queue[o] = {} /\ pc[o] = "next" /\ pc'[o] \in {"idle", "list"}
    BY <1>13 DEF EndStage, TypeOK
  <2>2. \A u \in Opener \ {o} : pc'[u] = pc[u] /\ stage'[u] = stage[u]
    BY <1>13 DEF EndStage, TypeOK
  <2>3. UNCHANGED <<clock, scheduledAt, closesAt, req, tickAt, queue>>
    BY <1>13 DEF EndStage, TypeOK
  <2>4. ASSUME NEW u \in Opener
        PROVE  /\ tickAt'[u] <= clock'
               /\ \A p \in queue'[u] : Due(u, p)'
               /\ pc'[u] \in {"lock", "update"} =>
                    /\ Due(u, req[u].poll)'
                    /\ req'[u].to = IF stage'[u] = "opening" THEN "open"
                                                             ELSE "closed"
               /\ pc'[u] \in {"idle", "list"} => queue'[u] = {}
    <3>1. CASE u = o
      BY <2>1, <2>3, <3>1 DEF QueueInv
    <3>2. CASE u # o
      BY <2>2, <2>3, <3>2 DEF QueueInv, Due
    <3>3. QED
      BY <3>1, <3>2
  <2>5. QED
    BY <2>4 DEF QueueInv
<1>14. QED
  BY <1>0, <1>1, <1>2, <1>3, <1>4, <1>5, <1>6, <1>7, <1>8, <1>9, <1>10,
      <1>11, <1>12, <1>13
     DEF Next, Tx, Work

(* Each record continues the chain. *)
LEMMA AuditStep ==
  TypeOK /\ LockInv /\ ReqInv /\ AuditInv /\ [Next]_vars => AuditInv'
<1> SUFFICES ASSUME TypeOK, LockInv, ReqInv, AuditInv, [Next]_vars PROVE AuditInv'
  OBVIOUS
<1> USE LifecycleAssumption
<1>0. CASE UNCHANGED vars
  BY <1>0 DEF vars, TypeOK, LockInv, ReqInv, AuditInv, AuditIsChain, Request
<1>1. CASE Advance
  BY <1>1 DEF Advance, AuditInv, AuditIsChain
<1>2. ASSUME NEW a \in Admin, NEW p \in Poll, NEW to \in Target, NEW at \in 0
              .. MaxTime, RequestCreate(a, p, to, at)
      PROVE  AuditInv'
  BY <1>2 DEF RequestCreate, AuditInv, AuditIsChain
<1>3. ASSUME NEW a \in Admin, NEW p \in Poll, NEW to \in Target, NEW at \in 0
              .. MaxTime, RequestTransition(a, p, to, at)
      PROVE  AuditInv'
  BY <1>3 DEF RequestTransition, AuditInv, AuditIsChain
<1>4. ASSUME NEW a \in Actor, CreatePoll(a)
      PROVE  AuditInv'
  BY <1>4 DEF CreatePoll, EndTx, ClosesAt, NoRequest, TypeOK, LockInv,
      ReqInv, AuditInv, AuditIsChain, Request
<1>5. ASSUME NEW a \in Actor, LockPoll(a)
      PROVE  AuditInv'
  BY <1>5 DEF LockPoll, AuditInv, AuditIsChain
<1>6. ASSUME NEW a \in Actor, CommitTransition(a)
      PROVE  AuditInv'
  <2> DEFINE p == req[a].poll
             edge == [from |-> seen[a], to |-> req[a].to]
  <2>1. p \in Poll /\ seen[a] = state[p] /\ state[p] # "none"
    BY <1>6 DEF CommitTransition, LockInv, ReqInv
  <2>2. /\ audit' = [audit EXCEPT ![p] = Append(audit[p], edge)]
        /\ state' = [state EXCEPT ![p] = req[a].to]
    BY <1>6 DEF CommitTransition
  <2>3. audit[p] \in Seq([from : State, to : State]) /\ req[a].to # "none"
    BY <2>1 DEF TypeOK, Request
  <2>4. audit'[p] = Append(audit[p], edge) /\ state'[p] = req[a].to
    BY <2>1, <2>2 DEF TypeOK
  <2>5. /\ Len(audit'[p]) = Len(audit[p]) + 1
        /\ audit'[p][Len(audit'[p])] = edge
        /\ \A k \in 1 .. Len(audit[p]) : audit'[p][k] = audit[p][k]
    BY <2>3, <2>4
  <2>6. \A k \in 1 .. Len(audit'[p]) - 1 : audit'[p][k].to = audit'[p][k + 1].from
    <3>1. TAKE k \in 1 .. Len(audit'[p]) - 1
    <3>2. CASE k < Len(audit[p])
      <4>1. /\ k \in 1 .. Len(audit[p]) - 1
            /\ k \in 1 .. Len(audit[p]) /\ k + 1 \in 1 .. Len(audit[p])
        BY <2>3, <2>5, <3>2
      <4>2. audit[p][k].to = audit[p][k + 1].from
        BY <2>1, <4>1 DEF AuditInv, AuditIsChain
      <4>3. QED
        BY <2>5, <4>1, <4>2
    <3>3. CASE k = Len(audit[p])
      <4>1. audit[p] # <<>> /\ audit'[p][k] = audit[p][k]
        BY <2>3, <2>5, <3>3
      <4>2. audit[p][k].to = state[p]
        BY <2>1, <3>3, <4>1 DEF AuditInv, AuditIsChain
      <4>3. QED
        BY <2>1, <2>5, <3>3, <4>1, <4>2
    <3>4. QED
      BY <2>3, <2>5, <3>2, <3>3
  <2>7. audit'[p][Len(audit'[p])].to = state'[p]
    BY <2>4, <2>5
  <2>8. \A q \in Poll \ {p} : audit'[q] = audit[q] /\ state'[q] = state[q]
    BY <2>2 DEF TypeOK
  <2>9. ASSUME NEW q \in Poll
        PROVE  /\ \A k \in 1 .. Len(audit'[q]) - 1 :
                    audit'[q][k].to = audit'[q][k + 1].from
               /\ audit'[q] # <<>> => audit'[q][Len(audit'[q])].to = state'[q]
               /\ state'[q] = "none" => audit'[q] = <<>>
    <3>1. CASE q = p
      BY <2>3, <2>4, <2>6, <2>7, <3>1
    <3>2. CASE q # p
      BY <2>8, <3>2 DEF AuditInv, AuditIsChain
    <3>3. QED
      BY <3>1, <3>2
  <2>10. QED
    BY <2>9 DEF AuditInv, AuditIsChain
<1>7. ASSUME NEW a \in Actor, RefuseTransition(a)
      PROVE  AuditInv'
  BY <1>7 DEF RefuseTransition, AuditInv, AuditIsChain
<1>8. ASSUME NEW a \in Actor, Rollback(a)
      PROVE  AuditInv'
  BY <1>8 DEF Rollback, AuditInv, AuditIsChain
<1>9. ASSUME NEW o \in Opener, Tick(o)
      PROVE  AuditInv'
  BY <1>9 DEF Tick, AuditInv, AuditIsChain
<1>10. ASSUME NEW o \in Opener, List(o)
      PROVE  AuditInv'
  BY <1>10 DEF List, AuditInv, AuditIsChain
<1>11. ASSUME NEW o \in Opener, ListFails(o)
      PROVE  AuditInv'
  BY <1>11 DEF ListFails, AuditInv, AuditIsChain
<1>12. ASSUME NEW o \in Opener, TakePoll(o)
      PROVE  AuditInv'
  BY <1>12 DEF TakePoll, AuditInv, AuditIsChain
<1>13. ASSUME NEW o \in Opener, EndStage(o)
      PROVE  AuditInv'
  BY <1>13 DEF EndStage, AuditInv, AuditIsChain
<1>14. QED
  BY <1>0, <1>1, <1>2, <1>3, <1>4, <1>5, <1>6, <1>7, <1>8, <1>9, <1>10,
      <1>11, <1>12, <1>13
     DEF Next, Tx, Work

-----------------------------------------------------------------------------
(* Invariance *)

LEMMA Invariance == Spec => []IInv
<1>1. Init => IInv
  BY InitIInv
<1>2. IInv /\ [Next]_vars => IInv'
  BY TypeStep, LockStep, ReqStep, WindowStep, QueueStep, AuditStep DEF IInv
<1>3. QED
  BY <1>1, <1>2, PTL DEF Spec

(* The tables and the workers' variables keep their types. *)
THEOREM TypeCorrect == Spec => []TypeOK
<1>1. IInv => TypeOK
  BY DEF IInv
<1>2. QED
  BY <1>1, Invariance, PTL

(* The audit records of a poll form one chain that ends in its state, with *)
(* any number of administrators and workers.                               *)
THEOREM AuditChain == Spec => []AuditIsChain
<1>1. IInv => AuditIsChain
  BY DEF IInv, AuditInv
<1>2. QED
  BY <1>1, Invariance, PTL

-----------------------------------------------------------------------------
(* Steps *)

(* Once it is scheduled a poll's window never moves. *)
THEOREM WindowStays == Spec => WindowFixed
<1> DEFINE Fixed == \A p \in Poll : scheduledAt[p] # 0 =>
                      scheduledAt'[p] = scheduledAt[p] /\ closesAt'[p] = closesAt[p]
<1>1. ASSUME IInv, [Next]_vars PROVE Fixed
  <2> USE <1>1, LifecycleAssumption
  <2>1. CASE UNCHANGED vars
    BY <2>1 DEF vars
  <2>2. ASSUME NEW a \in Actor, CreatePoll(a) PROVE Fixed
    BY <2>2 DEF CreatePoll, IInv, TypeOK, ReqInv, WindowInv
  <2>3. ASSUME NEW a \in Actor, CommitTransition(a) PROVE Fixed
    BY <2>3 DEF CommitTransition, AllowedTransition, IInv, TypeOK, LockInv,
        WindowInv
  <2>4. QED
    BY <2>1, <2>2, <2>3 DEF Next, Tx, Work, Advance, RequestCreate,
       RequestTransition, LockPoll, RefuseTransition, Rollback, Tick, List,
       ListFails, TakePoll, EndStage
<1>2. QED
  BY <1>1, Invariance, PTL DEF Spec, WindowFixed

(* However old its list is, no worker opens or closes a poll early. *)
THEOREM NoEarlyMove == Spec => NeverEarly
<1> DEFINE OnTime == \A p \in Poll : state'[p] # state[p] /\ lock[p] \in Opener =>
                       IF state'[p] = "open" THEN scheduledAt[p] <= clock
                                             ELSE closesAt[p] <= clock
<1>1. ASSUME IInv, [Next]_vars PROVE OnTime
  <2> USE <1>1, LifecycleAssumption
  <2>1. CASE UNCHANGED vars
    BY <2>1 DEF vars
  <2>2. ASSUME NEW a \in Actor, CreatePoll(a) PROVE OnTime
    <3>1. /\ req[a].poll \in Poll /\ pc[a] = "insert"
          /\ \A b \in Actor \ {a} : req[b].poll # req[a].poll
      BY <2>2 DEF CreatePoll, IInv, ReqInv
    <3>2. lock[req[a].poll] \notin Opener
      BY <3>1 DEF IInv, LockInv
    <3>3. \A p \in Poll \ {req[a].poll} : state'[p] = state[p]
      BY <2>2 DEF CreatePoll
    <3>4. QED
      BY <3>2, <3>3
  <2>3. ASSUME NEW a \in Actor, CommitTransition(a) PROVE OnTime
    <3>1. req[a].poll \in Poll /\ lock[req[a].poll] = a /\ pc[a] = "update"
      BY <2>3 DEF CommitTransition, IInv, LockInv
    <3>2. state' = [state EXCEPT ![req[a].poll] = req[a].to]
      BY <2>3 DEF CommitTransition
    <3>3. ASSUME a \in Opener
          PROVE  IF req[a].to = "open" THEN scheduledAt[req[a].poll] <= clock
                                       ELSE closesAt[req[a].poll] <= clock
      <4>1. Due(a, req[a].poll) /\ tickAt[a] <= clock
        BY <3>1, <3>3 DEF IInv, QueueInv
      <4>2. req[a].to = IF stage[a] = "opening" THEN "open" ELSE "closed"
        BY <3>1, <3>3 DEF IInv, QueueInv
      <4>3. /\ tickAt[a] \in Nat /\ clock \in Nat
            /\ scheduledAt[req[a].poll] \in Nat /\ closesAt[req[a].poll] \in Nat
        BY <3>1, <3>3 DEF IInv, TypeOK
      <4>4. QED
        BY <4>1, <4>2, <4>3 DEF Due
    <3>4. QED
      BY <3>1, <3>2, <3>3 DEF IInv, TypeOK
  <2>4. QED
    BY <2>1, <2>2, <2>3 DEF Next, Tx, Work, Advance, RequestCreate,
       RequestTransition, LockPoll, RefuseTransition, Rollback, Tick, List,
       ListFails, TakePoll, EndStage
<1>2. QED
  BY <1>1, Invariance, PTL DEF Spec, NeverEarly

(* The audit log tells every move and nothing else: a row changes its state *)
(* together with one more record, which names the state it came from, and  *)
(* no record is ever changed, whatever transactions race or fail.          *)
MovesAudited ==
  [][\A p \in Poll :
       IF state'[p] = state[p] \/ state[p] = "none"
       THEN audit'[p] = audit[p]
       ELSE audit'[p] = Append(audit[p], [from |-> state[p], to |-> state'[p]])]_vars

THEOREM EveryMoveAudited == Spec => MovesAudited
<1> DEFINE Audited == \A p \in Poll :
             IF state'[p] = state[p] \/ state[p] = "none"
             THEN audit'[p] = audit[p]
             ELSE audit'[p] = Append(audit[p], [from |-> state[p], to |-> state'[p]])
<1>1. ASSUME IInv, [Next]_vars PROVE Audited
  <2> USE <1>1, LifecycleAssumption
  <2>1. CASE UNCHANGED vars
    BY <2>1 DEF vars, rowVars
  <2>2. ASSUME NEW a \in Actor, CreatePoll(a) PROVE Audited
    <3>1. state[req[a].poll] = "none"
      BY <2>2 DEF CreatePoll, IInv, ReqInv
    <3>2. \A p \in Poll \ {req[a].poll} : state'[p] = state[p]
      BY <2>2 DEF CreatePoll
    <3>3. audit' = audit
      BY <2>2 DEF CreatePoll
    <3> QED BY <3>1, <3>2, <3>3
  <2>3. ASSUME NEW a \in Actor, CommitTransition(a) PROVE Audited
    <3>1. req[a].poll \in Poll /\ seen[a] = state[req[a].poll]
      BY <2>3 DEF CommitTransition, IInv, LockInv
    <3>2. /\ state' = [state EXCEPT ![req[a].poll] = req[a].to]
          /\ audit' = [audit EXCEPT ![req[a].poll] =
                         Append(@, [from |-> seen[a], to |-> req[a].to])]
      BY <2>3 DEF CommitTransition
    <3>3. req[a].to # seen[a] /\ seen[a] # "none"
      BY <2>3 DEF CommitTransition, AllowedTransition
    <3>4. /\ state'[req[a].poll] = req[a].to
          /\ audit'[req[a].poll] = Append(audit[req[a].poll],
                                     [from |-> seen[a], to |-> req[a].to])
          /\ \A p \in Poll \ {req[a].poll} :
               state'[p] = state[p] /\ audit'[p] = audit[p]
      BY <3>1, <3>2 DEF IInv, TypeOK
    <3> QED BY <3>1, <3>3, <3>4
  <2>4. QED
    BY <2>1, <2>2, <2>3 DEF Next, Tx, Work, Advance, RequestCreate,
       RequestTransition, LockPoll, RefuseTransition, Rollback, Tick, List,
       ListFails, TakePoll, EndStage, rowVars
<1>2. QED
  BY <1>1, Invariance, PTL DEF Spec, MovesAudited

(* Rows, locks and workers implement the life promised of a poll. *)
THEOREM Refinement == Spec => ImplementsPollFSM
<1>1. Init => FSM!Init
  BY DEF Init, FSM!Init
<1>2. ASSUME IInv, [Next]_vars PROVE [FSM!Next]_(FSM!vars)
  <2> USE <1>2, LifecycleAssumption DEF FSM!vars
  <2>1. CASE UNCHANGED vars
    BY <2>1 DEF vars
  <2>2. ASSUME NEW a \in Actor, CreatePoll(a) PROVE FSM!Next
    <3> DEFINE p == req[a].poll
    <3>1. p \in Poll /\ state[p] = "none" /\ scheduledAt[p] = 0
      BY <2>2 DEF CreatePoll, IInv, ReqInv, WindowInv
    <3>2. CASE req[a].to = "draft"
      <4>1. req[a].at = 0
        BY <3>2 DEF IInv, ReqInv
      <4>2. scheduledAt' = scheduledAt
        BY <2>2, <3>1, <4>1 DEF CreatePoll, IInv, TypeOK
      <4>3. FSM!Draft(p)
        BY <2>2, <3>1, <3>2, <4>2 DEF CreatePoll, FSM!Draft
      <4>4. QED
        BY <3>1, <4>3 DEF FSM!Next
    <3>3. CASE req[a].to = "scheduled"
      <4>1. req[a].at \in Nat \ {0}
        BY <3>3 DEF IInv, TypeOK, ReqInv, Request
      <4>2. FSM!Announce(p)
        BY <2>2, <3>1, <3>3, <4>1 DEF CreatePoll, IInv, TypeOK, FSM!Announce
      <4>3. QED
        BY <3>1, <4>2 DEF FSM!Next
    <3>4. QED
      BY <2>2, <3>2, <3>3 DEF CreatePoll, IInv, ReqInv
  <2>3. ASSUME NEW a \in Actor, CommitTransition(a) PROVE FSM!Next
    <3> DEFINE p == req[a].poll
    <3>1. p \in Poll /\ seen[a] = state[p]
      BY <2>3 DEF CommitTransition, IInv, LockInv
    <3>2. state' = [state EXCEPT ![p] = req[a].to]
      BY <2>3 DEF CommitTransition
    <3>3. CASE seen[a] = "draft" /\ req[a].to = "scheduled"
      <4>1. req[a].at \in Nat \ {0}
        BY <3>3 DEF IInv, TypeOK, ReqInv, Request
      <4>2. FSM!Announce(p)
        BY <2>3, <3>1, <3>2, <3>3, <4>1
           DEF CommitTransition, IInv, TypeOK, FSM!Announce
      <4>3. QED
        BY <3>1, <4>2 DEF FSM!Next
    <3>4. CASE seen[a] = "scheduled" /\ req[a].to = "open"
      <4>1. FSM!Air(p)
        BY <2>3, <3>1, <3>2, <3>4 DEF CommitTransition, FSM!Air
      <4>2. QED
        BY <3>1, <4>1 DEF FSM!Next
    <3>5. CASE seen[a] \in {"scheduled", "open"} /\ req[a].to = "closed"
      <4>1. FSM!End(p)
        BY <2>3, <3>1, <3>2, <3>5 DEF CommitTransition, FSM!End
      <4>2. QED
        BY <3>1, <4>1 DEF FSM!Next
    <3>6. QED
      BY <2>3, <3>3, <3>4, <3>5 DEF CommitTransition, AllowedTransition
  <2>4. QED
    BY <2>1, <2>2, <2>3 DEF Next, Tx, Work, Advance, RequestCreate,
       RequestTransition, LockPoll, RefuseTransition, Rollback, Tick, List,
       ListFails, TakePoll, EndStage
<1>3. QED
  BY <1>1, <1>2, Invariance, PTL DEF Spec, ImplementsPollFSM, FSM!Spec
=============================================================================
