-------------------------- MODULE VoteTallyProofs --------------------------
(***************************************************************************)
(* Proofs, for any sets of requests, tokens and instances, any number of   *)
(* options and any faults the constants allow, of the safety properties of *)
(* VoteTally.  Liveness is only model-checked.                             *)
(***************************************************************************)
EXTENDS VoteTally, TLAPS

(* Every leaf about a step expands one action and the variable groups. *)
USE DEF Option, Duplicate, Field, Idle, Sending, InFlight, Answered, Phase,
        Listening, Alive, handlerVars, flushVars, lifeVars

-----------------------------------------------------------------------------
(* Typing *)

LEMMA SetNXType ==
  ASSUME TypeOK, NEW r \in Request, SetNX(r), option[r] # 0
  PROVE  claim' \in [Token -> Option \cup {0}]
BY TallyAssumption DEF TypeOK, SetNX

LEMMA IncrementType ==
  ASSUME TypeOK, NEW i \in Instance, NEW k \in Nat, Increment(i, k)
  PROVE  applied' \in [Request -> Nat]
BY DEF TypeOK, Increment

LEMMA EndFlushType ==
  ASSUME TypeOK, NEW i \in Instance,
         NEW outcome \in {"flushed", "failed"}, EndFlush(i, outcome)
  PROVE  /\ cursor' \in [Instance -> Idle .. Sending]
         /\ final' \in [Instance -> {"no", "running", "flushed", "failed"}]
BY TallyAssumption DEF TypeOK, EndFlush

LEMMA TerminateType ==
  ASSUME TypeOK, NEW i \in Instance,
         NEW how \in {"exited", "killed"}, Terminate(i, how)
  PROVE  TypeOK'
BY TallyAssumption DEF TypeOK, Terminate

LEMMA InitType == Init => TypeOK
BY TallyAssumption DEF Init, TypeOK

(* A request that has arrived has an instance and an option of the poll. *)
Arrived ==
  \A r \in Request : phase[r] # "new" => inst[r] \in Instance /\ option[r] \in Option

LEMMA NextType ==
  TypeOK /\ Arrived /\ [Next]_vars => TypeOK'
<1> SUFFICES ASSUME TypeOK, Arrived, [Next]_vars PROVE TypeOK'
  OBVIOUS
<1> USE TallyAssumption
<1>1. CASE UNCHANGED vars
  BY <1>1 DEF TypeOK, vars
<1>2. ASSUME NEW r \in Request, NEW i \in Instance, NEW o \in Option, Arrive(r, i, o)
      PROVE  TypeOK'
  BY <1>2 DEF TypeOK, Arrive
<1>3. ASSUME NEW r \in Request, TryClaim(r)
      PROVE  TypeOK'
  <2>1. claim' \in [Token -> Option \cup {0}]
    BY <1>3, SetNXType DEF TryClaim, Arrived
  <2>2. claim[TokenOf[r]] \in Option \cup {0}
    BY DEF TypeOK
  <2>3. QED
    BY <1>3, <2>1, <2>2 DEF TypeOK, TryClaim
<1>4. ASSUME NEW r \in Request, LoseClaimReply(r)
      PROVE  TypeOK'
  <2>1. claim' \in [Token -> Option \cup {0}]
    BY <1>4, SetNXType DEF LoseClaimReply, Arrived
  <2>2. QED
    BY <1>4, <2>1 DEF TypeOK, LoseClaimReply
<1>5. ASSUME NEW r \in Request, ClaimUnavailable(r)
      PROVE  TypeOK'
  BY <1>5 DEF TypeOK, ClaimUnavailable
<1>6. ASSUME NEW r \in Request, AcceptVote(r)
      PROVE  TypeOK'
  BY <1>6 DEF TypeOK, AcceptVote
<1>7. ASSUME NEW r \in Request, RejectDuplicate(r)
      PROVE  TypeOK'
  BY <1>7 DEF TypeOK, RejectDuplicate
<1>8. ASSUME NEW i \in Instance, StartFlush(i)
      PROVE  TypeOK'
  BY <1>8 DEF TypeOK, StartFlush
<1>9. ASSUME NEW i \in Instance, StartFinalFlush(i)
      PROVE  TypeOK'
  BY <1>9 DEF TypeOK, StartFinalFlush
<1>10. ASSUME NEW i \in Instance, SwapField(i)
       PROVE  TypeOK'
  BY <1>10 DEF TypeOK, SwapField
<1>11. ASSUME NEW i \in Instance, FlushOk(i)
       PROVE  TypeOK'
  <2>1. applied' \in [Request -> Nat]
    BY <1>11, IncrementType DEF FlushOk
  <2>2. QED
    BY <1>11, <2>1, EndFlushType DEF TypeOK, FlushOk
<1>12. ASSUME NEW i \in Instance, CutPipeline(i)
       PROVE  TypeOK'
  <2>1. applied' \in [Request -> Nat]
    BY <1>12, IncrementType DEF CutPipeline
  <2>2. QED
    BY <1>12, <2>1 DEF TypeOK, CutPipeline
<1>13. ASSUME NEW i \in Instance, FlushFail(i)
       PROVE  TypeOK'
  BY <1>13, EndFlushType DEF TypeOK, FlushFail
<1>14. ASSUME NEW i \in Instance, Signal(i)
       PROVE  TypeOK'
  BY <1>14 DEF TypeOK, Signal, AcceptedAt
<1>15. ASSUME NEW i \in Instance, Shutdown(i)
       PROVE  TypeOK'
  BY <1>15 DEF TypeOK, Shutdown
<1>16. ASSUME NEW i \in Instance, Exit(i) \/ DrainTimeout(i) \/ Crash(i)
       PROVE  TypeOK'
  BY <1>16, TerminateType DEF Exit, DrainTimeout, Crash
<1>17. QED
  BY <1>1, <1>2, <1>3, <1>4, <1>5, <1>6, <1>7, <1>8, <1>9, <1>10, <1>11, <1>12,
     <1>13, <1>14, <1>15, <1>16 DEF Next, Handle, Flush, Life

-----------------------------------------------------------------------------
(* Claims: what the handlers rely on.  OneVotePerToken alone is not        *)
(* inductive: that a free key means no counted vote follows from           *)
(* TalliesMatchClaims, and that a written key is not 0 from Arrived.       *)

ClaimInv == /\ Arrived
            /\ TalliesMatchClaims
            /\ OneVotePerToken
            /\ DuplicateNamesClaim

LEMMA InitClaims == Init => ClaimInv
BY DEF Init, ClaimInv, Arrived, TalliesMatchClaims, OneVotePerToken,
       DuplicateNamesClaim, Counted

LEMMA SameHandlers == ClaimInv /\ UNCHANGED handlerVars => ClaimInv'
BY DEF ClaimInv, Arrived, TalliesMatchClaims, OneVotePerToken,
       DuplicateNamesClaim, Counted

LEMMA TerminateClaims ==
  ASSUME TypeOK, ClaimInv, NEW i \in Instance, NEW how, Terminate(i, how)
  PROVE  ClaimInv'
BY DEF TypeOK, Terminate, InFlightAt, ClaimInv, Arrived, TalliesMatchClaims,
       OneVotePerToken, DuplicateNamesClaim, Counted

LEMMA NextClaims ==
  TypeOK /\ ClaimInv /\ [Next]_vars => ClaimInv'
<1> SUFFICES ASSUME TypeOK, ClaimInv, [Next]_vars PROVE ClaimInv'
  OBVIOUS
<1> USE TallyAssumption
<1>1. CASE UNCHANGED vars
  BY <1>1, SameHandlers DEF vars
<1>2. ASSUME NEW r \in Request, NEW i \in Instance, NEW o \in Option, Arrive(r, i, o)
      PROVE  ClaimInv'
  BY <1>2 DEF TypeOK, Arrive, ClaimInv, Arrived, TalliesMatchClaims,
              OneVotePerToken, DuplicateNamesClaim, Counted
<1>3. ASSUME NEW r \in Request, TryClaim(r)
      PROVE  ClaimInv'
  <2>1. CASE claim[TokenOf[r]] = 0
    <3>1. \A q \in Counted : TokenOf[q] # TokenOf[r]
      BY <2>1 DEF ClaimInv, Arrived, TalliesMatchClaims, Counted
    <3>2. Counted' = Counted \cup {r} /\ claim'[TokenOf[r]] = option[r]
      BY <1>3, <2>1 DEF TypeOK, TryClaim, SetNX, Counted
    <3>3. Arrived' /\ DuplicateNamesClaim'
      BY <1>3, <2>1 DEF TypeOK, TryClaim, SetNX, ClaimInv, Arrived,
                        DuplicateNamesClaim
    <3>4. TalliesMatchClaims' /\ OneVotePerToken'
      BY <1>3, <2>1, <3>1, <3>2 DEF TypeOK, TryClaim, SetNX, ClaimInv,
         TalliesMatchClaims, OneVotePerToken, Counted
    <3>5. QED
      BY <3>3, <3>4 DEF ClaimInv
  <2>2. CASE claim[TokenOf[r]] # 0
    BY <1>3, <2>2 DEF TypeOK, TryClaim, SetNX, ClaimInv, Arrived,
       TalliesMatchClaims, OneVotePerToken, DuplicateNamesClaim, Counted
  <2>3. QED
    BY <2>1, <2>2
<1>4. ASSUME NEW r \in Request, LoseClaimReply(r)
      PROVE  ClaimInv'
  BY <1>4 DEF TypeOK, LoseClaimReply, SetNX, ClaimInv, Arrived,
     TalliesMatchClaims, OneVotePerToken, DuplicateNamesClaim, Counted
<1>5. ASSUME NEW r \in Request,
             ClaimUnavailable(r) \/ AcceptVote(r) \/ RejectDuplicate(r)
      PROVE  ClaimInv'
  BY <1>5 DEF TypeOK, ClaimUnavailable, AcceptVote, RejectDuplicate, ClaimInv,
     Arrived, TalliesMatchClaims, OneVotePerToken, DuplicateNamesClaim, Counted
<1>6. ASSUME NEW i \in Instance, Flush(i) \/ CutPipeline(i) \/ Signal(i) \/ Shutdown(i)
      PROVE  ClaimInv'
  BY <1>6, SameHandlers DEF Flush, StartFlush, StartFinalFlush, SwapField,
     FlushOk, FlushFail, CutPipeline, Signal, Shutdown
<1>7. ASSUME NEW i \in Instance, Exit(i) \/ DrainTimeout(i) \/ Crash(i)
      PROVE  ClaimInv'
  BY <1>7, TerminateClaims DEF Exit, DrainTimeout, Crash
<1>8. QED
  BY <1>1, <1>2, <1>3, <1>4, <1>5, <1>6, <1>7 DEF Next, Handle, Life

-----------------------------------------------------------------------------
(* Increments: where each one is.  NoVoteLost and CountedOnce need that    *)
(* only the instance serving a request holds its increment, that nothing   *)
(* is swapped out between flushes, and that Redis has no increment of a    *)
(* request that was not counted.                                           *)

Done == {"accepted", "duplicate"}

Held == \A r \in Request, i \in Instance :
          r \in mem[i] \cup delta[i] => inst[r] = i /\ phase[r] \in Done

IdleEmpty == \A i \in Instance : cursor[i] = Idle => delta[i] = {}

AppliedCounted == \A r \in Request : phase[r] \notin Done => applied[r] = 0

PlaceInv == /\ Held
            /\ IdleEmpty
            /\ AppliedCounted
            /\ CountedOnce
            /\ NoVoteLost

LEMMA InitPlaces == Init => PlaceInv
BY DEF Init, PlaceInv, Held, IdleEmpty, AppliedCounted, CountedOnce, NoVoteLost, Done

LEMMA CountPlaces ==
  ASSUME TypeOK, ClaimInv, PlaceInv, NEW r \in Request,
         AcceptVote(r) \/ RejectDuplicate(r)
  PROVE  PlaceInv'
<1>1. /\ inst[r] \in Instance
      /\ applied[r] = 0
      /\ \A i \in Instance : r \notin mem[i] \cup delta[i]
  BY DEF ClaimInv, Arrived, PlaceInv, Held, AppliedCounted, AcceptVote,
         RejectDuplicate, Done
<1>2. /\ mem' = [mem EXCEPT ![inst[r]] = @ \cup {r}]
      /\ \/ phase' = [phase EXCEPT ![r] = "accepted"]
         \/ phase' = [phase EXCEPT ![r] = "duplicate"]
      /\ UNCHANGED <<inst, applied, delta, cursor, cuts, proc>>
  BY DEF AcceptVote, RejectDuplicate
<1>3. phase'[r] \in Done /\ \A q \in Request \ {r} : phase'[q] = phase[q]
  BY <1>2 DEF TypeOK, Done
<1>4. Held' /\ IdleEmpty' /\ AppliedCounted'
  BY <1>1, <1>2, <1>3 DEF TypeOK, PlaceInv, Held, IdleEmpty, AppliedCounted
<1>5. CountedOnce'
  BY <1>1, <1>2, <1>3 DEF TypeOK, PlaceInv, CountedOnce
<1>6. NoVoteLost'
  BY <1>1, <1>2, <1>3 DEF TypeOK, PlaceInv, NoVoteLost, Done
<1>7. QED
  BY <1>4, <1>5, <1>6 DEF PlaceInv

LEMMA FlushOkPlaces ==
  ASSUME TypeOK, PlaceInv, NEW i \in Instance, FlushOk(i)
  PROVE  PlaceInv'
<1>1. /\ delta' = [delta EXCEPT ![i] = {}]
      /\ UNCHANGED <<phase, inst, mem, cuts, proc>>
      /\ cursor' = [cursor EXCEPT ![i] = Idle]
  BY DEF FlushOk, EndFlush
<1>2. \A r \in Request : applied'[r] = IF r \in delta[i] THEN applied[r] + 1
                                                          ELSE applied[r]
  <2>1. \A r \in delta[i] : FieldOf(r) <= Duplicate
    BY TallyAssumption DEF TypeOK, FieldOf
  <2>2. QED
    BY <2>1 DEF FlushOk, Increment
<1>3. Held' /\ IdleEmpty' /\ AppliedCounted'
  BY <1>1, <1>2 DEF TypeOK, PlaceInv, Held, IdleEmpty, AppliedCounted
<1>4. CountedOnce'
  <2>1. SUFFICES ASSUME NEW r \in Request, NEW j \in Instance
                 PROVE  /\ applied'[r] <= 1 + cuts
                        /\ r \in mem[j] \cup delta'[j] => applied'[r] <= cuts
                        /\ r \notin mem[j] \cap delta'[j]
    BY <1>1 DEF CountedOnce
  <2>2. r \in delta[i] => r \notin mem[j] /\ r \notin delta'[j]
    BY <1>1 DEF TypeOK, PlaceInv, Held, CountedOnce
  <2>3. QED
    BY <1>1, <1>2, <2>1, <2>2 DEF TypeOK, PlaceInv, CountedOnce
<1>5. NoVoteLost'
  BY <1>1, <1>2 DEF TypeOK, PlaceInv, Held, NoVoteLost
<1>6. QED
  BY <1>3, <1>4, <1>5 DEF PlaceInv

LEMMA NextPlaces ==
  TypeOK /\ ClaimInv /\ PlaceInv /\ [Next]_vars => PlaceInv'
<1> SUFFICES ASSUME TypeOK, ClaimInv, PlaceInv, [Next]_vars PROVE PlaceInv'
  OBVIOUS
<1> USE TallyAssumption DEF PlaceInv, Held, IdleEmpty, AppliedCounted,
        CountedOnce, NoVoteLost, Done
<1>1. CASE UNCHANGED vars
  BY <1>1 DEF vars
<1>2. ASSUME NEW r \in Request, NEW i \in Instance, NEW o \in Option, Arrive(r, i, o)
      PROVE  PlaceInv'
  BY <1>2 DEF TypeOK, Arrive
<1>3. ASSUME NEW r \in Request,
             TryClaim(r) \/ LoseClaimReply(r) \/ ClaimUnavailable(r)
      PROVE  PlaceInv'
  <2>1. UNCHANGED <<inst, mem, delta, applied, cursor, cuts, proc>>
    BY <1>3 DEF TryClaim, LoseClaimReply, ClaimUnavailable, flushVars, lifeVars
  <2>2. phase[r] \notin Done /\ phase'[r] \notin Done
    BY <1>3 DEF TypeOK, TryClaim, LoseClaimReply, ClaimUnavailable
  <2>3. \A q \in Request \ {r} : phase'[q] = phase[q]
    BY <1>3 DEF TypeOK, TryClaim, LoseClaimReply, ClaimUnavailable
  <2>4. QED
    BY <2>1, <2>2, <2>3
<1>4. ASSUME NEW r \in Request, AcceptVote(r) \/ RejectDuplicate(r)
      PROVE  PlaceInv'
  BY <1>4, CountPlaces
<1>5. ASSUME NEW i \in Instance, StartFlush(i) \/ StartFinalFlush(i)
      PROVE  PlaceInv'
  BY <1>5 DEF TypeOK, StartFlush, StartFinalFlush
<1>6. ASSUME NEW i \in Instance, SwapField(i)
      PROVE  PlaceInv'
  BY <1>6 DEF TypeOK, SwapField
<1>7. ASSUME NEW i \in Instance, FlushOk(i)
      PROVE  PlaceInv'
  BY <1>7, FlushOkPlaces
<1>8. ASSUME NEW i \in Instance, CutPipeline(i)
      PROVE  PlaceInv'
  <2>1. cuts' = cuts + 1 /\ UNCHANGED <<phase, inst, mem, delta, cursor, proc>>
    BY <1>8 DEF TypeOK, CutPipeline
  <2>2. \A r \in Request : \/ applied'[r] = applied[r]
                           \/ r \in delta[i] /\ applied'[r] = applied[r] + 1
    BY <1>8 DEF CutPipeline, Increment
  <2>3. QED
    BY <2>1, <2>2 DEF TypeOK
<1>9. ASSUME NEW i \in Instance, FlushFail(i)
      PROVE  PlaceInv'
  BY <1>9 DEF TypeOK, FlushFail, EndFlush
<1>10. ASSUME NEW i \in Instance, Signal(i) \/ Shutdown(i)
       PROVE  PlaceInv'
  BY <1>10 DEF TypeOK, Signal, Shutdown
<1>11. ASSUME NEW i \in Instance, Exit(i) \/ DrainTimeout(i) \/ Crash(i)
       PROVE  PlaceInv'
  <2>1. PICK how \in {"exited", "killed"} : Terminate(i, how)
    BY <1>11 DEF Exit, DrainTimeout, Crash
  <2>2. QED
    BY <2>1 DEF TypeOK, Terminate, InFlightAt
<1>12. QED
  BY <1>1, <1>2, <1>3, <1>4, <1>5, <1>6, <1>7, <1>8, <1>9, <1>10, <1>11
     DEF Next, Handle, Flush, Life

-----------------------------------------------------------------------------
(* Shutdown.  Behind the final flush's cursor the counters hold no vote    *)
(* accepted before the signal; when the cursor has passed every field,     *)
(* each such vote is swapped out or already in Redis.                      *)

UpIsFresh == \A i \in Instance : proc[i] = "up" => final[i] = "no" /\ early[i] = {}

EarlyAccepted == \A i \in Instance : early[i] \subseteq AcceptedAt(i)

FlushingAlive == \A i \in Instance : cursor[i] # Idle => proc[i] \in Alive

SweptBehind ==
  \A i \in Instance : final[i] = "running" /\ cursor[i] # Idle =>
    \A r \in early[i] \cap mem[i] : FieldOf(r) >= cursor[i]

FlushedKeeps ==
  \A i \in Instance : final[i] = "flushed" => \A r \in early[i] : applied[r] > 0

FinalInv == /\ UpIsFresh
            /\ EarlyAccepted
            /\ FlushingAlive
            /\ SweptBehind
            /\ FlushedKeeps

LEMMA InitFinal == Init => FinalInv
BY DEF Init, FinalInv, UpIsFresh, EarlyAccepted, FlushingAlive, SweptBehind,
       FlushedKeeps, AcceptedAt

LEMMA HandlerFinal ==
  ASSUME TypeOK, ClaimInv, FinalInv, NEW r \in Request,
         Handle(r) \/ LoseClaimReply(r)
  PROVE  FinalInv'
<1> USE TallyAssumption
<1>1. /\ UNCHANGED <<inst, option, applied, cursor, proc, final, early>>
      /\ phase[r] \notin {"accepted", "duplicate"}
      /\ phase' = [phase EXCEPT ![r] = phase'[r]]
  BY DEF TypeOK, Handle, TryClaim, ClaimUnavailable, AcceptVote,
         RejectDuplicate, LoseClaimReply
<1>2. \A i \in Instance : mem'[i] \subseteq mem[i] \cup {r}
  BY DEF TypeOK, Handle, TryClaim, ClaimUnavailable, AcceptVote,
         RejectDuplicate, LoseClaimReply
<1>3. \A i \in Instance : r \notin early[i]
  BY <1>1 DEF FinalInv, EarlyAccepted, AcceptedAt
<1>4. \A q \in Request \ {r} : phase'[q] = phase[q] /\ FieldOf(q)' = FieldOf(q)
  BY <1>1 DEF TypeOK, FieldOf
<1>5. EarlyAccepted'
  BY <1>1, <1>3, <1>4 DEF TypeOK, FinalInv, EarlyAccepted, AcceptedAt
<1>6. SweptBehind'
  BY <1>1, <1>2, <1>3, <1>4 DEF TypeOK, FinalInv, SweptBehind
<1>7. UpIsFresh' /\ FlushingAlive' /\ FlushedKeeps'
  BY <1>1 DEF FinalInv, UpIsFresh, FlushingAlive, FlushedKeeps
<1>8. QED
  BY <1>5, <1>6, <1>7 DEF FinalInv

LEMMA FlushFinal ==
  ASSUME TypeOK, ClaimInv, PlaceInv, FinalInv, NEW i \in Instance,
         Flush(i) \/ CutPipeline(i)
  PROVE  FinalInv'
<1> USE TallyAssumption
<1>1. \A r \in Request : FieldOf(r)' = FieldOf(r)
  BY DEF Flush, StartFlush, StartFinalFlush, SwapField, FlushOk, FlushFail,
         CutPipeline, FieldOf
<1>2. UNCHANGED <<phase, inst, proc, early>>
  BY DEF Flush, StartFlush, StartFinalFlush, SwapField, FlushOk, FlushFail,
         CutPipeline
<1>3. EarlyAccepted'
  BY <1>2 DEF FinalInv, EarlyAccepted, AcceptedAt
<1>4. \A r \in Request : applied[r] > 0 => applied'[r] > 0
  BY DEF TypeOK, Flush, StartFlush, StartFinalFlush, SwapField, FlushOk,
         FlushFail, CutPipeline, Increment
<1>5. CASE StartFlush(i)
  BY <1>1, <1>3, <1>5 DEF TypeOK, StartFlush, FinalInv, UpIsFresh,
     FlushingAlive, SweptBehind, FlushedKeeps
<1>6. CASE StartFinalFlush(i)
  <2>1. \A r \in early[i] : FieldOf(r) >= 1
    BY DEF TypeOK, FinalInv, EarlyAccepted, AcceptedAt, ClaimInv, Arrived, FieldOf
  <2>2. SweptBehind'
    BY <1>1, <1>6, <2>1 DEF TypeOK, StartFinalFlush, FinalInv, SweptBehind
  <2>3. UpIsFresh' /\ FlushingAlive' /\ FlushedKeeps'
    BY <1>6 DEF TypeOK, StartFinalFlush, FinalInv, UpIsFresh, FlushingAlive,
       FlushedKeeps
  <2>4. QED
    BY <1>3, <2>2, <2>3 DEF FinalInv
<1>7. CASE SwapField(i)
  <2>1. \A r \in Request : FieldOf(r) \in Nat
    BY DEF TypeOK, FieldOf
  <2>2. SweptBehind'
    <3>1. SUFFICES ASSUME NEW j \in Instance, final[j] = "running",
                          cursor'[j] # Idle, NEW r \in early[j] \cap mem'[j]
                   PROVE  FieldOf(r) >= cursor'[j]
      BY <1>1, <1>7 DEF TypeOK, SwapField, SweptBehind
    <3>2. CASE j = i
      <4>1. r \in mem[i] /\ FieldOf(r) # cursor[i] /\ cursor'[i] = cursor[i] + 1
        BY <1>7, <3>1, <3>2 DEF TypeOK, SwapField
      <4>2. FieldOf(r) >= cursor[i]
        BY <1>7, <3>1, <3>2, <4>1 DEF SwapField, FinalInv, SweptBehind
      <4>3. r \in Request /\ cursor[i] \in Nat
        BY <1>7, <4>1 DEF TypeOK, SwapField
      <4>4. QED
        BY <2>1, <3>2, <4>1, <4>2, <4>3
    <3>3. CASE j # i
      BY <1>7, <3>1, <3>3 DEF TypeOK, SwapField, FinalInv, SweptBehind
    <3>4. QED
      BY <3>2, <3>3
  <2>3. UpIsFresh' /\ FlushingAlive' /\ FlushedKeeps'
    BY <1>7 DEF TypeOK, SwapField, FinalInv, UpIsFresh, FlushingAlive,
       FlushedKeeps
  <2>4. QED
    BY <1>3, <2>2, <2>3 DEF FinalInv
<1>8. CASE FlushOk(i)
  <2>1. \A r \in Request : FieldOf(r) \in Nat /\ FieldOf(r) <= Duplicate
    BY DEF TypeOK, FieldOf
  <2>2. ASSUME final[i] = "running", NEW r \in early[i]
        PROVE  applied'[r] > 0
    <3>1. r \notin mem[i]
      BY <1>8, <2>1, <2>2 DEF TypeOK, FlushOk, FinalInv, SweptBehind
    <3>2. r \in Request /\ inst[r] = i /\ phase[r] = "accepted" /\ proc[i] \in Alive
      BY <1>8, <2>2 DEF FlushOk, FinalInv, EarlyAccepted, AcceptedAt, FlushingAlive
    <3>3. r \in delta[i] \/ applied[r] > 0
      BY <3>1, <3>2 DEF PlaceInv, NoVoteLost
    <3>4. QED
      BY <1>4, <1>8, <2>1, <3>2, <3>3 DEF TypeOK, FlushOk, Increment
  <2>3. FlushedKeeps'
    BY <1>2, <1>4, <1>8, <2>2 DEF TypeOK, FlushOk, EndFlush, FinalInv,
       EarlyAccepted, AcceptedAt, FlushedKeeps
  <2>4. UpIsFresh' /\ FlushingAlive' /\ SweptBehind'
    BY <1>1, <1>8 DEF TypeOK, FlushOk, EndFlush, FinalInv, UpIsFresh,
       FlushingAlive, SweptBehind
  <2>5. QED
    BY <1>3, <2>3, <2>4 DEF FinalInv
<1>9. CASE FlushFail(i)
  BY <1>1, <1>3, <1>9 DEF TypeOK, FlushFail, EndFlush, FinalInv, UpIsFresh,
     FlushingAlive, SweptBehind, FlushedKeeps
<1>10. CASE CutPipeline(i)
  <2>1. UNCHANGED <<mem, cursor, final>>
    BY <1>10 DEF CutPipeline
  <2>2. FlushedKeeps'
    BY <1>2, <1>4, <2>1 DEF FinalInv, EarlyAccepted, AcceptedAt, FlushedKeeps
  <2>3. QED
    BY <1>1, <1>2, <1>3, <2>1, <2>2 DEF TypeOK, FinalInv, UpIsFresh,
       FlushingAlive, SweptBehind
<1>11. QED
  BY <1>5, <1>6, <1>7, <1>8, <1>9, <1>10 DEF Flush

LEMMA TerminateFinal ==
  ASSUME TypeOK, FinalInv, NEW i \in Instance,
         NEW how \in {"exited", "killed"}, Terminate(i, how)
  PROVE  FinalInv'
<1>1. \A q \in Request : phase[q] = "accepted" => phase'[q] = "accepted"
  BY DEF TypeOK, Terminate, InFlightAt
<1>2. EarlyAccepted'
  BY <1>1 DEF TypeOK, Terminate, FinalInv, EarlyAccepted, AcceptedAt
<1>3. SweptBehind'
  <2>1. \A q \in Request : phase[q] = "accepted" => FieldOf(q)' = FieldOf(q)
    BY <1>1 DEF Terminate, FieldOf
  <2>2. QED
    BY <2>1 DEF TypeOK, Terminate, FinalInv, SweptBehind, EarlyAccepted, AcceptedAt
<1>4. UpIsFresh' /\ FlushingAlive' /\ FlushedKeeps'
  BY DEF TypeOK, Terminate, FinalInv, UpIsFresh, FlushingAlive, FlushedKeeps
<1>5. QED
  BY <1>2, <1>3, <1>4 DEF FinalInv

LEMMA NextFinal ==
  TypeOK /\ ClaimInv /\ PlaceInv /\ FinalInv /\ [Next]_vars => FinalInv'
<1> SUFFICES ASSUME TypeOK, ClaimInv, PlaceInv, FinalInv, [Next]_vars
             PROVE  FinalInv'
  OBVIOUS
<1>1. CASE UNCHANGED vars
  BY <1>1 DEF vars, FinalInv, UpIsFresh, EarlyAccepted, FlushingAlive,
     SweptBehind, FlushedKeeps, AcceptedAt, FieldOf
<1>2. ASSUME NEW r \in Request, NEW i \in Instance, NEW o \in Option, Arrive(r, i, o)
      PROVE  FinalInv'
  <2>1. \A j \in Instance : r \notin early[j]
    BY <1>2 DEF Arrive, FinalInv, EarlyAccepted, AcceptedAt
  <2>2. \A q \in Request \ {r} : /\ phase'[q] = phase[q] /\ inst'[q] = inst[q]
                                 /\ FieldOf(q)' = FieldOf(q)
    BY <1>2 DEF TypeOK, Arrive, FieldOf
  <2>3. QED
    BY <1>2, <2>1, <2>2 DEF TypeOK, Arrive, FinalInv, UpIsFresh, EarlyAccepted,
       FlushingAlive, SweptBehind, FlushedKeeps, AcceptedAt
<1>3. ASSUME NEW r \in Request, Handle(r) \/ LoseClaimReply(r)
      PROVE  FinalInv'
  BY <1>3, HandlerFinal
<1>4. ASSUME NEW i \in Instance, Flush(i) \/ CutPipeline(i)
      PROVE  FinalInv'
  BY <1>4, FlushFinal
<1>5. ASSUME NEW i \in Instance, Signal(i) \/ Shutdown(i)
      PROVE  FinalInv'
  BY <1>5 DEF TypeOK, Signal, Shutdown, FinalInv, UpIsFresh, EarlyAccepted,
     FlushingAlive, SweptBehind, FlushedKeeps, AcceptedAt, FieldOf
<1>6. ASSUME NEW i \in Instance, Exit(i) \/ DrainTimeout(i) \/ Crash(i)
      PROVE  FinalInv'
  BY <1>6, TerminateFinal DEF Exit, DrainTimeout, Crash
<1>7. QED
  BY <1>1, <1>2, <1>3, <1>4, <1>5, <1>6 DEF Next, Life

-----------------------------------------------------------------------------
(* The theorems *)

IInv == TypeOK /\ ClaimInv /\ PlaceInv /\ FinalInv

LEMMA Inductive == Spec => []IInv
<1>1. Init => IInv
  BY InitType, InitClaims, InitPlaces, InitFinal DEF IInv
<1>2. IInv /\ [Next]_vars => IInv'
  BY NextType, NextClaims, NextPlaces, NextFinal DEF IInv, ClaimInv
<1>3. QED
  BY <1>1, <1>2, PTL DEF Spec

(* Every variable of the tally keeps its type. *)
THEOREM TypeCorrect == Spec => []TypeOK
<1>1. IInv => TypeOK
  BY DEF IInv
<1>2. QED
  BY <1>1, Inductive, PTL

(* TryClaim: at most one POST per token is ever counted, whatever replies  *)
(* are lost and whichever processes crash.                                 *)
THEOREM OneVote == Spec => []OneVotePerToken
<1>1. IInv => OneVotePerToken
  BY DEF IInv, ClaimInv
<1>2. QED
  BY <1>1, Inductive, PTL

(* A counted vote and its dedup key name the same option. *)
THEOREM TalliesMatch == Spec => []TalliesMatchClaims
<1>1. IInv => TalliesMatchClaims
  BY DEF IInv, ClaimInv
<1>2. QED
  BY <1>1, Inductive, PTL

(* A duplicate reply names the option its dedup key holds. *)
THEOREM DuplicateNames == Spec => []DuplicateNamesClaim
<1>1. IInv => DuplicateNamesClaim
  BY DEF IInv, ClaimInv
<1>2. QED
  BY <1>1, Inductive, PTL

(* FlushPoll: no failure of Redis loses a counted vote of a living process. *)
THEOREM NothingLost == Spec => []NoVoteLost
<1>1. IInv => NoVoteLost
  BY DEF IInv, PlaceInv
<1>2. QED
  BY <1>1, Inductive, PTL

(* SwapDeltas: each increment is applied once, and at most once more for    *)
(* each pipeline that broke half-way.                                      *)
THEOREM Once == Spec => []CountedOnce
<1>1. IInv => CountedOnce
  BY DEF IInv, PlaceInv
<1>2. QED
  BY <1>1, Inductive, PTL

(* Run: a final flush that succeeds saves every vote accepted before SIGTERM. *)
THEOREM EarlyKept == Spec => []EarlyVotesKept
<1>1. IInv => EarlyVotesKept
  BY DEF IInv, FinalInv, FlushedKeeps, EarlyVotesKept
<1>2. QED
  BY <1>1, Inductive, PTL

-----------------------------------------------------------------------------
(* What the comments on Redis promise, and what each needs: no reply to a  *)
(* claim is lost, no pipeline breaks half-way.                             *)

Sealing == {"accepting", "accepted", "dropped"}

ClaimsVoted ==
  \A t \in Token : claim[t] # 0 =>
    \E q \in Request : /\ TokenOf[q] = t
                       /\ option[q] = claim[t]
                       /\ phase[q] \in Sealing

(* A request that is past its claim keeps its token, its option and its    *)
(* claim to be the one that sealed the key.                                *)
LEMMA StaysSealed ==
  ASSUME TypeOK, [Next]_vars, NEW q \in Request, phase[q] \in Sealing
  PROVE  phase'[q] \in Sealing /\ option'[q] = option[q]
<1> USE DEF Sealing
<1>1. CASE UNCHANGED vars
  BY <1>1 DEF vars
<1>2. ASSUME NEW r \in Request, NEW i \in Instance, NEW o \in Option, Arrive(r, i, o)
      PROVE  phase'[q] \in Sealing /\ option'[q] = option[q]
  BY <1>2 DEF TypeOK, Arrive
<1>3. ASSUME NEW r \in Request, Handle(r) \/ LoseClaimReply(r)
      PROVE  phase'[q] \in Sealing /\ option'[q] = option[q]
  BY <1>3 DEF TypeOK, Handle, TryClaim, ClaimUnavailable, AcceptVote,
     RejectDuplicate, LoseClaimReply
<1>4. ASSUME NEW i \in Instance,
             Flush(i) \/ CutPipeline(i) \/ Signal(i) \/ Shutdown(i)
      PROVE  phase'[q] \in Sealing /\ option'[q] = option[q]
  BY <1>4 DEF Flush, StartFlush, StartFinalFlush, SwapField, FlushOk, FlushFail,
     CutPipeline, Signal, Shutdown, handlerVars
<1>5. ASSUME NEW i \in Instance, Exit(i) \/ DrainTimeout(i) \/ Crash(i)
      PROVE  phase'[q] \in Sealing /\ option'[q] = option[q]
  BY <1>5 DEF Exit, DrainTimeout, Crash, Terminate
<1>6. QED
  BY <1>1, <1>2, <1>3, <1>4, <1>5 DEF Next, Life

LEMMA NextVoted ==
  ASSUME ~LostReplies, TypeOK, ClaimsVoted, [Next]_vars
  PROVE  ClaimsVoted'
<1>1. SUFFICES ASSUME NEW t \in Token, claim'[t] # 0
               PROVE  \E q \in Request : /\ TokenOf[q] = t
                                         /\ option'[q] = claim'[t]
                                         /\ phase'[q] \in Sealing
  BY DEF ClaimsVoted
<1>2. CASE claim'[t] = claim[t]
  <2>1. PICK q \in Request : /\ TokenOf[q] = t
                            /\ option[q] = claim[t]
                            /\ phase[q] \in Sealing
    BY <1>1, <1>2 DEF ClaimsVoted
  <2>2. QED
    BY <1>2, <2>1, StaysSealed
<1>3. CASE claim'[t] # claim[t]
  <2>1. PICK r \in Request : TryClaim(r)
    BY <1>3 DEF Next, Arrive, Handle, ClaimUnavailable, AcceptVote,
       RejectDuplicate, LoseClaimReply, Flush, StartFlush, StartFinalFlush,
       SwapField, FlushOk, FlushFail, CutPipeline, Life, Signal, Shutdown, Exit,
       DrainTimeout, Crash, Terminate, handlerVars, vars
  <2>2. t = TokenOf[r] /\ claim[t] = 0 /\ claim'[t] = option[r]
    BY <1>3, <2>1, TallyAssumption DEF TypeOK, TryClaim, SetNX
  <2>3. phase'[r] = "accepting" /\ option' = option
    BY <2>1, <2>2 DEF TypeOK, TryClaim
  <2>4. QED
    BY <2>2, <2>3 DEF Sealing
<1>4. QED
  BY <1>2, <1>3

(* dedup.go: while no reply to a claim is lost, a duplicate is told of a   *)
(* vote for that option which was counted, is being counted, or died with  *)
(* its process.  Run lost_reply shows that the premise is needed.          *)
THEOREM DuplicateOfAVote ==
  ASSUME ~LostReplies PROVE Spec => []DuplicateMeansCounted
<1>1. Init => ClaimsVoted
  BY DEF Init, ClaimsVoted
<1>2. IInv /\ ClaimsVoted /\ [Next]_vars => ClaimsVoted'
  BY NextVoted DEF IInv
<1>3. IInv /\ ClaimsVoted => DuplicateMeansCounted
  <2>1. SUFFICES ASSUME IInv, ClaimsVoted,
                        NEW r \in Request, phase[r] = "duplicate"
                 PROVE  \E q \in Request \ {r} :
                          /\ TokenOf[q] = TokenOf[r]
                          /\ option[q] = prev[r]
                          /\ phase[q] \notin {"new", "unavailable"}
    BY DEF DuplicateMeansCounted
  <2>2. prev[r] = claim[TokenOf[r]] /\ claim[TokenOf[r]] # 0
    BY <2>1 DEF IInv, ClaimInv, DuplicateNamesClaim
  <2>3. PICK q \in Request : /\ TokenOf[q] = TokenOf[r]
                            /\ option[q] = claim[TokenOf[r]]
                            /\ phase[q] \in Sealing
    BY <2>1, <2>2, TallyAssumption DEF ClaimsVoted
  <2>4. QED
    BY <2>1, <2>2, <2>3 DEF Sealing
<1>4. QED
  BY <1>1, <1>2, <1>3, Inductive, PTL DEF Spec

(* counter.go: until a pipeline breaks half-way, every vote is "counted    *)
(* exactly once".  Run cut shows that the premise is needed.               *)
THEOREM UncutOnce == Spec => [](cuts = 0 => AppliedOnce)
<1>1. IInv => (cuts = 0 => AppliedOnce)
  <2>1. SUFFICES ASSUME IInv, cuts = 0, NEW r \in Request, applied[r] # 0
                 PROVE  applied[r] <= 1
    BY DEF AppliedOnce
  <2>2. inst[r] \in Instance
    BY <2>1 DEF IInv, PlaceInv, AppliedCounted, ClaimInv, Arrived, Done
  <2>3. QED
    BY <2>1, <2>2 DEF IInv, PlaceInv, CountedOnce
<1>2. QED
  BY <1>1, Inductive, PTL

-----------------------------------------------------------------------------
(* Refinement of the ballot box *)

BallotsOf == {TokenOf[r] : r \in Published}

LEMMA SamePublished ==
  ASSUME Published' = Published PROVE BallotsOf' = BallotsOf
BY DEF BallotsOf

LEMMA PublishedSealed ==
  ASSUME TypeOK, ClaimInv, NEW t \in BallotsOf
  PROVE  t \in Token /\ claim[t] # 0
BY TallyAssumption DEF TypeOK, ClaimInv, Arrived, TalliesMatchClaims, Counted,
   BallotsOf, Published

(* A claim seals the token's ballot or, the key being taken, stutters. *)
LEMMA SetNXSeals ==
  ASSUME TypeOK, ClaimInv, NEW r \in Request, phase[r] # "new", SetNX(r),
         Published' = Published
  PROVE  Box!Next \/ UNCHANGED <<claim, BallotsOf>>
<1>1. BallotsOf' = BallotsOf
  BY SamePublished
<1>2. CASE claim[TokenOf[r]] = 0
  <2>1. Box!Seal(TokenOf[r], option[r])
    BY <1>1, <1>2 DEF SetNX, Box!Seal, BallotsOf
  <2>2. TokenOf[r] \in Token /\ option[r] \in Box!Option
    BY TallyAssumption DEF ClaimInv, Arrived, Box!Option
  <2>3. QED
    BY <2>1, <2>2 DEF Box!Next
<1>3. CASE claim[TokenOf[r]] # 0
  BY <1>1, <1>3 DEF SetNX
<1>4. QED
  BY <1>2, <1>3

(* Increments that take effect publish a batch of sealed ballots. *)
LEMMA IncrementPublishes ==
  ASSUME TypeOK, ClaimInv, ClaimInv', TypeOK', UNCHANGED <<phase, claim>>,
         \A r \in Request : applied'[r] >= applied[r]
  PROVE  Box!Next
<1> DEFINE batch == BallotsOf' \ BallotsOf
<1>1. Published \subseteq Published'
  BY DEF TypeOK, Published
<1>2. BallotsOf \subseteq BallotsOf'
  BY <1>1 DEF BallotsOf
<1>3. \A t \in BallotsOf' : t \in Token /\ claim'[t] # 0
  BY TallyAssumption DEF TypeOK, ClaimInv, Arrived, TalliesMatchClaims, Counted,
     BallotsOf, Published
<1>4. batch \in SUBSET Token /\ batch \subseteq Box!Sealed \ BallotsOf
  BY <1>3 DEF Box!Sealed
<1>5. BallotsOf' = BallotsOf \cup batch
  BY <1>2
<1>6. \E b \in SUBSET Token : Box!Publish(b)
  BY <1>4, <1>5 DEF Box!Publish, BallotsOf
<1>7. QED
  BY <1>6 DEF Box!Next

LEMMA StepRefines ==
  IInv /\ IInv' /\ [Next]_vars => [Box!Next]_(Box!vars)
<1> SUFFICES ASSUME IInv, IInv', [Next]_vars
             PROVE  Box!Next \/ UNCHANGED <<claim, BallotsOf>>
  BY DEF Box!vars, BallotsOf
<1> USE TallyAssumption DEF IInv
<1>1. CASE UNCHANGED vars
  BY <1>1, SamePublished DEF vars, Published
<1>2. ASSUME NEW r \in Request, NEW i \in Instance, NEW o \in Option, Arrive(r, i, o)
      PROVE  UNCHANGED <<claim, BallotsOf>>
  <2>1. Published' = Published
    BY <1>2 DEF TypeOK, Arrive, Published
  <2>2. QED
    BY <1>2, <2>1, SamePublished DEF Arrive
<1>3. ASSUME NEW r \in Request, TryClaim(r) \/ LoseClaimReply(r)
      PROVE  Box!Next \/ UNCHANGED <<claim, BallotsOf>>
  <2>1. Published' = Published
    BY <1>3 DEF TypeOK, TryClaim, LoseClaimReply, Published
  <2>2. QED
    BY <1>3, <2>1, SetNXSeals DEF TryClaim, LoseClaimReply
<1>4. ASSUME NEW r \in Request,
             ClaimUnavailable(r) \/ AcceptVote(r) \/ RejectDuplicate(r)
      PROVE  UNCHANGED <<claim, BallotsOf>>
  <2>1. phase[r] \notin Done => applied[r] = 0
    BY DEF PlaceInv, AppliedCounted
  <2>2. Published' = Published
    BY <1>4, <2>1 DEF TypeOK, ClaimUnavailable, AcceptVote, RejectDuplicate,
       Published, Done
  <2>3. QED
    BY <1>4, <2>2, SamePublished DEF ClaimUnavailable, AcceptVote, RejectDuplicate
<1>5. ASSUME NEW i \in Instance, FlushOk(i) \/ CutPipeline(i)
      PROVE  Box!Next
  <2>1. UNCHANGED <<phase, claim>>
    BY <1>5 DEF FlushOk, CutPipeline
  <2>2. \A r \in Request : applied'[r] >= applied[r]
    BY <1>5 DEF TypeOK, FlushOk, CutPipeline, Increment
  <2>3. QED
    BY <2>1, <2>2, IncrementPublishes
<1>6. ASSUME NEW i \in Instance,
             \/ StartFlush(i) \/ StartFinalFlush(i) \/ SwapField(i)
             \/ FlushFail(i) \/ Signal(i) \/ Shutdown(i)
      PROVE  UNCHANGED <<claim, BallotsOf>>
  <2>1. UNCHANGED <<claim, phase, applied>>
    BY <1>6 DEF StartFlush, StartFinalFlush, SwapField, FlushFail, Signal, Shutdown
  <2>2. QED
    BY <2>1, SamePublished DEF Published
<1>7. ASSUME NEW i \in Instance, Exit(i) \/ DrainTimeout(i) \/ Crash(i)
      PROVE  UNCHANGED <<claim, BallotsOf>>
  <2>1. PICK how : Terminate(i, how)
    BY <1>7 DEF Exit, DrainTimeout, Crash
  <2>2. Published' = Published
    BY <2>1 DEF TypeOK, Terminate, InFlightAt, Published
  <2>3. QED
    BY <2>1, <2>2, SamePublished DEF Terminate
<1>8. QED
  BY <1>1, <1>2, <1>3, <1>4, <1>5, <1>6, <1>7 DEF Next, Handle, Flush, Life

(* Redis keys, counters and flushes implement the ballot box: a token's    *)
(* first choice is final, and only claimed votes reach the shared tally.   *)
THEOREM Refinement == Spec => ImplementsBallotBox
<1>1. Init => Box!Init
  BY DEF Init, Box!Init, Published
<1>2. QED
  BY <1>1, StepRefines, Inductive, PTL DEF Spec, ImplementsBallotBox, Box!Spec
=============================================================================
