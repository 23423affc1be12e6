-------------------------- MODULE BrowserVoteProofs --------------------------
(***************************************************************************)
(* The safety properties of BrowserVote, for any number of tabs, options,  *)
(* processes and tokens.                                                   *)
(***************************************************************************)
EXTENDS BrowserVote, FiniteSetTheorems, SequenceTheorems, TLAPS

(* Which call a page waits for, and what may answer it.  A page that submits *)
(* has been told "closed" less often than its voter has clicked.             *)
Calling(t) ==
  /\ call[t] # None => page[t] \in Waiting
  /\ call[t] \in Votes => page[t] = "submitting" /\ ref[t] = call[t].token
  /\ page[t] = "submitting" => choice[t] \in Option /\ closed[t] < submits
  /\ closed[t] <= submits
  /\ reply[t] # None /\ call[t] = Ask =>
       reply[t].status \in {"token", "limited", "failed"}
  /\ reply[t] # None /\ call[t] \in Votes => reply[t].status # "token"

(* What an answer and a page say of a vote is what its token's key holds. *)
Truthful(t) ==
  /\ call[t] \in Votes /\ reply[t] # None /\ reply[t].status \in Outcome =>
       claimed[call[t].token] = reply[t].value
  /\ told[t] # None => /\ page[t] \in Outcome /\ ref[t] \in Token
                       /\ claimed[ref[t]] = told[t]

(* A token that is kept has its date. *)
DatedTokens ==
  /\ stored.token # None => stored.dated
  /\ \A t \in Tab : memory[t].token # None => memory[t].dated

(* Until a 401, an outcome has its date, too; a page whose tab has voted finds *)
(* one; and a page that has written a record has voted or never asks again.    *)
Remembered ==
  /\ stored.outcome \in Outcome => stored.dated
  /\ \A t \in Tab :
       /\ page[t] \in Outcome => stored.outcome \in Outcome
       /\ memory[t] # NoRecord => /\ call[t] # Ask
                                  /\ page[t] \in Outcome \/ memory[t].token # None

(* No token but those of S is kept, sent or used. *)
Only(S) ==
  /\ stored.token \in S \cup {None}
  /\ \A t \in Tab : /\ ref[t] \in S \cup {None}
                    /\ memory[t].token \in S \cup {None}
                    /\ call[t] \in Votes => call[t].token \in S
  /\ \A v \in stray : v.token \in S
  /\ \A k \in Token : claimed[k] # None => k \in S

(* A browser that holds a token, or a dated outcome, stores no other token *)
(* unless it overtakes that outcome.  Until then it has one more to come.  *)
Spent == stored.token # None \/ (stored.outcome \in Outcome /\ stored.dated)
Budget == refusals + overtakes + (IF Spent THEN 1 ELSE 0)
FewTokens == \E S \in SUBSET Token : Only(S) /\ Cardinality(S) <= Budget

IInv ==
  /\ TypeOK /\ DatedTokens /\ FewTokens
  /\ \A t \in Tab : Calling(t) /\ Truthful(t)
  /\ refusals = 0 => Remembered

-----------------------------------------------------------------------------
LEMMA Constants ==
  /\ {MaxTokens, MaxSecret, MaxLoads, MaxSubmits} \subseteq Nat
  /\ Token \subseteq Nat
  /\ None \notin Token /\ None \notin Option /\ None \notin Outcome
  /\ None \notin Votes /\ None # Ask /\ None \notin Replies
  /\ Ask \notin Votes
  /\ Absent \notin Outcome /\ Absent # None
  /\ NoRecord \in Record
<1>1. Token \subseteq Nat /\ None \notin Token
  BY BrowserAssumption DEF Token
<1>2. Ask \notin Votes
  BY <1>1 DEF Ask, Vote, Votes
<1>3. NoRecord \in Record
  BY DEF NoRecord, Record
<1> QED  BY <1>1, <1>2, <1>3, BrowserAssumption

(* Tokens are finitely many. *)
LEMMA SomeTokens ==
  ASSUME NEW S \in SUBSET Token
  PROVE  /\ Cardinality(S) \in Nat
         /\ \A k \in Token : Cardinality(S \cup {k}) <= Cardinality(S) + 1
         /\ \A T \in SUBSET S : Cardinality(T) <= Cardinality(S)
<1>1. IsFiniteSet(Token)
  BY FS_Interval, BrowserAssumption DEF Token
<1>2. IsFiniteSet(S)
  BY <1>1, FS_Subset
<1>3. Cardinality(S) \in Nat
  BY <1>2, FS_CardinalityType
<1>4. ASSUME NEW k \in Token PROVE Cardinality(S \cup {k}) <= Cardinality(S) + 1
  <2>1. CASE k \in S
    <3>1. S \cup {k} = S
      BY <2>1
    <3>2. Cardinality(S) <= Cardinality(S) + 1
      BY <1>3
    <3> QED  BY <3>1, <3>2, Zenon
  <2>2. CASE k \notin S
    <3>1. Cardinality(S \cup {k}) = Cardinality(S) + 1
      BY <1>2, <2>2, FS_AddElement
    <3> QED  BY <1>3, <3>1
  <2> QED  BY <2>1, <2>2
<1>5. ASSUME NEW T \in SUBSET S PROVE Cardinality(T) <= Cardinality(S)
  BY <1>2, FS_Subset
<1> QED  BY <1>3, <1>4, <1>5

LEMMA TokenCall ==
  ASSUME NEW v \in Votes
  PROVE  v.token \in Token /\ v.option \in Option
BY DEF Votes

LEMMA RecordFields ==
  ASSUME NEW r \in Record
  PROVE  /\ r.token \in Token \cup {None}
         /\ r.outcome \in Outcome \cup {None, Absent}
         /\ r.dated \in BOOLEAN
BY DEF Record

(* What a page reads is a record, and its token is one that was kept. *)
LEMMA ReadSound ==
  ASSUME TypeOK, DatedTokens, NEW t \in Tab
  PROVE  /\ Read(t) \in Record
         /\ ValidToken(Read(t)) =
              IF memory[t].token # None THEN memory[t].token ELSE stored.token
         /\ ValidToken(Read(t)) \in Token \cup {None}
         /\ ValidToken(stored) = stored.token
<1>1. memory[t] \in Record /\ stored \in Record
  BY DEF TypeOK
<1>2. /\ memory[t].token \in Token \cup {None} /\ stored.token \in Token \cup {None}
      /\ memory[t].outcome \in Outcome \cup {None, Absent}
      /\ stored.outcome \in Outcome \cup {None, Absent}
      /\ memory[t].dated \in BOOLEAN /\ stored.dated \in BOOLEAN
  BY <1>1, RecordFields
<1>3. Read(t) \in Record
  BY <1>2 DEF Read, Record
<1>4. ValidToken(Read(t)) =
        IF memory[t].token # None THEN memory[t].token ELSE stored.token
  BY <1>2 DEF Read, ValidToken, DatedTokens
<1>5. ValidToken(stored) = stored.token
  BY <1>2 DEF ValidToken, DatedTokens
<1> QED  BY <1>2, <1>3, <1>4, <1>5

(* What a page writes is read back as a record. *)
LEMMA WriteSound ==
  ASSUME TypeOK, NEW t \in Tab, NEW r \in Record, Write(t, r)
  PROVE  /\ memory' \in [Tab -> Record] /\ memory'[t] = r
         /\ \A u \in Tab \ {t} : memory'[u] = memory[u]
         /\ stored' \in Record
         /\ stored'.token = r.token /\ stored'.dated = r.dated
         /\ stored'.outcome \in Outcome <=> r.outcome \in Outcome
<1>1. memory' \in [Tab -> Record] /\ memory'[t] = r
      /\ \A u \in Tab \ {t} : memory'[u] = memory[u]
  BY DEF Write, TypeOK
<1>2. /\ r.token \in Token \cup {None} /\ r.outcome \in Outcome \cup {None, Absent}
      /\ r.dated \in BOOLEAN
  BY RecordFields
<1>3. Defined(r.outcome) \in Outcome \cup {None, Absent}
      /\ (Defined(r.outcome) \in Outcome <=> r.outcome \in Outcome)
  BY <1>2, Constants DEF Defined
<1> QED  BY <1>1, <1>2, <1>3 DEF Write, Record

(* A page whose call is over. *)
Page == Waiting \cup Editable \cup Outcome \cup {"away", "server-closed"}
LEMMA SettleSound ==
  ASSUME TypeOK, NEW t \in Tab, NEW p \in Page, Settle(t, p)
  PROVE  /\ page' \in [Tab -> Page]
         /\ call' \in [Tab -> Votes \cup {Ask, None}]
         /\ reply' \in [Tab -> Replies \cup {None}]
         /\ page'[t] = p /\ call'[t] = None /\ reply'[t] = None
         /\ \A u \in Tab \ {t} : /\ page'[u] = page[u] /\ call'[u] = call[u]
                                  /\ reply'[u] = reply[u]
BY DEF Settle, TypeOK, Page

LEMMA DroppedSound ==
  ASSUME TypeOK, NEW t \in Tab
  PROVE  /\ Dropped(t) \subseteq Votes
         /\ Dropped(t) \subseteq {call[t]}
BY DEF Dropped

(* A step that leaves a tab alone, and no claim is overwritten. *)
LEMMA OtherTab ==
  ASSUME TypeOK, NEW u \in Tab, Calling(u), Truthful(u),
         page'[u] = page[u], call'[u] = call[u], reply'[u] = reply[u],
         ref'[u] = ref[u], choice'[u] = choice[u], closed'[u] = closed[u],
         told'[u] = told[u],
         submits' \in {submits, submits + 1},
         \A k \in Token : claimed[k] # None => claimed'[k] = claimed[k]
  PROVE  Calling(u)' /\ Truthful(u)'
<1>1. Calling(u)'
  <2>1. submits \in Nat /\ closed[u] \in Nat /\ submits <= submits'
    BY Constants DEF TypeOK
  <2> QED  BY <2>1 DEF Calling, TypeOK
<1>2. Truthful(u)'
  <2>1. ASSUME call[u] \in Votes, reply[u] # None, reply[u].status \in Outcome
        PROVE  claimed'[call[u].token] = reply[u].value
    <3>1. reply[u].value # None
      <4>1. reply[u] \in Replies
        BY <2>1 DEF TypeOK
      <4>2. \A r \in Replies : r.status \in Outcome => r.value \in Option
        BY DEF Replies, Outcome
      <4> QED  BY <2>1, <4>1, <4>2, Constants
    <3> QED  BY <2>1, <3>1, TokenCall DEF Truthful
  <2>2. ASSUME told[u] # None
        PROVE  page[u] \in Outcome /\ ref[u] \in Token /\ claimed'[ref[u]] = told[u]
    BY <2>2 DEF Truthful
  <2> QED  BY <2>1, <2>2 DEF Truthful
<1> QED  BY <1>1, <1>2

(* What it takes that only the tokens of U are in use after a step. *)
LEMMA OnlyNext ==
  ASSUME NEW U,
         \A u \in Tab : ref'[u] \in U \cup {None},
         \A u \in Tab : memory'[u].token \in U \cup {None},
         \A u \in Tab : call'[u] \in Votes => call'[u].token \in U,
         stored'.token \in U \cup {None},
         \A v \in stray' : v.token \in U,
         \A j \in Token : claimed'[j] # None => j \in U
  PROVE  Only(U)'
BY DEF Only

(* The tokens in use stay few while no other is kept, sent or used. *)
LEMMA FewTokensKept ==
  ASSUME TypeOK, FewTokens, Spent => Spent',
         refusals' = refusals, overtakes' = overtakes,
         \A S \in SUBSET Token : Only(S) => Only(S)'
  PROVE  FewTokens'
<1>1. PICK S \in SUBSET Token : Only(S) /\ Cardinality(S) <= Budget
  BY DEF FewTokens
<1>2. Cardinality(S) \in Nat
  BY SomeTokens
<1>3. Budget <= Budget' /\ Budget \in Nat /\ Budget' \in Nat
  BY DEF Budget, TypeOK
<1>4. Cardinality(S) <= Budget'
  BY <1>1, <1>2, <1>3
<1>5. Only(S)'
  BY <1>1
<1> QED  BY <1>4, <1>5 DEF FewTokens

-----------------------------------------------------------------------------
LEMMA LoadStep ==
  ASSUME IInv, NEW t \in Tab, Load(t)
  PROVE  IInv'
<1> USE Constants DEF IInv
<1> DEFINE lapsed == stored.outcome \in Outcome /\ ~stored.dated
           first == IF lapsed \/ stored.outcome \notin Outcome THEN "preparing"
                                                              ELSE stored.outcome
<1>1. first \in Page /\ Settle(t, first)
  BY DEF Load, Page, Waiting
<1>2. /\ ref' \in [Tab -> Token \cup {None}] /\ ref'[t] = None
      /\ memory' \in [Tab -> Record] /\ memory'[t] = NoRecord
      /\ choice' \in [Tab -> Option \cup {None}]
      /\ closed' \in [Tab -> 0 .. MaxSubmits] /\ closed'[t] = 0
      /\ told' \in [Tab -> Option \cup {None}] /\ told'[t] = None
      /\ \A u \in Tab \ {t} : /\ ref'[u] = ref[u] /\ memory'[u] = memory[u]
                              /\ choice'[u] = choice[u] /\ closed'[u] = closed[u]
                              /\ told'[u] = told[u]
  BY DEF Load, TypeOK
<1>3. /\ stored' = IF lapsed THEN NoRecord ELSE stored
      /\ stray' = stray \cup Dropped(t)
      /\ loads < MaxLoads /\ loads' = loads + 1
      /\ UNCHANGED <<server, submits, refusals, overtakes>>
  BY DEF Load
<1> HIDE DEF lapsed, first
<1>4. TypeOK'
  <2>1. loads' \in 0 .. MaxLoads /\ submits' \in 0 .. MaxSubmits
    BY <1>3 DEF TypeOK
  <2>2. stored' \in Record /\ stray' \subseteq Votes
    BY <1>3, DroppedSound DEF TypeOK
  <2>3. \A u \in Tab : call'[u] = None => reply'[u] = None
    BY <1>1, SettleSound DEF TypeOK
  <2> QED
    BY <1>1, <1>2, <1>3, <2>1, <2>2, <2>3, SettleSound DEF TypeOK, Page, server
<1>5. Calling(t)' /\ Truthful(t)'
  <2>1. first \in Outcome \cup {"preparing"}
    BY DEF first
  <2>2. submits' \in Nat /\ 0 <= submits'
    BY <1>3 DEF TypeOK
  <2>3. Calling(t)'
    BY <1>1, <1>2, <2>1, <2>2, SettleSound DEF Calling, Outcome
  <2>4. Truthful(t)'
    BY <1>1, <1>2, SettleSound DEF Truthful
  <2> QED  BY <2>3, <2>4
<1>6. ASSUME NEW u \in Tab \ {t} PROVE Calling(u)' /\ Truthful(u)'
  BY <1>1, <1>2, <1>3, SettleSound, OtherTab DEF server
<1>7. DatedTokens'
  BY <1>2, <1>3 DEF DatedTokens, NoRecord
<1>8. ASSUME refusals' = 0 PROVE Remembered'
  <2>1. ~lapsed /\ stored' = stored
    BY <1>3, <1>8 DEF Remembered, lapsed
  <2>2. first \in Outcome => stored.outcome \in Outcome
    BY DEF first, Outcome
  <2> QED  BY <1>1, <1>2, <1>3, <1>8, <2>1, <2>2, SettleSound DEF Remembered
<1>9. FewTokens'
  <2>1. ASSUME NEW S \in SUBSET Token, Only(S) PROVE Only(S)'
    <3>1. \A v \in stray' : v.token \in S
      BY <1>3, <2>1 DEF Only, Dropped
    <3>2. stored'.token \in S \cup {None} /\ claimed' = claimed
      BY <1>3, <2>1 DEF Only, NoRecord, server
    <3> QED  BY <1>1, <1>2, <2>1, <3>1, <3>2, SettleSound DEF Only, NoRecord
  <2>2. Spent => Spent'
    BY <1>3 DEF Spent, lapsed, DatedTokens
  <2> QED  BY <1>3, <2>1, <2>2, FewTokensKept
<1> QED  BY <1>4, <1>5, <1>6, <1>7, <1>8, <1>9

(* A call that ends without having told the page anything of its vote. *)
LEMMA CallEnds ==
  ASSUME IInv, NEW t \in Tab, NEW p \in Page \ (Outcome \cup Waiting),
         call[t] # None, Settle(t, p),
         stray' \subseteq stray \cup Dropped(t),
         closed' \in [Tab -> 0 .. MaxSubmits], closed'[t] <= submits,
         \A u \in Tab \ {t} : closed'[u] = closed[u],
         UNCHANGED <<server, stored, ref, memory, choice, told, bounds, refusals,
                     overtakes>>
  PROVE  IInv'
<1> USE Constants, SettleSound DEF IInv, server, bounds
<1>1. page[t] \in Waiting /\ page[t] \notin Outcome
  BY DEF Calling, Waiting, Outcome
<1>2. TypeOK'
  <2>1. stray' \subseteq Votes
    BY DroppedSound DEF TypeOK
  <2>2. \A u \in Tab : call'[u] = None => reply'[u] = None
    BY DEF TypeOK
  <2> QED  BY <2>1, <2>2 DEF TypeOK, Page
<1>3. Calling(t)' /\ Truthful(t)'
  <2>1. told[t] = None
    BY <1>1 DEF Truthful
  <2>2. p # "submitting"
    BY DEF Waiting
  <2> QED  BY <2>1, <2>2 DEF Calling, Truthful
<1>4. ASSUME NEW u \in Tab \ {t} PROVE Calling(u)' /\ Truthful(u)'
  BY OtherTab
<1>5. DatedTokens'
  BY DEF DatedTokens
<1>6. refusals' = 0 => Remembered'
  BY <1>1 DEF Remembered
<1>7. FewTokens'
  <2>1. ASSUME NEW S \in SUBSET Token, Only(S) PROVE Only(S)'
    <3>1. \A v \in stray' : v.token \in S
      BY <2>1 DEF Only, Dropped
    <3> QED  BY <2>1, <3>1 DEF Only
  <2> QED  BY <2>1, FewTokensKept DEF Spent
<1> QED  BY <1>2, <1>3, <1>4, <1>5, <1>6, <1>7

LEMMA FailureStep ==
  ASSUME IInv, NEW t \in Tab, Failure(t) \/ GiveUp(t) \/ ClosedReply(t)
  PROVE  IInv'
<1> USE Constants DEF IInv
<1> DEFINE Shown == Page \ (Outcome \cup Waiting)
<1>1. {"rate-limited", "error", "server-closed", "unavailable"} \subseteq Shown
  BY DEF Page, Editable, Outcome, Waiting
<1>2. Reply("limited", None) # None /\ Reply("failed", None) # None
      /\ Reply("closed", None) # None
  <2>1. {Reply("limited", None), Reply("failed", None), Reply("closed", None)}
          \subseteq Replies
    BY DEF Reply, Replies
  <2> QED  BY <2>1
<1>3. CASE Failure(t)
  <2>1. call[t] # None
    BY <1>2, <1>3 DEF Failure, TypeOK
  <2>2. closed[t] <= submits
    BY DEF Calling
  <2> QED  BY <1>1, <1>3, <2>1, <2>2, CallEnds DEF Failure, TypeOK
<1>4. CASE GiveUp(t)
  <2>2. closed[t] <= submits
    BY DEF Calling
  <2> QED  BY <1>1, <1>4, <2>2, CallEnds DEF GiveUp, TypeOK
<1>5. CASE ClosedReply(t)
  <2>1. reply[t] # None /\ reply[t].status = "closed"
    BY <1>2, <1>5 DEF ClosedReply, Reply
  <2>2. call[t] # None /\ call[t] # Ask
    BY <2>1 DEF TypeOK, Calling
  <2>3. call[t] \in Votes /\ page[t] = "submitting"
    BY <2>2 DEF TypeOK, Calling
  <2>4. closed[t] < submits /\ closed[t] \in Nat /\ submits \in 0 .. MaxSubmits
    BY <2>3 DEF TypeOK, Calling
  <2>5. closed' = [closed EXCEPT ![t] = closed[t] + 1]
        /\ closed[t] + 1 \in 0 .. MaxSubmits /\ closed[t] + 1 <= submits
    BY <1>5, <2>4 DEF ClosedReply
  <2>6. /\ closed' \in [Tab -> 0 .. MaxSubmits] /\ closed'[t] <= submits
        /\ \A u \in Tab \ {t} : closed'[u] = closed[u]
    BY <2>5 DEF TypeOK
  <2> QED  BY <1>1, <1>5, <2>2, <2>6, CallEnds DEF ClosedReply
<1> QED  BY <1>3, <1>4, <1>5

LEMMA VoteReplyStep ==
  ASSUME IInv, NEW t \in Tab, VoteReply(t)
  PROVE  IInv'
<1> USE Constants DEF IInv
<1> DEFINE r == reply[t]
           rec == [token |-> None, outcome |-> r.status, dated |-> TRUE]
<1>1. /\ call[t] \in Votes /\ r \in Replies /\ r.status \in Outcome
      /\ Write(t, rec) /\ Settle(t, r.status)
      /\ told' = [told EXCEPT ![t] = r.value]
      /\ UNCHANGED <<server, stray, ref, choice, closed, bounds, refusals,
                     overtakes>>
  BY DEF VoteReply, TypeOK
<1>2. r.value \in Option /\ rec \in Record /\ r.status \in Page
      /\ r.status # "submitting"
  <2>1. \A x \in Replies : x.status \in Outcome => x.value \in Option
    BY DEF Replies, Outcome
  <2> QED  BY <1>1, <2>1 DEF Record, Page, Outcome
<1>3. /\ memory' \in [Tab -> Record] /\ memory'[t] = rec
      /\ \A u \in Tab \ {t} : memory'[u] = memory[u]
      /\ stored' \in Record /\ stored'.token = None /\ stored'.dated = TRUE
      /\ stored'.outcome \in Outcome
  BY <1>1, <1>2, WriteSound
<1>4. /\ told' \in [Tab -> Option \cup {None}] /\ told'[t] = r.value
      /\ \A u \in Tab \ {t} : told'[u] = told[u]
  BY <1>1, <1>2 DEF TypeOK
<1> USE SettleSound DEF server, bounds
<1>5. TypeOK'
  <2>1. \A u \in Tab : call'[u] = None => reply'[u] = None
    BY <1>1, <1>2 DEF TypeOK
  <2> QED  BY <1>1, <1>2, <1>3, <1>4, <2>1 DEF TypeOK, Page
<1>6. Calling(t)' /\ Truthful(t)'
  <2>1. ref[t] = call[t].token /\ call[t].token \in Token
        /\ claimed[call[t].token] = r.value
    BY <1>1, TokenCall DEF Calling, Truthful, VoteReply
  <2>2. Calling(t)'
    BY <1>1, <1>2 DEF Calling
  <2>3. Truthful(t)'
    BY <1>1, <1>2, <1>4, <2>1 DEF Truthful
  <2> QED  BY <2>2, <2>3
<1>7. ASSUME NEW u \in Tab \ {t} PROVE Calling(u)' /\ Truthful(u)'
  BY <1>1, <1>2, <1>4, OtherTab
<1>8. DatedTokens'
  BY <1>3 DEF DatedTokens
<1>9. refusals' = 0 => Remembered'
  BY <1>1, <1>2, <1>3 DEF Remembered
<1>10. FewTokens'
  <2>1. ASSUME NEW S \in SUBSET Token, Only(S) PROVE Only(S)'
    BY <1>1, <1>2, <1>3, <2>1 DEF Only
  <2> QED  BY <1>1, <1>3, <2>1, FewTokensKept DEF Spent
<1> QED  BY <1>5, <1>6, <1>7, <1>8, <1>9, <1>10

LEMMA UnauthorizedStep ==
  ASSUME IInv, NEW t \in Tab, Unauthorized(t)
  PROVE  IInv'
<1> USE Constants DEF IInv
<1> DEFINE rec == [token |-> None, outcome |-> Defined(Read(t).outcome),
                   dated |-> FALSE]
<1>1. /\ Write(t, rec)
      /\ page' = [page EXCEPT ![t] = "refreshing"]
      /\ ref' = [ref EXCEPT ![t] = None]
      /\ call' = [call EXCEPT ![t] = Ask]
      /\ reply' = [reply EXCEPT ![t] = None]
      /\ refusals' = refusals + 1
      /\ UNCHANGED <<server, stray, choice, closed, told, bounds, overtakes>>
  BY DEF Unauthorized
<1>2. rec \in Record
  BY ReadSound, RecordFields DEF Record, Defined
<1>3. /\ memory' \in [Tab -> Record] /\ memory'[t] = rec
      /\ \A u \in Tab \ {t} : memory'[u] = memory[u]
      /\ stored' \in Record /\ stored'.token = None
  BY <1>1, <1>2, WriteSound
<1>4. page[t] \in Waiting /\ told[t] = None
  <2>1. reply[t] # None
    <3>1. Reply("unauthorized", None) \in Replies
      BY DEF Reply, Replies
    <3> QED  BY <3>1 DEF Unauthorized
  <2>2. page[t] \in Waiting
    BY <2>1 DEF TypeOK, Calling
  <2> QED  BY <2>2 DEF Truthful, Waiting, Outcome
<1> USE DEF server, bounds
<1>5. TypeOK'
  <2>1. \A u \in Tab : call'[u] = None => reply'[u] = None
    BY <1>1 DEF TypeOK
  <2>2. page' \in [Tab -> Page]
    BY <1>1 DEF TypeOK, Page, Waiting
  <2>3. {refusals', overtakes'} \subseteq Nat
    BY <1>1 DEF TypeOK
  <2>4. /\ ref' \in [Tab -> Token \cup {None}]
        /\ call' \in [Tab -> Votes \cup {Ask, None}]
        /\ reply' \in [Tab -> Replies \cup {None}]
    BY <1>1 DEF TypeOK
  <2> HIDE DEF Ask
  <2> QED  BY <1>1, <1>3, <2>1, <2>2, <2>3, <2>4 DEF TypeOK, Page
<1>6. Calling(t)' /\ Truthful(t)'
  <2>1. /\ page'[t] = "refreshing" /\ call'[t] = Ask /\ reply'[t] = None
        /\ told'[t] = None /\ closed'[t] = closed[t] /\ submits' = submits
    BY <1>1, <1>4 DEF TypeOK
  <2> QED  BY <2>1 DEF Calling, Truthful, Waiting
<1>7. ASSUME NEW u \in Tab \ {t} PROVE Calling(u)' /\ Truthful(u)'
  <2>1. /\ page'[u] = page[u] /\ ref'[u] = ref[u] /\ call'[u] = call[u]
        /\ reply'[u] = reply[u]
    BY <1>1 DEF TypeOK
  <2> QED  BY <1>1, <2>1, OtherTab
<1>8. DatedTokens'
  BY <1>3 DEF DatedTokens
<1>9. refusals' \in Nat /\ refusals' # 0
  BY <1>1 DEF TypeOK
<1>10. FewTokens'
  <2>1. PICK S \in SUBSET Token : Only(S) /\ Cardinality(S) <= Budget
    BY DEF FewTokens
  <2>2. Cardinality(S) <= Budget'
    <3>1. Cardinality(S) \in Nat /\ refusals \in Nat /\ overtakes \in Nat
      BY SomeTokens DEF TypeOK
    <3> QED  BY <1>1, <2>1, <3>1 DEF Budget
  <2>3. Only(S)'
    <3>1. \A u \in Tab : ref'[u] \in S \cup {None} /\ (call'[u] \in Votes => call'[u] = call[u])
      BY <1>1, <2>1 DEF TypeOK, Only
    <3>2. \A u \in Tab : memory'[u].token \in S \cup {None}
      BY <1>3, <2>1 DEF Only
    <3> QED  BY <1>1, <1>3, <2>1, <3>1, <3>2 DEF Only
  <2> QED  BY <2>2, <2>3 DEF FewTokens
<1> QED  BY <1>1, <1>5, <1>6, <1>7, <1>8, <1>9, <1>10

(* A page that remembers a record has a token in it and no need to ask. *)
LEMMA NeverAsksAgain ==
  ASSUME TypeOK, DatedTokens, Remembered, NEW t \in Tab,
         page[t] \notin Outcome, ValidToken(Read(t)) = None
  PROVE  memory[t] = NoRecord
BY ReadSound DEF Remembered

(* The token a page reads is one of those there are. *)
LEMMA ReadsOnly ==
  ASSUME TypeOK, DatedTokens, NEW t \in Tab, NEW S, Only(S)
  PROVE  ValidToken(Read(t)) \in S \cup {None}
BY ReadSound DEF Only

LEMMA PrepareStep ==
  ASSUME IInv, NEW t \in Tab, Prepare(t)
  PROVE  IInv'
<1> USE Constants DEF IInv, server, bounds
<1> DEFINE k == ValidToken(Read(t))
<1>1. k \in Token \cup {None}
  BY ReadSound
<1>2. /\ page[t] = "preparing" /\ call[t] = None /\ reply[t] = None /\ told[t] = None
      /\ UNCHANGED <<server, stray, stored, memory, choice, reply, closed, told,
                     bounds, refusals, overtakes>>
  BY DEF Prepare, TypeOK, Truthful, Outcome
<1>3. /\ page' \in [Tab -> Page] /\ page'[t] = IF k # None THEN "ready" ELSE page[t]
      /\ ref' \in [Tab -> Token \cup {None}] /\ ref'[t] \in {k, ref[t]}
      /\ call' \in [Tab -> Votes \cup {Ask, None}]
      /\ call'[t] = IF k # None THEN None ELSE Ask
      /\ \A u \in Tab \ {t} : /\ page'[u] = page[u] /\ ref'[u] = ref[u]
                              /\ call'[u] = call[u]
  BY <1>1, <1>2 DEF Prepare, TypeOK, Page, Editable
<1> HIDE DEF k
<1>4. TypeOK'
  <2>1. \A u \in Tab : call'[u] = None => reply'[u] = None
    BY <1>2, <1>3 DEF TypeOK
  <2> QED  BY <1>2, <1>3, <2>1 DEF TypeOK, Page
<1>5. Calling(t)' /\ Truthful(t)'
  BY <1>2, <1>3 DEF Calling, Truthful, Waiting
<1>6. ASSUME NEW u \in Tab \ {t} PROVE Calling(u)' /\ Truthful(u)'
  BY <1>2, <1>3, OtherTab
<1>7. DatedTokens'
  BY <1>2 DEF DatedTokens
<1>8. ASSUME refusals' = 0 PROVE Remembered'
  <2>1. memory[t] # NoRecord => k # None /\ memory[t].token # None
    BY <1>2, <1>8, NeverAsksAgain DEF k, Remembered, Outcome
  <2>2. page'[t] \notin Outcome
    BY <1>2, <1>3 DEF Outcome
  <2> QED  BY <1>2, <1>3, <1>8, <2>1, <2>2 DEF Remembered
<1>9. FewTokens'
  <2>1. ASSUME NEW S \in SUBSET Token, Only(S) PROVE Only(S)'
    BY <1>2, <1>3, <2>1, ReadsOnly DEF Only, k
  <2> QED  BY <1>2, <2>1, FewTokensKept DEF Spent
<1> QED  BY <1>4, <1>5, <1>6, <1>7, <1>8, <1>9

LEMMA SubmitStep ==
  ASSUME IInv, NEW t \in Tab, NEW o \in Option, Submit(t, o)
  PROVE  IInv'
<1> USE Constants DEF IInv, server, bounds
<1> DEFINE k == IF ref[t] # None THEN ref[t] ELSE ValidToken(Read(t))
           c == IF k = None THEN Ask ELSE Vote(k, o)
<1>1. k \in Token \cup {None}
  BY ReadSound DEF TypeOK
<1>2. /\ page[t] \in Editable
      /\ submits < MaxSubmits /\ submits' = submits + 1
      /\ page' = [page EXCEPT ![t] = "submitting"]
      /\ choice' = [choice EXCEPT ![t] = o]
      /\ ref' = [ref EXCEPT ![t] = k]
      /\ call' = [call EXCEPT ![t] = c]
      /\ UNCHANGED <<server, stray, stored, memory, reply, closed, told, loads,
                     refusals, overtakes>>
  BY DEF Submit
<1> HIDE DEF k
<1>3. c \in Votes \cup {Ask} /\ (c \in Votes => c.token = k)
  BY <1>1 DEF Vote, Votes
<1> HIDE DEF c
<1>4. call[t] = None /\ reply[t] = None /\ told[t] = None /\ page[t] \notin Outcome
  BY <1>2 DEF TypeOK, Calling, Truthful, Editable, Waiting, Outcome
<1>5. submits \in Nat /\ submits' \in 0 .. MaxSubmits
  BY <1>2 DEF TypeOK
<1>6. /\ page'[t] = "submitting" /\ choice'[t] = o /\ ref'[t] = k /\ call'[t] = c
      /\ \A u \in Tab \ {t} : /\ page'[u] = page[u] /\ ref'[u] = ref[u]
                              /\ call'[u] = call[u] /\ choice'[u] = choice[u]
  BY <1>2 DEF TypeOK
<1>7. TypeOK'
  <2>1. page' \in [Tab -> Page]
    BY <1>2 DEF TypeOK, Page, Waiting
  <2>2. choice' \in [Tab -> Option \cup {None}] /\ ref' \in [Tab -> Token \cup {None}]
        /\ call' \in [Tab -> Votes \cup {Ask, None}]
    BY <1>1, <1>2, <1>3 DEF TypeOK
  <2>3. \A u \in Tab : call'[u] = None => reply'[u] = None
    BY <1>2, <1>3, <1>6 DEF TypeOK
  <2> QED  BY <1>2, <1>5, <2>1, <2>2, <2>3 DEF TypeOK, Page
<1>8. Calling(t)' /\ Truthful(t)'
  <2>1. closed'[t] = closed[t] /\ closed[t] <= submits /\ closed[t] \in Nat
    BY <1>2 DEF Calling, TypeOK
  <2>2. closed'[t] < submits' /\ closed'[t] <= submits'
    BY <1>2, <1>5, <2>1
  <2>3. reply'[t] = None /\ told'[t] = None
    BY <1>2, <1>4
  <2> QED  BY <1>3, <1>6, <2>2, <2>3 DEF Calling, Truthful, Waiting
<1>9. ASSUME NEW u \in Tab \ {t} PROVE Calling(u)' /\ Truthful(u)'
  BY <1>2, <1>6, OtherTab
<1>10. DatedTokens'
  BY <1>2 DEF DatedTokens
<1>11. ASSUME refusals' = 0 PROVE Remembered'
  <2>1. memory[t] # NoRecord => c # Ask /\ memory[t].token # None
    <3>1. memory[t] # NoRecord => ValidToken(Read(t)) # None /\ memory[t].token # None
      BY <1>2, <1>4, <1>11, NeverAsksAgain DEF Remembered
    <3>2. ValidToken(Read(t)) # None => k # None
      BY DEF k
    <3>3. k # None => c # Ask
      BY <1>1 DEF c, Vote, Ask
    <3> QED  BY <3>1, <3>2, <3>3
  <2>2. page'[t] \notin Outcome
    BY <1>6 DEF Outcome
  <2> QED  BY <1>2, <1>6, <1>11, <2>1, <2>2 DEF Remembered
<1>12. FewTokens'
  <2>1. ASSUME NEW S \in SUBSET Token, Only(S) PROVE Only(S)'
    <3>1. k \in S \cup {None}
      BY <2>1, ReadsOnly DEF Only, k
    <3>2. c \in Votes => c.token \in S
      BY <1>3, <3>1, TokenCall
    <3> QED  BY <1>2, <1>6, <2>1, <3>1, <3>2 DEF Only
  <2> QED  BY <1>2, <2>1, FewTokensKept DEF Spent
<1> QED  BY <1>7, <1>8, <1>9, <1>10, <1>11, <1>12

(* A page goes on with the token k, its own or another tab's. *)
LEMMA ContinueSound ==
  ASSUME TypeOK, NEW t \in Tab, Calling(t), Truthful(t), NEW k \in Token,
         call[t] = Ask, Continue(t, k), UNCHANGED <<choice, closed, told, bounds>>
  PROVE  /\ page' \in [Tab -> Page] /\ ref' \in [Tab -> Token \cup {None}]
         /\ call' \in [Tab -> Votes \cup {Ask, None}]
         /\ reply' \in [Tab -> Replies \cup {None}]
         /\ reply'[t] = None /\ ref'[t] = k /\ page'[t] \notin Outcome
         /\ call'[t] # Ask /\ (call'[t] \in Votes => call'[t].token = k)
         /\ \A u \in Tab \ {t} : /\ page'[u] = page[u] /\ call'[u] = call[u]
                                  /\ reply'[u] = reply[u] /\ ref'[u] = ref[u]
         /\ Calling(t)' /\ Truthful(t)'
<1> USE Constants
<1>1. page[t] \in Waiting /\ page[t] \notin Outcome /\ told[t] = None
  BY DEF Calling, Truthful, Waiting, Outcome
<1>2. ref' \in [Tab -> Token \cup {None}] /\ ref'[t] = k
      /\ \A u \in Tab \ {t} : ref'[u] = ref[u]
  BY DEF Continue, TypeOK
<1>3. closed'[t] <= submits' /\ submits' = submits /\ told'[t] = None
  BY <1>1 DEF Calling, bounds
<1>4. CASE page[t] # "submitting"
  <2> DEFINE p == IF page[t] = "preparing" THEN "ready" ELSE "error"
  <2>1. Settle(t, p) /\ p \in Page /\ p \in Editable /\ p \notin Outcome
    BY <1>1, <1>4 DEF Continue, Page, Editable, Outcome, Waiting
  <2> HIDE DEF p
  <2>2. Calling(t)' /\ Truthful(t)'
    BY <1>3, <2>1, SettleSound DEF Calling, Truthful, Editable
  <2> QED  BY <1>2, <2>1, <2>2, SettleSound
<1>5. CASE page[t] = "submitting"
  <2> DEFINE v == Vote(k, choice[t])
  <2>1. v \in Votes /\ v.token = k
    BY <1>5 DEF Calling, Vote, Votes
  <2>2. /\ call' = [call EXCEPT ![t] = v]
        /\ reply' = [reply EXCEPT ![t] = None]
        /\ page' = page
    BY <1>5 DEF Continue
  <2> HIDE DEF v
  <2>3. /\ call' \in [Tab -> Votes \cup {Ask, None}]
        /\ reply' \in [Tab -> Replies \cup {None}] /\ page' \in [Tab -> Page]
        /\ call'[t] = v /\ reply'[t] = None
        /\ \A u \in Tab \ {t} : call'[u] = call[u] /\ reply'[u] = reply[u]
    BY <2>1, <2>2 DEF TypeOK, Page
  <2>4. Calling(t)' /\ Truthful(t)'
    BY <1>1, <1>2, <1>3, <1>5, <2>1, <2>2, <2>3 DEF Calling, Truthful
  <2> QED  BY <1>1, <1>2, <2>1, <2>2, <2>3, <2>4
<1> QED  BY <1>4, <1>5

LEMMA TokenReplyStep ==
  ASSUME IInv, NEW t \in Tab, TokenReply(t)
  PROVE  IInv'
<1> USE Constants DEF IInv, server, bounds
<1> DEFINE other == ValidToken(stored)
           mine == reply[t].value
           k == IF other # None THEN other ELSE mine
           rec == NextRecord(t, mine)
<1>1. /\ call[t] = Ask /\ reply[t] \in Replies /\ reply[t].status = "token"
      /\ Continue(t, k)
      /\ other # None => UNCHANGED <<memory, stored, overtakes>>
      /\ other = None => /\ Write(t, rec)
                         /\ overtakes' = IF stored.outcome \in Outcome THEN overtakes + 1
                                                                     ELSE overtakes
      /\ UNCHANGED <<server, stray, choice, closed, told, bounds, refusals>>
  BY DEF TokenReply, TokenFromAnotherTab, TypeOK
<1>2. mine \in Token /\ other \in Token \cup {None} /\ k \in Token
      /\ other = stored.token
  <2>1. \A r \in Replies : r.status = "token" => r.value \in Token
    BY DEF Replies, Outcome
  <2>2. other = stored.token /\ stored.token \in Token \cup {None}
    BY ReadSound, RecordFields DEF TypeOK
  <2> QED  BY <1>1, <2>1, <2>2
<1>3. /\ rec \in Record /\ rec.token = mine /\ rec.dated = TRUE
      /\ rec.outcome = Read(t).outcome
  BY <1>2, ReadSound, RecordFields DEF NextRecord, Record
<1>4. page[t] \notin Outcome
  BY <1>1 DEF Calling, Waiting, Outcome
<1> HIDE DEF other, mine, k, rec
<1>5. /\ page' \in [Tab -> Page] /\ ref' \in [Tab -> Token \cup {None}]
      /\ call' \in [Tab -> Votes \cup {Ask, None}]
      /\ reply' \in [Tab -> Replies \cup {None}]
      /\ reply'[t] = None /\ ref'[t] = k /\ page'[t] \notin Outcome
      /\ call'[t] # Ask /\ (call'[t] \in Votes => call'[t].token = k)
      /\ \A u \in Tab \ {t} : /\ page'[u] = page[u] /\ call'[u] = call[u]
                               /\ reply'[u] = reply[u] /\ ref'[u] = ref[u]
      /\ Calling(t)' /\ Truthful(t)'
  BY <1>1, <1>2, ContinueSound
<1>6. ASSUME other = None
      PROVE  /\ memory' \in [Tab -> Record] /\ memory'[t] = rec
             /\ \A u \in Tab \ {t} : memory'[u] = memory[u]
             /\ stored' \in Record /\ stored'.token = mine /\ stored'.dated = TRUE
             /\ stored'.outcome \in Outcome <=> rec.outcome \in Outcome
  BY <1>1, <1>3, <1>6, WriteSound
<1>7. TypeOK'
  <2>1. memory' \in [Tab -> Record] /\ stored' \in Record
    BY <1>1, <1>6 DEF TypeOK
  <2>3. {refusals', overtakes'} \subseteq Nat
    <3>1. refusals \in Nat /\ overtakes \in Nat
      BY DEF TypeOK
    <3>2. overtakes' \in {overtakes, overtakes + 1} /\ refusals' = refusals
      BY <1>1
    <3> QED  BY <3>1, <3>2
  <2>2. \A u \in Tab : call'[u] = None => reply'[u] = None
    BY <1>5 DEF TypeOK
  <2> QED  BY <1>1, <1>5, <2>1, <2>2, <2>3 DEF TypeOK, Page
<1>8. ASSUME NEW u \in Tab PROVE Calling(u)' /\ Truthful(u)'
  <2>1. CASE u = t
    BY <1>5, <2>1
  <2>2. CASE u # t
    BY <1>1, <1>5, <2>2, OtherTab
  <2> QED  BY <2>1, <2>2
<1>9. DatedTokens'
  BY <1>1, <1>3, <1>6 DEF DatedTokens
<1>10. ASSUME refusals' = 0 PROVE Remembered'
  <2>1. CASE other # None
    BY <1>1, <1>4, <1>5, <1>10, <2>1 DEF Remembered
  <2>2. CASE other = None
    <3>1. memory[t].outcome = Absent
      BY <1>1, <1>10 DEF Remembered, NoRecord
    <3>2. rec.outcome = stored.outcome
      BY <1>3, <3>1 DEF Read
    <3>3. stored'.outcome \in Outcome <=> stored.outcome \in Outcome
      BY <1>6, <2>2, <3>2
    <3>4. page'[t] \notin Outcome /\ call'[t] # Ask /\ memory'[t].token # None
      BY <1>2, <1>3, <1>5, <1>6, <2>2
    <3>5. \A u \in Tab \ {t} : /\ page'[u] = page[u] /\ call'[u] = call[u]
                                /\ memory'[u] = memory[u]
      BY <1>5, <1>6, <2>2
    <3>6. stored'.dated = TRUE /\ Remembered
      BY <1>1, <1>6, <1>10, <2>2
    <3> QED  BY <3>3, <3>4, <3>5, <3>6 DEF Remembered
  <2> QED  BY <2>1, <2>2
<1>11. FewTokens'
  <2>1. CASE other # None
    <3>1. ASSUME NEW S \in SUBSET Token, Only(S) PROVE Only(S)'
      <4>1. k \in S
        BY <1>2, <2>1, <3>1 DEF Only, k
      <4>2. call'[t] \in Votes => call'[t].token \in S
        BY <1>2, <1>5, <4>1
      <4> QED  BY <1>1, <1>5, <2>1, <3>1, <4>1, <4>2 DEF Only
    <3> QED  BY <1>1, <2>1, <3>1, FewTokensKept DEF Spent
  <2>2. CASE other = None
    <3>1. PICK S \in SUBSET Token : Only(S) /\ Cardinality(S) <= Budget
      BY DEF FewTokens
    <3>2. Spent' /\ refusals' = refusals
      BY <1>1, <1>2, <1>6, <2>2 DEF Spent
    <3>3. PICK m \in Token : m = mine
      BY <1>2
    <3>4. PICK U \in SUBSET Token : U = S \cup {m}
      OBVIOUS
    <3>5. Cardinality(U) <= Budget'
      <4>1. Cardinality(U) <= Cardinality(S) + 1 /\ Cardinality(U) \in Nat
            /\ Cardinality(S) \in Nat
        BY <3>4, SomeTokens
      <4>2. Spent => overtakes' = overtakes + 1
        BY <1>1, <1>2, <2>2 DEF Spent
      <4>3. overtakes' \in {overtakes, overtakes + 1}
        BY <1>1, <2>2
      <4>4. refusals \in Nat /\ overtakes \in Nat
        BY DEF TypeOK
      <4> QED  BY <3>1, <3>2, <4>1, <4>2, <4>3, <4>4 DEF Budget
    <3>6. Only(U)'
      <4>1. k = m /\ m \in U /\ S \subseteq U
        BY <2>2, <3>3, <3>4 DEF k
      <4>2. /\ stored'.token \in U /\ memory'[t].token \in U /\ ref'[t] \in U
            /\ call'[t] \in Votes => call'[t].token \in U
        BY <1>3, <1>5, <1>6, <2>2, <3>3, <4>1
      <4>3. ASSUME NEW u \in Tab
            PROVE  /\ ref'[u] \in U \cup {None}
                   /\ memory'[u].token \in U \cup {None}
                   /\ call'[u] \in Votes => call'[u].token \in U
        <5>1. CASE u = t
          BY <4>2, <5>1
        <5>2. CASE u # t
          BY <1>5, <1>6, <2>2, <3>1, <4>1, <5>2 DEF Only
        <5> QED  BY <5>1, <5>2
      <4>4. /\ \A v \in stray' : v.token \in U
            /\ \A j \in Token : claimed'[j] # None => j \in U
        BY <1>1, <3>1, <4>1 DEF Only
      <4>5. stored'.token \in U \cup {None}
        BY <4>2
      <4> QED  BY <4>3, <4>4, <4>5, OnlyNext
    <3> QED  BY <3>5, <3>6 DEF FewTokens
  <2> QED  BY <2>1, <2>2
<1> QED  BY <1>7, <1>8, <1>9, <1>10, <1>11

-----------------------------------------------------------------------------
(* A key that is held is not taken, and only the vote's key is claimed. *)
LEMMA CastSound ==
  ASSUME TypeOK, NEW v \in Votes, NEW i, NEW r \in Replies, CastVote(i, v, r)
  PROVE  /\ claimed' \in [Token -> Option \cup {None}]
         /\ \A k \in Token : claimed[k] # None => claimed'[k] = claimed[k]
         /\ \A k \in Token : claimed'[k] # None => claimed[k] # None \/ k = v.token
         /\ r.status # "token"
         /\ r.status \in Outcome => claimed'[v.token] = r.value
<1> USE Constants
<1>1. v.token \in Token /\ v.option \in Option
  BY TokenCall
<1>2. CASE claimed' = claimed /\ r \in {Reply("limited", None), Reply("closed", None),
                                        Reply("failed", None),
                                        Reply("unauthorized", None)}
  BY <1>2 DEF Reply, Outcome, TypeOK
<1>3. CASE /\ TryClaim(v)
           /\ r \in {Reply("failed", None),
                     IF claimed[v.token] = None THEN Reply("accepted", v.option)
                        ELSE Reply("duplicate", claimed'[v.token])}
  <2>1. /\ claimed' \in [Token -> Option \cup {None}]
        /\ claimed'[v.token] = IF claimed[v.token] = None THEN v.option
                                                          ELSE claimed[v.token]
        /\ \A k \in Token \ {v.token} : claimed'[k] = claimed[k]
    BY <1>1, <1>3 DEF TryClaim, TypeOK
  <2>2. \/ r.status = "failed"
        \/ claimed[v.token] = None /\ r.status = "accepted" /\ r.value = v.option
        \/ claimed[v.token] # None /\ r.status = "duplicate"
           /\ r.value = claimed'[v.token]
    BY <1>3 DEF Reply
  <2> QED  BY <1>1, <2>1, <2>2 DEF Outcome
<1> QED  BY <1>2, <1>3 DEF CastVote

(* The pages, but for replies, do not notice a step of the API. *)
Pages == <<stored, page, ref, memory, choice, call, closed, told, bounds, refusals,
           overtakes>>

LEMMA IssueStep ==
  ASSUME IInv, NEW t \in Tab, NEW i \in Process, Issue(t, i)
  PROVE  IInv'
<1> USE Constants DEF IInv, server, bounds
<1>1. call[t] = Ask /\ UNCHANGED <<secret, claimed, stray, Pages>>
  BY DEF Issue, Pages
<1>2. PICK r \in Replies : /\ reply' = [reply EXCEPT ![t] = r]
                           /\ r.status \in {"token", "limited", "failed"}
                           /\ issued' \in Seq(0 .. MaxSecret)
                           /\ Len(issued') <= MaxTokens
  <2>1. CASE Len(issued) < MaxTokens /\ issued' = Append(issued, secret[i])
             /\ reply' = [reply EXCEPT ![t] = Reply("token", Len(issued) + 1)]
    <3>1. issued \in Seq(0 .. MaxSecret) /\ secret[i] \in 0 .. MaxSecret
      BY DEF TypeOK
    <3>2. issued' \in Seq(0 .. MaxSecret) /\ Len(issued') = Len(issued) + 1
          /\ Len(issued) \in Nat
      BY <2>1, <3>1, AppendProperties, LenProperties
    <3>3. Len(issued) + 1 \in Token
      BY <2>1, <3>2 DEF Token
    <3>4. PICK r \in Replies : r = Reply("token", Len(issued) + 1)
      BY <3>3 DEF Reply, Replies
    <3>5. r.status = "token"
      BY <3>4 DEF Reply
    <3>6. Len(issued') <= MaxTokens
      BY <2>1, <3>2
    <3> QED  BY <2>1, <3>2, <3>4, <3>5, <3>6
  <2>2. ASSUME NEW s \in {"limited", "failed"},
               reply' = [reply EXCEPT ![t] = Reply(s, None)], UNCHANGED issued
        PROVE  \E r \in Replies : /\ reply' = [reply EXCEPT ![t] = r]
                                  /\ r.status \in {"token", "limited", "failed"}
                                  /\ issued' \in Seq(0 .. MaxSecret)
                                  /\ Len(issued') <= MaxTokens
    <3>1. Reply(s, None) \in Replies /\ Reply(s, None).status = s
      BY DEF Reply, Replies
    <3> QED  BY <2>2, <3>1 DEF TypeOK
  <2> QED  BY <2>1, <2>2 DEF Issue
<1> USE DEF Pages
<1>3. /\ reply' \in [Tab -> Replies \cup {None}] /\ reply'[t] = r
      /\ \A u \in Tab \ {t} : reply'[u] = reply[u]
  BY <1>2 DEF TypeOK
<1>4. TypeOK'
  BY <1>1, <1>2, <1>3 DEF TypeOK
<1>5. Calling(t)' /\ Truthful(t)'
  BY <1>1, <1>2, <1>3 DEF Calling, Truthful
<1>6. ASSUME NEW u \in Tab \ {t} PROVE Calling(u)' /\ Truthful(u)'
  BY <1>1, <1>3, OtherTab
<1>7. DatedTokens' /\ (refusals' = 0 => Remembered')
  BY <1>1 DEF DatedTokens, Remembered
<1>8. FewTokens'
  <2>1. \A S \in SUBSET Token : Only(S) => Only(S)'
    BY <1>1 DEF Only
  <2> QED  BY <1>1, <2>1, FewTokensKept DEF Spent
<1> QED  BY <1>4, <1>5, <1>6, <1>7, <1>8

(* A vote that is served, for a page that waits or for none. *)
LEMMA ServeStep ==
  ASSUME IInv, NEW v \in Votes, NEW i, NEW r \in Replies, CastVote(i, v, r),
         UNCHANGED <<secret, issued, Pages>>, stray' \subseteq stray,
         \/ v \in stray /\ reply' = reply
         \/ \E t \in Tab : call[t] = v /\ reply' = [reply EXCEPT ![t] = r]
  PROVE  IInv'
<1> USE Constants, CastSound DEF IInv, server, bounds, Pages
<1>1. /\ reply' \in [Tab -> Replies \cup {None}]
      /\ \A u \in Tab : reply'[u] = reply[u] \/ (call[u] = v /\ reply'[u] = r)
  <2>1. reply \in [Tab -> Replies \cup {None}]
    BY DEF TypeOK
  <2>2. CASE reply' = reply
    BY <2>1, <2>2
  <2>3. ASSUME NEW t \in Tab, call[t] = v, reply' = [reply EXCEPT ![t] = r]
        PROVE  /\ reply' \in [Tab -> Replies \cup {None}]
               /\ \A u \in Tab : reply'[u] = reply[u] \/ (call[u] = v /\ reply'[u] = r)
    BY <2>1, <2>3
  <2> QED  BY <2>2, <2>3
<1>2. TypeOK'
  BY <1>1 DEF TypeOK
<1>3. ASSUME NEW u \in Tab PROVE Calling(u)' /\ Truthful(u)'
  <2>1. CASE reply'[u] = reply[u]
    BY <2>1, OtherTab
  <2>2. CASE call[u] = v /\ reply'[u] = r
    <3>1. Calling(u)'
      BY <2>2 DEF Calling
    <3>2. told[u] = None
      BY <2>2 DEF Calling, Truthful, Waiting, Outcome
    <3>3. Truthful(u)'
      BY <2>2, <3>2 DEF Truthful
    <3> QED  BY <3>1, <3>3
  <2> QED  BY <1>1, <2>1, <2>2
<1>4. DatedTokens' /\ (refusals' = 0 => Remembered')
  BY DEF DatedTokens, Remembered
<1>5. FewTokens'
  <2>1. ASSUME NEW S \in SUBSET Token, Only(S) PROVE Only(S)'
    <3>1. v.token \in S
      BY <2>1 DEF Only
    <3>2. \A k \in Token : claimed'[k] # None => k \in S
      BY <2>1, <3>1 DEF Only
    <3> QED  BY <2>1, <3>2 DEF Only
  <2> QED  BY <2>1, FewTokensKept DEF Spent
<1> QED  BY <1>2, <1>3, <1>4, <1>5

LEMMA RotateStep ==
  ASSUME IInv, NEW i \in Process, Rotate(i)
  PROVE  IInv'
<1> USE Constants DEF IInv, bounds
<1>1. secret' \in [Process -> 0 .. MaxSecret]
  BY DEF Rotate, TypeOK
<1>2. UNCHANGED <<issued, claimed, stray, reply, Pages>>
  BY DEF Rotate, Pages
<1>3. TypeOK'
  BY <1>1, <1>2 DEF TypeOK, Pages
<1> QED
  BY <1>2, <1>3
  DEF Pages, Calling, Truthful, DatedTokens, Remembered, FewTokens, Budget, Spent,
      Only

-----------------------------------------------------------------------------
(* What every reachable state satisfies. *)
THEOREM Inductive == Spec => []IInv
<1> USE Constants DEF IInv
<1>1. Init => IInv
  <2> SUFFICES ASSUME Init PROVE IInv
    OBVIOUS
  <2>1. /\ \A t \in Tab : /\ ref[t] = None /\ choice[t] = None /\ call[t] = None
                          /\ reply[t] = None /\ told[t] = None
                          /\ page[t] = "away" /\ memory[t] = NoRecord
                          /\ closed[t] = 0
        /\ stored = NoRecord /\ stray = {} /\ submits = 0
        /\ \A k \in Token : claimed[k] = None
    BY DEF Init
  <2>2. TypeOK
    <3>1. issued \in Seq(0 .. MaxSecret) /\ Len(issued) = 0
      BY EmptySeq DEF Init
    <3>2. secret \in [Process -> 0 .. MaxSecret]
          /\ claimed \in [Token -> Option \cup {None}]
          /\ closed \in [Tab -> 0 .. MaxSubmits]
          /\ loads \in 0 .. MaxLoads /\ submits \in 0 .. MaxSubmits
      BY DEF Init
    <3>3. page \in [Tab -> Page] /\ memory \in [Tab -> Record] /\ stored \in Record
      BY DEF Init, Page
    <3>4. /\ ref = [t \in Tab |-> None] /\ choice = [t \in Tab |-> None]
          /\ call = [t \in Tab |-> None] /\ reply = [t \in Tab |-> None]
          /\ told = [t \in Tab |-> None] /\ stray = {}
          /\ refusals = 0 /\ overtakes = 0
      BY DEF Init
    <3>5. /\ issued \in Seq(0 .. MaxSecret) /\ Len(issued) <= MaxTokens
          /\ stray \subseteq Votes /\ {refusals, overtakes} \subseteq Nat
          /\ \A t \in Tab : call[t] = None => reply[t] = None
      <4>1. 0 <= MaxTokens
        BY BrowserAssumption
      <4>2. Len(issued) <= MaxTokens
        BY <3>1, <4>1
      <4> HIDE DEF Votes
      <4>3. stray \subseteq Votes /\ {refusals, overtakes} \subseteq Nat
        BY <3>4
      <4>4. \A t \in Tab : call[t] = None => reply[t] = None
        BY <3>4
      <4> QED  BY <3>1, <4>2, <4>3, <4>4
    <3>6. /\ ref \in [Tab -> Token \cup {None}]
          /\ choice \in [Tab -> Option \cup {None}]
          /\ told \in [Tab -> Option \cup {None}]
      BY <3>4
    <3>7. call \in [Tab -> Votes \cup {Ask, None}]
      BY <3>4
    <3>8. reply \in [Tab -> Replies \cup {None}]
      BY <3>4
    <3>9. page \in [Tab -> Waiting \cup Editable \cup Outcome
                             \cup {"away", "server-closed"}]
      BY <3>3 DEF Page
    <3> HIDE DEF Votes, Replies, Record, Waiting, Editable, Outcome, Token
    <3> QED
      BY <3>2, <3>3, <3>5, <3>6, <3>7, <3>8, <3>9 DEF TypeOK
  <2>3. \A t \in Tab : Calling(t) /\ Truthful(t)
    BY <2>1 DEF Calling, Truthful
  <2>4. DatedTokens /\ Remembered
    <3>1. NoRecord.token = None /\ NoRecord.outcome \notin Outcome
      BY DEF NoRecord
    <3>2. \A t \in Tab : page[t] \notin Outcome
      BY <2>1 DEF Outcome
    <3> QED  BY <2>1, <3>1, <3>2 DEF DatedTokens, Remembered
  <2>5. FewTokens
    <3>1. Only({})
      BY <2>1 DEF Only, NoRecord
    <3>2. Cardinality({}) = 0 /\ 0 <= Budget
      BY FS_EmptySet DEF Init, Budget
    <3> QED  BY <3>1, <3>2 DEF FewTokens
  <2> QED  BY <2>2, <2>3, <2>4, <2>5
<1>2. IInv /\ [Next]_vars => IInv'
  <2> SUFFICES ASSUME IInv, [Next]_vars PROVE IInv'
    OBVIOUS
  <2>1. ASSUME NEW t \in Tab,
               \/ Load(t) \/ Prepare(t) \/ GiveUp(t)
               \/ TokenReply(t) \/ VoteReply(t) \/ ClosedReply(t)
               \/ Unauthorized(t) \/ Failure(t)
               \/ \E o \in Option : Submit(t, o)
        PROVE  IInv'
    <3> HIDE DEF IInv
    <3> QED
      BY <2>1, LoadStep, PrepareStep, FailureStep, TokenReplyStep, VoteReplyStep,
         UnauthorizedStep, SubmitStep
  <2>2. ASSUME NEW t \in Tab, NEW i \in Process, Serve(t, i)
        PROVE  IInv'
    <3>1. PICK r \in Replies : /\ CastVote(i, call[t], r)
                               /\ reply' = [reply EXCEPT ![t] = r]
      BY <2>2 DEF Serve
    <3>2. call[t] \in Votes /\ UNCHANGED <<secret, issued, stray, Pages>>
      BY <2>2 DEF Serve, Pages
    <3> HIDE DEF IInv
    <3> QED  BY <3>1, <3>2, ServeStep
  <2>3. ASSUME NEW i \in Process, NEW v \in stray, ServeStray(v, i)
        PROVE  IInv'
    <3>1. PICK r \in Replies : CastVote(i, v, r)
      BY <2>3 DEF ServeStray
    <3>2. v \in Votes /\ stray' \subseteq stray /\ reply' = reply
          /\ UNCHANGED <<secret, issued, Pages>>
      BY <2>3 DEF ServeStray, Pages, TypeOK
    <3> HIDE DEF IInv
    <3> QED  BY <3>1, <3>2, ServeStep
  <2>4. ASSUME NEW i \in Process, Rotate(i) \/ \E t \in Tab : Issue(t, i)
        PROVE  IInv'
    <3> HIDE DEF IInv
    <3> QED  BY <2>4, RotateStep, IssueStep
  <2>5. CASE UNCHANGED vars
    <3>1. TypeOK'
      BY <2>5 DEF vars, server, bounds, TypeOK
    <3> QED
      BY <2>5, <3>1
      DEF vars, server, bounds, Calling, Truthful, DatedTokens, Remembered,
          FewTokens, Budget, Spent, Only
  <2> QED  BY <2>1, <2>2, <2>3, <2>4, <2>5 DEF Next
<1> QED  BY <1>1, <1>2, PTL DEF Spec

(* Tokens that are among the few are few. *)
LEMMA FewAreFew ==
  ASSUME TypeOK, NEW T, NEW S \in SUBSET Token, T \subseteq S,
         Cardinality(S) <= Budget
  PROVE  Cardinality(T) <= 1 + refusals + overtakes
<1>1. Cardinality(T) <= Cardinality(S) /\ Cardinality(S) \in Nat
      /\ Cardinality(T) \in Nat
  BY SomeTokens
<1>2. Budget <= 1 + refusals + overtakes /\ Budget \in Nat
      /\ refusals \in Nat /\ overtakes \in Nat
  BY DEF Budget, TypeOK
<1> QED  BY <1>1, <1>2

(* The state of pages, storage and keys is typed, and a page keeps no answer *)
(* longer than its call.                                                     *)
THEOREM Typed == Spec => []TypeOK
<1>1. IInv => TypeOK
  BY DEF IInv
<1> QED  BY <1>1, Inductive, PTL

(* vote-token.ts:104: the tabs of a browser come to use one token, however    *)
(* their requests cross, and one more for each that a 401 dropped or a page  *)
(* stored after the browser had voted.                                       *)
THEOREM TokenIsShared == Spec => []TabsShareToken
<1>1. IInv => TabsShareToken
  <2> SUFFICES ASSUME IInv PROVE Cardinality(Held) <= 1 + refusals + overtakes
    BY DEF TabsShareToken
  <2>1. PICK S \in SUBSET Token : Only(S) /\ Cardinality(S) <= Budget
    BY DEF IInv, FewTokens
  <2>2. \A t \in Tab : call[t] \in Votes \cup {Ask, None}
    BY DEF IInv, TypeOK
  <2>3. \A v \in (stray \cup {call[t] : t \in Tab}) \ {None} :
          v.token \in S \cup {None}
    <3>1. Ask.token = None
      BY DEF Ask, Vote
    <3> QED  BY <2>1, <2>2, <3>1 DEF Only
  <2>4. Held \subseteq S
    BY <2>1, <2>3 DEF Only, Held
  <2> QED  BY <2>1, <2>4, FewAreFew DEF IInv
<1> QED  BY <1>1, Inductive, PTL

(* Reloads, timeouts, retries and votes that arrive late give a browser no   *)
(* second ballot; each of the two ways above gives it at most one more.      *)
THEOREM BrowserVotesOnce == Spec => []OneBallot
<1>1. IInv => OneBallot
  <2> SUFFICES ASSUME IInv PROVE Cardinality(Ballots) <= 1 + refusals + overtakes
    BY DEF OneBallot
  <2>1. PICK S \in SUBSET Token : Only(S) /\ Cardinality(S) <= Budget
    BY DEF IInv, FewTokens
  <2>2. Ballots \subseteq S
    BY <2>1 DEF Only, Ballots
  <2> QED  BY <2>1, <2>2, FewAreFew DEF IInv
<1> QED  BY <1>1, Inductive, PTL

(* poll-page.tsx: the option a page names as counted is the one the API      *)
(* counted, 401s and late votes included.                                    *)
THEOREM PageTellsTheTruth == Spec => []ToldTheTruth
<1>1. IInv => ToldTheTruth
  BY DEF IInv, Truthful, ToldTheTruth
<1> QED  BY <1>1, Inductive, PTL

(* vote-token.ts:109: the record a late token is stored in keeps the outcome *)
(* another tab has written.                                                  *)
THEOREM OutcomeSurvives == Spec => []OutcomeKept
<1>1. IInv => OutcomeKept
  BY DEF IInv, Remembered, OutcomeKept
<1> QED  BY <1>1, Inductive, PTL
=============================================================================
