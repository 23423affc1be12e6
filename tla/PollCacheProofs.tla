--------------------------- MODULE PollCacheProofs ---------------------------
(***************************************************************************)
(* Types, NeverAhead and NothingToldEarly of PollCache, for any number of  *)
(* processes, administrators and viewers.  The row only rises; whatever    *)
(* was read from it, and is still to be stored, is therefore not ahead.    *)
(***************************************************************************)
EXTENDS PollCache, TLAPS

(* No state under way from Postgres to a cache is ahead of the row. *)
Behind ==
  /\ \A i \in Instance : Rank[fresh[i]] <= Rank[row]
  /\ \A w \in Writer : Rank[putting[w]] <= Rank[row]
  /\ \A g \in Reader : Rank[loaded[g]] <= Rank[row]

IInv == TypeOK /\ NeverAhead /\ Behind /\ NothingToldEarly

(* The ranks in numbers. *)
LEMMA Ranks ==
  /\ \A s \in Entry : Rank[s] \in 0 .. 4
  /\ Rank["absent"] = 0
  /\ \A s \in Entry : s \notin {"absent", "draft"} <=> Rank[s] >= 2
BY DEF Rank, Entry, State

(* A committed write raises the row. *)
LEMMA EdgesRise ==
  ASSUME NEW r, NEW to, <<r, to>> \in Edge
  PROVE  r \in Entry /\ to \in State /\ Rank[r] < Rank[to]
<1>1. r \in Entry /\ to \in State
  BY DEF Edge, Entry, State
<1> QED  BY <1>1 DEF Edge, Entry, State, Rank

(* Giving out a definition that is not ahead of the row tells nothing early. *)
LEMMA RespondSafe ==
  ASSUME TypeOK, NothingToldEarly, NEW def \in Entry, def # "absent",
         Rank[def] <= Rank[row], Respond(def), UNCHANGED row
  PROVE  told' \in BOOLEAN /\ NothingToldEarly'
<1>1. row \in Entry /\ Rank[row] \in 0 .. 4 /\ Rank[def] \in 0 .. 4
  BY Ranks DEF TypeOK
<1>2. CASE def = "draft"
  BY <1>2 DEF Respond, NothingToldEarly, TypeOK
<1>3. CASE def # "draft"
  <2>1. Rank[def] >= 2
    BY <1>3, Ranks
  <2>2. row \notin {"absent", "draft"}
    BY <2>1, <1>1, Ranks
  <2> QED  BY <1>3, <2>2 DEF Respond, NothingToldEarly, TypeOK
<1> QED  BY <1>2, <1>3

(* What commits. *)
LEMMA CommitStep ==
  ASSUME IInv, NEW w \in Writer, NEW to \in State, Commit(w, to)
  PROVE  IInv'
<1> USE CacheAssumption DEF IInv
<1>1. Rank[row] < Rank[to] /\ Rank[row] \in 0 .. 4 /\ Rank[to] \in 0 .. 4
      /\ row' = to /\ to \in Entry
  BY EdgesRise, Ranks DEF Commit, TypeOK, Entry
<1>2. TypeOK'
  BY <1>1 DEF TypeOK, Commit, refreshVars, readVars
<1>3. NeverAhead'
  BY <1>1, Ranks DEF NeverAhead, Commit, TypeOK
<1>4. Behind'
  <2>1. \A i \in Instance : Rank[fresh'[i]] <= Rank[row']
    BY <1>1, Ranks DEF Behind, Commit, refreshVars, TypeOK
  <2>2. \A v \in Writer : Rank[putting'[v]] <= Rank[row']
    BY <1>1, Ranks DEF Behind, Commit, TypeOK
  <2>3. \A g \in Reader : Rank[loaded'[g]] <= Rank[row']
    BY <1>1, Ranks DEF Behind, Commit, readVars, TypeOK
  <2> QED  BY <2>1, <2>2, <2>3 DEF Behind
<1>5. NothingToldEarly'
  <2>1. told' = told
    BY DEF Commit
  <2>2. ASSUME told PROVE row' \notin {"absent", "draft"}
    BY <2>2, <1>1, Ranks DEF NothingToldEarly, TypeOK
  <2> QED  BY <2>1, <2>2 DEF NothingToldEarly
<1> QED  BY <1>2, <1>3, <1>4, <1>5

(* What follows a commit. *)
LEMMA PutStep ==
  ASSUME IInv, NEW w \in Writer, Put(w) \/ SkipPut(w)
  PROVE  IInv'
<1> USE CacheAssumption DEF IInv
<1>1. At[w] \in Instance /\ "absent" \in Entry /\ Rank["absent"] = 0
      /\ Rank[row] \in 0 .. 4
  BY Ranks DEF Entry, TypeOK
<1>2. TypeOK'
  <2>1. CASE Put(w)
    BY <2>1, <1>1 DEF TypeOK, Put, refreshVars, readVars
  <2>2. CASE SkipPut(w)
    BY <2>2, <1>1 DEF TypeOK, SkipPut, refreshVars, readVars
  <2> QED  BY <2>1, <2>2
<1>3. NeverAhead'
  BY <1>1 DEF NeverAhead, Behind, Put, SkipPut, TypeOK
<1>4. Behind'
  BY <1>1 DEF Behind, Put, SkipPut, refreshVars, readVars, TypeOK
<1>5. NothingToldEarly'
  BY DEF NothingToldEarly, Put, SkipPut
<1> QED  BY <1>2, <1>3, <1>4, <1>5

(* A Get. *)
LEMMA ReadStep ==
  ASSUME IInv, NEW g \in Reader, Read(g) \/ LoadFails(g)
  PROVE  IInv'
<1> USE CacheAssumption DEF IInv
<1>1. At[g] \in Instance /\ "absent" \in Entry /\ Rank["absent"] = 0
      /\ Rank[row] \in 0 .. 4 /\ row \in Entry
  BY Ranks DEF Entry, TypeOK
<1>2. CASE Hit(g)
  <2>1. told' \in BOOLEAN /\ NothingToldEarly'
    BY <1>1, <1>2, RespondSafe DEF Hit, NeverAhead, TypeOK
  <2> QED
    BY <1>2, <2>1 DEF Hit, TypeOK, NeverAhead, Behind, refreshVars, readVars
<1>3. CASE Miss(g) \/ LoadFails(g)
  <2>1. TypeOK'
    BY <1>3 DEF Miss, LoadFails, TypeOK, refreshVars
  <2> QED
    BY <1>3, <2>1
    DEF Miss, LoadFails, NeverAhead, Behind, NothingToldEarly, refreshVars
<1>4. CASE Load(g)
  <2>1. told' \in BOOLEAN /\ NothingToldEarly' /\ row' = row
    <3>1. CASE row = "draft"
      BY <1>1, <1>4, <3>1, RespondSafe DEF Load
    <3>2. CASE row # "draft"
      BY <1>4, <3>2 DEF Load, NothingToldEarly, TypeOK
    <3> QED  BY <3>1, <3>2
  <2>2. TypeOK'
    <3>1. loading' \in [Reader -> {"idle", "load", "store"}]
          /\ loaded' \in [Reader -> Entry]
      BY <1>1, <1>4 DEF Load, TypeOK
    <3>2. \A h \in Reader : loading'[h] = "store" <=> loaded'[h] # "absent"
      BY <1>4 DEF Load, TypeOK
    <3> QED  BY <1>4, <2>1, <3>1, <3>2 DEF Load, TypeOK, refreshVars
  <2>3. Behind'
    BY <1>1, <1>4 DEF Load, Behind, TypeOK, refreshVars
  <2> QED  BY <1>4, <2>1, <2>2, <2>3 DEF Load, NeverAhead
<1>5. CASE Store(g)
  <2>1. told' \in BOOLEAN /\ NothingToldEarly'
    BY <1>1, <1>5, RespondSafe DEF Store, Behind, TypeOK
  <2>2. TypeOK'
    BY <1>1, <1>5, <2>1 DEF Store, TypeOK, refreshVars
  <2>3. NeverAhead' /\ Behind'
    BY <1>1, <1>5 DEF Store, NeverAhead, Behind, TypeOK, refreshVars
  <2> QED  BY <2>1, <2>2, <2>3
<1> QED  BY <1>2, <1>3, <1>4, <1>5 DEF Read

(* The refresh loop, and a process that is replaced. *)
LEMMA ProcessStep ==
  ASSUME IInv, NEW i \in Instance, Refresh(i) \/ ListFails(i) \/ Restart(i)
  PROVE  IInv'
<1> USE CacheAssumption DEF IInv
<1>1. "absent" \in Entry /\ Rank["absent"] = 0 /\ Rank[row] \in 0 .. 4
      /\ row \in Entry
  BY Ranks DEF Entry, TypeOK
<1>2. CASE StartRefresh(i) \/ ListFails(i)
  <2>1. TypeOK'
    BY <1>2 DEF StartRefresh, ListFails, TypeOK, readVars
  <2> QED
    BY <1>2, <2>1
    DEF StartRefresh, ListFails, NeverAhead, Behind, NothingToldEarly, readVars
<1>3. CASE ListPolls(i)
  <2>1. TypeOK'
    BY <1>1, <1>3 DEF ListPolls, TypeOK, readVars
  <2>2. Behind'
    BY <1>1, <1>3 DEF ListPolls, Behind, TypeOK, readVars
  <2> QED
    BY <1>3, <2>1, <2>2 DEF ListPolls, NeverAhead, NothingToldEarly
<1>4. CASE StoreFresh(i)
  <2>1. TypeOK'
    BY <1>1, <1>4 DEF StoreFresh, TypeOK, readVars
  <2>2. NeverAhead' /\ Behind'
    BY <1>1, <1>4 DEF StoreFresh, NeverAhead, Behind, TypeOK, readVars
  <2> QED  BY <1>4, <2>1, <2>2 DEF StoreFresh, NothingToldEarly
<1>5. CASE Restart(i)
  <2>1. TypeOK'
    BY <1>1, <1>5 DEF Restart, TypeOK
  <2>2. NeverAhead' /\ Behind'
    BY <1>1, <1>5 DEF Restart, NeverAhead, Behind, TypeOK
  <2> QED  BY <1>5, <2>1, <2>2 DEF Restart, NothingToldEarly
<1> QED  BY <1>2, <1>3, <1>4, <1>5 DEF Refresh

(* What every reachable state satisfies. *)
THEOREM Inductive == Spec => []IInv
<1>1. Init => IInv
  <2> SUFFICES ASSUME Init PROVE IInv
    OBVIOUS
  <2>1. "absent" \in Entry /\ Rank["absent"] = 0
    BY Ranks DEF Entry
  <2>2. TypeOK
    BY <2>1 DEF Init, TypeOK
  <2>3. NeverAhead /\ Behind /\ NothingToldEarly
    BY <2>1 DEF Init, NeverAhead, Behind, NothingToldEarly
  <2> QED  BY <2>2, <2>3 DEF IInv
<1>2. IInv /\ [Next]_vars => IInv'
  <2> SUFFICES ASSUME IInv, [Next]_vars PROVE IInv'
    OBVIOUS
  <2>1. ASSUME NEW w \in Writer, Write(w) PROVE IInv'
    BY <2>1, CommitStep, PutStep DEF Write
  <2>2. ASSUME NEW g \in Reader, Read(g) PROVE IInv'
    BY <2>2, ReadStep
  <2>3. ASSUME NEW i \in Instance, Refresh(i) \/ ListFails(i) \/ Restart(i)
        PROVE  IInv'
    BY <2>3, ProcessStep
  <2>4. CASE UNCHANGED vars
    BY <2>4 DEF vars, refreshVars, readVars, IInv, TypeOK, NeverAhead, Behind,
                NothingToldEarly
  <2> QED  BY <2>1, <2>2, <2>3, <2>4 DEF Next
<1> QED  BY <1>1, <1>2, PTL DEF Spec

(* The caches, the loops and the handlers of every process hold what they  *)
(* are meant to hold.                                                      *)
THEOREM TypeCorrect == Spec => []TypeOK
<1>1. IInv => TypeOK
  BY DEF IInv
<1> QED  BY <1>1, Inductive, PTL

(* cache.go stores only what Postgres committed before: no process serves  *)
(* a state the row has not reached.                                        *)
THEOREM CacheBehindRow == Spec => []NeverAhead
<1>1. IInv => NeverAhead
  BY DEF IInv
<1> QED  BY <1>1, Inductive, PTL

(* getPollHandler and issueVoteTokenHandler answer for announced polls only. *)
THEOREM OnlyAnnounced == Spec => []NothingToldEarly
<1>1. IInv => NothingToldEarly
  BY DEF IInv
<1> QED  BY <1>1, Inductive, PTL
=============================================================================
