----------------------------- MODULE PollCache -----------------------------
(***************************************************************************)
(* The in-memory poll cache of every API process, for one poll (polls do   *)
(* not interact in it), against the poll's row in Postgres.  An entry is   *)
(* filled by the background refresh, by a Get that misses, and by the Put  *)
(* that follows a committed write; each reads the row and stores what it   *)
(* read in separate steps.  A definition is modelled by its state: the     *)
(* rest of it never changes once the poll is scheduled (PollLifecycle).    *)
(***************************************************************************)
EXTENDS Naturals

CONSTANTS
  Instance,   \* API processes
  Writer,     \* admin handlers and schedule workers that commit and Put
  Reader,     \* GET /polls/{id}, POST token and warmup calls of Get
  At,         \* At[x]: the process of writer or reader x
  MaxRestarts \* bound on restarts of processes

ASSUME CacheAssumption ==
  /\ At \in [Writer \cup Reader -> Instance]
  /\ MaxRestarts \in Nat

VARIABLES
  row,      \* polls.state in Postgres, "absent" before the INSERT
  data,     \* data[i]: the cached state, "absent" for a miss
  active,   \* active[i]: is the poll in the actively refreshed set?
  asked,    \* asked[i]: was it in the set when the running refresh started?
  fresh,    \* fresh[i]: what the running refresh's query returned
  step,     \* step[i]: position of the refresh loop
  putting,  \* putting[w]: committed state w is about to Put, "absent" if none
  loading,  \* loading[g]: position of reader g
  loaded,   \* loaded[g]: the state g read from Postgres
  told,     \* history: was the poll shown, or a token for it given out?
  restarts  \* restarts so far

refreshVars == <<asked, fresh, step>>
readVars    == <<loading, loaded>>
vars == <<row, data, active, refreshVars, putting, readVars, told, restarts>>

State == {"draft", "scheduled", "open", "closed"}
Entry == State \cup {"absent"}
Live  == {"scheduled", "open"}   \* the states the refresh asks for

Rank == [s \in Entry |-> CASE s = "absent"    -> 0
                           [] s = "draft"     -> 1
                           [] s = "scheduled" -> 2
                           [] s = "open"      -> 3
                           [] s = "closed"    -> 4]

TypeOK ==
  /\ row \in Entry
  /\ data \in [Instance -> Entry]
  /\ active \in [Instance -> BOOLEAN]
  /\ asked \in [Instance -> BOOLEAN]
  /\ fresh \in [Instance -> Entry]
  /\ step \in [Instance -> {"wait", "list", "store"}]
  /\ putting \in [Writer -> Entry]
  /\ loading \in [Reader -> {"idle", "load", "store"}]
  /\ loaded \in [Reader -> Entry]
  /\ \A g \in Reader : loading[g] = "store" <=> loaded[g] # "absent"
  /\ told \in BOOLEAN
  /\ restarts \in Nat

Init ==
  /\ row = "absent"
  /\ data = [i \in Instance |-> "absent"]
  /\ active = [i \in Instance |-> FALSE]
  /\ asked = [i \in Instance |-> FALSE]
  /\ fresh = [i \in Instance |-> "absent"]
  /\ step = [i \in Instance |-> "wait"]
  /\ putting = [w \in Writer |-> "absent"]
  /\ loading = [g \in Reader |-> "idle"]
  /\ loaded = [g \in Reader |-> "absent"]
  /\ told = FALSE
  /\ restarts = 0

-----------------------------------------------------------------------------
(* Writers: CreatePoll or TransitionPoll commits, then Put *)

Edge == {<<"absent", "draft">>, <<"absent", "scheduled">>,
         <<"draft", "scheduled">>, <<"scheduled", "open">>,
         <<"scheduled", "closed">>, <<"open", "closed">>}

(* Mutant: the write is put into the cache and then fails to commit. *)
Commit_Fails(w, to) ==
  /\ putting[w] = "absent"
  /\ <<row, to>> \in Edge
  /\ putting' = [putting EXCEPT ![w] = to]
  /\ UNCHANGED <<row, data, active, refreshVars, readVars, told, restarts>>

Commit(w, to) ==
  /\ putting[w] = "absent"
  /\ <<row, to>> \in Edge
  /\ row' = to
  /\ putting' = [putting EXCEPT ![w] = to]
  /\ UNCHANGED <<data, active, refreshVars, readVars, told, restarts>>

Put(w) ==
  /\ putting[w] # "absent"
  /\ data' = [data EXCEPT ![At[w]] = putting[w]]
  /\ active' = [active EXCEPT ![At[w]] = putting[w] \in Live]
  /\ putting' = [putting EXCEPT ![w] = "absent"]
  /\ UNCHANGED <<row, refreshVars, readVars, told, restarts>>

(* The commit's reply is lost: the caller takes it for a failure. *)
SkipPut(w) ==
  /\ putting[w] # "absent"
  /\ putting' = [putting EXCEPT ![w] = "absent"]
  /\ UNCHANGED <<row, data, active, refreshVars, readVars, told, restarts>>

-----------------------------------------------------------------------------
(* Get *)

(* Mutant: drafts are shown to the public. *)
Respond_Drafts(def) == told' \in {told, TRUE}

(* What the caller of Get does with a definition: GET /polls/{id} answers  *)
(* 200 "immutable" and POST token signs a token, unless the poll is a      *)
(* draft; to warmup it is enough that the poll is cached.                  *)
Respond(def) == told' \in IF def = "draft" THEN {told} ELSE {told, TRUE}

Hit(g) ==
  /\ loading[g] = "idle"
  /\ data[At[g]] # "absent"
  /\ Respond(data[At[g]])
  /\ UNCHANGED <<row, data, active, refreshVars, putting, readVars, restarts>>

Miss(g) ==
  /\ loading[g] = "idle"
  /\ data[At[g]] = "absent"
  /\ loading' = [loading EXCEPT ![g] = "load"]
  /\ UNCHANGED <<row, data, active, refreshVars, putting, loaded, told, restarts>>

(* Mutant: a missing poll is remembered as well. *)
Load_KeepsMissing(g) ==
  /\ loading[g] = "load"
  /\ loaded' = [loaded EXCEPT ![g] = row]
  /\ loading' = [loading EXCEPT ![g] = "store"]
  /\ UNCHANGED <<row, data, active, refreshVars, putting, told, restarts>>

(* Neither a missing poll nor a draft is remembered. *)
Load(g) ==
  /\ loading[g] = "load"
  /\ IF row \in {"absent", "draft"}
     THEN /\ IF row = "draft" THEN Respond(row) ELSE UNCHANGED told
          /\ loading' = [loading EXCEPT ![g] = "idle"]
          /\ UNCHANGED loaded
     ELSE /\ loaded' = [loaded EXCEPT ![g] = row]
          /\ loading' = [loading EXCEPT ![g] = "store"]
          /\ UNCHANGED told
  /\ UNCHANGED <<row, data, active, refreshVars, putting, restarts>>

LoadFails(g) ==
  /\ loading[g] = "load"
  /\ loading' = [loading EXCEPT ![g] = "idle"]
  /\ UNCHANGED <<row, data, active, refreshVars, putting, loaded, told, restarts>>

Store(g) ==
  /\ loading[g] = "store"
  /\ data' = [data EXCEPT ![At[g]] = loaded[g]]
  /\ loading' = [loading EXCEPT ![g] = "idle"]
  /\ loaded' = [loaded EXCEPT ![g] = "absent"]
  /\ Respond(loaded[g])
  /\ UNCHANGED <<row, active, refreshVars, putting, restarts>>

-----------------------------------------------------------------------------
(* refresh *)

StartRefresh(i) ==
  /\ step[i] = "wait"
  /\ asked' = [asked EXCEPT ![i] = active[i]]
  /\ step' = [step EXCEPT ![i] = "list"]
  /\ UNCHANGED <<row, data, active, fresh, putting, readVars, told, restarts>>

(* Mutant: only polls already in the active set are read again. *)
ListPolls_OnlyActive(i) ==
  /\ step[i] = "list"
  /\ fresh' = [fresh EXCEPT ![i] = IF asked[i] THEN row ELSE "absent"]
  /\ step' = [step EXCEPT ![i] = "store"]
  /\ UNCHANGED <<row, data, active, asked, putting, readVars, told, restarts>>

(* ListByStateOrID: the live polls and those active at the last tick. *)
ListPolls(i) ==
  /\ step[i] = "list"
  /\ fresh' = [fresh EXCEPT ![i] = IF row \in Live \/ asked[i] THEN row
                                                              ELSE "absent"]
  /\ step' = [step EXCEPT ![i] = "store"]
  /\ UNCHANGED <<row, data, active, asked, putting, readVars, told, restarts>>

ListFails(i) ==
  /\ step[i] = "list"
  /\ step' = [step EXCEPT ![i] = "wait"]
  /\ asked' = [asked EXCEPT ![i] = FALSE]
  /\ UNCHANGED <<row, data, active, fresh, putting, readVars, told, restarts>>

(* Entries that were not read keep what they have; the active set is       *)
(* replaced as a whole.                                                    *)
StoreFresh(i) ==
  /\ step[i] = "store"
  /\ data' = [data EXCEPT ![i] = IF fresh[i] # "absent" THEN fresh[i] ELSE @]
  /\ active' = [active EXCEPT ![i] = fresh[i] \in Live]
  /\ asked' = [asked EXCEPT ![i] = FALSE]
  /\ fresh' = [fresh EXCEPT ![i] = "absent"]
  /\ step' = [step EXCEPT ![i] = "wait"]
  /\ UNCHANGED <<row, putting, readVars, told, restarts>>

(* A process is replaced: its cache and whatever ran in it are gone. *)
Restart(i) ==
  /\ restarts < MaxRestarts
  /\ restarts' = restarts + 1
  /\ data' = [data EXCEPT ![i] = "absent"]
  /\ active' = [active EXCEPT ![i] = FALSE]
  /\ asked' = [asked EXCEPT ![i] = FALSE]
  /\ fresh' = [fresh EXCEPT ![i] = "absent"]
  /\ step' = [step EXCEPT ![i] = "wait"]
  /\ putting' = [w \in Writer |-> IF At[w] = i THEN "absent" ELSE putting[w]]
  /\ loading' = [g \in Reader |-> IF At[g] = i THEN "idle" ELSE loading[g]]
  /\ loaded' = [g \in Reader |-> IF At[g] = i THEN "absent" ELSE loaded[g]]
  /\ UNCHANGED <<row, told>>

-----------------------------------------------------------------------------
Write(w) == (\E to \in State : Commit(w, to)) \/ Put(w) \/ SkipPut(w)

Read(g) == Hit(g) \/ Miss(g) \/ Load(g) \/ LoadFails(g) \/ Store(g)

Refresh(i) == StartRefresh(i) \/ ListPolls(i) \/ StoreFresh(i)

Next ==
  \/ \E w \in Writer : Write(w)
  \/ \E g \in Reader : Read(g)
  \/ \E i \in Instance : Refresh(i) \/ ListFails(i) \/ Restart(i)

Spec == Init /\ [][Next]_vars

(* The refresh loop ticks, its query does not fail for ever, and handlers  *)
(* that read or committed get to store.                                    *)
Fairness ==
  /\ \A i \in Instance : WF_vars(Refresh(i)) /\ SF_vars(ListPolls(i))
  /\ \A w \in Writer : WF_vars(Put(w) \/ SkipPut(w))
  /\ \A g \in Reader : WF_vars(Load(g) \/ Store(g))

FairSpec == Spec /\ Fairness

-----------------------------------------------------------------------------
(* No cache is ahead of Postgres: nobody votes in a poll whose opening was *)
(* never committed, nor is told of a poll that may still be rolled back.   *)
NeverAhead == \A i \in Instance : Rank[data[i]] <= Rank[row]

(* A CDN keeps a 200 for a day and a token is valid until the poll closes: *)
(* neither is ever given out for a poll that is not announced.             *)
NothingToldEarly == told => row \notin {"absent", "draft"}

(* A poll that stays scheduled, or stays open, is what every process ends  *)
(* up serving: no lost Put, late fetch or cached draft shadows it for ever.*)
AnnouncedReachesCaches ==
  \A s \in Live : <>[](row = s) => <>[](\A i \in Instance : data[i] = s)

(* "A poll that transitions scheduled/open -> closed is caught by exactly  *)
(* one more refresh tick": once a poll is closed, no process goes on       *)
(* serving it as open for ever.                                            *)
ClosedReachesCaches ==
  <>[](row = "closed") => <>[](\A i \in Instance : data[i] # "open")
=============================================================================
