# tv-poll: a TLA+ verification project

tv-poll runs the polls of a television programme: a QR code goes on screen, a
very large audience votes within a minute or so, and an editorial team watches
the results. Several identical Go processes (`backend/cmd/api`) stand behind a
load balancer. PostgreSQL holds polls, the audit log and result snapshots; Redis
holds one deduplication key per spent vote token, the counter hashes and a
leader lease. Votes are counted in memory and reach Redis once a second, and the
leader copies Redis' counters into PostgreSQL once a second.

All paths below are relative to the repository; Go packages are under
`backend/internal`.

## 1. Inventory

| part | state | operations | talks to |
|---|---|---|---|
| Vote handler, `httpapi/public.go` | none of its own | `castVoteHandler`: limiter, token, cached window, option range, claim, count | cache, dedup store, counters |
| Dedup store, `store/redisstore/dedup.go` | Redis `d:{poll}:{nonce}` | `TryClaim` = `SET NX GET EX` | Redis |
| Counters, `counter/counter.go` | atomics per option and per reason of refusal, in memory | `AcceptVote`, `RejectDuplicate`, `SwapDeltas`, `RestoreDeltas`, `ForPoll` | handlers and the flusher, concurrently |
| Flusher, `store/redisstore/counters.go` | deltas swapped out | `Run`, `FlushAll`, `FlushPoll`, final flush; `ReadCounts` | counters, Redis hashes |
| Process life, `cmd/api/main.go` | context, servers, wait group | start, signal, drain, wait, exit | all of the above |
| Poll store and FSM, `store/postgres/polls.go`, `domain/fsm.go`, `migrations/0001_init.sql` | `polls`, `admin_audit_log` | `CreatePoll`, `TransitionPoll` under `FOR UPDATE`, schedule queries, `closes_at` trigger | PostgreSQL |
| Schedule worker, `autoopen` | none between ticks | `tick` = `openDue`; `closeExpired` | elector, poll store, cache |
| Elector, `leader` | Redis `leader` with a TTL | `IsLeader` = `SET NX EX`, `GET`, `EXPIRE` | Redis |
| Poll cache, `cache` | `data`, `active` of each process | `Get`, `GetCached`, `Put`, `refresh` | poll store; every handler |
| Snapshotter, `snapshotter`, `store/postgres/snapshots.go` | `poll_result_snapshots` | `tick`, `snapshotOne`, `InsertSnapshot`, `mergeSnapshot` | elector, Redis hashes, PostgreSQL |
| Admin handlers, `httpapi/admin.go` | none | create, transition, results, time series | poll store, cache, snapshots |
| Public handlers, `httpapi/public.go`, `internal.go` | none | `GET /polls/{id}`, `POST /token`, warmup | cache |
| Vote token, `domain/token.go` | secrets | issue, verify | handlers |
| Limiter, `ratelimit` | LRU of token buckets | `Allow` | handlers |
| Voting page, `frontend/src/public` | record in `localStorage`, tab state | issue, vote, retry, reset | public API |
| Admin pages, router, metrics, configuration, deployment | - | - | - |

What makes the program hard:

* **interleavings**: handlers of many processes race on one dedup key; handlers
  and the flusher race on one counter; administrators and two would-be leaders
  race on one row; a fetch races with a `Put`;
* **things read and used later**: the due list and its `now`, the cached poll,
  the row a fetch is about to store, the floor of a snapshot;
* **partial failure**: a lost reply, a pipeline cut half-way, a lost commit
  reply, a failing query in one half of a tick;
* **crash and shutdown**: a second of votes lives in memory only, and the drain
  races with the final flush;
* **loss of Redis' data**, the lease included;
* **durations nobody waits for**: a vote let in by a stale cache must reach the
  last snapshot within five seconds of `closed_at`, and no part checks that it
  did;
* **browsers**: tabs share a record in `localStorage`, time out, retry and lose
  replies while the signing secrets are rotated one process at a time.

What must hold, per part:

* votes: one counted vote per token; the option counted is the one sealed in
  the key and the one a duplicate is told of; nothing accepted by a living
  process is lost, nothing is counted twice while pipelines fail as a whole;
* shutdown: it ends, and it keeps what was accepted before the signal;
* polls: one linear life, a fixed window, a gap-free audit chain, no early move
  by a worker, no forgotten poll;
* cache: never ahead of PostgreSQL, and in the end not behind it;
* results: one leader, rows that never shrink, never exceed what was cast, and
  add up;
* the window: whoever is let in by a process whose cache follows the close is in
  the last snapshot; nobody is let in there before an opening or long after a
  close, nobody refused in between;
* limiter: it may forget, but only in favour of the client it forgets;
* browser: one ballot per browser, and a page names the option that counted.

## 2. Modules

| module | models | state |
|---|---|---|
| `BallotBox` | what the hot path promises: a token's first choice is sealed for good, only sealed choices are published, each token once | abstract |
| `VoteTally` | handler from the claim on, dedup keys, counters, flusher, process life | `phase inst option prev` (handlers), `claim applied` (Redis), `mem delta cursor` (a process), `proc final` (its life) |
| `PollFSM` | the life a poll promises: drafted, announced once with a window, on air once, over for good | abstract |
| `PollLifecycle` | rows, row locks, transactions of administrators and workers, ticks | `state scheduledAt closesAt audit` (PostgreSQL), `lock pc req seen` (transactions), `tickAt stage queue` (workers) |
| `PollCache` | the caches of all processes against the row | `row`, `data active` (a cache), `asked fresh step` (refresh), `putting`, `loading loaded` |
| `ResultSnapshots` | elector, snapshotter, snapshot rows, Redis losing data | `holder expiry` (lease), `tally` (Redis), `rows` (PostgreSQL), `pc at reading prev` (ticks) |
| `VotingWindow` | concurrent transitions, cold and warm caches, the gate of the vote handler, creation of counters, flusher and snapshotter of one poll against the clock: the composition | `row closedAt openedOn closedOn` (PostgreSQL and its history), `job` (transitions), `started seen active listed fetch` (processes and their caches), `pos at polls kept` (votes), `snapNow snapped` (the leader), `listDue flushDue snapDue` (loops) |
| `RateLimiter` | the limiter of the public endpoints, next to one with unbounded memory | `recent tokens` (the limiter), `ideal granted lead evicted others` (history) |
| `BrowserVote` | the tabs of one browser against the API's processes | `stored` (`localStorage`), `page ref memory choice call reply closed told` (tabs), `stray` (the network), `secret issued claimed` (the API), `refusals overtakes` (history) |
| `VoteTallyProofs`, `PollLifecycleProofs`, `VotingWindowProofs`, `RateLimiterProofs`, `PollCacheProofs`, `ResultSnapshotsProofs`, `BrowserVoteProofs` | the theorems | - |
| `MC...` | the instances TLC checks | - |

`VoteTally` implements `BallotBox` (ballot <- the dedup keys, published <- the
tokens of accepted votes whose increment reached Redis) and `PollLifecycle`
implements `PollFSM` (same names). How actions and code correspond:

* **VoteTally.** A handler is `Arrive`, then `TryClaim` (the Redis round trip),
  then `AcceptVote` or `RejectDuplicate` (the atomic add); the reply follows in
  the same step as nothing reads it. `LoseClaimReply` is Redis running the
  command without the client learning of it: the request stays at its claim and
  either claims again (the client library's resend) or gives up
  (`ClaimUnavailable`, the 503). A counter is represented by the set of requests
  whose increment it holds, so that a lost or a doubled increment is visible,
  where a number would hide one behind the other; its value is the set's
  cardinality. `SwapField` is one `Swap(0)`: `cursor` walks over the fields and
  handlers run in between. `FlushOk`, `FlushFail` and `CutPipeline` are the
  pipeline's outcomes; `EndFlush` is the return of `FlushPoll`. `Signal` to
  `Exit` follow `run()`.
* **PollLifecycle.** A transaction is `LockPoll` (the `SELECT ... FOR UPDATE`)
  and then `CommitTransition`, `RefuseTransition` or `Rollback`: until the
  commit its writes are invisible, so update, audit record and commit are one
  step. Validation against the clock happens in `RequestCreate` and
  `RequestTransition`, and time may pass before the transaction starts. A tick
  is `Tick`, `List`, one `TakePoll` and transaction per poll, and `EndStage`
  from opening to closing. Any worker may tick at any time: which of them the
  elector lets through is left open, so whatever holds here needs no election.
* **PollCache.** Writers `Commit` and then `Put`, or skip it when the reply to
  the commit is lost. `Miss`, `Load`, `Store` are the three parts of `Get`
  between which the lock is not held; `StartRefresh`, `ListPolls`, `StoreFresh`
  those of `refresh`. A cached definition is represented by its state.
  `Respond` is what the caller of `Get` does with the result: show the poll or
  give out a token for it, unless it is a draft; `Hit` is a `Get` that finds an
  entry.
* **ResultSnapshots.** All processes share one clock: the code dates a row by
  `time.Now()` of whoever leads (`snapshotter.go:77`), and nothing bounds how far
  two leaders' clocks differ, so what a skewed clock does to the order of rows is
  outside. `Punctual` lets a tick end within its lease, renewal included: the
  race between `GET` and `EXPIRE` (`elector.go:52-65`) is in the actions, but
  `LeaderAlone` and `RowsGrow` are claimed without it; `NeverOvercounts` and
  `SharesAddUp` with it. `Claim`, `Check`, `Renew` are the three commands of
  `IsLeader`; `Start`, `ReadCounts`, `LoadPrevious`, `InsertSnapshot` a tick.
  The primary key (poll, time) is the guard of `InsertSnapshot`. `Results` and
  `Timeseries` are what the two pages of the administrators read.
* **VotingWindow.** Time is discrete. Every loop (refresh, flush, snapshot) runs
  every `Period`; every call (a transaction, the `Put` after it, the query of a
  refresh or of a `Get`, a handler, a pipeline, the election, a snapshot) ends
  within `Latency`: `Tick` waits for what is overdue. `At` says which process
  runs a transition, a fetch or a vote: any number of them overlap in one
  process, as administrators' handlers and the schedule worker do. `Begin` takes
  the `now()` that `Commit` later writes to `closed_at`; the `Put` comes up to a
  `Latency` after the commit, or not at all (`SkipPut`), and two of them in any
  order. A process comes up (`Start`) with nothing in its cache: `Run` refreshes
  at once (`ListPolls`, `StoreFresh`), and creates its ticker when that has
  ended (`Initial`). `StartRefresh` copies the active set, `ListPolls` is the
  query, and `StoreFresh` overwrites entry and active set with what was read.
  `Miss`, `LoadPoll` and `StorePoll` are the parts of `Get`, which a cold
  process runs while its first refresh is under way. A vote is `Arrive` (token,
  cached entry, window), `LoadCounters` and `StoreCounters` (the `Load` and the
  `LoadOrStore` of `ForPoll`), then `AcceptVote`; counters are named after the
  request that allocated them, so that a vote in discarded ones is visible:
  `Flush` does not find it. `IsLeader` is the end of the election, up to a
  `Latency` after the tick, where the `now` of the tick is taken; `Snapshot`, up
  to a `Latency` later, tests the candidates against that `now` and keeps the
  votes in Redis. Simplified: one clock for all processes, one of which leads
  throughout; nothing fails and no process stops (the other modules are about
  that); the poll is announced, and the `Put` of that is over, before the first
  process starts, or it was opened by a process that is no longer there; the
  flusher's first tick is exactly a `Period` after the start.
* **RateLimiter.** `Delivered` is what an ingress makes of a client's request: it
  overwrites both headers. Without a valid header the code falls back to the
  connection's address, and it believes the first entry an ingress passes on
  (`middleware.go:161-179`): that is in `ClientIP`, but what is claimed of
  clients is claimed behind an ingress that overwrites.
  `ClientIP` and `VoteRateLimitKey` are the code's, `Allow` the LRU access and
  `rate.Limiter.Allow` under the mutex. Time is counted in refills of one token.
  The limiter of failed admin logins is another instance of it.
* **BrowserVote.** A page waits in `call` for `reply`. `Prepare`, `Submit` and
  the handlers of replies are the synchronous parts of `poll-page.tsx` between
  two `await`s, `TokenReply` the `then` of `getOrIssueVoteToken`. A record is
  `dated` if it has an `expiresAt`; memory hides stored fields one by one, even
  with an `undefined`: a field may be `Absent`, or there with the value `None`.
  `GiveUp` is the timer of `requestJson`, or a broken connection: a vote not yet
  served becomes `stray` and may still be served later. `Rotate` restarts one
  process with the next secret.

## 3. Runs

| run | bounds | shows |
|---|---|---|
| `tally` | 2 POSTs with one token on 2 processes, 2 options, 1 cut pipeline, lost replies, `i1` may be stopped | all properties of the hot path and that it implements `BallotBox`; accepted votes reach Redis; a shutdown ends |
| `drain` | 1 POST, no fault, a SIGTERM | **violation**: a vote accepted during the drain is lost on a clean exit |
| `lost_reply` | no fault but lost replies | **violation**: a voter is told of an earlier vote that does not exist |
| `cut` | no fault but one cut pipeline | **violation**: a vote is counted twice |
| `lifecycle` | 1 poll, 1 administrator, 2 workers, clock 0..2, window 1, 1 database failure | chain, fixed window, no early move, `PollFSM`; due polls open, expired polls close |
| `cache` | 1 poll, 2 processes, 2 writers, 1 reader, 1 restart | never ahead; nothing told early; announced polls reach every cache |
| `cache_stale` | 1 process, 1 writer, 1 reader | **violation**: a closed poll is served as open for ever |
| `snapshots` | 2 workers, 2 options, clock 1..4, lease 2, 3 votes, 1 loss of Redis, punctual ticks | one leader, rows that grow, never exceed, add up |
| `two_leaders` | 2 workers, clock 1..4, lease 2, 2 votes, no loss, slow ticks | **violation**: a later row falls below an earlier one |
| `window` | 1 process with an opening and a close, 1 cold read, 2 votes, period 2, latency 1, grace 12, token seconds of 2 ticks, closes at 15, clock 1..17 | whoever a settled process lets in counts; it lets nobody in too early or late; nobody is turned away in between |
| `limiter` | 3 clients behind an ingress, 1 poll, bursts of 2, room for 2 buckets, clock 0..4, 10 requests | eviction favours who is evicted, within bounds, and spares the busy |
| `browser` | 2 tabs, 2 options, 2 processes, 2 tokens, 1 rotation, 3 page loads, 3 clicks | one token and one ballot, plus at most one for each 401 and each overtaking write; pages tell the truth; outcomes are kept |

Why these bounds are enough to be interesting. In `tally`, two POSTs share a
token, go to different processes, and may or may not agree on the option: the
smallest instance with a cross-process duplicate; the safety properties are
proved for any number of requests. In `lifecycle`, an administrator and two
workers give three transactions racing for one row; the clock lets a poll be
scheduled, fall due, expire, and a worker's list grow old in between. Polls do
not interact, except that a worker does them one after the other, hence one
poll. In `cache`, two processes are needed for a `Put` into the wrong cache and
one reader for a fetch overlapping everything. In `snapshots`, a lease of 2 of 4
ticks of the clock lets it expire and change hands; time is discrete, so rows of
one instant collide on the primary key as they would in the table. In `window`,
latency and period are the smallest that differ by the factor `GraceAssumption`
asks for, and the grace is the smallest it allows. One process is enough, since
processes meet only in PostgreSQL and Redis: a transition that runs elsewhere is
one whose `Put` is skipped here, or an opening before the first step. The
opening and the close overlap in it, a fetch overlaps both and the first
refresh, two votes race for one poll's counters. Processes and transitions begin
at 1 or at 4, so that a close meets a process that just started, one that is
settled, and an opening it overtakes. The clock reaches the end of the grace of
the later ones and of the snapshot it still allows, and the window ends late
enough for a vote of an unsettled process to miss that snapshot; a close at
`closes_at` is left to the proof. The run has 4.3 million distinct states and
takes about two minutes. In `limiter`, one client more than the LRU has room
for; ten requests drain a bucket, evict it and drain it again. In `browser`, two
tabs are needed to share a record, two processes to disagree on a secret, three
clicks for a retry of a retry; two tokens are the first number too many, and
what more of them can do is proved.

`CHECK_DEADLOCK FALSE` is said where all requests are answered and all stoppable
processes ended (`VoteTally`), where the bounded clock runs out
(`ResultSnapshots`, `VotingWindow`, `RateLimiter`), and where pages have nothing
left to do (`BrowserVote`). The lifecycle and the cache runs check deadlock.
Workers of the snapshot runs, requests and processes of `window`, clients of
`limiter`, tabs and options of `browser` are interchangeable: these runs use
symmetry. Runs with liveness properties use none.

Every passing property was also tried against a plausible bug: the mutants,
named after the operator they stand for (`SwapField_NoReset`,
`LockPoll_NoForUpdate`, ...), sit next to it in the modules.

### Fairness

* `VoteTally`: handlers, and the flusher with its ticker, are scheduled (weak
  fairness of `Handle` and `Flush`); after the signal Go's `select` may still
  take a tick that is ready, and chooses at random, so it does not take ticks
  for ever (strong fairness of `StartFinalFlush`); Redis accepts a pipeline
  again and again (strong fairness of `FlushOk`: without it a Redis that refuses
  every flush keeps votes in memory for ever, as the code intends); a begun
  shutdown proceeds. Nothing is assumed of arrivals, faults, signals and
  crashes, and nothing of the drain timeout.
* `PollLifecycle`: the clock advances to its bound; a transaction that can take
  a step does; each worker ticks, and is granted a row lock it waits for while
  others come and go (strong fairness of `LockPoll`: PostgreSQL queues lock
  requests). That every worker keeps ticking stands for "some leader exists
  again and again". The database fails `MaxFaults` times; a database that fails
  for ever opens no poll.
* `PollCache`: the refresh loop ticks, its query does not fail for ever (strong
  fairness of `ListPolls`), and a handler that has read or committed gets to
  store. No fairness of `Get`, commits or restarts.
* `VotingWindow` needs none: its properties are about deadlines, and what must
  happen is forced by `Tick`. The other modules state safety only.

## 4. What the violations show

The properties of the violation runs state what comments or documents of the
repository say; `PROJECT.json` quotes them. None is a double vote: in every
run dedup keys and tallies stay consistent. Two are losses (`drain`: up to the
votes answered between SIGTERM and the last handler; `lost_reply`: a voter
whose reply was lost is told "duplicate" and cannot vote again), one is an
overcount (`cut`), one a cache that outlives its promised second
(`cache_stale`), bounded by the separate check of `closes_at`, and one a dip in
the results chart (`two_leaders`). `snapshots` shows what the monotonicity of
results needs: ticks that end within the lease.

What passing properties say of the code's limits:

* A cache does not always follow a close. `Settled` names the two exceptions;
  without either of them TLC refutes both `BoundedStaleness` and `GraceSuffices`
  on the instance, however quick all calls are. The close may overtake the `Put`
  of the opening: `Put(closed)` takes the poll out of the active set
  (`poll_cache.go:163`), a refresh copies that set, the opening's handler in the
  same process puts `open` back, and the refresh, which did not ask for the
  closed poll, leaves the entry and empties the set (`poll_cache.go:213-217`):
  nothing reads the poll again. And a process that just started may fetch the
  open row before the close and store it after its refresh found the poll
  closed, the mechanism of `cache_stale`. Either way the process lets votes in
  until `closes_at`, after the grace if the close came before its time.
  `Settled` excludes a close committed within a latency of the opening's commit,
  and within two latencies of the process' start, and nothing else. A close at
  `closes_at` itself needs no cache to end the voting, which is the other half
  of `Prompt`.
* `BoundedStaleness`: the staleness "of at most the refresh interval"
  (`poll_cache.go:73`) is, in a settled process, an interval plus a latency after
  the commit, and TLC reaches that bound.
* `GraceSuffices` holds while `5 * Latency + 3 * Period < Grace`, from
  `closed_at + Grace + Latency` on, when the last snapshot has been written:
  with the code's periods of one second and grace of five (`snapshotter.go:24`),
  while every query, pipeline, handler and election ends within 0.4 seconds. No
  timeout enforces that; beyond it, votes answered with a 201 are in Redis and
  in no snapshot. Let C be the commit, at most a latency L after `closed_at`.
  The cache is right by C + P + L, the last vote in memory by C + P + 2L, taken
  by the flush of C + 2P + 2L, in Redis by C + 2P + 3L, and a snapshot whose
  `now` is at most C + 3P + 4L, and less than `closed_at + Grace`, reads it. The
  sum is tight: on the instance it asks for a grace of 12, and with 11 TLC finds
  a vote that no snapshot has.
* `NotTurnedAway`: an opening takes up to an interval and a latency to spread, a
  process up to an interval and two latencies to warm up (until then its answer
  is 404), and the cut of a token's expiry to seconds costs the last fraction of
  a second of the window; nothing else turns a voter away.
* `OneBallot` counts two ways to a further ballot, both of which TLC finds when
  they are left out of the bound. A process that was restarted with a new secret
  signs tokens that one still to be restarted answers with a 401; the page drops
  its token, whose vote may have been counted with the reply lost, and votes with
  another (`domain/token.go:59-61` promises rotation without invalid tokens, which
  holds for old tokens at new processes only). And a tab whose token request is
  under way while another tab votes stores its own token afterwards, as the
  other's was dropped with the vote. Each such event gives the browser at most
  one more token, and one more ballot; nothing else gives it any.
* `OutcomeKept` ends with a 401: `resetVoteToken` keeps the outcome without its
  date, which the next load removes.
* The limiter fails open as documented: an evicted client gets a burst, and a
  client that keeps asking is never evicted unless as many others as the LRU
  holds ask between two of its requests.

## 5. Proofs

TLC checks the instances above; `tlapm` checks the theorems for any number of
requests, tokens, processes, options, polls, administrators and workers, and any
bounds on faults and time, from the `ASSUME`s in the modules (`TallyAssumption`,
`LifecycleAssumption`, `WindowAssumption`, `LimiterAssumption`,
`CacheAssumption`, `SnapshotAssumption`, `BrowserAssumption`: the ranges of the
constants, disjoint actors, and markers that are no actors). `GraceAssumption` is
the only one about behaviour: it says how slow calls may be. The modules' shared
clock and, in `VotingWindow`, a leader that never changes are part of the models.

**VoteTallyProofs.** `IInv == TypeOK /\ ClaimInv /\ PlaceInv /\ FinalInv`.

* `ClaimInv` makes `OneVotePerToken` inductive. That property alone is not: a
  second request could win the claim if the key were empty although the first
  is counted. So it is strengthened with `TalliesMatchClaims` (a counted
  vote's key holds its option, hence is not empty) and `DuplicateNamesClaim`.
* `PlaceInv` says where an increment is: in memory, swapped out, or in Redis;
  and that idle flushers hold no deltas. It gives `NoVoteLost` and
  `CountedOnce`, which bounds an overcount: a vote is in Redis once, and at most
  once more for each pipeline that broke half-way.
* `FinalInv` follows the final flush: behind its cursor no vote accepted before
  the signal is left in memory, and a successful one leaves them applied. It
  gives `EarlyVotesKept`, and is where the ordering of signal, flush and exit
  is needed.
* `UncutOnce` and `DuplicateOfAVote` are the other side of the runs `cut` and
  `lost_reply`: what `counter.go` and `dedup.go` say is true until a pipeline
  breaks half-way, and if no reply to a claim is lost. The second adds
  `ClaimsVoted`: a sealed key has a request that sealed it and was counted, is
  being counted, or died with its process.
* `Refinement`: each step is a step of `BallotBox` or stutters; the claim is
  `Seal`, a flush (whole or cut) is `Publish` of the tokens it applies for the
  first time, and everything else, losing memory included, leaves keys and
  published tokens as they are.

**PollLifecycleProofs.** `IInv == TypeOK /\ LockInv /\ ReqInv /\ WindowInv /\
QueueInv /\ AuditInv`.

* `LockInv`: exactly the transactions at their update hold their row's lock,
  and what they read is still the row's state. Dropping `FOR UPDATE` breaks
  this part, and everything below rests on it.
* `ReqInv`: the requests in progress are valid, and two creations never meet.
* `WindowInv`: a draft has no window, any later state has a fixed one.
* `QueueInv`: what a worker still has to do was due, or expired, at a `now`
  that is not in the future; windows never move, so it still is at the lock.
  This gives `NeverEarly`.
* `AuditInv`: the records form a chain ending in the row's state.

`EveryMoveAudited` is about steps: a row moves together with exactly one new
record, which names the state it came from as the row had it, and no record is
ever changed (an insert writes a record of its own kind, left out). Like the
chain it rests on `LockInv`.

**VotingWindowProofs.** `IInv == TypeOK /\ Timely /\ Due /\ RowOK /\ Caches /\
Reads /\ Places /\ Deadlines`. `GraceSuffices` only speaks of the end of the
grace; the invariant says what must be true on the way there.

* `Timely` and `Due` turn the clock's guards into bounds, `RowOK` relates
  `closed_at` to the commit, and says which `Put`s can still come: after a
  settled close none that says open.
* `Caches`, per process: `WarmOK`, once refreshed it keeps the poll active as
  long as it is live; `ClosedOK`, a settled one that says open after the close
  keeps it active and has a refresh ahead that corrects it; `OpenOK`, the same
  for the opening. `Reads`: a fetch of a live poll began before the first refresh
  had ended, so in a settled process it is over at the close.
* `Places`: a vote in memory is in counters that `Range` finds. `Deadlines`: the
  chain of deadlines above, until when a vote may be in its handler, in memory,
  in a pipeline, and in Redis before a snapshot.

The lemma `GraceOver` draws the line under it: a latency after the grace no tick
finds the poll a candidate, and no vote of a prompt process is under way or
missing from the snapshot. Hence `GraceIsEnough`, and `FinalResult`: from then on
no step changes the last snapshot, and every vote a prompt process has let in is
in it. `Staleness` and `NoFalseRejection` follow from `Deadlines` and from
`OpenOK` with `WarmOK`. The theorems say nothing of processes that are not
settled: for those the two claims are false, as section 4 says.

**RateLimiterProofs.** `Ledger` compares a bucket with the one of the unbounded
limiter: it holds at least that one's tokens less the lead its client has. It
gives `FailsOpen` and `Bounded`. `BusyClientsKept` follows from the order of the
LRU: keys used after a client's are clients seen since, so the client's position
is at most their number (an injection, hence the finite-set theorems).
`ChargedToClient` is where headers and trust in the ingress enter.

**PollCacheProofs.** `IInv == TypeOK /\ NeverAhead /\ Behind /\
NothingToldEarly`: whatever a writer, a refresh or a fetch holds in its hands is
behind the row as well, and rows only move up (`EdgesRise`).

**ResultSnapshotsProofs.** `IInv == TypeOK /\ Led /\ Counted /\ Dated /\
Floored /\ (Punctual => RowsGrow) /\ Shared /\ (losses = 0 => Staged)`.

* `Led`: a worker in a leader's tick holds the lease, while ticks are punctual.
  `Counted`: Redis, rows, readings and floors never exceed what was cast,
  punctual or not. `Floored`: the leader's row will be the latest, and the row it
  floors at still is the latest. They give `OneLeader`, `NoRowOvercounts` and,
  the total included, `ChartGrows`.
* `Shared`: no option of a row exceeds its total, although options and total are
  floored apart. `Staged`: until Redis loses data, whatever counts are around are
  stages of one count, of any two one is below the other, and each total is the
  sum of its options; merging two of them then picks one. They give
  `ResultsAddUp`, which needs no punctual ticks.
* Sums over the options are a recursive function. What is needed of them (that
  they exist, are at least each option, grow with the counts, and decide between
  comparable counts) is proved by induction over the options' numbers in its set
  form: a set that holds 0, and each number whose predecessor it holds, holds
  them all (`Induct`, from the library's least elements).
* `Fresh`, a second invariant on top of the first: a punctual tick has read at
  least what any row counts, until Redis loses data. Hence `FloorIsIdle`: without
  loss the floor never matters, a row is the reading of its tick. `ChartAppended`:
  no row is ever replaced, and punctual ticks insert none before another.

**BrowserVoteProofs.** `IInv == TypeOK /\ DatedTokens /\ FewTokens /\
(\A t \in Tab : Calling(t) /\ Truthful(t)) /\ (refusals = 0 => Remembered)`.

* `FewTokens` makes `TabsShareToken` and `OneBallot` inductive: some set holds
  every token that is stored, remembered, in use, under way or claimed, and has
  at most `Budget` members: one for each 401, one for each overtaking write, and
  one more as soon as the browser is `Spent`, which is when it holds a token or
  the dated outcome of a vote. Only a browser that is not spent, or overtakes its
  outcome, stores a token that another tab did not; a 401 may make a spent
  browser unspent, and pays for it. The two properties count different subsets of
  the same set.
* `Calling` says what a page waits for, and which answers can come; `Truthful`,
  that an answer and the option a page names are what the key holds.
  `ToldTheTruth` follows, 401s and late votes included.
* `Remembered`: before any 401, an outcome is dated, a page that shows one finds
  one stored, and a page with a record of its own has voted or holds a token and
  never asks for another: so no late write hides the outcome (`OutcomeSurvives`).

Each preservation lemma has one step per action. Every safety property that a
passing run checks is also a theorem. Model-checked only: liveness
(`VotesReachRedis`, `ShutdownEnds`, `DuePollsOpen`, `ExpiredPollsClose`,
`AnnouncedReachesCaches`), whose fairness is out of the prover's reach, and the
violations, which are facts about single behaviours.

## 6. What is not modelled, and the plan

Left out on purpose: rendering, metrics, routing, CORS, authentication,
configuration, connection warming, provisioning, generated code and the load
test; `RejectRateLimited`, which nothing calls. Abstracted: the dedup key's TTL
(it outlives the window by a minute), rejected counters in snapshots (floored
like the options), several polls at once (they share only the flusher's and the
workers' loops, which carry on after an error, and the LRU, which
`RateLimiter` has), `opened_at`, the wire format of tokens, the cookie (a second
copy of the stored token), blocked storage and the device's clock in the browser.

Known and without a property: two 409 `closed` with anything between them end a
page, though the comment says two in a row (`poll-page.tsx:37-42`, `226`); a
response body that stalls after its headers is waited for without a timer
(`http.ts:82-86`); the admin list counts and selects in two statements and pages
by offset over an order without a tie-breaker (`polls.go:226-231`).

What may follow: several polls under one schedule worker, the closed count of the
page as a property of its own, `VotingWindow` with processes that stop (a
process that dies between a 201 and its flush loses the vote), and leaders whose
clocks differ.
