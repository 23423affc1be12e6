\* Two requests with one token, one per process.  Faults on: lost claim
\* replies, one pipeline cut half-way, i1 stopped by a SIGTERM or a crash.
SPECIFICATION FairSpec
CONSTANTS
  r1 = r1
  r2 = r2
  r3 = r3
  t1 = t1
  t2 = t2
  i1 = i1
  i2 = i2
  Request = {r1, r2}
  Token = {t1, t2}
  Instance = {i1, i2}
  NoInstance = NoInstance
  TokenOf <- MCTokenOf
  Posts <- MCPosts
  NumOptions = 2
  LostReplies = TRUE
  MaxCuts = 1
  MayStop = {i1}
INVARIANTS TypeOK OneVotePerToken TalliesMatchClaims DuplicateNamesClaim
  CountedOnce NoVoteLost EarlyVotesKept
PROPERTIES ImplementsBallotBox VotesReachRedis ShutdownEnds
CHECK_DEADLOCK FALSE
