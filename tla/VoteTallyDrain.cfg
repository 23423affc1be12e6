\* No fault at all: only a SIGTERM during a vote.
SPECIFICATION Spec
CONSTANTS
  r1 = r1
  r2 = r2
  r3 = r3
  t1 = t1
  t2 = t2
  i1 = i1
  i2 = i2
  Request = {r1}
  Token = {t1, t2}
  Instance = {i1, i2}
  NoInstance = NoInstance
  TokenOf <- MCTokenOf
  Posts <- MCPosts
  NumOptions = 2
  LostReplies = FALSE
  MaxCuts = 0
  MayStop = {i1}
INVARIANTS CleanExitKeepsVotes
CHECK_DEADLOCK FALSE
