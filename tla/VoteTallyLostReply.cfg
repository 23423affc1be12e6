\* One fault: Redis applies a claim and the reply is lost.
SPECIFICATION Spec
CONSTANTS
  r1 = r1
  r2 = r2
  r3 = r3
  t1 = t1
  t2 = t2
  i1 = i1
  i2 = i2
  Request = {r1, r2, r3}
  Token = {t1, t2}
  Instance = {i1, i2}
  NoInstance = NoInstance
  TokenOf <- MCTokenOf
  Posts <- MCPosts
  NumOptions = 2
  LostReplies = TRUE
  MaxCuts = 0
  MayStop = {}
INVARIANTS DuplicateMeansCounted
CHECK_DEADLOCK FALSE
