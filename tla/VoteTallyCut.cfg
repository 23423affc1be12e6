\* One fault: one pipeline cut after some of its commands took effect.
SPECIFICATION Spec
CONSTANTS
  r1 = r1
  r2 = r2
  r3 = r3
  t1 = t1
  t2 = t2
  i1 = i1
  i2 = i2
  Request = {r1, r2, r3}
  Token = {t1, t2}
  Instance = {i1, i2}
  NoInstance = NoInstance
  TokenOf <- MCTokenOf
  Posts <- MCPosts
  NumOptions = 2
  LostReplies = FALSE
  MaxCuts = 1
  MayStop = {}
INVARIANTS AppliedOnce
CHECK_DEADLOCK FALSE
