\* Commits and Puts on both processes, a fetch on one, one restart.
SPECIFICATION FairSpec
CONSTANTS
  i1 = i1
  i2 = i2
  w1 = w1
  w2 = w2
  g1 = g1
  g2 = g2
  Instance = {i1, i2}
  Writer = {w1, w2}
  Reader = {g1}
  At <- MCAt
  MaxRestarts = 1
INVARIANTS TypeOK NeverAhead NothingToldEarly
PROPERTIES AnnouncedReachesCaches
