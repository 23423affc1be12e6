\* One process, one administrator, one viewer whose fetch overlaps the close.
SPECIFICATION FairSpec
CONSTANTS
  i1 = i1
  i2 = i2
  w1 = w1
  w2 = w2
  g1 = g1
  g2 = g2
  Instance = {i1}
  Writer = {w1}
  Reader = {g1}
  At <- MCAt
  MaxRestarts = 0
PROPERTIES ClosedReachesCaches
