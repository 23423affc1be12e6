\* Two votes, an opening and a close in one process, the smallest grace.
SPECIFICATION Spec
CONSTANTS
  i1 = i1
  j1 = j1
  j2 = j2
  g1 = g1
  r1 = r1
  r2 = r2
  Process = {i1}
  Job = {j1, j2}
  Reader = {g1}
  Request = {r1, r2}
  NoRequest = NoRequest
  At <- MCAt
  To <- MCTo
  Period = 2
  Latency = 1
  Grace = 12
  ClosesAt = 15
  Second = 2
  Instant = {1, 4}
  MaxTime = 17
SYMMETRY MCSymmetry
INVARIANTS TypeOK GraceSuffices OnlyOpenedPolls BoundedStaleness
PROPERTIES NotTurnedAway
CHECK_DEADLOCK FALSE
