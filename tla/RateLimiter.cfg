\* Three clients behind the ingress, room for two buckets of two tokens.
SPECIFICATION Spec
CONSTANTS
  p1 = p1
  c1 = c1
  c2 = c2
  c3 = c3
  Poll = {p1}
  Client = {c1, c2, c3}
  Proxy = Proxy
  NoAddress = NoAddress
  TrustProxy = TRUE
  Burst = 2
  MaxKeys = 2
  MaxTime = 4
  MaxRequests = 10
SYMMETRY MCSymmetry
INVARIANTS TypeOK FailsOpen Bounded BusyClientsKept
CHECK_DEADLOCK FALSE
