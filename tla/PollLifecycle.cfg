\* One administrator and two schedule workers, both leading, on one poll.
SPECIFICATION FairSpec
CONSTANTS
  p1 = p1
  p2 = p2
  a1 = a1
  a2 = a2
  o1 = o1
  o2 = o2
  Poll = {p1}
  NoPoll = NoPoll
  Admin = {a1}
  Opener = {o1, o2}
  NoActor = NoActor
  MaxTime = 2
  MaxFaults = 1
  Window = 1
INVARIANTS TypeOK AuditIsChain
PROPERTIES WindowFixed NeverEarly ImplementsPollFSM DuePollsOpen ExpiredPollsClose
