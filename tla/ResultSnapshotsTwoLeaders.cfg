\* No fault but a slow tick: the lease expires under it.
SPECIFICATION Spec
CONSTANTS
  w1 = w1
  w2 = w2
  Worker = {w1, w2}
  NoWorker = NoWorker
  NumOptions = 2
  Lease = 2
  Punctual = FALSE
  MaxTime = 4
  MaxVotes = 2
  MaxLosses = 0
SYMMETRY MCSymmetry
INVARIANTS RowsGrow
CHECK_DEADLOCK FALSE
