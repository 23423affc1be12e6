\* Ticks end within the lease; Redis loses its data once between ticks.
SPECIFICATION Spec
CONSTANTS
  w1 = w1
  w2 = w2
  Worker = {w1, w2}
  NoWorker = NoWorker
  NumOptions = 2
  Lease = 2
  Punctual = TRUE
  MaxTime = 4
  MaxVotes = 3
  MaxLosses = 1
SYMMETRY MCSymmetry
INVARIANTS TypeOK LeaderAlone RowsGrow NeverOvercounts SharesAddUp
CHECK_DEADLOCK FALSE
