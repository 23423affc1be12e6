\* Two tabs, three page loads and three clicks among them.
SPECIFICATION Spec
CONSTANTS
  t1 = t1
  t2 = t2
  o1 = o1
  o2 = o2
  i1 = i1
  i2 = i2
  None = None
  Absent = Absent
  Tab = {t1, t2}
  Option = {o1, o2}
  Process = {i1, i2}
  MaxTokens = 2
  MaxSecret = 1
  MaxLoads = 3
  MaxSubmits = 3
SYMMETRY MCSymmetry
INVARIANTS TypeOK TabsShareToken OneBallot ToldTheTruth OutcomeKept
CHECK_DEADLOCK FALSE
