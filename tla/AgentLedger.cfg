SPECIFICATION FairSpec
CONSTANTS
  p1 = p1
  p2 = p2
  j1 = j1
  j2 = j2
  None = None
  Proc = {p1, p2}
  Job = {j1, j2}
  MaxTime = 2
  MaxFaults = 2
INVARIANT LedgerTypeOK
INVARIANT StartedOnce
INVARIANT ObservationsKept
INVARIANT OpenComplete
PROPERTY Reopens
CHECK_DEADLOCK FALSE
