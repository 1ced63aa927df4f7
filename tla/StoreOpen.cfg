SPECIFICATION FairSpec
CONSTANTS
  p1 = p1
  p2 = p2
  j1 = j1
  t1 = t1
  None = None
  Proc = {p1, p2}
  Job = {j1}
  JobState = {"Accepted", "Completed"}
  Token = {t1}
  MaxAudit = 2
  MaxFaults = 1
INVARIANT StoreTypeOK
INVARIANT StepComplete
INVARIANT RecordsSurvive
INVARIANT TerminalWithResult
PROPERTY Opens
CHECK_DEADLOCK FALSE
