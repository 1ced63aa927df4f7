SPECIFICATION FairSpec
CONSTANTS
  Conn = {c1, c2}
  Worker = {w1}
  MaxAuthorized = 1
  MaxActs = 2
  None = None
CHECK_DEADLOCK FALSE
INVARIANTS OperatorTypeOK SlotsAccounted OutsiderUnserved DenialsOnRecord OneInFlight
PROPERTIES AuthorizationEnds LookupsTakenUp
