SPECIFICATION FairSpec
CONSTANTS
  s1 = s1
  s2 = s2
  None = None
  Server = {s1, s2}
  MaxActs = 3
INVARIANT ListenerTypeOK
INVARIANT ServingReachable
PROPERTY TamperedKept
PROPERTY Recovers
CHECK_DEADLOCK FALSE
