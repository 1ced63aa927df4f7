SPECIFICATION FairSpec
CONSTANTS
  s1 = s1
  s2 = s2
  None = None
  Server = {s1, s2}
  MaxActs = 0
PROPERTY LiveSocketKept
CHECK_DEADLOCK FALSE
