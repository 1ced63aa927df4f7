SPECIFICATION FairSpec
CONSTANTS
  k1 = k1
  p1 = p1
  p2 = p2
  h1 = h1
  h2 = h2
  t1 = t1
  s1 = s1
  s2 = s2
  None = None
  Proc = {p1}
  Host = {h1}
  Token = {t1}
  Server = {s1}
  HostOf <- AloneHost
  BundleOf <- AloneBundle
  Expiring = {t1}
  Skewed = {p1}
  MaxQueue = 1
  MaxFaults = 2
  HoldAfterActivation = TRUE
  AgentHolds = {"bootstrap", "store", "written", "proved"}
  Served = {}
  StrayKinds = {}
  Stranger = {}
CHECK_DEADLOCK FALSE
INVARIANTS ActiveIdentityDurable SuccessMeansActive RefusalRecorded HeldUnconfirmed
PROPERTIES Converges ExpiredIssuesNothing
