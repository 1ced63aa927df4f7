SPECIFICATION Spec
CONSTANTS
  k1 = k1
  p1 = p1
  p2 = p2
  h1 = h1
  h2 = h2
  t1 = t1
  s1 = s1
  s2 = s2
  None = None
  Proc = {p1}
  Host = {h1}
  Token = {t1}
  Server = {s1}
  HostOf <- AloneHost
  BundleOf <- AloneBundle
  Expiring = {}
  Skewed = {}
  MaxQueue = 1
  MaxFaults = 1
  HoldAfterActivation = FALSE
  AgentHolds = {}
  Served = {}
  StrayKinds = {}
  Stranger = {}
CHECK_DEADLOCK FALSE
INVARIANT LedgerBeforeActive
