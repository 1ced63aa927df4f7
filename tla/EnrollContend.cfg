SPECIFICATION Spec
CONSTANTS
  k1 = k1
  p1 = p1
  p2 = p2
  h1 = h1
  h2 = h2
  t1 = t1
  s1 = s1
  s2 = s2
  None = None
  Proc = {p1, p2}
  Host = {h1, h2}
  Token = {t1}
  Server = {s1}
  HostOf <- TwoHosts
  BundleOf <- OneBundle
  Expiring = {}
  Skewed = {}
  MaxQueue = 1
  MaxFaults = 1
  HoldAfterActivation = FALSE
  AgentHolds = {}
  Served = {h1, h2}
  StrayKinds = {"malformed", "unsigned", "unknown"}
  Stranger = {k1}
CHECK_DEADLOCK FALSE
INVARIANTS TypeOK OneCredential ActiveIdentityDurable SuccessMeansActive RefusalRecorded
SYMMETRY SwapHosts
