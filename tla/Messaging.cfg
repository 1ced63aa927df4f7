SPECIFICATION Spec
CONSTANTS
  None = None
  d1 = d1
  d2 = d2
  Dep = {d1, d2}
  AgentId <- Identifiers
  Token <- Tokens
  CodeOf <- Codes
  AgentOf <- AgentOfToken
  Plain <- Payloads
  MaxEnvelope = 20
  MaxPrefix = 4
  MaxMessages = 2
SYMMETRY SwapDeployments
INVARIANT MessagingTypeOK
INVARIANT PrincipalsApart
INVARIANT Authentic
INVARIANT HonestAccepted
INVARIANT ServesAsConfigured
CHECK_DEADLOCK FALSE
