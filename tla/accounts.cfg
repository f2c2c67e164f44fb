SPECIFICATION Spec
CONSTANTS
  Users = {u1, u2}
  Admins = {u1}
  Browsers = {b1, b2}
  Keys = {k1, k2}
  Links = {t1, t2}
  Requests = {r1}
  Aaguids = {"a1", "a2", "a3"}
  Policies <- MCPolicies
  Traits <- MCTraits
  PASSKEY_REQUIRED = FALSE
  PROXY_AUTH = TRUE
  MaxCount = 2
  MaxEdits = 1
  Focuses = {"links", "pages", "keys"}
  None = None
SYMMETRY Symmetric
INVARIANTS
  SingleUse
  KeyMatchesCeremony
  
  ActionsHonoured
PROPERTY
  CounterRises
CHECK_DEADLOCK FALSE
