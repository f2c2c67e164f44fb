SPECIFICATION Spec
CONSTANTS
  Clients = {c1, c2}
  Names = {n1, n2}
  Locals = {l1, l2}
  Keys = {k1}
  LegacyKey = k0
  Limits <- MCLimits
  SignupLimits <- MCSignupLimits
  ForeignKeys = TRUE
  MaxRows = 4
  Focuses <- MCFocuses
  None = None
SYMMETRY Symmetry
CHECK_DEADLOCK FALSE
INVARIANTS
  
  QuotaBound
PROPERTIES
  NamesChecked
  DeletesSucceed
  RetiredStaysOff
