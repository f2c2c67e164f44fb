SPECIFICATION Spec
CONSTANTS
  Requests = {r1, r2}
  Sweepers = {}
  Uuids = {u1}
  Keys = {key}
  key = key
  Messages = {m1, m2}
  KeyOf <- OneKey
  None = None
SYMMETRY Symmetry
INVARIANTS
  RetainedOrSwept
  ReleaseDelivers
