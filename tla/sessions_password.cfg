SPECIFICATION Spec
CONSTANTS
  Users = {u1, u2}
  Sids = {s1, s2}
  Tokens = {t1}
  Requests = {r1}
  None = None
  Anon = Anon
  Timeout = 1
  Lifetime = 1
  MaxTime = 2
SYMMETRY Symmetry
INVARIANTS
  PasswordEndsSessions
