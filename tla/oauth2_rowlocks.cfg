SPECIFICATION Spec
CONSTANTS
  Codes = {c1}
  Grants = {g1, g2}
  Workers = {w1, w2}
  None = None
  AccessTTL = 2
  RefreshTTL = 3
  RefreshIdle = 2
  CodeTTL = 1
  Retention = 0
  RowLocks = TRUE
  KeyAtStart = TRUE
  MaxTime = 4
  MaxGen = 2
SYMMETRY Symmetry
INVARIANTS
  TypeOK
  CodeYieldsOneGrant
  
PROPERTIES
  NoResurrection
  ReplayRevokes
  ImplementsFamily
