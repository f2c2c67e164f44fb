SPECIFICATION FairSpec
CONSTANTS
  Codes = {c1, c2}
  Grants = {g1}
  Workers = {w1, w2}
  None = None
  AccessTTL = 1
  RefreshTTL = 3
  RefreshIdle = 2
  CodeTTL = 1
  Retention = 0
  RowLocks = TRUE
  KeyAtStart = FALSE
  MaxTime = 1
  MaxGen = 1
PROPERTIES
  RequestsFinish
  SweepSparesUsable
