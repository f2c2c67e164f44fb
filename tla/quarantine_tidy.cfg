SPECIFICATION FairSpec
CONSTANTS
  Requests = {r1}
  Sweepers = {s1}
  Uuids = {u1}
  Keys = {key}
  key = key
  Messages = {m1}
  KeyOf <- OneKey
  None = None
PROPERTIES
  Tidy
