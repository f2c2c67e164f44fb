SPECIFICATION Spec
CONSTANTS
  net = net
  Workers = {w1, w2}
  home = home
  cafe = cafe
  Ips = {home, cafe}
  Nets = {net}
  Accounts = {u1}
  Unknown = {n1}
  Guesses = {p1, p2, p3}
  Right = Right
  Cookies = {c1}
  None = None
  NetOf <- OneNet
  Attempts <- Neighbours
  UserLimit = 1
  UserWindow = 2
  UserDedup = 2
  IpLimit = 1
  IpWindow = 1
  IpDedup = 1
  Exemption = 2
SYMMETRY Symmetry

  
PROPERTIES
  CookieSpares
  
