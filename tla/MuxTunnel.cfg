SPECIFICATION FairSpec
CONSTANTS
  Clients = {c1}
  Sessions = {s1, s2}
  Users = {u1}
  MaxDelay = 0
  NoSess = NoSess
INVARIANTS TypeOK SessionsAccounted
PROPERTIES TunnelHeals LetsGo
CHECK_DEADLOCK FALSE
