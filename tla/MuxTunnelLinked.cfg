SPECIFICATION Spec
CONSTANTS
  Clients = {c1}
  Sessions = {s1, s2}
  Users = {u1}
  MaxDelay = 1
  NoSess = NoSess
INVARIANTS LinkedIsTrue
CHECK_DEADLOCK FALSE
