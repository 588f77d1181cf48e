SPECIFICATION Spec
CONSTANTS
  Workers = {w1, w2}
  Links = {l1, l2, l3}
  Users = {u1, u2}
  Allowed = {u1}
  MaxDelay = 1
  NoLink = NoLink
  Nobody = Nobody
SYMMETRY Interchangeable
INVARIANTS TypeOK UsedOnce GaugesExact
