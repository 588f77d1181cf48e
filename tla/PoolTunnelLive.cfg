SPECIFICATION FairSpec
CONSTANTS
  Workers = {w1}
  Links = {l1, l2}
  Users = {u1, u2}
  Allowed = {u1}
  MaxDelay = 1
  NoLink = NoLink
  Nobody = Nobody
PROPERTIES PoolRefills NobodyStranded
