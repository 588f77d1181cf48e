SPECIFICATION FairSpec
CONSTANTS
  Conns = {k1, k2}
  NoConn = NoConn
PROPERTIES AlwaysFreed
CHECK_DEADLOCK FALSE
