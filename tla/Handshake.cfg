SPECIFICATION FairSpec
CONSTANTS
  Conns = {k1, k2}
  NoConn = NoConn
INVARIANTS TypeOK TokenDecides CleanAgreement
PROPERTIES GoroutineFreed MixedVersionsLink
CHECK_DEADLOCK FALSE
