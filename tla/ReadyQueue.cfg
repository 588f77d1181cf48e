SPECIFICATION FairSpec
CONSTANTS
  Conns = {c1, c2}
  Getters = {g1, g2}
  Chans = {w1, w2, w3, w4}
  IdleTimeout = 1
  NoConn = NoConn
  NoChan = NoChan
INVARIANTS TypeOK Custody Channels
PROPERTIES PoolSpec HandsOutFreshest CloseReleasesAll ParkedLinkLeaves GetReturns
