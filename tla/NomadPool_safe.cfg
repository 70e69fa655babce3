SPECIFICATION Spec
CONSTANTS
  CRs = {p, q}
  Pools = {x}
  PoolName <- MCPoolName
  Body = {b1}
  Extra = {e0}
  NoExtra = e0
  NoPool = NoPool
  MaxLives = 1
  MaxClusters = 1
  EditsPools = TRUE
SYMMETRY Symmetry
INVARIANTS TypeOK NoOrphan AtMostOneRegistered
CHECK_DEADLOCK FALSE
