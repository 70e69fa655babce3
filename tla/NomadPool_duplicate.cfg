SPECIFICATION Spec
CONSTANTS
  CRs = {p, q}
  Pools = {x}
  PoolName <- MCPoolName
  Body = {b1}
  Extra = {e0}
  NoExtra = e0
  NoPool = NoPool
  MaxLives = 1
  MaxClusters = 1
  EditsPools = FALSE
PROPERTIES DuplicateLeavesPool
CHECK_DEADLOCK FALSE
