SPECIFICATION FairSpec
CONSTANTS
  CRs = {p}
  Pools = {x}
  PoolName <- MCPoolName
  Body = {b1, b2}
  Extra = {e0}
  NoExtra = e0
  NoPool = NoPool
  MaxLives = 1
  MaxClusters = 2
  EditsPools = FALSE
PROPERTIES PoolIsManaged Converges DeletionCompletes CascadeCompletes
CHECK_DEADLOCK FALSE
