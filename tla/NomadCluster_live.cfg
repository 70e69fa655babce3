SPECIFICATION FairSpec
CONSTANTS
  Addr = {a1}
  NoAddr = NoAddr
  Token = {t1}
  NoToken = NoToken
  Key = {k1}
  NoKey = NoKey
  Servers = 1
  Mode = "LoadBalancer"
  MaxLives = 1
  InPlaceWipe = TRUE
PROPERTIES Converges LeaderLossIsReported LeavesNothingBehind
CHECK_DEADLOCK FALSE
