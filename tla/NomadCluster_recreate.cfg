SPECIFICATION AnsweredSpec
CONSTANTS
  Addr = {a1}
  NoAddr = NoAddr
  Token = {t1}
  NoToken = NoToken
  Key = {k1}
  NoKey = NoKey
  Servers = 3
  Mode = "Existing"
  MaxLives = 2
  InPlaceWipe = FALSE
INVARIANTS ReadyMeansRegistered
PROPERTIES RollIsPublished Converges
CHECK_DEADLOCK FALSE
