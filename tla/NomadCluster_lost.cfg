SPECIFICATION LossySpec
CONSTANTS
  Addr = {a1}
  NoAddr = NoAddr
  Token = {t1, t2}
  NoToken = NoToken
  Key = {k1}
  NoKey = NoKey
  Servers = 3
  Mode = "Managed"
  MaxLives = 1
  InPlaceWipe = FALSE
PROPERTIES AnnotatedMeansThisToken
CHECK_DEADLOCK FALSE
