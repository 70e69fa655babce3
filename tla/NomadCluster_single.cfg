SPECIFICATION Spec
CONSTANTS
  Addr = {a1, a2}
  NoAddr = NoAddr
  Token = {t1, t2}
  NoToken = NoToken
  Key = {k1, k2}
  NoKey = NoKey
  Servers = 1
  Mode = "Managed"
  MaxLives = 1
  InPlaceWipe = FALSE
SYMMETRY Symmetry
INVARIANTS TypeOK RegisteredTokenIsStored ReadyMeansRegistered
  ProvisionedKeepsAccess DriftIsEmitted
PROPERTIES NeverDemoted GossipKeyKept RollIsPublished
CHECK_DEADLOCK FALSE
