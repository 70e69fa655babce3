SPECIFICATION FairSpec
CONSTANTS
  Param = {d1, d2}
  Default = d1
  NoDrain = NoDrain
PROPERTIES PendingRestartClears
