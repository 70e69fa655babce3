SPECIFICATION FairSpec
CONSTANTS
  Param = {d1}
  Default = d1
  NoDrain = NoDrain
INVARIANTS TypeOK SeededAsObserved
PROPERTIES RunningDrainKept SpecWins ForgottenIsPruned
