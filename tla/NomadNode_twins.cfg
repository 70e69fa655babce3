SPECIFICATION Spec
CONSTANTS
  Param = {d1}
  Default = d1
  NoDrain = NoDrain
INVARIANTS NobodyCordons
