SPECIFICATION FairSpec
CONSTANTS
  Name = {a, b, c}
  NoName = NoName
  MaxUpsets = 3
INVARIANTS TypeOK
PROPERTIES LoserLeftAlone OwnerKeepsCR OwnerSettles AmbiguityIsShown
CHECK_DEADLOCK FALSE
