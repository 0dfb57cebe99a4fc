SPECIFICATION FairSpec
CONSTANTS
  b1 = b1  B1 = B1  o1 = o1
  Bot <- MCBot
  Alias <- MCAlias
  Lower <- MCLower
  Owner = {o1}
  NoName = NoName
  MaxGames = 1
  IdMod = 2
  HeardStates = {1, 2}
  HeardIds = {2}
  MadeBound = 3
  ListBound = 2
  PoolBound = 2
  ChangeBound = 2
  DropBound = 1
INVARIANTS
  IInv
PROPERTIES
  NoDoubleOrder
  NotDeadForEver
CHECK_DEADLOCK FALSE
