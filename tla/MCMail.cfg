SPECIFICATION FairSpec
CONSTANTS
  u1 = u1  u2 = u2
  User <- MCUser
  Admin <- MCAdmin
  Hostbot = Hostbot
  All = All
  MaxSended = 2
  MaxReceived = 1
  MaxCommands = 2
  MaxQueries = 3
INVARIANTS
  IInv
  IdsDistinct
  LimitKept
  AnnouncedOnce
  SeenBeforeRead
PROPERTIES
  Heals
CHECK_DEADLOCK FALSE
