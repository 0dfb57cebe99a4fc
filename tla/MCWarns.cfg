SPECIFICATION FairSpec
CONSTANTS
  u1 = u1  u2 = u2
  User <- MCUser
  Warnable <- MCWarned
  Bannable <- MCWarned
  Operator = TRUE
  MaxWarns = 1
  WarnTerm = 1
  Terms = {1}
  MaxHour = 2
  MaxCommands = 2
  MaxQueries = 2
INVARIANTS
  SameWarns
  WarningsBounded
PROPERTIES
  BanStands
  BanEnds
CHECK_DEADLOCK FALSE
