SPECIFICATION Spec
CONSTANTS
  admin = admin  cap = cap  guest = guest
  Player <- MCPlayer
  None = None
  NoPlayers = NoPlayers
  Lvl <- MCLvl
  Banned = {}
  RankPass <- MCRankPass
  FreeHost = {}
  Foreign <- MCForeign
  Commands <- MCCommands
  TeamPicks = 2
  PoolLimit = 2
  Word = 7
INVARIANTS
  HostOverwritesNobody
  ReservationsReopen
PROPERTIES
  OneSeatEach
CONSTRAINT MCBound
CHECK_DEADLOCK FALSE
