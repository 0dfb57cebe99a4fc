SPECIFICATION Spec
CONSTANTS
  a = a  b = b  c = c  d = d  e = e  h = h
  Player <- MCPlayer
  None = None
  NoPlayers = NoPlayers
  Lvl <- MCLvl
  Banned = {}
  RankPass <- MCRankPass
  FreeHost = {}
  Foreign = {}
  Commands <- MCCommands
  TeamPicks = 2
  PoolLimit = 4
  Word = 7
SYMMETRY MCSymmetry
INVARIANTS
  FreeReadyMeansReserved
CHECK_DEADLOCK FALSE
