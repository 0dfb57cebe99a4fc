SPECIFICATION Spec
CONSTANTS
  a = a  b = b  c = c  d = d  e = e  f = f
  Player <- MCPlayer
  None = None
  NoPlayers = NoPlayers
  Lvl <- MCLvl
  Banned = {}
  RankPass <- MCRankPass
  FreeHost = {}
  Foreign = {}
  Commands <- MCCommands
  TeamPicks = 2
  PoolLimit = 4
  Word = 7
SYMMETRY MCSymmetry
INVARIANTS
  IInv
  OneTeamEach
  TeamsLevel
  PoolLimitRespected
PROPERTIES
  PicksAreFinal
  DraftSpec
CONSTRAINT MCBound
CHECK_DEADLOCK FALSE
