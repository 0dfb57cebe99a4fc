SPECIFICATION Spec
CONSTANTS
  c1 = c1  c2 = c2  c3 = c3
  k1 = k1  k2 = k2  k3 = k3  k4 = k4
  infos = infos
  Callable = {c1, c2}
  Conn <- MCConn
  List <- MCList
  NULL = NULL
  IdleLimit = 0
  CountBound = 3
INVARIANTS
  NoLeak
CHECK_DEADLOCK FALSE
