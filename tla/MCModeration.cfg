SPECIFICATION ModFairSpec
CONSTANTS
  First = 10
  Warn = 18
  Over = 20
  Extend = 10
  MaxLag = 1
  WayBound = 3
INVARIANTS
  ExOnlyLate
  BeliefFollows
  DraftModerated
PROPERTIES
  WindowComes
CHECK_DEADLOCK FALSE
