SPECIFICATION FairSpec
CONSTANTS
  Delay = 2
  Timeout = 1
  Period = 1
  Waits = {1}
  Limit = 0
  StreamBound = 2
INVARIANTS
  IInv
  ServerAgrees
  Polite
  DeadWhileAway
PROPERTIES
  AttemptsSpaced
  ComesBack
