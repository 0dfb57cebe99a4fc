SPECIFICATION Spec
CONSTANTS
  u1 = u1  u2 = u2
  User <- MCUser
  Known <- MCKnown
  Level = {2}
  AutoLvl = 1
  Delta = {2}
  Default = 7
  Width = 16
  MaxCommands = 2
INVARIANTS
  EarnsAsTold
CHECK_DEADLOCK FALSE
