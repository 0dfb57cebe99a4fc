SPECIFICATION FairSpec
CONSTANTS
  u1 = u1  u2 = u2
  User <- MCUser
  Known <- MCKnown
  Level = {2}
  AutoLvl = 1
  Delta = {2}
  Default = 3
  Width = 16
  MaxCommands = 2
INVARIANTS
  IInv
  SequentialAgrees
  OneRowAlone
PROPERTIES
  Heals
CHECK_DEADLOCK FALSE
