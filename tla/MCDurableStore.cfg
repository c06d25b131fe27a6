SPECIFICATION Spec
CONSTANTS
  Paths <- Names
  Inodes = {1, 2, 3, 4, 5, 6}
  Torn = Torn
  Journaled = FALSE
  MaxSaves = 2
  MaxKills = 2
  MaxPowerLosses = 2
  MaxFailures = 1
  MaxDamages = 0
INVARIANTS
  TypeOK
  AlwaysLoads
PROPERTY ImplementsRegister
CHECK_DEADLOCK FALSE
