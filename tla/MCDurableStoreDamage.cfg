SPECIFICATION Spec
CONSTANTS
  Paths <- Names
  Inodes = {1, 2, 3, 4, 5, 6}
  Torn = Torn
  Journaled = TRUE
  MaxSaves = 4
  MaxKills = 1
  MaxPowerLosses = 1
  MaxFailures = 1
  MaxDamages = 1
INVARIANT PreviousAtWorst
CHECK_DEADLOCK FALSE
