SPECIFICATION FairSpec
CONSTANTS
  MaxEntries = 4
  MaxRolled = 3
  Kinds = {"near", "far", "cancelled", "private", "deleted"}
  MaxAttempts = 2
  MaxIds = 6
  Rolls = {TRUE, FALSE}
  Hazards = {"crash", "fail", "lost", "manual", "permission"}
  MaxFaults = 2
INVARIANTS
  TypeOK
  MirrorInStep
  LossesCostFaults
PROPERTIES
  RollRepairs
CHECK_DEADLOCK FALSE
