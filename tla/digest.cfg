SPECIFICATION FairSpec
CONSTANTS
  Servers <- MCServers
  DueAt <- MCDueAt
  LastHour = 3
  Fold = 1
  CatchUp = 2
  MaxFaults = 1
  alpha = alpha
  beta = beta
INVARIANTS
  TypeOK
  ExtrasCostFaults
PROPERTIES
  HoursRunInOrder
  EveryHourRuns
CHECK_DEADLOCK FALSE
