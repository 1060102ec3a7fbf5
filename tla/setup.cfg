SPECIFICATION Spec
CONSTANTS
  Managers = {m1, m2}
  Walker = m1
  Rsos <- MCRsos
  Menu <- MCRsos
  Days <- MCDays
  FirstDay = "mon"
  Switchable <- MCSwitchable
  BoundPurposes <- MCPurposes
  Scenes <- MCScenes
  MaxFaults = 1
INVARIANTS
  TypeOK
  DashboardKnowsBound
  HeldIsAnswered
  LeftIsQuiet
  EveryAnswerInReach
PROPERTIES
  DisablesWithCause
  InstructionsAreKept
CHECK_DEADLOCK FALSE
