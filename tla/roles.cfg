SPECIFICATION FairSpec
CONSTANTS
  member = member
  board = board
  roleA = roleA
  roleB = roleB
  Actors <- MCAll
  Levels <- MCLevels
  Roles <- MCRoles
  FirstMapping <- MCEach
  Outside <- MCOutside
  MaxChanges = 3
  MaxFaults = 1
  Scenes <- MCScenes
INVARIANTS
  TypeOK
  StrandedCostsFaults
PROPERTIES
  OnlyGrantedAreTaken
  GrantsSettle
CHECK_DEADLOCK FALSE
