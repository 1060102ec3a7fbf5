SPECIFICATION FairSpec
CONSTANTS
  member = member
  board = board
  roleA = roleA
  roleB = roleB
  Actors <- MCAll
  Levels <- MCLevels
  Roles <- MCRoles
  FirstMapping <- MCEach
  Outside <- MCOutside
  MaxChanges = 2
  MaxFaults = 0
  Scenes <- MCRace
PROPERTIES
  LeaverHasNothing
CHECK_DEADLOCK FALSE
