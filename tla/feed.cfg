SPECIFICATION Spec
CONSTANTS
  Presses <- MCPresses
  Rsos = {"acm"}
  Events = {"talk"}
  Start = 2
  Scenes <- MCScenes
  MaxIds = 3
  MaxFaults = 1
  phone = phone
  laptop = laptop
INVARIANTS
  TypeOK
  KeptWhole
  AskedIsReminded
PROPERTIES
  MessagesAreWanted
CHECK_DEADLOCK FALSE
