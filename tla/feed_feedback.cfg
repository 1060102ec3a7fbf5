SPECIFICATION Spec
CONSTANTS
  Presses <- MCPresses
  Rsos = {"acm"}
  Events = {"talk"}
  Start = 2
  Scenes <- RemindedOnly
  MaxIds = 3
  MaxFaults = 1
  phone = phone
  laptop = laptop
INVARIANTS
  RemindedIsAsked
CHECK_DEADLOCK FALSE
