SPECIFICATION Spec
CONSTANTS
  Interactions = {i1, i2, i3}
  Limits <- SomeLimits
  Span = 2
  Ttl = 1
  MaxEntries = 2
  MaxTime = 2
  Scenes <- SomeScenes
SYMMETRY Alike
INVARIANTS TypeOK AnswersFit LimitsHold CacheTells
CHECK_DEADLOCK FALSE
