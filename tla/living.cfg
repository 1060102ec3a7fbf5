SPECIFICATION FairSpec
CONSTANTS
  Actors <- MCBoth
  Clocked <- MCJob
  Channels <- MCChannels
  MaxWeeks = 1
  MaxMessages = 7
  Scenes <- MCScenes
  MaxFaults = 1
  job = job
  handler = handler
  chanA = chanA
  chanB = chanB
INVARIANTS
  TypeOK
  MessageIsKept
PROPERTIES
  WeekIsShown
CHECK_DEADLOCK FALSE
