SPECIFICATION FairSpec
CONSTANTS
  NumEntries = 3
  Targets <- MCTargets
  Audience <- MCAudience
  Unhandled <- MCUnhandled
  Poison <- MCPoison
  Closable = {chanB}
  MaxAttempts = 3
  BatchSize = 2
  MaxFaults = 2
  MaxStamps = 1
  chanA = chanA
  chanB = chanB
INVARIANTS
  TypeOK
  CursorCoversFinished
  RepeatsCostFaults
  NothingOwedBehindCursor
PROPERTIES
  DrainReachesOwed
  PromiseSpec
  FeedMoves
CHECK_DEADLOCK FALSE
