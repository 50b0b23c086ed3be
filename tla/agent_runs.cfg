SPECIFICATION FairSpec
CONSTANTS
  p1 = p1 p2 = p2
  Home = p1
  Processes = {p1, p2}
  MaxExecutions = 2
  MaxRounds = 2
  MaxCalls = 1
  KeepRecent = 1
  Threshold = 2
  MaxCancels = 1
  MaxFaults = 1
INVARIANTS TypeOK NoOrphans ToldTheTruth Remembered CancelIsDelivered NothingLeft
PROPERTY ExecutionEnds
CHECK_DEADLOCK FALSE
