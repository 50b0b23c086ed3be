SPECIFICATION FairCronSpec
CONSTANTS
  j1 = j1 j2 = j2 j3 = j3 p1 = p1 t1 = t1 t2 = t2
  Jobs = {j1, j2, j3}
  Processes = {p1}
  Dispatchers = {p1}
  Threads = {t1, t2}
  DependsOn <- Dependencies
  MaxRuns = 1
  MaxRetries = 1
  MaxStarts = 2
  MaxEvents = 1
INVARIANTS CronTypeOK RunningIsExecuted
PROPERTIES DependentsAreReached
CHECK_DEADLOCK FALSE
