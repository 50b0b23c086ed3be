SPECIFICATION FairSpec
CONSTANTS
  Procs = {p1, p2}
  Emitters = {p1}
  Threads = {t1}
  Events = {e1}
  Handlers = {h1, h2}
  MaxAttempts = 2
  QueueBound = 1
  MaxFaults = 1
INVARIANTS TypeOK DoneWasServed
PROPERTIES ImplementsAtLeastOnce
CHECK_DEADLOCK FALSE
