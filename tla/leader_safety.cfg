SPECIFICATION FairSpec
CONSTANTS
  p1 = p1
  p2 = p2
  p3 = p3
  j1 = j1
  j2 = j2
  k1 = k1
  None = None
  Process = {p1, p2}
  Mortal = {p1}
  Job = {j1}
  Plugin = {k1}
  TTL = 2
  Gap = 1
  Span = 1
  MaxFaults = 1
  MaxEdits = 2
INVARIANTS TypeOK OneLeader NonLeaderSuspended FiresOnce
PROPERTIES SomebodyLeads ImplementsLease
CHECK_DEADLOCK FALSE
