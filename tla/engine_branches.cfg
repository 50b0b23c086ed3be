SPECIFICATION FairSpec
CONSTANTS
  a = a b = b c = c d = d e = e exec = exec
  r1 = r1 r2 = r2 r3 = r3 o1 = o1 p1 = p1 p2 = p2
  None = none
  Main = exec
  Proc = {p1, p2}
  Home <- TwoWorkers
  Node = {a, b, c, d, e}
  Edge <- BranchEdges
  Outcomes <- BranchOutcomes
  OnError = "skip"
  Request = {r1}
  Operator = {o1}
  Mortal = {p1, p2}
INVARIANT TypeOK
INVARIANT DrainedRunIsComplete
PROPERTY ThreadsEnd
CHECK_DEADLOCK FALSE
