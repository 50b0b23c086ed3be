SPECIFICATION FairSpec
CONSTANTS
  a = a b = b c = c d = d e = e exec = exec
  r1 = r1 r2 = r2 r3 = r3 o1 = o1 p1 = p1 p2 = p2
  None = none
  Main = exec
  Proc = {p1, p2}
  Home <- TwoWorkers
  Node = {a, b, c}
  Edge <- ChainEdges
  Outcomes <- ApprovalOutcomes
  OnError = "pause"
  Request = {r1}
  Operator = {}
  Mortal = {}
PROPERTY ApprovedWorkflowContinues
CHECK_DEADLOCK FALSE
