SPECIFICATION FairSpec
CONSTANTS
  Orders = {o1, o2}
  NoOrder = NoOrder
  Requests = {n1}
  Scanners = {s1}
  MaxByHand = 1
  MaxLeft = 2
  MaxGrants = 2
  MaxFaults = 1
INVARIANTS TypeOK GrantedOnce
PROPERTIES PastDueSettles
CHECK_DEADLOCK FALSE
