SPECIFICATION Spec
CONSTANTS
  w1 = w1 w2 = w2
  Workers = {w1, w2}
  MaxOps = 2
  MaxRestarts = 1
SYMMETRY Alike
INVARIANTS TypeOK CacheFollowsRegistry LeavesNothing
CHECK_DEADLOCK FALSE
