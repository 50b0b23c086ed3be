SPECIFICATION FairSpec
CONSTANTS
  m1 = m1 m2 = m2 c1 = c1 c2 = c2 p1 = p1
  None = none
  Model = {m1}
  Call = {c1, c2}
  Proc = {p1}
  Mortal = {p1}
  Home <- SameWorker
  Candidates <- OneModel
  Threshold = 2
  Cooldown = 1
  MaxCooldown = 2
  CacheTTL = 2
INVARIANT FreshRecovery
PROPERTY NeverShutOff
CHECK_DEADLOCK FALSE
