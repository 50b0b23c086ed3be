SPECIFICATION Spec
CONSTANTS
  m1 = m1 m2 = m2 c1 = c1 c2 = c2 p1 = p1
  None = none
  Model = {m1, m2}
  Call = {c1}
  Proc = {p1}
  Mortal = {p1}
  Home <- SameWorker
  Candidates <- Lists
  Threshold = 2
  Cooldown = 1
  MaxCooldown = 2
  CacheTTL = 1
INVARIANTS TypeOK OneModelAnswers
CHECK_DEADLOCK FALSE
