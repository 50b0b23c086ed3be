SPECIFICATION Spec
CONSTANTS
  t1 = t1 t2 = t2
  Threads = {t1, t2}
  MaxConcurrency = 1
  MaxStarts = 4
  MaxEvents = 1
SYMMETRY Symmetric
INVARIANTS TypeOK RowsAgree DeletedIsGone ConcurrencyBounded RunsTraced
CHECK_DEADLOCK FALSE
