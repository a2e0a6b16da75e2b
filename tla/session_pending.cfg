SPECIFICATION Spec
CONSTANTS
  t1 = t1
  t2 = t2
  t3 = t3
  Message = {1, 2}
  Extractable = {1, 2}
  Thread = {t1, t2}
  Requests = {"turn"}
  MaxBuffers = 1
  MaxFailures = 1
  Serial = TRUE
  Preempt = FALSE
  SpawnMayFail = FALSE
CHECK_DEADLOCK FALSE
SYMMETRY Symmetry
INVARIANT PendingListed
