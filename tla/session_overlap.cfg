SPECIFICATION Spec
CONSTANTS
  t1 = t1
  t2 = t2
  t3 = t3
  Message = {1, 2, 3, 4}
  Extractable = {1, 3, 4}
  Thread = {t1, t2, t3}
  Requests = {"turn", "prepare", "compact", "commit", "dispose"}
  MaxBuffers = 2
  MaxFailures = 0
  Serial = TRUE
  Preempt = FALSE
  SpawnMayFail = TRUE
CHECK_DEADLOCK FALSE
SYMMETRY Symmetry
   
PROPERTY DisposeWaits
