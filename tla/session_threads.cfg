SPECIFICATION FairSpec
CONSTANTS
  t1 = t1
  t2 = t2
  t3 = t3
  Message = {1, 2}
  Extractable = {1}
  Thread = {t1, t2}
  Requests = {"turn", "commit", "dispose"}
  MaxBuffers = 2
  MaxFailures = 1
  Serial = FALSE
  Preempt = TRUE
  SpawnMayFail = TRUE
CHECK_DEADLOCK FALSE
PROPERTY ExtractionsEnd
