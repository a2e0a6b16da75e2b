SPECIFICATION FairSpec
CONSTANTS
  n1 = n1
  n2 = n2
  w1 = w1
  w2 = w2
  Event = {1, 2}
  Node = {n1}
  Worker = {w1, w2}
  Uri <- UriOne
  Kind <- KindDelete
  MaxRetry = 1
  MaxCrashes = 0
  MaxFails = 2
  StorageFaults = FALSE
  HeldMayExpire = TRUE
CHECK_DEADLOCK FALSE
INVARIANTS DeadOnlyAfterRetries NoEventLost
 
