SPECIFICATION Spec
CONSTANTS
  n1 = n1
  n2 = n2
  w1 = w1
  w2 = w2
  Event = {1, 2, 3, 4}
  Node = {n1}
  Worker = {w1}
  Uri <- UriOne
  Kind <- KindMixed
  MaxRetry = 1
  MaxCrashes = 1
  MaxFails = 0
  StorageFaults = TRUE
  HeldMayExpire = FALSE
CHECK_DEADLOCK FALSE
INVARIANTS RemovalJustified
PROPERTY DeliverySpec
