CONSTANTS
  Lines = {"VI", "DP"}
  POOL_CAPACITY = 4
  StatusValues <- MCStatusValues
  MaxQueued = 1
SPECIFICATION Spec
CHECK_DEADLOCK FALSE
INVARIANTS
  CauseFollowsMi
  DeliveryArmed
PROPERTIES
  Delivered
