SPECIFICATION Spec
CONSTANTS
  Records = {1, 2, 3}
  Limit = 6
  PendingLimit = 4
  MaxCount = 1
  SyncFails = TRUE
  MaxCrashes = 0
  Renews = FALSE
INVARIANTS SpoolWithinLimit
