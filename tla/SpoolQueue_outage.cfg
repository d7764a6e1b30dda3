SPECIFICATION OutageSpec
CONSTANTS
  Records = {1, 2, 3}
  Limit = 6
  PendingLimit = 2
  MaxCount = 3
  SyncFails = FALSE
  MaxCrashes = 0
  Renews = TRUE
PROPERTIES SpoolDrains
CHECK_DEADLOCK FALSE
