SPECIFICATION FairSpec
CONSTANTS
  Records = {1, 2}
  Limit = 3
  PendingLimit = 4
  MaxCount = 2
  SyncFails = FALSE
  MaxCrashes = 1
  Renews = TRUE
INVARIANTS CountersExact SpoolWithinLimit
PROPERTIES OnlyYoungerBlock
CHECK_DEADLOCK FALSE
