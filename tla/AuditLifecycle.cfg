SPECIFICATION PartSpec
CONSTANTS
  Requests = {r1}
  r1 = r1
  MaxActive = 1
  MaxFrames = 2
  Denials = {"policy_denied"}
  Faults = {"upstream_error"}
INVARIANTS RetentionReachesAll RecoveryNeverBlocked IndexTellsTheTruth
PROPERTIES HoldRespected RetentionCompletes
