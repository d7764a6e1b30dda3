SPECIFICATION FairSpec
CONSTANTS
  Requests = {r1}
  r1 = r1
  MaxActive = 1
  MaxFrames = 2
  Denials = {"policy_denied", "gateway_error"}
  Faults = {"audit_limit", "invalid_response", "upstream_error"}
INVARIANTS PersistBeforeForward
PROPERTIES EveryCaptureEnds ImplementsLedger
