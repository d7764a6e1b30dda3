SPECIFICATION Spec
CONSTANTS
  Requests = {r1, r2}
  r1 = r1
  r2 = r2
  MaxActive = 1
  MaxFrames = 1
  Denials = {}
  Faults = {"upstream_error"}
SYMMETRY RequestSymmetry
INVARIANTS SlotsExact
