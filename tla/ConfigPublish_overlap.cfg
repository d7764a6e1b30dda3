SPECIFICATION Spec
CONSTANTS
  Kinds = {"settings", "models"}
  Settings = {"s0", "s1"}
  Accounts = {a, b}
  a = a
  b = b
  Runs = {o1, o2}
  o1 = o1
  o2 = o2
  Native = FALSE
  MaxStarts = 3
  MaxUndo = 0
  MaxDrift = 0
INVARIANTS RecordNeverDenies MountedUsable
PROPERTIES PatchAsApproved
CHECK_DEADLOCK FALSE
