SPECIFICATION FairSpec
CONSTANTS
  Kinds = {"settings", "models"}
  Settings = {"s0", "s1"}
  Accounts = {a, b}
  a = a
  b = b
  Runs = {o1}
  o1 = o1
  Native = TRUE
  MaxStarts = 3
  MaxUndo = 1
  MaxDrift = 1
INVARIANTS ApprovalUsedOnce CompletedAgrees
PROPERTIES NeverStuck
CHECK_DEADLOCK FALSE
