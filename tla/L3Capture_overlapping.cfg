SPECIFICATION L3Spec
CONSTANTS
    MaxTurns = 2
    Overlap = TRUE
    TurnLimit = 2
    MemoryLimit = 3
    ContentLimit = 2
INVARIANTS OverlappingMarked
CHECK_DEADLOCK FALSE
