SPECIFICATION OperationsSpec
CONSTANTS
    Stages = {0, 4, 5}
    Sections = {"certificates", "databaseAccess"}
    Components = {"platform"}
    MaxRuns = 3
    MaxPlans = 2
    MaxEdits = 2
    Planes = {1, 2}
    MaxOutside = 2
    MaxZoneEdits = 1
    Operators = {"workflow", "local"}
    LastRev = 2
    MaxBreaks = 1
    MaxKeys = 3
    MaxSessions = 2
    MaxRetained = 2
    Subjects = {"s1", "s2"}
    MaxEvents = 2
    MaxOrders = 3
    MaxImports = 1
    MaxMachines = 3
    Clients = {"c1", "c2"}
    MaxEntryEdits = 2
    Accounts = {"openai"}
    Configs = {1}
    Passwords = {"current", "default"}
    Sizes = {1, 2}
    MaxScripts = 2
    MaxSalts = 1
    MaxEvictions = 1
    MaxTurns = 3
    Overlap = FALSE
    TurnLimit = 2
    MemoryLimit = 3
    ContentLimit = 2
    Records = {1, 2}
    Limit = 3
    PendingLimit = 4
    MaxCount = 2
    SyncFails = TRUE
    MaxCrashes = 1
    Renews = FALSE
INVARIANTS
    DeploymentsStand
    ReleasedIsBound
    WayBackKept
    PodsServe
    KeysFitData
    UsedKeysWork
    AdmittedCanWork
    LeftoversKnown
    LeaseAccounted
    AccessReversible
    SaltKept
    NewTemplateFits
    BudgetExact
    SerialAnswers
    IndexAfterContent
    NothingVanishes
PROPERTIES
    TrustKept
    RevokedStaysRevoked
CHECK_DEADLOCK FALSE
