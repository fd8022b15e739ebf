SPECIFICATION Spec
CONSTANTS
    w1 = w1
    w2 = w2
    Workers <- TwoWorkers
    N = 3
    EntityIds <- ByFilter
    ActionType = "update"
    LeavesTarget = FALSE
    Deduplicate = TRUE
    Key <- SharedKey
    NoKey = "none"
    RequestedSize = 2
    DefaultSize = 1000
    MaxSize = 5000
    FlushEvery = 1
    MaxDeferrals = 0
    MaxTries = 2
    InitLimit = 2
    PatchLimits = {1}
    InitTables <- AllMatch
    Faults = {"crash", "duplicate", "expire", "timeout", "db_error", "plan_error", "exec_error", "final_error", "cancel", "patch", "leave", "join"}
    MaxFaults = 2
SYMMETRY WorkerSymmetry
INVARIANTS
    TypeOK
    CountersMatchLogs
    ReportedBatchesCounted
    RowBeforeJob
    WorkersHoldRows
    OneWinnerPerKey
    CancelStopsAtBoundary
PROPERTIES
    PlanRowsFrozen
    OnlyPlannerLeavesTerminal
