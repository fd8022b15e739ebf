SPECIFICATION Spec
CONSTANTS
    w1 = w1
    w2 = w2
    Workers <- TwoWorkers
    N = 4
    EntityIds <- ByFilter
    ActionType = "update"
    LeavesTarget = TRUE
    Deduplicate = TRUE
    Key <- SharedKey
    NoKey = "none"
    RequestedSize = 5
    DefaultSize = 1000
    MaxSize = 5000
    FlushEvery = 1
    MaxDeferrals = 1
    MaxTries = 1
    InitLimit = 2
    PatchLimits = {}
    InitTables <- MiddleOther
    Faults = {"leave", "exec_error", "timeout", "db_error", "plan_error", "cancel", "commit"}
    MaxFaults = 2
SYMMETRY WorkerSymmetry
INVARIANTS
    CompletedIsExact
    TalliesAddUp
    DisjointSlices
    PlanCoversTarget
    NoDoubleWrite
    BatchFitsLimit
