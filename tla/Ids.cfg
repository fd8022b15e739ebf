SPECIFICATION FairSpec
CONSTANTS
    w1 = w1
    w2 = w2
    Workers <- TwoWorkers
    N = 3
    EntityIds <- ByIds
    ActionType = "hard_delete"
    LeavesTarget = FALSE
    Deduplicate = FALSE
    Key <- NoKeys
    NoKey = "none"
    RequestedSize = 2
    DefaultSize = 1000
    MaxSize = 5000
    FlushEvery = 2
    MaxDeferrals = 1
    MaxTries = 1
    InitLimit = 10
    PatchLimits = {}
    InitTables <- MiddleDeleted
    Faults = {"exec_error", "cancel"}
    MaxFaults = 2
INVARIANTS
    CompletedIsExact
    DisjointSlices
    PlanCoversTarget
PROPERTIES
    OutstandingBatchFinishes
    EveryBatchReports
