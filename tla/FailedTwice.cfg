SPECIFICATION Spec
CONSTANTS
    w1 = w1
    w2 = w2
    Workers <- OneWorker
    N = 3
    EntityIds <- ByFilter
    ActionType = "update"
    LeavesTarget = FALSE
    Deduplicate = FALSE
    Key <- NoKeys
    NoKey = "none"
    RequestedSize = 1
    DefaultSize = 1000
    MaxSize = 5000
    FlushEvery = 2
    MaxDeferrals = 0
    MaxTries = 2
    InitLimit = 10
    PatchLimits = {}
    InitTables <- AllMatch
    Faults = {"crash", "final_error"}
    MaxFaults = 2
INVARIANTS
    FailedBatchWroteNothing
