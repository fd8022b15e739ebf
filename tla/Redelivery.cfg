SPECIFICATION FairSpec
CONSTANTS
    w1 = w1
    w2 = w2
    Workers <- TwoWorkers
    N = 3
    EntityIds <- ByIds
    ActionType = "update"
    LeavesTarget = FALSE
    Deduplicate = FALSE
    Key <- NoKeys
    NoKey = "none"
    RequestedSize = 2
    DefaultSize = 1000
    MaxSize = 5000
    FlushEvery = 2
    MaxDeferrals = 0
    MaxTries = 3
    InitLimit = 10
    PatchLimits = {}
    InitTables <- AllMatch
    Faults = {"crash"}
    MaxFaults = 2
INVARIANTS
    CompletedIsExact
    TalliesAddUp
PROPERTIES
    EveryBatchReports
