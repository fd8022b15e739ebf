SPECIFICATION Spec
CONSTANTS
    b1 = b1
    b2 = b2
    b3 = b3
    Batches <- ThreeBatches
    RowsOf <- Outcomes
    Wanted <- Problems
    PageSize = 1
INVARIANTS
    WalkIsComplete
    BreakdownCoversCounters
