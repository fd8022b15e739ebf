SPECIFICATION FairSpec
CONSTANTS
    Txn <- FourDeliveries
    Action <- ActionOf
    Batch <- BatchOf
    Slice <- SliceOf
    N = 4
    K = 2
    Key <- KeyOf
    MaxTries = 2
    MaxFaults = 2
INVARIANTS
    TypeOK
    KeysNeverDeadlock
PROPERTIES
    ClaimsAreAtomic
    EveryDeliveryEnds
