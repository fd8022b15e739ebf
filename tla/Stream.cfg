SPECIFICATION FairSpec
CONSTANTS
    b1 = b1
    b2 = b2
    b3 = b3
    Batches <- ThreeBatches
    Faults = {"fail", "cancel", "publish", "commit", "disconnect"}
INVARIANTS
    DoneIsTrue
PROPERTIES
    ListenerIsTold
