SPECIFICATION Spec
CONSTANTS
    Posts <- ThreePosts
    Scenarios <- NullScenarios
    Accounts <- OneAccount
    Registry <- Descriptors
    ActionTypes <- Types
    Rows <- Table
    Text <- Emails
    MaxFaults = 1
INVARIANTS
    AcceptedIsWritable
