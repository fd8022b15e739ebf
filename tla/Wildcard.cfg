SPECIFICATION Spec
CONSTANTS
    Posts <- ThreePosts
    Scenarios <- WildcardScenarios
    Accounts <- OneAccount
    Registry <- Descriptors
    ActionTypes <- Types
    Rows <- Table
    Text <- Emails
    MaxFaults = 0
INVARIANTS
    ContainsIsLiteral
