SPECIFICATION FairSpec
CONSTANTS
    Posts <- ThreePosts
    Scenarios <- AllScenarios
    Accounts <- OneAccount
    Registry <- Descriptors
    ActionTypes <- Types
    Rows <- Table
    Text <- Emails
    MaxFaults = 1
INVARIANTS
    OneActionPerKey
    AcceptedIsDurable
    ReplayIsFree
    TargetsOnlyNamed
PROPERTIES
    EveryRequestEnds
