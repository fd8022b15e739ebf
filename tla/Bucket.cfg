SPECIFICATION Spec
CONSTANTS
    c1 = c1
    c2 = c2
    Callers <- TwoCallers
    Limits <- BothLimits
    Limit = 2
    Amounts <- AllAmounts
    Minute = 3
    Grace = 2
    Cushion = 1
    MaxDelay = 2
    Horizon = 6
SYMMETRY CallerSymmetry
INVARIANTS
    TypeOK
    GrantedWithinRewinds
PROPERTIES
    RetryIsGranted
