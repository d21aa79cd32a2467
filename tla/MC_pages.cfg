CONSTANTS
    MaxPages = 3
    SmartAbove = 2
    MaxRetries = 1
    Costs = {0, 1, 3}
SPECIFICATION FairSpec
INVARIANTS
    TypeOK
    TokensConserved
    FailedPagesAreLocal
PROPERTIES
    ImplementsMetered
    Decides
    StepsRunOut
