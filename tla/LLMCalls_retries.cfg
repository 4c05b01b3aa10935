SPECIFICATION FairSpec
CONSTANTS
    AgentCount = 3
    MaxAttempts = 3
    MaxRetries = 3
    InitialDelay = 1
    Multiplier = 2
    RetryAfter = 5
    MinimumWait = 2
    SoftTimeLimit = 120
INVARIANTS
    TypeOK
    RequestBudget
    ClassifiedRetried
    WaitsWithinLimit
PROPERTIES
    CallsEnd
CHECK_DEADLOCK FALSE
