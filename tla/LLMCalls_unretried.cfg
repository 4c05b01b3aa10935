SPECIFICATION Spec
CONSTANTS
    AgentCount = 3
    MaxAttempts = 3
    MaxRetries = 3
    InitialDelay = 1
    Multiplier = 2
    RetryAfter = 5
    MinimumWait = 2
    SoftTimeLimit = 120
INVARIANTS
    AllFailuresRetried
CHECK_DEADLOCK FALSE
