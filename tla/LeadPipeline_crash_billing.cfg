SPECIFICATION Spec
CONSTANTS
    Leads = {l1}
    Workers = {w1, w2}
    cold = cold
    hot = hot
    Answers = {hot}
    None = None
    MaxRetries = 1
    ScoreOf <- MCScoreOf
    HighThreshold = 70
    MediumThreshold = 40
    FaultBudget <- OneCrash
INVARIANTS BilledOnce
CHECK_DEADLOCK FALSE
