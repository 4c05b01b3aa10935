SPECIFICATION FairSpec
CONSTANTS
    Leads = {l1}
    Workers = {w1}
    cold = cold
    hot = hot
    Answers = {hot}
    None = None
    MaxRetries = 1
    ScoreOf <- MCScoreOf
    HighThreshold = 70
    MediumThreshold = 40
    FaultBudget <- OneCrash
PROPERTIES LeadSettles
CHECK_DEADLOCK FALSE
