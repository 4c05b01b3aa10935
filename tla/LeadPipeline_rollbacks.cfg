SPECIFICATION TwoClassesSpec
CONSTANTS
    Leads = {l1}
    Workers = {w1, w2}
    cold = cold
    hot = hot
    Answers = {cold, hot}
    None = None
    MaxRetries = 1
    ScoreOf <- MCScoreOf
    HighThreshold = 70
    MediumThreshold = 40
    FaultBudget <- AllButCrashes
SYMMETRY Symmetric
ACTION_CONSTRAINT OneAnswer
INVARIANTS TypeOK StageRows ResultsAgree NoticeBacked NotifyOnce NoCategorizationSkip
PROPERTIES StagesForward ResultsImmutable LifecycleKept
CHECK_DEADLOCK FALSE
