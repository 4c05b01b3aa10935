SPECIFICATION MCSpec
CONSTANTS
    l1 = l1
    l2 = l2
    l3 = l3
    Leads = {l1, l2, l3}
    Workers = {w1, w2}
    cold = cold
    hot = hot
    Answers = {hot}
    None = None
    MaxRetries = 2
    ScoreOf <- MCScoreOf
    HighThreshold = 70
    MediumThreshold = 40
    FaultBudget <- LimitsAndPublish
    LossBudget = 1
    PageSize = 1
SYMMETRY Symmetric
INVARIANTS StreamTypeOK BilledOnce FlaggedIffFailed EmbeddingBacked StrandedOnlyByFault ResultEventBacked EnrichmentEventBacked StreamOrdered PageMatchesTotal NothingSkipped FailuresFlagged QueueEntriesTrue
CHECK_DEADLOCK FALSE
