SPECIFICATION Spec
CONSTANTS
    Lengths = {20, 60, 101, 250}
    PainCounts = {0, 1, 2, 3, 4}
    HighThresholds = {45, 70, 80}
    MediumThresholds = {40, 50}
INVARIANTS
    ResultExplained
    NeverColder
    LevelMatchesQueue
CHECK_DEADLOCK FALSE
