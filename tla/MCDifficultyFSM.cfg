SPECIFICATION Spec
CONSTANTS
    MaxLevel = 3
    AdvanceThreshold <- MCAdvanceThreshold
    MinReward = 2
    Results <- MCResults
    MaxEpisodes = 6
INVARIANTS
    TypeOK
    NoAdvanceOwed
    StreakIsTheTrailingRun
PROPERTY
    AdvanceIsEarned
