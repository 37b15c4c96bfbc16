SPECIFICATION Spec
CONSTANTS
    free = free
    demo = demo
    r1 = r1
    r2 = r2
    Users <- MCUsers
    FreeUsers <- MCFreeUsers
    DemoUsers <- MCDemoUsers
    Requests <- MCRequests
    MaxConcurrent = 1
    EpisodesPerMonth = 1
    MaxSessions = 2
INVARIANTS
    TypeOK
    CapacityRespected
    StepsHitTheirEpisode
    FinishedEpisodesAreFiled
SYMMETRY MCSymmetry
CHECK_DEADLOCK FALSE
