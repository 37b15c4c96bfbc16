SPECIFICATION Spec
CONSTANTS
    free = free
    demo = demo
    r1 = r1
    r2 = r2
    Users <- MCUsers
    FreeUsers <- MCFreeUsers
    DemoUsers <- MCDemoUsers
    Requests <- MCRequests
    MaxConcurrent = 2
    EpisodesPerMonth = 1
    MaxSessions = 3
INVARIANT QuotaRespected
CHECK_DEADLOCK FALSE
