SPECIFICATION CleanUpRuns
CONSTANTS
    free = free
    demo = demo
    r1 = r1
    r2 = r2
    Users <- MCDemoUsers
    FreeUsers <- MCDemoUsers
    DemoUsers <- MCDemoUsers
    Requests <- MCRequests
    MaxConcurrent = 2
    EpisodesPerMonth = 3
    MaxSessions = 3
PROPERTY OrphansAreReclaimed
CHECK_DEADLOCK FALSE
