SPECIFICATION Spec
CONSTANTS
    Emails = {mail}
    MaxRegistrations = 2
    MaxKeys = 2
    Clients = {c1}
    Started = {"episode", "gym", "tui", "tui_demo", "inference"}
    MAX_RETRIES = 2
    MaxSteps = 2
    MaxCalls = 4
    MaxLate = 1
    MaxEpisodes = 2
INVARIANTS
    TypeOK
    ResultsInOrder
    DriftIsUntold
    RevokedKeyIsRefused
    OneAccountPerEmail
PROPERTY
    CallsReturn
CHECK_DEADLOCK FALSE
