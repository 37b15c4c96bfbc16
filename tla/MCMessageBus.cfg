SPECIFICATION Spec
CONSTANTS
    Agents = {"diagnostics", "security"}
    Publishers = {p1}
    MaxMessages = 2
    MaxFaults = 1
    Batch = 1
INVARIANTS
    TypeOK
    RedisDeliversOnce
PROPERTIES
    PublishedIsHeard
    IsAMailbox
CHECK_DEADLOCK FALSE
