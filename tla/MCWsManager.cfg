SPECIFICATION Spec
CONSTANTS
    Clients = {c1, c2}
    Tasks = {t1, t2}
    Episodes = {"e1", "e2"}
    Kinds = {"step_complete", "level_advanced"}
    ScopedKinds = {"step_complete"}
    Filters <- MCFilters
    MaxEvents = 2
INVARIANTS
    TypeOK
    OnlyTheGoneArePruned
    PrunedByNextBroadcast
    NoLiveClientMissesAnEvent
PROPERTY
    BroadcastReturns
CHECK_DEADLOCK FALSE
