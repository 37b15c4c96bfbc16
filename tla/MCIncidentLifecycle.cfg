SPECIFICATION ClusterSpec
CONSTANTS
    api1 = api1
    api2 = api2
    db = db
    cache = cache
    ingress = ingress
    svcApi = svcApi
    svcDb = svcDb
    n1 = n1
    n2 = n2
    n3 = n3
    Pods = {api1, api2, db, cache, ingress}
    Services = {svcApi, svcDb}
    Nodes = {n1, n2, n3}
    HomeNode <- MCHomeNode
    IncidentIds = {inc1, inc2, inc3}
    NoIncident = NoIncident
    FirstApiPod = api1
    DbPod = db
    CachePod = cache
    LastPod = ingress
    ApiService = svcApi
    DbService = svcDb
    Node1 = n1
    Node2 = n2
SYMMETRY Symmetry
INVARIANTS
    ClusterTypeOK
    DamageHasAnOwner
    OrderOfRemediationIsIrrelevant
PROPERTY
    RemediationNeverHarms
