SPECIFICATION SilentAgents
CONSTANTS
    api1 = api1
    api2 = api2
    db = db
    cache = cache
    ingress = ingress
    svcApi = svcApi
    svcDb = svcDb
    n1 = n1
    n2 = n2
    n3 = n3
    Pods = {api1, api2, db, cache, ingress}
    Services = {svcApi, svcDb}
    Nodes = {n1, n2, n3}
    HomeNode <- MCHomeNode
    IncidentIds = {1, 2, 3}
    NoIncident = NoIncident
    FirstApiPod = api1
    DbPod = db
    CachePod = cache
    LastPod = ingress
    ApiService = svcApi
    DbService = svcDb
    Node1 = n1
    Node2 = n2
    NoTarget = NoTarget
    TargetMttr <- MCTargetMttr
    AdaptationStep = 1
    MaxLevel = 5
    AdvanceThreshold <- MCAdvanceThreshold
    MinReward = 20000
    Actions <- MCActions
    OptionLevels = {1, 4}
    NoLevel = NoLevel
    TemplateKinds <- MCTemplateKinds
    DemoKinds = {"network_timeout"}
    MaxSimTicks = 3
    DemoMaxSteps = 2
    MaxEpisodes = 2
    MaxResults = 2
    MaxSteps = 3
    MaxTicks = 4
INVARIANTS
    TypeOK
    LevelsAgree
    ResolutionIsDeclared
PROPERTIES
    ResolvedMeansHealed
    TruncationIsFinal
    EpisodeEnds
