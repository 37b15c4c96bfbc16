-------------------------- MODULE FailureInjector ---------------------------
(***************************************************************************)
(* chaosmesh_arena/sim/failure_injector.py: the incidents that break the   *)
(* cluster and the remediation that mends it, with the anomalies they put  *)
(* in the MetricsEngine.  Operators on one record w, because a single call *)
(* (an env.reset, a DECLARE_RESOLVED) chains several of them: Incident-    *)
(* Lifecycle drives them on their own, ArenaEnv from reset and step.       *)
(***************************************************************************)
EXTENDS ClusterState

CONSTANTS
    IncidentIds,   \* uuids; their number bounds the incidents active at once
    NoIncident,
    FirstApiPod, DbPod, CachePod, LastPod,  \* pods the injections pick by name or place
    ApiService, DbService,
    Node1, Node2                            \* "node-01" and "node-02"

ASSUME RoleAssumption ==
    /\ {FirstApiPod, DbPod, CachePod, LastPod} \subseteq Pods
    /\ {ApiService, DbService} \subseteq Services
    /\ {Node1, Node2} \subseteq Nodes

Kinds ==
    {"pod_crash", "memory_leak", "network_timeout", "disk_pressure", "image_pull",
     "db_timeout", "node_failure", "rolling_restart", "attack_or_misconfig",
     "perf_degradation", "level4", "level5"}

\* The registry's templates, by the injection each one names.  The two of level 4 and the
\* two of level 5 differ in an argument their injection does not read.
LEVEL_1_TEMPLATES ==
    {"pod_crash", "memory_leak", "network_timeout", "disk_pressure", "image_pull"}
LEVEL_2_TEMPLATES == {"db_timeout", "node_failure", "rolling_restart"}
LEVEL_3_TEMPLATES == {"attack_or_misconfig", "perf_degradation"}
LEVEL_4_TEMPLATES == {"level4"}
LEVEL_5_TEMPLATES == {"level5"}
Registry == <<LEVEL_1_TEMPLATES, LEVEL_2_TEMPLATES, LEVEL_3_TEMPLATES,
              LEVEL_4_TEMPLATES, LEVEL_5_TEMPLATES>>

\* InjectionResult: the part remediate() reads.
Incident == [kind : Kinds, affected_pods : SUBSET Pods,
             affected_services : SUBSET Services]

ASSUME NoIncidentAssumption == NoIncident \notin Incident

ServiceMetrics == {"service_p99_latency_ms", "service_error_rate_percent"}
PodMetrics == {"pod_memory_usage_percent", "pod_restart_count",
               "pod_cpu_usage_percent"}
\* Keys of MetricsEngine._anomalies: a metric and the labels it was injected with.
AnomalyKeys == (PodMetrics \X Pods) \union (ServiceMetrics \X Services)

World ==
    [pods : [Pods -> PodModel], services : [Services -> ServiceModel],
     nodes : [Nodes -> NodeModel], partitions : SUBSET (Zones \X Zones),
     anomalies : SUBSET AnomalyKeys,
     active : [IncidentIds -> Incident \union {NoIncident}]]

Active(w) == {id \in IncidentIds : w.active[id] # NoIncident}

AllResolved(w) == Active(w) = {}

-----------------------------------------------------------------------------
\* ClusterStateMachine.reset and MetricsEngine.reset.  The injector has no reset:
\* what was active stays active.
ResetCluster(w) ==
    [pods |-> [p \in Pods |-> RunningPod],
     services |-> [s \in Services |-> HealthyService],
     nodes |-> [n \in Nodes |-> [condition |-> "Ready", overloaded |-> FALSE]],
     partitions |-> {},
     anomalies |-> {},
     active |-> w.active]

NewWorld == ResetCluster([active |-> [id \in IncidentIds |-> NoIncident]])

WithAnomalies(w, keys) == [w EXCEPT !.anomalies = @ \union keys]

Register(w, id, kind, pods, services) ==
    [w EXCEPT !.active[id] = [kind |-> kind, affected_pods |-> pods,
                              affected_services |-> services]]

InjectPodCrash(w, id) ==
    Register(WithAnomalies(OomPod(w, FirstApiPod),
                           {<<"pod_memory_usage_percent", FirstApiPod>>,
                            <<"pod_restart_count", FirstApiPod>>}),
             id, "pod_crash", {FirstApiPod}, {})

InjectMemoryLeak(w, id) ==
    Register(WithAnomalies(w, {<<"pod_memory_usage_percent", FirstApiPod>>}),
             id, "memory_leak", {FirstApiPod}, {})

InjectNetworkTimeout(w, id) ==
    Register(WithAnomalies(DegradeService(w, ApiService, 15, 2),
                           ServiceMetrics \X {ApiService}),
             id, "network_timeout", {}, {ApiService})

InjectDiskPressure(w, id) ==
    Register([w EXCEPT !.nodes[Node1].condition = "DiskPressure"],
             id, "disk_pressure", {}, {})

InjectImagePullFailure(w, id) ==
    Register([w EXCEPT !.pods[LastPod] = [phase |-> "Pending", ready |-> FALSE]],
             id, "image_pull", {LastPod}, {})

InjectCascadingDbTimeout(w, id) ==
    LET partitioned == ApplyNetworkPartition(w, "us-east-1a", "us-east-1b")
        degraded == DegradeService(DegradeService(partitioned, DbService, 80, 0),
                                   ApiService, 45, 1)
    IN  Register(WithAnomalies(degraded,
                               {<<"service_error_rate_percent", DbService>>,
                                <<"service_p99_latency_ms", ApiService>>}),
                 id, "db_timeout", {DbPod, FirstApiPod}, {DbService, ApiService})

\* Seeded fault: only one pod of the failed node is listed as affected.
InjectNodeFailure_OnePod(w, id) ==
    Register([w EXCEPT !.nodes = [@ EXCEPT ![Node1].condition = "NotReady",
                                           ![Node2].overloaded = TRUE],
                       !.pods = [p \in Pods |-> IF HomeNode[p] = Node1
                                                THEN [phase |-> "Evicted", ready |-> FALSE]
                                                ELSE w.pods[p]]],
             id, "node_failure", {FirstApiPod}, {})

\* Evicts every pod of node-01, then raises node-02's usage to 95%.
InjectNodeFailureCascade(w, id) ==
    Register([w EXCEPT !.nodes = [@ EXCEPT ![Node1].condition = "NotReady",
                                           ![Node2].overloaded = TRUE],
                       !.pods = [p \in Pods |-> IF HomeNode[p] = Node1
                                                THEN EvictPod(w, p).pods[p]
                                                ELSE w.pods[p]]],
             id, "node_failure", Pods, Services)

InjectRollingRestartFailure(w, id) ==
    Register(DegradeService(EvictPod(w, FirstApiPod), ApiService, 30, 1),
             id, "rolling_restart", {FirstApiPod}, {ApiService})

\* Seeded fault: the incident is not put into _active.
InjectAmbiguousAttack_Unregistered(w, id) ==
    DegradeService(WithAnomalies(w, {<<"service_error_rate_percent", ApiService>>}),
                   ApiService, 25, 2)

InjectAmbiguousAttack(w, id) ==
    Register(DegradeService(WithAnomalies(w, {<<"service_error_rate_percent", ApiService>>}),
                            ApiService, 25, 2),
             id, "attack_or_misconfig", {FirstApiPod}, {ApiService})

InjectPerformanceDegradation(w, id) ==
    Register(WithAnomalies(DegradeService(w, ApiService, 8, 2),
                           ({"pod_cpu_usage_percent"} \X Pods)
                             \union {<<"service_p99_latency_ms", ApiService>>}),
             id, "perf_degradation", Pods, {ApiService})

\* The level 4 and level 5 stubs register an incident and break nothing.
InjectLevel4(w, id) ==
    Register(w, id, "level4", {FirstApiPod, CachePod}, {})

InjectLevel5(w, id) ==
    Register(w, id, "level5", {DbPod, LastPod}, {DbService, ApiService})

Inject(w, id, kind) ==
    CASE kind = "pod_crash" -> InjectPodCrash(w, id)
      [] kind = "memory_leak" -> InjectMemoryLeak(w, id)
      [] kind = "network_timeout" -> InjectNetworkTimeout(w, id)
      [] kind = "disk_pressure" -> InjectDiskPressure(w, id)
      [] kind = "image_pull" -> InjectImagePullFailure(w, id)
      [] kind = "db_timeout" -> InjectCascadingDbTimeout(w, id)
      [] kind = "node_failure" -> InjectNodeFailureCascade(w, id)
      [] kind = "rolling_restart" -> InjectRollingRestartFailure(w, id)
      [] kind = "attack_or_misconfig" -> InjectAmbiguousAttack(w, id)
      [] kind = "perf_degradation" -> InjectPerformanceDegradation(w, id)
      [] kind = "level4" -> InjectLevel4(w, id)
      [] kind = "level5" -> InjectLevel5(w, id)

-----------------------------------------------------------------------------
\* Restoring a set of pods, services: one restore per name.
RestorePods(w, ps) == [p \in Pods |-> IF p \in ps THEN RestorePod(w, p).pods[p]
                                                  ELSE w.pods[p]]
RestoreServices(w, ss) ==
    [s \in Services |-> IF s \in ss THEN RestoreService(w, s).services[s]
                                    ELSE w.services[s]]

AllNodesReady(w) == [n \in Nodes |-> [w.nodes[n] EXCEPT !.condition = "Ready"]]

\* Seeded fault: the table is cleared like the anomalies and the partitions.
Remediate_ClosesAll(w, id) ==
    IF w.active[id] = NoIncident
    THEN w
    ELSE [w EXCEPT !.active = [i \in IncidentIds |-> NoIncident],
                   !.pods = RestorePods(w, w.active[id].affected_pods),
                   !.services = RestoreServices(w, w.active[id].affected_services),
                   !.anomalies = {},
                   !.partitions = {},
                   !.nodes = AllNodesReady(w)]

\* Beyond its own pods and services, remediating one incident wipes every anomaly
\* and partition and readies every node, whichever incident they came from.
Remediate(w, id) ==
    IF w.active[id] = NoIncident
    THEN w
    ELSE [w EXCEPT !.active[id] = NoIncident,
                   !.pods = RestorePods(w, w.active[id].affected_pods),
                   !.services = RestoreServices(w, w.active[id].affected_services),
                   !.anomalies = {},
                   !.partitions = {},
                   !.nodes = AllNodesReady(w)]

\* The loop of DECLARE_RESOLVED over get_active_incidents().
RemediateAll(w) ==
    IF AllResolved(w)
    THEN w
    ELSE [pods |-> RestorePods(w, UNION {w.active[id].affected_pods : id \in Active(w)}),
          services |-> RestoreServices(w, UNION {w.active[id].affected_services :
                                                    id \in Active(w)}),
          nodes |-> AllNodesReady(w),
          partitions |-> {},
          anomalies |-> {},
          active |-> [id \in IncidentIds |-> NoIncident]]

\* snapshot_service drops the anomalies of its service whose duration is over.
\* snapshot_pod looks its anomalies up under labels no injection uses.
ExpirableAnomalies(w) == w.anomalies \intersect (ServiceMetrics \X Services)

ExpireAnomalies(w, keys) == [w EXCEPT !.anomalies = @ \ keys]

-----------------------------------------------------------------------------
\* What the active incidents will restore when they are remediated.
OwnedPods(w) == UNION {w.active[id].affected_pods : id \in Active(w)}
OwnedServices(w) == UNION {w.active[id].affected_services : id \in Active(w)}

\* Every unhealthy pod and service is listed by an active incident; nodes, partitions
\* and anomalies are damaged only while some incident is active.  An overloaded node has
\* no owner: Remediate leaves its usage alone.
DamageIsOwned(w) ==
    /\ UnhealthyPods(w) \subseteq OwnedPods(w)
    /\ UnhealthyServices(w) \subseteq OwnedServices(w)
    /\ AllResolved(w) =>
          UnreadyNodes(w) = {} /\ w.partitions = {} /\ w.anomalies = {}
=============================================================================
