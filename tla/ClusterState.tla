---------------------------- MODULE ClusterState ----------------------------
(***************************************************************************)
(* The simulated cluster of chaosmesh_arena/sim/cluster_state.py: the      *)
(* operations of ClusterStateMachine on a record w whose fields are its    *)
(* _pods, _services, _nodes and _network_partitions.                       *)
(*                                                                         *)
(* Kept of a pod: its phase and ready flag; of a service: its error rate   *)
(* (in percent, 0 for the baseline) and healthy_endpoints; of a node: its  *)
(* condition and whether its usage was raised to 95% of its capacity.      *)
(* CPU and memory figures, latencies, restart counts and the graph carry   *)
(* no decision and are left out.  The operators take names the cluster     *)
(* may not have: the code then returns without a change.                   *)
(***************************************************************************)
EXTENDS Naturals, FiniteSets

CONSTANTS
    Pods, Services, Nodes,
    HomeNode           \* node_name of each pod

ASSUME ClusterAssumption ==
    /\ IsFiniteSet(Pods)
    /\ HomeNode \in [Pods -> Nodes]

PodPhases == {"Running", "Evicted", "Pending", "Failed"}
PodModel == [phase : PodPhases, ready : BOOLEAN]
ServiceModel == [error_rate : Nat, healthy : Nat]
NodeModel == [condition : {"Ready", "NotReady", "DiskPressure"},
              overloaded : BOOLEAN]
Zones == {"us-east-1a", "us-east-1b", "us-east-1c"}

RunningPod == [phase |-> "Running", ready |-> TRUE]

\* _refresh_service_endpoints compares the selector of a service with itself, so
\* every pod counts as an endpoint of every service.
TotalEndpoints == Cardinality(Pods)

HealthyService == [error_rate |-> 0, healthy |-> TotalEndpoints]

\* Seeded fault: the reason of the eviction is stored where its phase goes.
EvictPod_ReasonAsPhase(w, p) ==
    IF p \in Pods
    THEN [w EXCEPT !.pods[p] = [phase |-> "OOMKilled", ready |-> FALSE]]
    ELSE w

EvictPod(w, p) ==
    IF p \in Pods
    THEN [w EXCEPT !.pods[p] = [phase |-> "Evicted", ready |-> FALSE]]
    ELSE w

\* The FAILED phase is overwritten by the eviction that follows it.
OomPod(w, p) ==
    IF p \in Pods
    THEN EvictPod([w EXCEPT !.pods[p] = [phase |-> "Failed", ready |-> FALSE]], p)
    ELSE w

RestorePod(w, p) ==
    IF p \in Pods THEN [w EXCEPT !.pods[p] = RunningPod] ELSE w

\* halves is healthy_frac in halves: 0, 1 or 2.
DegradeService(w, s, error_rate, halves) ==
    IF s \in Services
    THEN [w EXCEPT !.services[s] =
             [error_rate |-> error_rate, healthy |-> (TotalEndpoints * halves) \div 2]]
    ELSE w

\* Seeded fault: the endpoints are recounted from the pods that are ready by then.
RestoreService_Recounts(w, s) ==
    IF s \in Services
    THEN [w EXCEPT !.services[s] =
             [error_rate |-> 0, healthy |-> Cardinality({p \in Pods : w.pods[p].ready})]]
    ELSE w

RestoreService(w, s) ==
    IF s \in Services THEN [w EXCEPT !.services[s] = HealthyService] ELSE w

\* The list may hold a pair twice; it is only ever cleared as a whole.
ApplyNetworkPartition(w, zone_a, zone_b) ==
    [w EXCEPT !.partitions = @ \union {<<zone_a, zone_b>>}]

UnhealthyPods(w) ==
    {p \in Pods : ~w.pods[p].ready \/ w.pods[p].phase # "Running"}

UnhealthyServices(w) ==
    {s \in Services : w.services[s].error_rate > 5 \/ w.services[s].healthy < TotalEndpoints}

UnreadyNodes(w) == {n \in Nodes : w.nodes[n].condition # "Ready"}
=============================================================================
