----------------------- MODULE IncidentLifecycleProofs ----------------------
(***************************************************************************)
(* Lemmas about the operations of the injector and of the cluster, for     *)
(* every cluster, every assignment of the roles and any number of          *)
(* concurrent incidents.                                                   *)
(*                                                                         *)
(* Every operation is either damage (an injection) or repair.  Damages(w,  *)
(* v, ps, ss) bounds what the step from w to v breaks: pods of ps and      *)
(* services of ss at most.  It composes, so each injection is bounded by   *)
(* its parts, and the incident it registers lists that bound.              *)
(*                                                                         *)
(* The theorems about IncidentLifecycle at the end are made of them, and   *)
(* so are those of ArenaEnvProofs.                                         *)
(***************************************************************************)
EXTENDS IncidentLifecycle, TLAPS, FiniteSetTheorems

Damages(w, v, ps, ss) ==
    /\ v \in World
    /\ v.active = w.active
    /\ UnhealthyPods(v) \subseteq UnhealthyPods(w) \union ps
    /\ UnhealthyServices(v) \subseteq UnhealthyServices(w) \union ss

\* The number of pods, hence of endpoints, is a natural number.
LEMMA EndpointsType == TotalEndpoints \in Nat
  BY ClusterAssumption, FS_CardinalityType DEF TotalEndpoints

\* The fields of a world have the types World gives them.
LEMMA WorldFields ==
    ASSUME NEW w \in World
    PROVE  /\ w.pods \in [Pods -> PodModel]
           /\ w.services \in [Services -> ServiceModel]
           /\ w.nodes \in [Nodes -> NodeModel]
           /\ w.partitions \in SUBSET (Zones \X Zones)
           /\ w.anomalies \in SUBSET AnomalyKeys
           /\ w.active \in [IncidentIds -> Incident \union {NoIncident}]
  BY DEF World

\* Bounds on two steps in a row add up, and any larger bound will do.
LEMMA DamagesCompose ==
    ASSUME NEW w, NEW v, NEW u, NEW p1, NEW p2, NEW s1, NEW s2, NEW ps, NEW ss,
           Damages(w, v, p1, s1), Damages(v, u, p2, s2),
           p1 \union p2 \subseteq ps, s1 \union s2 \subseteq ss
    PROVE  Damages(w, u, ps, ss)
  BY DEF Damages

LEMMA DamagesWiden ==
    ASSUME NEW w, NEW v, NEW p1, NEW s1, NEW ps, NEW ss,
           Damages(w, v, p1, s1), p1 \subseteq ps, s1 \subseteq ss
    PROVE  Damages(w, v, ps, ss)
  BY DEF Damages

\* A pod may be given any status of PodModel: that breaks that pod at most.
LEMMA PodStatusDamages ==
    ASSUME NEW w \in World, NEW p \in Pods, NEW pod \in PodModel
    PROVE  Damages(w, [w EXCEPT !.pods[p] = pod], {p}, {})
<1> DEFINE v == [w EXCEPT !.pods[p] = pod]
<1>1. v = [w EXCEPT !.pods = [w.pods EXCEPT ![p] = pod]]
  OBVIOUS
<1>2. [w.pods EXCEPT ![p] = pod] \in [Pods -> PodModel]
  BY WorldFields
<1>3. v \in World
  BY <1>1, <1>2 DEF World
<1>4. /\ v.pods = [w.pods EXCEPT ![p] = pod]
      /\ v.active = w.active
      /\ v.services = w.services
  BY <1>1, WorldFields DEF World
<1>5. UnhealthyPods(v) \subseteq UnhealthyPods(w) \union {p}
  BY <1>4, WorldFields DEF UnhealthyPods
<1>6. UnhealthyServices(v) = UnhealthyServices(w)
  BY <1>4 DEF UnhealthyServices
<1> QED BY <1>3, <1>4, <1>5, <1>6 DEF Damages

\* Evicting a pod breaks that pod and nothing else.
LEMMA EvictDamages ==
    ASSUME NEW w \in World, NEW p \in Pods
    PROVE  Damages(w, EvictPod(w, p), {p}, {})
<1>1. [phase |-> "Evicted", ready |-> FALSE] \in PodModel
  BY DEF PodModel, PodPhases
<1> QED BY <1>1, PodStatusDamages DEF EvictPod

\* An OOM kill breaks its pod, whether or not the intermediate FAILED is kept.
LEMMA OomDamages ==
    ASSUME NEW w \in World, NEW p \in Pods
    PROVE  Damages(w, OomPod(w, p), {p}, {})
<1> DEFINE v == [w EXCEPT !.pods[p] = [phase |-> "Failed", ready |-> FALSE]]
<1>1. [phase |-> "Failed", ready |-> FALSE] \in PodModel
  BY DEF PodModel, PodPhases
<1>2. Damages(w, v, {p}, {})
  BY <1>1, PodStatusDamages
<1>3. v \in World
  BY <1>2 DEF Damages
<1>4. Damages(v, EvictPod(v, p), {p}, {})
  BY <1>3, EvictDamages
<1>5. OomPod(w, p) = EvictPod(v, p)
  BY DEF OomPod
<1> HIDE DEF v
<1> QED BY <1>2, <1>4, <1>5, DamagesCompose

\* Degrading a service breaks that service and nothing else.
LEMMA DegradeDamages ==
    ASSUME NEW w \in World, NEW s \in Services, NEW rate \in Nat, NEW halves \in {0, 1, 2}
    PROVE  Damages(w, DegradeService(w, s, rate, halves), {}, {s})
<1> DEFINE svc == [error_rate |-> rate, healthy |-> (TotalEndpoints * halves) \div 2]
           v == DegradeService(w, s, rate, halves)
<1>1. (TotalEndpoints * halves) \div 2 \in Nat
  <2>1. CASE halves = 0 BY <2>1, EndpointsType
  <2>2. CASE halves = 1 BY <2>2, EndpointsType
  <2>3. CASE halves = 2 BY <2>3, EndpointsType
  <2> QED BY <2>1, <2>2, <2>3
<1>2. svc \in ServiceModel
  BY <1>1 DEF ServiceModel
<1>3. v = [w EXCEPT !.services = [w.services EXCEPT ![s] = svc]]
  BY DEF DegradeService
<1> HIDE DEF svc, v
<1>4. [w.services EXCEPT ![s] = svc] \in [Services -> ServiceModel]
  BY <1>2, WorldFields
<1>5. v \in World
  BY <1>3, <1>4 DEF World
<1>6. /\ v.services = [w.services EXCEPT ![s] = svc]
      /\ v.active = w.active
      /\ v.pods = w.pods
  BY <1>3, WorldFields DEF World
<1>7. UnhealthyServices(v) \subseteq UnhealthyServices(w) \union {s}
  BY <1>6, WorldFields DEF UnhealthyServices
<1>8. UnhealthyPods(v) = UnhealthyPods(w)
  BY <1>6 DEF UnhealthyPods
<1>9. Damages(w, v, {}, {s})
  BY <1>5, <1>6, <1>7, <1>8 DEF Damages
<1> QED BY <1>9 DEF v

\* Anomalies and partitions touch no pod and no service.
LEMMA AnomaliesDamage ==
    ASSUME NEW w \in World, NEW keys \in SUBSET AnomalyKeys
    PROVE  Damages(w, WithAnomalies(w, keys), {}, {})
<1> DEFINE v == WithAnomalies(w, keys)
<1>1. v = [w EXCEPT !.anomalies = w.anomalies \union keys]
  BY DEF WithAnomalies
<1>2. w.anomalies \union keys \in SUBSET AnomalyKeys
  BY WorldFields
<1>3. v \in World
  BY <1>1, <1>2 DEF World
<1>4. v.pods = w.pods /\ v.services = w.services /\ v.active = w.active
  BY <1>1, WorldFields DEF World
<1> QED BY <1>3, <1>4 DEF Damages, UnhealthyPods, UnhealthyServices

LEMMA PartitionDamages ==
    ASSUME NEW w \in World, NEW a \in Zones, NEW b \in Zones
    PROVE  Damages(w, ApplyNetworkPartition(w, a, b), {}, {})
<1> DEFINE v == ApplyNetworkPartition(w, a, b)
<1>1. v = [w EXCEPT !.partitions = w.partitions \union {<<a, b>>}]
  BY DEF ApplyNetworkPartition
<1>2. w.partitions \union {<<a, b>>} \in SUBSET (Zones \X Zones)
  BY WorldFields
<1>3. v \in World
  BY <1>1, <1>2 DEF World
<1>4. v.pods = w.pods /\ v.services = w.services /\ v.active = w.active
  BY <1>1, WorldFields DEF World
<1> QED BY <1>3, <1>4 DEF Damages, UnhealthyPods, UnhealthyServices

LEMMA NodesDamage ==
    ASSUME NEW w \in World, NEW nodes \in [Nodes -> NodeModel]
    PROVE  Damages(w, [w EXCEPT !.nodes = nodes], {}, {})
<1> DEFINE v == [w EXCEPT !.nodes = nodes]
<1>1. v \in World
  BY DEF World
<1>2. v.pods = w.pods /\ v.services = w.services /\ v.active = w.active
  BY WorldFields DEF World
<1> QED BY <1>1, <1>2 DEF Damages, UnhealthyPods, UnhealthyServices

\* NotReady on one node, its pods evicted, another node overloaded: only the pods
\* may break, and the services are counted as broken because the incident lists
\* them all.
LEMMA NodeFailureDamages ==
    ASSUME NEW w \in World
    PROVE  Damages(w, [w EXCEPT !.nodes = [@ EXCEPT ![Node1].condition = "NotReady",
                                                    ![Node2].overloaded = TRUE],
                                !.pods = [p \in Pods |-> IF HomeNode[p] = Node1
                                                         THEN EvictPod(w, p).pods[p]
                                                         ELSE w.pods[p]]],
                   Pods, Services)
<1> DEFINE bad == [condition |-> "NotReady", overloaded |-> w.nodes[Node1].overloaded]
           nodes1 == [w.nodes EXCEPT ![Node1] = bad]
           full == [condition |-> nodes1[Node2].condition, overloaded |-> TRUE]
           nodes2 == [nodes1 EXCEPT ![Node2] = full]
           pods == [p \in Pods |-> IF HomeNode[p] = Node1
                                   THEN EvictPod(w, p).pods[p]
                                   ELSE w.pods[p]]
           v == [w EXCEPT !.nodes = nodes2, !.pods = pods]
<1>1. nodes1 \in [Nodes -> NodeModel]
  BY WorldFields, RoleAssumption DEF NodeModel
<1>2. nodes2 \in [Nodes -> NodeModel]
  <2> HIDE DEF nodes1
  <2>1. full \in NodeModel
    BY <1>1, RoleAssumption DEF NodeModel
  <2> QED BY <1>1, <2>1
<1>3. pods \in [Pods -> PodModel]
  <2>1. ASSUME NEW p \in Pods PROVE EvictPod(w, p).pods \in [Pods -> PodModel]
    BY <2>1, EvictDamages, WorldFields DEF Damages
  <2> QED BY <2>1, WorldFields
<1>4. v = [w EXCEPT !.nodes = [@ EXCEPT ![Node1].condition = "NotReady",
                                        ![Node2].overloaded = TRUE],
                    !.pods = [p \in Pods |-> IF HomeNode[p] = Node1
                                             THEN EvictPod(w, p).pods[p]
                                             ELSE w.pods[p]]]
  <2>1. w.nodes[Node1] = [condition |-> w.nodes[Node1].condition,
                          overloaded |-> w.nodes[Node1].overloaded]
    BY WorldFields, RoleAssumption DEF NodeModel
  <2>2. nodes1 = [w.nodes EXCEPT ![Node1].condition = "NotReady"]
    BY <2>1
  <2>3. nodes1[Node2] = [condition |-> nodes1[Node2].condition,
                         overloaded |-> nodes1[Node2].overloaded]
    BY <1>1, RoleAssumption DEF NodeModel
  <2>4. nodes2 = [nodes1 EXCEPT ![Node2].overloaded = TRUE]
    BY <2>3
  <2> QED BY <2>2, <2>4
<1> HIDE DEF nodes1, nodes2, pods, full, bad
<1>5. v \in World
  BY <1>2, <1>3 DEF World
<1>6. v.active = w.active
  BY DEF World
<1>7. UnhealthyPods(v) \subseteq Pods /\ UnhealthyServices(v) \subseteq Services
  BY DEF UnhealthyPods, UnhealthyServices
<1> HIDE DEF v
<1>8. Damages(w, v, Pods, Services)
  BY <1>5, <1>6, <1>7 DEF Damages
<1> QED BY <1>4, <1>8

\* u adds the incident id to w and owns its damage.
Registers(w, u, id) ==
    /\ u \in World
    /\ DamageIsOwned(u)
    /\ Active(u) = Active(w) \union {id}

\* An incident registered for all the damage its injection did owns it.
LEMMA RegisterOwns ==
    ASSUME NEW w \in World, NEW id \in IncidentIds, w.active[id] = NoIncident,
           DamageIsOwned(w),
           NEW v, NEW kind \in Kinds, NEW ps \in SUBSET Pods, NEW ss \in SUBSET Services,
           Damages(w, v, ps, ss)
    PROVE  Registers(w, Register(v, id, kind, ps, ss), id)
<1> DEFINE inc == [kind |-> kind, affected_pods |-> ps, affected_services |-> ss]
           u == Register(v, id, kind, ps, ss)
<1>1. inc \in Incident
  BY DEF Incident
<1>2. inc # NoIncident
  BY <1>1, NoIncidentAssumption
<1>3. v \in World /\ v.active = w.active
  BY DEF Damages
<1>4. u = [v EXCEPT !.active = [w.active EXCEPT ![id] = inc]]
  BY <1>3 DEF Register
<1>5. inc.affected_pods = ps /\ inc.affected_services = ss
  OBVIOUS
<1> HIDE DEF inc, u
<1>6. [w.active EXCEPT ![id] = inc] \in [IncidentIds -> Incident \union {NoIncident}]
  BY <1>1, WorldFields
<1>7. u \in World
  BY <1>3, <1>4, <1>6 DEF World
<1>8. /\ u.active = [w.active EXCEPT ![id] = inc]
      /\ u.pods = v.pods
      /\ u.services = v.services
  BY <1>3, <1>4, WorldFields DEF World
<1>9. /\ UnhealthyPods(u) = UnhealthyPods(v)
      /\ UnhealthyServices(u) = UnhealthyServices(v)
  BY <1>8 DEF UnhealthyPods, UnhealthyServices
<1>10. /\ u.active[id] = inc
       /\ \A i \in IncidentIds : i # id => u.active[i] = w.active[i]
  BY <1>8, WorldFields
<1>11. Active(u) = Active(w) \union {id} /\ id \notin Active(w)
  BY <1>2, <1>10 DEF Active
<1>12. OwnedPods(u) = OwnedPods(w) \union ps
  <2>1. \A i \in Active(w) : u.active[i] = w.active[i]
    BY <1>10, <1>11 DEF Active
  <2> QED BY <1>5, <1>10, <1>11, <2>1 DEF OwnedPods
<1>13. OwnedServices(u) = OwnedServices(w) \union ss
  <2>1. \A i \in Active(w) : u.active[i] = w.active[i]
    BY <1>10, <1>11 DEF Active
  <2> QED BY <1>5, <1>10, <1>11, <2>1 DEF OwnedServices
<1>14. ~AllResolved(u)
  BY <1>11 DEF AllResolved
<1>15. DamageIsOwned(u)
  BY <1>9, <1>12, <1>13, <1>14 DEF DamageIsOwned, Damages
<1> QED BY <1>7, <1>11, <1>15 DEF u, Registers

\* Each of the twelve injections adds its incident and keeps all damage owned.
LEMMA InjectOwns ==
    ASSUME NEW w \in World, NEW id \in IncidentIds, w.active[id] = NoIncident,
           DamageIsOwned(w), NEW kind \in Kinds
    PROVE  Registers(w, Inject(w, id, kind), id)
<1>1. CASE kind = "pod_crash"
  <2> DEFINE v == OomPod(w, FirstApiPod)
             keys == {<<"pod_memory_usage_percent", FirstApiPod>>,
                      <<"pod_restart_count", FirstApiPod>>}
  <2>1. Damages(w, v, {FirstApiPod}, {})
    BY OomDamages, RoleAssumption
  <2>2. keys \in SUBSET AnomalyKeys
    BY RoleAssumption DEF AnomalyKeys, PodMetrics
  <2>3. Damages(v, WithAnomalies(v, keys), {}, {})
    BY <2>1, <2>2, AnomaliesDamage DEF Damages
  <2>4. Damages(w, WithAnomalies(v, keys), {FirstApiPod}, {})
    BY <2>1, <2>3, DamagesCompose
  <2>5. Inject(w, id, kind)
          = Register(WithAnomalies(v, keys), id, "pod_crash", {FirstApiPod}, {})
    BY <1>1 DEF Inject, InjectPodCrash
  <2> HIDE DEF v, keys
  <2> QED BY <2>4, <2>5, RegisterOwns, RoleAssumption DEF Kinds
<1>2. CASE kind = "memory_leak"
  <2> DEFINE keys == {<<"pod_memory_usage_percent", FirstApiPod>>}
  <2>1. keys \in SUBSET AnomalyKeys
    BY RoleAssumption DEF AnomalyKeys, PodMetrics
  <2>2. Damages(w, WithAnomalies(w, keys), {FirstApiPod}, {})
    BY <2>1, AnomaliesDamage DEF Damages
  <2>3. Inject(w, id, kind)
          = Register(WithAnomalies(w, keys), id, "memory_leak", {FirstApiPod}, {})
    BY <1>2 DEF Inject, InjectMemoryLeak
  <2> HIDE DEF keys
  <2> QED BY <2>2, <2>3, RegisterOwns, RoleAssumption DEF Kinds
<1>3. CASE kind = "network_timeout"
  <2> DEFINE v == DegradeService(w, ApiService, 15, 2)
             keys == ServiceMetrics \X {ApiService}
  <2>1. Damages(w, v, {}, {ApiService})
    BY DegradeDamages, RoleAssumption
  <2>2. keys \in SUBSET AnomalyKeys
    BY RoleAssumption DEF AnomalyKeys
  <2>3. Damages(v, WithAnomalies(v, keys), {}, {})
    BY <2>1, <2>2, AnomaliesDamage DEF Damages
  <2>4. Damages(w, WithAnomalies(v, keys), {}, {ApiService})
    BY <2>1, <2>3, DamagesCompose
  <2>5. Inject(w, id, kind)
          = Register(WithAnomalies(v, keys), id, "network_timeout", {}, {ApiService})
    BY <1>3 DEF Inject, InjectNetworkTimeout
  <2> HIDE DEF v, keys
  <2> QED BY <2>4, <2>5, RegisterOwns, RoleAssumption DEF Kinds
<1>4. CASE kind = "disk_pressure"
  <2> DEFINE node == [condition |-> "DiskPressure",
                      overloaded |-> w.nodes[Node1].overloaded]
             nodes == [w.nodes EXCEPT ![Node1] = node]
  <2>1. nodes \in [Nodes -> NodeModel]
    BY WorldFields, RoleAssumption DEF NodeModel
  <2>2. [w EXCEPT !.nodes[Node1].condition = "DiskPressure"] = [w EXCEPT !.nodes = nodes]
    <3>1. w.nodes[Node1] = [condition |-> w.nodes[Node1].condition,
                            overloaded |-> w.nodes[Node1].overloaded]
      BY WorldFields, RoleAssumption DEF NodeModel
    <3>2. nodes = [w.nodes EXCEPT ![Node1].condition = "DiskPressure"]
      BY <3>1
    <3> QED BY <3>2
  <2> HIDE DEF nodes
  <2>3. Damages(w, [w EXCEPT !.nodes = nodes], {}, {})
    BY <2>1, NodesDamage
  <2>4. Inject(w, id, kind)
          = Register([w EXCEPT !.nodes = nodes], id, "disk_pressure", {}, {})
    BY <1>4, <2>2 DEF Inject, InjectDiskPressure
  <2> QED BY <2>3, <2>4, RegisterOwns DEF Kinds
<1>5. CASE kind = "image_pull"
  <2> DEFINE v == [w EXCEPT !.pods[LastPod] = [phase |-> "Pending", ready |-> FALSE]]
  <2>1. [phase |-> "Pending", ready |-> FALSE] \in PodModel
    BY DEF PodModel, PodPhases
  <2>2. Damages(w, v, {LastPod}, {})
    BY <2>1, PodStatusDamages, RoleAssumption
  <2>3. Inject(w, id, kind) = Register(v, id, "image_pull", {LastPod}, {})
    BY <1>5 DEF Inject, InjectImagePullFailure
  <2> HIDE DEF v
  <2> QED BY <2>2, <2>3, RegisterOwns, RoleAssumption DEF Kinds
<1>6. CASE kind = "db_timeout"
  <2> DEFINE v1 == ApplyNetworkPartition(w, "us-east-1a", "us-east-1b")
             v2 == DegradeService(v1, DbService, 80, 0)
             v3 == DegradeService(v2, ApiService, 45, 1)
             keys == {<<"service_error_rate_percent", DbService>>,
                      <<"service_p99_latency_ms", ApiService>>}
             v4 == WithAnomalies(v3, keys)
             both == {DbService, ApiService}
  <2>1. Damages(w, v1, {}, {})
    BY PartitionDamages DEF Zones
  <2>2. Damages(v1, v2, {}, {DbService})
    BY <2>1, DegradeDamages, RoleAssumption DEF Damages
  <2>3. Damages(v2, v3, {}, {ApiService})
    <3>1. v2 \in World
      BY <2>2 DEF Damages
    <3> HIDE DEF v2
    <3> QED BY <3>1, DegradeDamages, RoleAssumption
  <2>4. keys \in SUBSET AnomalyKeys
    BY RoleAssumption DEF AnomalyKeys, ServiceMetrics
  <2>5. Damages(v3, v4, {}, {})
    BY <2>3, <2>4, AnomaliesDamage DEF Damages
  <2>6. Inject(w, id, kind) = Register(v4, id, "db_timeout", {DbPod, FirstApiPod}, both)
    BY <1>6 DEF Inject, InjectCascadingDbTimeout
  <2> HIDE DEF v1, v2, v3, v4, keys
  <2>7. Damages(w, v2, {}, both)
    BY <2>1, <2>2, DamagesCompose
  <2>8. Damages(w, v3, {}, both)
    BY <2>3, <2>7, DamagesCompose
  <2>9. Damages(w, v4, {DbPod, FirstApiPod}, both)
    BY <2>5, <2>8, DamagesCompose
  <2> QED BY <2>6, <2>9, RegisterOwns, RoleAssumption DEF Kinds
<1>7. CASE kind = "node_failure"
  <2> DEFINE v == [w EXCEPT !.nodes = [@ EXCEPT ![Node1].condition = "NotReady",
                                                ![Node2].overloaded = TRUE],
                            !.pods = [p \in Pods |-> IF HomeNode[p] = Node1
                                                     THEN EvictPod(w, p).pods[p]
                                                     ELSE w.pods[p]]]
  <2>1. Damages(w, v, Pods, Services)
    BY NodeFailureDamages
  <2>2. Inject(w, id, kind) = Register(v, id, "node_failure", Pods, Services)
    BY <1>7 DEF Inject, InjectNodeFailureCascade
  <2> HIDE DEF v
  <2> QED BY <2>1, <2>2, RegisterOwns DEF Kinds
<1>8. CASE kind = "rolling_restart"
  <2> DEFINE v1 == EvictPod(w, FirstApiPod)
             v2 == DegradeService(v1, ApiService, 30, 1)
  <2>1. Damages(w, v1, {FirstApiPod}, {})
    BY EvictDamages, RoleAssumption
  <2>2. Damages(v1, v2, {}, {ApiService})
    BY <2>1, DegradeDamages, RoleAssumption DEF Damages
  <2>3. Inject(w, id, kind)
          = Register(v2, id, "rolling_restart", {FirstApiPod}, {ApiService})
    BY <1>8 DEF Inject, InjectRollingRestartFailure
  <2> HIDE DEF v1, v2
  <2>4. Damages(w, v2, {FirstApiPod}, {ApiService})
    BY <2>1, <2>2, DamagesCompose
  <2> QED BY <2>3, <2>4, RegisterOwns, RoleAssumption DEF Kinds
<1>9. CASE kind = "attack_or_misconfig"
  <2> DEFINE keys == {<<"service_error_rate_percent", ApiService>>}
             v1 == WithAnomalies(w, keys)
             v2 == DegradeService(v1, ApiService, 25, 2)
  <2>1. keys \in SUBSET AnomalyKeys
    BY RoleAssumption DEF AnomalyKeys, ServiceMetrics
  <2>2. Damages(w, v1, {}, {})
    BY <2>1, AnomaliesDamage
  <2>3. Damages(v1, v2, {}, {ApiService})
    <3>1. v1 \in World
      BY <2>2 DEF Damages
    <3> HIDE DEF v1
    <3> QED BY <3>1, DegradeDamages, RoleAssumption
  <2>4. Inject(w, id, kind)
          = Register(v2, id, "attack_or_misconfig", {FirstApiPod}, {ApiService})
    BY <1>9 DEF Inject, InjectAmbiguousAttack
  <2> HIDE DEF v1, v2, keys
  <2>5. Damages(w, v2, {FirstApiPod}, {ApiService})
    BY <2>2, <2>3, DamagesCompose
  <2> QED BY <2>4, <2>5, RegisterOwns, RoleAssumption DEF Kinds
<1>10. CASE kind = "perf_degradation"
  <2> DEFINE keys == ({"pod_cpu_usage_percent"} \X Pods)
                       \union {<<"service_p99_latency_ms", ApiService>>}
             v1 == DegradeService(w, ApiService, 8, 2)
             v2 == WithAnomalies(v1, keys)
  <2>1. keys \in SUBSET AnomalyKeys
    BY RoleAssumption DEF AnomalyKeys, ServiceMetrics, PodMetrics
  <2>2. Damages(w, v1, {}, {ApiService})
    BY DegradeDamages, RoleAssumption
  <2>3. Damages(v1, v2, {}, {})
    BY <2>1, <2>2, AnomaliesDamage DEF Damages
  <2>4. Inject(w, id, kind)
          = Register(v2, id, "perf_degradation", Pods, {ApiService})
    BY <1>10 DEF Inject, InjectPerformanceDegradation
  <2> HIDE DEF v1, v2, keys
  <2>5. Damages(w, v2, Pods, {ApiService})
    BY <2>2, <2>3, DamagesCompose
  <2> QED BY <2>4, <2>5, RegisterOwns, RoleAssumption DEF Kinds
<1>11. CASE kind \in {"level4", "level5"}
  <2>1. \A ps \in SUBSET Pods, ss \in SUBSET Services : Damages(w, w, ps, ss)
    BY DEF Damages
  <2>2. CASE kind = "level4"
    <3>1. Inject(w, id, kind) = Register(w, id, "level4", {FirstApiPod, CachePod}, {})
      BY <2>2 DEF Inject, InjectLevel4
    <3> QED BY <2>1, <3>1, RegisterOwns, RoleAssumption DEF Kinds
  <2>3. CASE kind = "level5"
    <3>1. Inject(w, id, kind)
            = Register(w, id, "level5", {DbPod, LastPod}, {DbService, ApiService})
      BY <2>3 DEF Inject, InjectLevel5
    <3>2. Damages(w, w, {DbPod, LastPod}, {DbService, ApiService})
      BY <2>1, RoleAssumption
    <3> QED BY <3>1, <3>2, RegisterOwns, RoleAssumption DEF Kinds
  <2> QED BY <1>11, <2>2, <2>3
<1> QED BY <1>1, <1>2, <1>3, <1>4, <1>5, <1>6, <1>7, <1>8, <1>9, <1>10, <1>11 DEF Kinds

-----------------------------------------------------------------------------
\* A step that closes no incident and breaks nothing keeps the damage owned.
Mends(w, v) ==
    /\ UnhealthyPods(v) \subseteq UnhealthyPods(w)
    /\ UnhealthyServices(v) \subseteq UnhealthyServices(w)
    /\ UnreadyNodes(v) \subseteq UnreadyNodes(w)
    /\ v.partitions \subseteq w.partitions
    /\ v.anomalies \subseteq w.anomalies

LEMMA MendingOwns ==
    ASSUME NEW w \in World, NEW v \in World, v.active = w.active,
           Mends(w, v), DamageIsOwned(w)
    PROVE  DamageIsOwned(v)
<1>1. Active(v) = Active(w) /\ OwnedPods(v) = OwnedPods(w)
        /\ OwnedServices(v) = OwnedServices(w)
  BY DEF Active, OwnedPods, OwnedServices
<1>2. AllResolved(v) <=> AllResolved(w)
  BY <1>1 DEF AllResolved
<1> QED BY <1>1, <1>2 DEF DamageIsOwned, Mends

LEMMA HealthyTypes ==
    /\ RunningPod \in PodModel
    /\ HealthyService \in ServiceModel
    /\ RunningPod.ready /\ RunningPod.phase = "Running"
    /\ HealthyService.error_rate = 0 /\ HealthyService.healthy = TotalEndpoints
  BY EndpointsType
     DEF RunningPod, HealthyService, PodModel, PodPhases, ServiceModel

\* Restoring a set of pods heals exactly those, and the same for services.
LEMMA RestorePodsHeals ==
    ASSUME NEW w \in World, NEW ps
    PROVE  /\ RestorePods(w, ps) \in [Pods -> PodModel]
           /\ \A p \in Pods : RestorePods(w, ps)[p] = IF p \in ps THEN RunningPod
                                                                  ELSE w.pods[p]
<1>1. ASSUME NEW p \in Pods PROVE RestorePod(w, p).pods[p] = RunningPod
  BY WorldFields DEF RestorePod, World
<1> QED BY <1>1, WorldFields, HealthyTypes DEF RestorePods

LEMMA RestoreServicesHeals ==
    ASSUME NEW w \in World, NEW ss
    PROVE  /\ RestoreServices(w, ss) \in [Services -> ServiceModel]
           /\ \A s \in Services : RestoreServices(w, ss)[s] =
                                    IF s \in ss THEN HealthyService ELSE w.services[s]
<1>1. ASSUME NEW s \in Services PROVE RestoreService(w, s).services[s] = HealthyService
  BY WorldFields DEF RestoreService, World
<1> QED BY <1>1, WorldFields, HealthyTypes DEF RestoreServices

LEMMA AllNodesReadyHeals ==
    ASSUME NEW w \in World
    PROVE  /\ AllNodesReady(w) \in [Nodes -> NodeModel]
           /\ \A n \in Nodes : AllNodesReady(w)[n].condition = "Ready"
<1>1. ASSUME NEW n \in Nodes
      PROVE  /\ [w.nodes[n] EXCEPT !.condition = "Ready"] \in NodeModel
             /\ [w.nodes[n] EXCEPT !.condition = "Ready"].condition = "Ready"
  BY WorldFields DEF NodeModel
<1> QED BY <1>1 DEF AllNodesReady

\* A repair of one pod, of one service, or a snapshot that drops anomalies mends.
LEMMA RestorePodMends ==
    ASSUME NEW w \in World, NEW p \in Pods
    PROVE  /\ RestorePod(w, p) \in World
           /\ RestorePod(w, p).active = w.active
           /\ Mends(w, RestorePod(w, p))
<1> DEFINE v == RestorePod(w, p)
<1>1. v = [w EXCEPT !.pods = [w.pods EXCEPT ![p] = RunningPod]]
  BY DEF RestorePod
<1>2. [w.pods EXCEPT ![p] = RunningPod] \in [Pods -> PodModel]
  BY WorldFields, HealthyTypes
<1>3. v \in World
  BY <1>1, <1>2 DEF World
<1>4. /\ v.pods = [w.pods EXCEPT ![p] = RunningPod]
      /\ v.services = w.services /\ v.nodes = w.nodes
      /\ v.partitions = w.partitions /\ v.anomalies = w.anomalies
      /\ v.active = w.active
  BY <1>1, WorldFields DEF World
<1> HIDE DEF v
<1>5. UnhealthyPods(v) \subseteq UnhealthyPods(w)
  BY <1>4, WorldFields, HealthyTypes DEF UnhealthyPods
<1>6. /\ UnhealthyServices(v) = UnhealthyServices(w)
      /\ UnreadyNodes(v) = UnreadyNodes(w)
  BY <1>4 DEF UnhealthyServices, UnreadyNodes
<1>7. v \in World /\ v.active = w.active /\ Mends(w, v)
  BY <1>3, <1>4, <1>5, <1>6 DEF Mends
<1> QED BY <1>7 DEF v

LEMMA RestoreServiceMends ==
    ASSUME NEW w \in World, NEW s \in Services
    PROVE  /\ RestoreService(w, s) \in World
           /\ RestoreService(w, s).active = w.active
           /\ Mends(w, RestoreService(w, s))
<1> DEFINE v == RestoreService(w, s)
<1>1. v = [w EXCEPT !.services = [w.services EXCEPT ![s] = HealthyService]]
  BY DEF RestoreService
<1>2. [w.services EXCEPT ![s] = HealthyService] \in [Services -> ServiceModel]
  BY WorldFields, HealthyTypes
<1>3. v \in World
  BY <1>1, <1>2 DEF World
<1>4. /\ v.services = [w.services EXCEPT ![s] = HealthyService]
      /\ v.pods = w.pods /\ v.nodes = w.nodes
      /\ v.partitions = w.partitions /\ v.anomalies = w.anomalies
      /\ v.active = w.active
  BY <1>1, WorldFields DEF World
<1> HIDE DEF v
<1>5. UnhealthyServices(v) \subseteq UnhealthyServices(w)
  BY <1>4, WorldFields, HealthyTypes, EndpointsType DEF UnhealthyServices
<1>6. UnhealthyPods(v) = UnhealthyPods(w) /\ UnreadyNodes(v) = UnreadyNodes(w)
  BY <1>4 DEF UnhealthyPods, UnreadyNodes
<1>7. v \in World /\ v.active = w.active /\ Mends(w, v)
  BY <1>3, <1>4, <1>5, <1>6 DEF Mends
<1> QED BY <1>7 DEF v

LEMMA ExpiryMends ==
    ASSUME NEW w \in World, NEW keys
    PROVE  /\ ExpireAnomalies(w, keys) \in World
           /\ ExpireAnomalies(w, keys).active = w.active
           /\ Mends(w, ExpireAnomalies(w, keys))
<1> DEFINE v == ExpireAnomalies(w, keys)
<1>1. v = [w EXCEPT !.anomalies = w.anomalies \ keys]
  BY DEF ExpireAnomalies
<1>2. w.anomalies \ keys \in SUBSET AnomalyKeys
  BY WorldFields
<1>3. v \in World
  BY <1>1, <1>2 DEF World
<1>4. /\ v.services = w.services /\ v.pods = w.pods /\ v.nodes = w.nodes
      /\ v.partitions = w.partitions /\ v.anomalies \subseteq w.anomalies
      /\ v.active = w.active
  BY <1>1, WorldFields DEF World
<1> QED BY <1>3, <1>4 DEF Mends, UnhealthyPods, UnhealthyServices, UnreadyNodes

\* Nothing is damaged after a reset, whichever incidents it leaves active.
LEMMA ResetOwns ==
    ASSUME NEW w, w.active \in [IncidentIds -> Incident \union {NoIncident}]
    PROVE  ResetCluster(w) \in World /\ DamageIsOwned(ResetCluster(w))
<1> DEFINE v == ResetCluster(w)
<1>1. /\ v.pods = [p \in Pods |-> RunningPod]
      /\ v.services = [s \in Services |-> HealthyService]
      /\ v.nodes = [n \in Nodes |-> [condition |-> "Ready", overloaded |-> FALSE]]
      /\ v.partitions = {} /\ v.anomalies = {}
      /\ v.active = w.active
  BY DEF ResetCluster
<1>2. \A n \in Nodes : [condition |-> "Ready", overloaded |-> FALSE] \in NodeModel
  BY DEF NodeModel
<1>3. v \in World
  BY <1>2, HealthyTypes DEF World, ResetCluster
<1> HIDE DEF v
<1>4. UnhealthyPods(v) = {}
  BY <1>1, HealthyTypes DEF UnhealthyPods
<1>5. UnhealthyServices(v) = {}
  BY <1>1, HealthyTypes, EndpointsType DEF UnhealthyServices
<1>6. UnreadyNodes(v) = {}
  BY <1>1 DEF UnreadyNodes
<1>7. v \in World /\ DamageIsOwned(v)
  BY <1>1, <1>3, <1>4, <1>5, <1>6 DEF DamageIsOwned
<1> QED BY <1>7 DEF v

\* What remediating one active incident does.
LEMMA RemediateEffect ==
    ASSUME NEW w \in World, NEW id \in IncidentIds, w.active[id] # NoIncident
    PROVE  LET v == Remediate(w, id)
           IN  /\ v \in World
               /\ v.active = [w.active EXCEPT ![id] = NoIncident]
               /\ v.pods = RestorePods(w, w.active[id].affected_pods)
               /\ v.services = RestoreServices(w, w.active[id].affected_services)
               /\ v.nodes = AllNodesReady(w)
               /\ v.partitions = {}
               /\ v.anomalies = {}
<1> DEFINE v == Remediate(w, id)
           active == [w.active EXCEPT ![id] = NoIncident]
           pods == RestorePods(w, w.active[id].affected_pods)
           services == RestoreServices(w, w.active[id].affected_services)
           nodes == AllNodesReady(w)
<1>1. v = [w EXCEPT !.active = active, !.pods = pods, !.services = services,
                    !.anomalies = {}, !.partitions = {}, !.nodes = nodes]
  BY DEF Remediate
<1>2. active \in [IncidentIds -> Incident \union {NoIncident}]
  BY WorldFields
<1>3. /\ pods \in [Pods -> PodModel]
      /\ services \in [Services -> ServiceModel]
      /\ nodes \in [Nodes -> NodeModel]
  BY RestorePodsHeals, RestoreServicesHeals, AllNodesReadyHeals
<1> HIDE DEF active, pods, services, nodes, v
<1>4. v \in World
  BY <1>1, <1>2, <1>3 DEF World
<1>5. /\ v.active = active /\ v.pods = pods /\ v.services = services
      /\ v.nodes = nodes /\ v.partitions = {} /\ v.anomalies = {}
  BY <1>1 DEF World
<1> QED BY <1>4, <1>5 DEF v, active, pods, services, nodes

\* The same, in terms of what is unhealthy.
LEMMA RemediateHeals ==
    ASSUME NEW w \in World, NEW id \in IncidentIds, w.active[id] # NoIncident
    PROVE  LET v == Remediate(w, id)
           IN  /\ UnhealthyPods(v) = UnhealthyPods(w) \ w.active[id].affected_pods
               /\ UnhealthyServices(v)
                    = UnhealthyServices(w) \ w.active[id].affected_services
               /\ UnreadyNodes(v) = {}
               /\ Active(v) = Active(w) \ {id}
<1> DEFINE v == Remediate(w, id)
           ps == w.active[id].affected_pods
           ss == w.active[id].affected_services
<1>1. /\ v.active = [w.active EXCEPT ![id] = NoIncident]
      /\ v.pods = RestorePods(w, ps)
      /\ v.services = RestoreServices(w, ss)
      /\ v.nodes = AllNodesReady(w)
  BY RemediateEffect
<1> HIDE DEF v, ps, ss
<1>2. UnhealthyPods(v) = UnhealthyPods(w) \ ps
  BY <1>1, RestorePodsHeals, HealthyTypes DEF UnhealthyPods
<1>3. UnhealthyServices(v) = UnhealthyServices(w) \ ss
  <2>1. ~(HealthyService.error_rate > 5 \/ HealthyService.healthy < TotalEndpoints)
    BY HealthyTypes, EndpointsType
  <2> QED BY <1>1, <2>1, RestoreServicesHeals DEF UnhealthyServices
<1>4. UnreadyNodes(v) = {}
  BY <1>1, AllNodesReadyHeals DEF UnreadyNodes
<1>5. Active(v) = Active(w) \ {id}
  BY <1>1, WorldFields DEF Active
<1> QED BY <1>2, <1>3, <1>4, <1>5 DEF v, ps, ss

\* Remediating one incident leaves every other incident its own damage.
LEMMA RemediateOwns ==
    ASSUME NEW w \in World, NEW id \in IncidentIds, DamageIsOwned(w)
    PROVE  Remediate(w, id) \in World /\ DamageIsOwned(Remediate(w, id))
<1>1. CASE w.active[id] = NoIncident
  BY <1>1 DEF Remediate
<1>2. CASE w.active[id] # NoIncident
  <2> DEFINE v == Remediate(w, id)
             ps == w.active[id].affected_pods
             ss == w.active[id].affected_services
  <2>1. /\ v \in World /\ v.partitions = {} /\ v.anomalies = {}
        /\ v.active = [w.active EXCEPT ![id] = NoIncident]
    BY <1>2, RemediateEffect
  <2>2. /\ UnhealthyPods(v) = UnhealthyPods(w) \ ps
        /\ UnhealthyServices(v) = UnhealthyServices(w) \ ss
        /\ UnreadyNodes(v) = {}
        /\ Active(v) = Active(w) \ {id}
    BY <1>2, RemediateHeals
  <2> HIDE DEF v
  <2>3. \A i \in Active(v) : v.active[i] = w.active[i]
    BY <2>1, <2>2, WorldFields DEF Active
  <2>4. OwnedPods(w) \ ps \subseteq OwnedPods(v)
    BY <2>2, <2>3 DEF OwnedPods
  <2>5. OwnedServices(w) \ ss \subseteq OwnedServices(v)
    BY <2>2, <2>3 DEF OwnedServices
  <2>6. v \in World /\ DamageIsOwned(v)
    BY <2>1, <2>2, <2>4, <2>5 DEF DamageIsOwned
  <2> QED BY <2>6 DEF v
<1> QED BY <1>1, <1>2

\* After DECLARE_RESOLVED nothing is damaged and nothing is active.
LEMMA RemediateAllOwns ==
    ASSUME NEW w \in World, DamageIsOwned(w)
    PROVE  /\ RemediateAll(w) \in World
           /\ DamageIsOwned(RemediateAll(w))
           /\ AllResolved(RemediateAll(w))
<1>1. CASE AllResolved(w)
  BY <1>1 DEF RemediateAll
<1>2. CASE ~AllResolved(w)
  <2> DEFINE v == RemediateAll(w)
  <2>1. /\ v.pods = RestorePods(w, OwnedPods(w))
        /\ v.services = RestoreServices(w, OwnedServices(w))
        /\ v.nodes = AllNodesReady(w)
        /\ v.partitions = {} /\ v.anomalies = {}
        /\ v.active = [i \in IncidentIds |-> NoIncident]
    BY <1>2 DEF RemediateAll, OwnedPods, OwnedServices
  <2>2. v \in World
    BY <1>2, RestorePodsHeals, RestoreServicesHeals, AllNodesReadyHeals
       DEF RemediateAll, World
  <2> HIDE DEF v
  <2>3. UnhealthyPods(v) = {}
    BY <2>1, RestorePodsHeals, HealthyTypes DEF UnhealthyPods, DamageIsOwned
  <2>4. UnhealthyServices(v) = {}
    <3>1. ~(HealthyService.error_rate > 5 \/ HealthyService.healthy < TotalEndpoints)
      BY HealthyTypes, EndpointsType
    <3> QED BY <2>1, <3>1, RestoreServicesHeals DEF UnhealthyServices, DamageIsOwned
  <2>5. UnreadyNodes(v) = {}
    BY <2>1, AllNodesReadyHeals DEF UnreadyNodes
  <2>6. AllResolved(v)
    BY <2>1 DEF AllResolved, Active
  <2>7. v \in World /\ DamageIsOwned(v) /\ AllResolved(v)
    BY <2>1, <2>2, <2>3, <2>4, <2>5, <2>6 DEF DamageIsOwned
  <2> QED BY <2>7 DEF v
<1> QED BY <1>1, <1>2

-----------------------------------------------------------------------------
\* A set of nodes readied twice is what it is readied once.
LEMMA AllNodesReadyTwice ==
    ASSUME NEW w \in World, NEW v, v.nodes = AllNodesReady(w)
    PROVE  AllNodesReady(v) = AllNodesReady(w)
<1>1. ASSUME NEW n \in Nodes
      PROVE  [v.nodes[n] EXCEPT !.condition = "Ready"]
               = [w.nodes[n] EXCEPT !.condition = "Ready"]
  <2>1. v.nodes[n] = [w.nodes[n] EXCEPT !.condition = "Ready"]
    BY DEF AllNodesReady
  <2>2. w.nodes[n] \in NodeModel
    BY WorldFields
  <2> QED BY <2>1, <2>2 DEF NodeModel
<1> QED BY <1>1 DEF AllNodesReady

\* Two worlds with the same fields are the same.
LEMMA WorldExtensionality ==
    ASSUME NEW v \in World, NEW u \in World,
           v.pods = u.pods, v.services = u.services, v.nodes = u.nodes,
           v.partitions = u.partitions, v.anomalies = u.anomalies,
           v.active = u.active
    PROVE  v = u
  BY DEF World

\* Remediating any one incident before the rest ends where remediating all does.
LEMMA OrderLemma ==
    ASSUME NEW w \in World, NEW id \in IncidentIds, DamageIsOwned(w)
    PROVE  RemediateAll(Remediate(w, id)) = RemediateAll(w)
<1>1. CASE w.active[id] = NoIncident
  BY <1>1 DEF Remediate
<1>2. CASE w.active[id] # NoIncident
  <2> DEFINE v == Remediate(w, id)
             ps == w.active[id].affected_pods
             ss == w.active[id].affected_services
             all == RemediateAll(w)
             rest == RemediateAll(v)
  <2>1. /\ v \in World
        /\ v.active = [w.active EXCEPT ![id] = NoIncident]
        /\ v.pods = RestorePods(w, ps)
        /\ v.services = RestoreServices(w, ss)
        /\ v.nodes = AllNodesReady(w)
        /\ v.partitions = {} /\ v.anomalies = {}
        /\ Active(v) = Active(w) \ {id}
        /\ id \in Active(w)
    BY <1>2, RemediateEffect, RemediateHeals DEF Active
  <2>2. /\ all.pods = RestorePods(w, OwnedPods(w))
        /\ all.services = RestoreServices(w, OwnedServices(w))
        /\ all.nodes = AllNodesReady(w)
        /\ all.partitions = {} /\ all.anomalies = {}
        /\ all.active = [i \in IncidentIds |-> NoIncident]
    BY <2>1 DEF RemediateAll, OwnedPods, OwnedServices, AllResolved
  <2>3. all \in World /\ rest \in World
    BY <2>1, RemediateAllOwns, RemediateOwns
  <2>4. \A i \in Active(v) : v.active[i] = w.active[i]
    BY <2>1, WorldFields DEF Active
  <2>5. OwnedPods(w) = OwnedPods(v) \union ps
    BY <2>1, <2>4 DEF OwnedPods
  <2>6. OwnedServices(w) = OwnedServices(v) \union ss
    BY <2>1, <2>4 DEF OwnedServices
  <2>7. ASSUME AllResolved(v) PROVE rest = all
    <3>1. rest = v
      BY <2>7 DEF RemediateAll
    <3>2. OwnedPods(w) = ps /\ OwnedServices(w) = ss
      BY <2>5, <2>6, <2>7 DEF AllResolved, OwnedPods, OwnedServices
    <3>3. v.active = [i \in IncidentIds |-> NoIncident]
      <4>1. \A i \in IncidentIds : v.active[i] = NoIncident
        BY <2>7 DEF AllResolved, Active
      <4> QED BY <2>1, <4>1, WorldFields
    <3> HIDE DEF v, all, rest, ps, ss
    <3>4. /\ rest.pods = all.pods /\ rest.services = all.services
          /\ rest.nodes = all.nodes /\ rest.partitions = all.partitions
          /\ rest.anomalies = all.anomalies
      BY <2>1, <2>2, <3>1, <3>2
    <3>5. rest.active = all.active
      BY <2>2, <3>1, <3>3
    <3> QED BY <2>3, <3>4, <3>5, WorldExtensionality
  <2>8. ASSUME ~AllResolved(v) PROVE rest = all
    <3>1. /\ rest.pods = RestorePods(v, OwnedPods(v))
          /\ rest.services = RestoreServices(v, OwnedServices(v))
          /\ rest.nodes = AllNodesReady(v)
          /\ rest.partitions = {} /\ rest.anomalies = {}
          /\ rest.active = [i \in IncidentIds |-> NoIncident]
      BY <2>8 DEF RemediateAll, OwnedPods, OwnedServices
    <3> HIDE DEF v, all, rest
    <3>2. rest.pods = all.pods
      BY <2>1, <2>2, <2>5, <3>1, RestorePodsHeals
    <3>3. rest.services = all.services
      BY <2>1, <2>2, <2>6, <3>1, RestoreServicesHeals
    <3>4. rest.nodes = all.nodes
      BY <2>1, <2>2, <3>1, AllNodesReadyTwice
    <3> QED BY <2>2, <2>3, <3>1, <3>2, <3>3, <3>4, WorldExtensionality
  <2>9. rest = all
    BY <2>7, <2>8
  <2> QED BY <2>9
<1> QED BY <1>1, <1>2

-----------------------------------------------------------------------------
(* Theorems                                                                  *)

\* DamageHasAnOwner is inductive together with the types.
ClusterInv == ClusterTypeOK /\ DamageHasAnOwner

LEMMA InitClusterInv == ClusterInit => ClusterInv
<1>1. [active |-> [id \in IncidentIds |-> NoIncident]].active
        \in [IncidentIds -> Incident \union {NoIncident}]
  OBVIOUS
<1> QED BY <1>1, ResetOwns DEF ClusterInit, NewWorld, ClusterInv, ClusterTypeOK, DamageHasAnOwner

LEMMA NextClusterInv == ClusterInv /\ [ClusterNext]_cluster => ClusterInv'
<1> SUFFICES ASSUME ClusterInv, [ClusterNext]_cluster
             PROVE  ClusterInv'
  OBVIOUS
<1> USE DEF ClusterInv, ClusterTypeOK, DamageHasAnOwner
<1>1. ASSUME NEW id \in IncidentIds, NEW kind \in Kinds, InjectIncident(id, kind)
      PROVE  ClusterInv'
  BY <1>1, InjectOwns DEF InjectIncident, Registers
<1>2. ASSUME NEW p \in Pods, RepairPod(p)
      PROVE  ClusterInv'
  BY <1>2, RestorePodMends, MendingOwns DEF RepairPod
<1>3. ASSUME NEW s \in Services, RepairService(s)
      PROVE  ClusterInv'
  BY <1>3, RestoreServiceMends, MendingOwns DEF RepairService
<1>4. ASSUME NEW id \in IncidentIds, RemediateIncident(id)
      PROVE  ClusterInv'
  BY <1>4, RemediateOwns DEF RemediateIncident
<1>5. CASE DeclareResolved
  BY <1>5, RemediateAllOwns DEF DeclareResolved
<1>6. CASE ClusterReset
  BY <1>6, ResetOwns, WorldFields DEF ClusterReset
<1>7. CASE SnapshotServices
  BY <1>7, ExpiryMends, MendingOwns DEF SnapshotServices
<1>8. CASE UNCHANGED cluster
  BY <1>8
<1> QED BY <1>1, <1>2, <1>3, <1>4, <1>5, <1>6, <1>7, <1>8 DEF ClusterNext

LEMMA ClusterInvariance == ClusterSpec => []ClusterInv
  BY InitClusterInv, NextClusterInv, PTL DEF ClusterSpec

\* The cluster and the incident table keep their shapes, whatever the cluster.
THEOREM ClusterTypeCorrect == ClusterSpec => []ClusterTypeOK
<1>1. ClusterInv => ClusterTypeOK
  BY DEF ClusterInv
<1> QED BY ClusterInvariance, <1>1, PTL

\* No interleaving of injections, repairs, remediations and resets leaves damage
\* that no active incident will mend, except to the usage of a node, which none does.
THEOREM DamageIsAlwaysOwned == ClusterSpec => []DamageHasAnOwner
<1>1. ClusterInv => DamageHasAnOwner
  BY DEF ClusterInv
<1> QED BY ClusterInvariance, <1>1, PTL

\* The order in which DECLARE_RESOLVED meets the active incidents does not matter.
THEOREM RemediationOrder == ClusterSpec => []OrderOfRemediationIsIrrelevant
<1>1. ClusterInv => OrderOfRemediationIsIrrelevant
  BY OrderLemma DEF ClusterInv, ClusterTypeOK, DamageHasAnOwner, OrderOfRemediationIsIrrelevant
<1> QED BY ClusterInvariance, <1>1, PTL

\* Remediation closes one incident and never breaks what was healthy.
THEOREM RemediationIsSafe == ClusterSpec => RemediationNeverHarms
<1> DEFINE Safe == \A id \in IncidentIds :
              RemediateIncident(id) =>
                 /\ Active(cluster') = Active(cluster) \ {id}
                 /\ UnhealthyPods(cluster') \subseteq UnhealthyPods(cluster)
                 /\ UnhealthyServices(cluster') \subseteq UnhealthyServices(cluster)
                 /\ UnreadyNodes(cluster') \subseteq UnreadyNodes(cluster)
<1>1. ClusterTypeOK => Safe
  <2> SUFFICES ASSUME ClusterTypeOK, NEW id \in IncidentIds, RemediateIncident(id)
               PROVE  /\ Active(cluster') = Active(cluster) \ {id}
                      /\ UnhealthyPods(cluster') \subseteq UnhealthyPods(cluster)
                      /\ UnhealthyServices(cluster') \subseteq UnhealthyServices(cluster)
                      /\ UnreadyNodes(cluster') \subseteq UnreadyNodes(cluster)
    OBVIOUS
  <2>1. CASE cluster.active[id] = NoIncident
    <3>1. cluster' = cluster
      BY <2>1 DEF RemediateIncident, Remediate
    <3>2. id \notin Active(cluster)
      BY <2>1 DEF Active
    <3> QED BY <3>1, <3>2
  <2>2. CASE cluster.active[id] # NoIncident
    BY <2>2, RemediateHeals DEF ClusterTypeOK, RemediateIncident
  <2> QED BY <2>1, <2>2
<1>2. ClusterTypeOK /\ [ClusterNext]_cluster => [Safe]_cluster
  BY <1>1
<1> HIDE DEF Safe
<1>3. ClusterSpec => [][Safe]_cluster
  BY <1>2, ClusterTypeCorrect, PTL DEF ClusterSpec
<1> QED BY <1>3 DEF Safe, RemediationNeverHarms
=============================================================================
