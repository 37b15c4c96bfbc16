------------------------- MODULE IncidentLifecycle --------------------------
(***************************************************************************)
(* The failure injector, the cluster and the metrics engine as the env     *)
(* drives them: incidents injected in any number and order (env.reset and  *)
(* POST /demo/inject), repairs of single pods and services by the agents,  *)
(* remediation of one or of all incidents, resets that leave the injector's *)
(* _active dict alone, and anomalies that run out.  ArenaEnv has the same  *)
(* operators in its own steps; the prefix Cluster keeps the names apart.   *)
(***************************************************************************)
EXTENDS FailureInjector

VARIABLE cluster

ClusterInit == cluster = NewWorld

\* The new incident_id is a uuid no active incident has.
InjectIncident(id, kind) ==
    /\ cluster.active[id] = NoIncident
    /\ cluster' = Inject(cluster, id, kind)

\* RESTART_POD and ROLLBACK_DEPLOYMENT of an agent.
RepairPod(p) == cluster' = RestorePod(cluster, p)

\* SCALE_DEPLOYMENT of an agent.
RepairService(s) == cluster' = RestoreService(cluster, s)

RemediateIncident(id) == cluster' = Remediate(cluster, id)

DeclareResolved == cluster' = RemediateAll(cluster)

ClusterReset == cluster' = ResetCluster(cluster)

\* Every env.step snapshots all services; which durations are over is up to the
\* wall clock.
SnapshotServices ==
    \E keys \in SUBSET ExpirableAnomalies(cluster) :
        cluster' = ExpireAnomalies(cluster, keys)

ClusterNext ==
    \/ \E id \in IncidentIds, kind \in Kinds : InjectIncident(id, kind)
    \/ \E p \in Pods : RepairPod(p)
    \/ \E s \in Services : RepairService(s)
    \/ \E id \in IncidentIds : RemediateIncident(id)
    \/ DeclareResolved
    \/ ClusterReset
    \/ SnapshotServices

ClusterSpec == ClusterInit /\ [][ClusterNext]_cluster

-----------------------------------------------------------------------------
\* The cluster, the anomalies and the incident table keep their shapes.
ClusterTypeOK == cluster \in World

\* Whatever is broken, an active incident stands for it: a pod or a service is
\* unhealthy only while some active incident lists it (so that its remediation
\* restores it), and nodes, partitions and anomalies are damaged only while some
\* incident is active.  Incidents overlap, repairs and resets come in between, and
\* a remediation of one of them must not orphan what another one broke.  The usage of a
\* node (`overloaded') is not covered: no remediation ever lowers it again.
DamageHasAnOwner == DamageIsOwned(cluster)

\* DECLARE_RESOLVED remediates its incidents one by one, in the order of a dict:
\* whichever comes first, the cluster it ends with is the same.
OrderOfRemediationIsIrrelevant ==
    \A id \in IncidentIds :
        RemediateAll(Remediate(cluster, id)) = RemediateAll(cluster)

\* remediate() closes its own incident and no other, and breaks nothing: a pod,
\* service or node that was healthy before it is healthy after it.
RemediationNeverHarms ==
    [][\A id \in IncidentIds :
          RemediateIncident(id) =>
             /\ Active(cluster') = Active(cluster) \ {id}
             /\ UnhealthyPods(cluster') \subseteq UnhealthyPods(cluster)
             /\ UnhealthyServices(cluster') \subseteq UnhealthyServices(cluster)
             /\ UnreadyNodes(cluster') \subseteq UnreadyNodes(cluster)]_cluster
=============================================================================
