----------------------------- MODULE MCArenaEnv -----------------------------
(* Values of ArenaEnv's constants for TLC: the default cluster, a short clock *)
(* and enough episodes to leak incidents, to advance and to step past an end. *)
EXTENDS ArenaEnv, TLC

CONSTANTS api1, api2, db, cache, ingress, svcApi, svcDb, n1, n2, n3

MCHomeNode ==
    (api1 :> n1) @@ (api2 :> n2) @@ (db :> n1) @@ (cache :> n2) @@ (ingress :> n1)

\* The thresholds of levels 1 to 4 are scaled down from 3 and 2; level 5 has none.
MCAdvanceThreshold == <<2, 1, 1, 1, 999>>

\* Minutes scaled to ticks: three times the target of level 1 is a limit an episode
\* can pass before its clock runs out.
MCTargetMttr == <<1, 2, 2, 2, 3>>

MCTemplateKinds == <<{"pod_crash", "disk_pressure"}, {"db_timeout", "node_failure"},
                     {"attack_or_misconfig"}, {"level4"}, {"level5"}>>

Act(type, target) == [action_type |-> type, target |-> target, message |-> FALSE]

\* A repair that works, one whose target does not exist, a scaling, an investigation,
\* a declaration, and an action that carries a message.
MCActions ==
    {Act("restart_pod", api1), Act("rollback_deployment", NoTarget),
     Act("scale_deployment", svcApi), Act("get_logs", NoTarget),
     Act("declare_resolved", NoTarget),
     [Act("send_message", NoTarget) EXCEPT !.message = TRUE]}
=============================================================================
