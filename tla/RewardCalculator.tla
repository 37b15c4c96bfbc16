-------------------------- MODULE RewardCalculator --------------------------
(***************************************************************************)
(* The reward of one step, chaosmesh_arena/rewards/calculator.py.          *)
(*                                                                         *)
(* A reward is an integer, in units of 1/10000: the precision compute()    *)
(* rounds to, and exact for every term.  Time is in ticks of a quarter of  *)
(* a simulated minute, what one step adds.  Two terms are always 0 and are *)
(* left out: the belief bonus, because the env never records a resolution  *)
(* and the prior accuracy 0.5 earns nothing, and the spam penalty, because *)
(* no message is ever counted (see StepRaises in ArenaEnv).                *)
(***************************************************************************)
EXTENDS FailureInjector, Integers

CONSTANTS
    NoTarget,        \* the empty target
    TargetMttr,      \* _TARGET_MTTR, in ticks
    AdaptationStep   \* the step after which investigating earns the bonus (10)

InvestigationTypes ==
    {"get_logs", "query_metrics", "describe_pod", "describe_node", "query_traces",
     "scan_traffic", "query_db_stats"}
RemediationTypes ==
    {"restart_pod", "scale_deployment", "rollback_deployment", "update_config",
     "isolate_pod", "drain_node"}
CoordinationTypes ==
    {"send_message", "request_authorization", "grant_authorization", "escalate",
     "broadcast_status", "declare_resolved", "noop"}
ActionTypes == InvestigationTypes \union RemediationTypes \union CoordinationTypes

\* ActionModel: message says whether the action carries an AgentMessage.
ActionModel ==
    [action_type : ActionTypes, target : Pods \union Services \union {NoTarget},
     message : BOOLEAN]

\* Tenths, by level.
IndividualWeight == <<10, 8, 6, 5, 4>>
CoordinationWeight == <<5, 10, 12, 15, 20>>

PodIsReady(w, p) == p \in Pods /\ w.pods[p].ready
ServiceIsFine(w, s) == s \in Services /\ w.services[s].error_rate < 5

IndividualReward(w, action) ==
    CASE action.action_type = "restart_pod" ->
             IF PodIsReady(w, action.target) THEN 15000 ELSE -5000
      [] action.action_type = "scale_deployment" ->
             IF ServiceIsFine(w, action.target) THEN 12000 ELSE -3000
      [] action.action_type = "rollback_deployment" ->
             IF PodIsReady(w, action.target) THEN 18000 ELSE -4000
      [] action.action_type = "update_config" -> 8000
      [] action.action_type = "isolate_pod" -> 6000
      [] action.action_type = "drain_node" -> 5000
      [] action.action_type \in InvestigationTypes -> 1000
      [] action.action_type = "noop" -> -500
      [] OTHER -> 0

CoordinationReward(action) ==
    CASE action.action_type = "broadcast_status" -> 4000
      [] action.action_type = "request_authorization" -> 2500
      [] action.action_type = "grant_authorization" -> 2000
      [] action.action_type = "escalate" -> 1000
      [] OTHER -> 0

\* 0.15 for every minute ahead of the target, -0.08 for every minute behind it, at
\* most -3.
EfficiencyReward(ticks, target) ==
    CASE ticks <= 0 -> 0
      [] ticks > 0 /\ ticks < target -> 375 * (target - ticks)
      [] ticks > 0 /\ ticks >= target ->
             IF 200 * (ticks - target) < 30000 THEN -200 * (ticks - target) ELSE -30000

ResolutionReward(w, level, action) ==
    IF action.action_type # "declare_resolved" THEN 0
    ELSE IF AllResolved(w) THEN 30000 + 5000 * level ELSE -10000

AdaptationBonus(w, action, step) ==
    IF /\ ~AllResolved(w)
       /\ action.action_type \in {"get_logs", "query_metrics", "describe_pod",
                                  "scan_traffic"}
       /\ step > AdaptationStep
    THEN 3000 ELSE 0

AuthorizationReward(action) ==
    IF action.action_type = "request_authorization" THEN 1000 ELSE 0

Compute(w, level, action, step, ticks) ==
    (IndividualReward(w, action) * IndividualWeight[level]) \div 10
      + (CoordinationReward(action) * CoordinationWeight[level]) \div 10
      + EfficiencyReward(ticks, TargetMttr[level])
      + ResolutionReward(w, level, action)
      + (IF level >= 4 THEN AdaptationBonus(w, action, step) ELSE 0)
      + AuthorizationReward(action)
=============================================================================
