------------------------------ MODULE ArenaEnv ------------------------------
(***************************************************************************)
(* ChaosMeshArenaEnv of chaosmesh_arena/env.py: one environment, that an   *)
(* agent team resets and steps, with its cluster and injector (world), its *)
(* difficulty FSM and its reward calculator.                               *)
(*                                                                         *)
(* The clock is in ticks of a quarter of a simulated minute.  Logs,        *)
(* metric values, beliefs and the lists of actions, rewards and messages   *)
(* are left out: nothing below reads them.  A step that is blocked as      *)
(* unsafe is left out: the validator of target refuses every string that   *)
(* holds one of the UNSAFE_ACTIONS.                                        *)
(***************************************************************************)
EXTENDS Difficulty, RewardCalculator

CONSTANTS
    Actions,          \* the actions the agents may submit, a subset of ActionModel
    OptionLevels,     \* the levels a caller of reset may ask for
    NoLevel,          \* options without a level
    TemplateKinds,    \* the incidents injected at each level, all of them or some
    DemoKinds,        \* the incidents POST /demo/inject may inject
    MaxSimTicks,      \* max_sim_minutes
    DemoMaxSteps,     \* demo_fast_max_steps
    MaxEpisodes,      \* bound on the resets
    MaxResults,       \* bound on the results before a reset or a step past an end
    MaxSteps,         \* step stops counting here, above every cap that reads it
    MaxTicks          \* the clock stops here, above every limit that reads it

ASSUME ActionsAssumption == Actions \subseteq ActionModel
ASSUME LevelTablesAssumption ==
    /\ MaxLevel <= 5
    /\ OptionLevels \subseteq Levels
    /\ NoLevel \notin Levels
    /\ TargetMttr \in [Levels -> Nat]
    /\ TemplateKinds \in [Levels -> SUBSET Kinds]
    /\ DemoKinds \subseteq Kinds
ASSUME RegistryAssumption == \A lv \in Levels : TemplateKinds[lv] \subseteq Registry[lv]
ASSUME BoundsAssumption ==
    /\ {MinReward, MaxSimTicks, DemoMaxSteps, MaxEpisodes, MaxResults, MaxSteps, MaxTicks}
         \subseteq Nat
    /\ DemoMaxSteps < MaxSteps
    /\ MaxSimTicks < MaxTicks

VARIABLES
    world,        \* _cluster, _metrics, _injector
    fsm,          \* _difficulty_fsm
    level,        \* _level
    calcLevel,    \* _reward_calc._level
    demo,         \* _demo_mode
    episode,      \* _episode_id: 0 before the first reset
    step, ticks,  \* _step, and the simulated time since the reset
    wallOver,     \* has the demo's wall-clock limit passed since the reset?
    cumulative,   \* _cumulative_reward
    terminated, truncated,
    declared,     \* history: was a DECLARE_RESOLVED applied in this episode?
    streak        \* history: the episodes whose successes make up the streak

vars == <<world, fsm, level, calcLevel, demo, episode, step, ticks, wallOver,
          cumulative, terminated, truncated, declared, streak>>

FreshId(w) == CHOOSE id \in IncidentIds : w.active[id] = NoIncident
FreeIds(w) == IncidentIds \ Active(w)

Init ==
    /\ world = NewWorld
    /\ level \in Levels
    /\ fsm = NewDifficulty(level)
    /\ calcLevel = level
    /\ demo \in BOOLEAN
    /\ episode = 0 /\ step = 0 /\ ticks = 0 /\ wallOver = FALSE
    /\ cumulative = 0 /\ terminated = FALSE /\ truncated = FALSE
    /\ declared = FALSE /\ streak = {}

-----------------------------------------------------------------------------
\* _inject_incident_for_level, with the incident its template chose.  Level 1 adds a
\* crash when every pod is still ready.
InjectForLevel(w, lv, kind) ==
    LET v == Inject(w, FreshId(w), kind)
    IN  IF lv = 1 /\ \A p \in Pods : v.pods[p].ready
        THEN InjectPodCrash(v, FreshId(v))
        ELSE v

\* Seeded fault: an explicit level does not reach the reward calculator.
SetLevels_CalcForgotten(option) ==
    IF option = NoLevel
    THEN UNCHANGED <<level, fsm, calcLevel>>
    ELSE level' = option /\ fsm' = ForcedTo(fsm, option) /\ UNCHANGED calcLevel

SetLevels(option) ==
    IF option = NoLevel
    THEN UNCHANGED <<level, fsm, calcLevel>>
    ELSE level' = option /\ fsm' = ForcedTo(fsm, option) /\ calcLevel' = option

\* Nothing resets the injector: incidents the last episode left active stay active.
Reset(option, kind) ==
    /\ episode < MaxEpisodes /\ fsm.total_episodes < MaxResults
    /\ \E i, j \in FreeIds(world) : i # j
    /\ SetLevels(option)
    /\ kind \in TemplateKinds[level']
    /\ world' = InjectForLevel(ResetCluster(world), level', kind)
    /\ episode' = episode + 1
    /\ step' = 0 /\ ticks' = 0 /\ wallOver' = FALSE
    /\ cumulative' = 0 /\ terminated' = FALSE /\ truncated' = FALSE
    /\ declared' = FALSE
    /\ streak' = IF option = NoLevel THEN streak ELSE {}
    /\ UNCHANGED demo

\* POST /demo/inject reaches into the env of a running session.
DemoInject(kind) ==
    /\ episode > 0
    /\ FreeIds(world) # {}
    /\ world' = Inject(world, FreshId(world), kind)
    /\ UNCHANGED <<fsm, level, calcLevel, demo, episode, step, ticks, wallOver,
                   cumulative, terminated, truncated, declared, streak>>

\* The wall clock is read only by a step in demo mode.
WallClockRunsOut ==
    /\ demo /\ episode > 0 /\ ~wallOver
    /\ wallOver' = TRUE
    /\ UNCHANGED <<world, fsm, level, calcLevel, demo, episode, step, ticks,
                   cumulative, terminated, truncated, declared, streak>>

-----------------------------------------------------------------------------
\* Seeded fault: DECLARE_RESOLVED drops the incidents without restoring anything.
ApplyAction_DropsIncidents(w, action) ==
    CASE action.action_type \in {"restart_pod", "rollback_deployment"} ->
             RestorePod(w, action.target)
      [] action.action_type = "scale_deployment" -> RestoreService(w, action.target)
      [] action.action_type = "declare_resolved" ->
             [w EXCEPT !.active = [id \in IncidentIds |-> NoIncident]]
      [] OTHER -> w

ApplyAction(w, action) ==
    CASE action.action_type \in {"restart_pod", "rollback_deployment"} ->
             RestorePod(w, action.target)
      [] action.action_type = "scale_deployment" -> RestoreService(w, action.target)
      [] action.action_type = "declare_resolved" -> RemediateAll(w)
      [] OTHER -> w

\* Seeded fault: the message is looked into whether there is one or not.
StepRaises_Unguarded(action) == action.message \in BOOLEAN

\* The lookup of message.content.hypothesis, an attribute AgentMessageContent does
\* not have, raises AttributeError for every action that carries a message.
StepRaises(action) == action.message

\* Seeded fault: the step cap is met only when hit exactly.
CheckTruncation_ExactStep(steps, time, over) ==
    \/ demo /\ steps = DemoMaxSteps
    \/ demo /\ over
    \/ time > MaxSimTicks

\* The message limit needs a counted message: it cannot be met.
CheckTruncation(steps, time, over) ==
    \/ demo /\ steps >= DemoMaxSteps
    \/ demo /\ over
    \/ time > MaxSimTicks

Ended == terminated \/ truncated

Smaller(m, n) == IF m < n THEN m ELSE n

\* What every step does first: count, act, let the time pass, snapshot.
Advance(action) ==
    /\ episode > 0
    /\ step' = Smaller(step + 1, MaxSteps)
    /\ ticks' = Smaller(ticks + 1, MaxTicks)
    /\ LET acted == ApplyAction(world, action)
       IN  \E keys \in SUBSET ExpirableAnomalies(acted) :
               world' = ExpireAnomalies(acted, keys)
    /\ declared' = (declared \/ action.action_type = "declare_resolved")
    /\ UNCHANGED <<demo, episode, wallOver>>

\* The exception leaves what was done so far in place.
RaisingStep(action) ==
    /\ StepRaises(action)
    /\ Advance(action)
    /\ UNCHANGED <<fsm, level, calcLevel, cumulative, terminated, truncated, streak>>

\* The EpisodeResult of a step that ends with every incident resolved.
Result ==
    [resolved |-> TRUE, cumulative_reward |-> cumulative', sim_time_minutes |-> ticks',
     target_mttr_minutes |-> TargetMttr[level]]

\* A result is recorded at every step that finds all incidents resolved, so an
\* episode stepped after its end is recorded again.
RecordIfResolved ==
    IF AllResolved(world')
    THEN /\ fsm' = Recorded(fsm, Result)
         /\ IF Advanced(fsm, Result)
            THEN level' = fsm'.current_level /\ calcLevel' = fsm'.current_level
            ELSE UNCHANGED <<level, calcLevel>>
         /\ streak' = IF fsm'.consecutive_successes = 0 THEN {}
                                                        ELSE streak \union {episode}
    ELSE UNCHANGED <<fsm, level, calcLevel, streak>>

\* The code scores an ended episode like any other: only the bounds stop it.
ScoredStep(action) ==
    /\ ~StepRaises(action)
    /\ Ended => step < MaxSteps /\ fsm.total_episodes < MaxResults
    /\ Advance(action)
    /\ cumulative' = cumulative + Compute(world', calcLevel, action, step', ticks')
    /\ terminated' = AllResolved(world')
    /\ truncated' = CheckTruncation(step', ticks', wallOver)
    /\ RecordIfResolved

Step(action) == RaisingStep(action) \/ ScoredStep(action)

Next ==
    \/ \E option \in OptionLevels \union {NoLevel}, kind \in Kinds : Reset(option, kind)
    \/ \E kind \in DemoKinds : DemoInject(kind)
    \/ WallClockRunsOut
    \/ \E action \in Actions : RaisingStep(action)
    \/ \E action \in Actions : ScoredStep(action)

Spec == Init /\ [][Next]_vars

\* The agent loops keep stepping, and a step without a message is eventually among
\* their steps.
SilentAgents == Spec /\ WF_vars(\E action \in Actions : ~action.message /\ Step(action))

-----------------------------------------------------------------------------
\* The env, its cluster, FSM and history keep their types, and the counters their bounds.
TypeOK ==
    /\ world \in World
    /\ fsm \in DifficultyState
    /\ level \in Levels /\ calcLevel \in Levels
    /\ demo \in BOOLEAN /\ wallOver \in BOOLEAN
    /\ episode \in 0 .. MaxEpisodes /\ step \in 0 .. MaxSteps /\ ticks \in 0 .. MaxTicks
    /\ cumulative \in Int
    /\ terminated \in BOOLEAN /\ truncated \in BOOLEAN
    /\ declared \in BOOLEAN
    /\ streak \subseteq 1 .. MaxEpisodes

\* The env, its FSM and its reward calculator each keep the level: they agree, through
\* levels forced by a reset and advances in the middle of a step.
LevelsAgree == level = fsm.current_level /\ calcLevel = fsm.current_level

\* No restart, scaling or rollback resolves an episode, however healthy the cluster
\* has become: the incident of the reset is closed by a DECLARE_RESOLVED only.
ResolutionIsDeclared == terminated => declared

\* When a step reports the episode resolved, every pod and service is healthy, every node
\* is ready and no partition or anomaly is left: neither by the episode's own incident,
\* nor by one a demo injected, nor by one leaked from an earlier episode.  The exception
\* is the usage of a node: `overloaded' is left out, because remediate() does not take
\* back the 95% that a node failure gave node-02, and only the next reset does.
ResolvedMeansHealed ==
    [][\A action \in Actions :
          ScoredStep(action) /\ terminated' =>
             /\ UnhealthyPods(world') = {}
             /\ UnhealthyServices(world') = {}
             /\ UnreadyNodes(world') = {}
             /\ world'.partitions = {} /\ world'.anomalies = {}]_vars

\* An episode once truncated is truncated at every later step, until a reset.
TruncationIsFinal == [][truncated => truncated' \/ episode' # episode]_vars

\* Under agents that sometimes act without a message every episode ends: it is
\* resolved, or one of its limits is reached.
EpisodeEnds ==
    \A e \in 1 .. MaxEpisodes :
        (episode = e /\ ~Ended) ~> (Ended \/ episode # e)

\* difficulty_fsm.py:8, "N consecutive successful resolutions at the current level":
\* the N successes behind an advance come from N episodes.
AdvanceTakesDistinctEpisodes ==
    [][\A action \in Actions :
          ScoredStep(action) /\ fsm'.current_level > fsm.current_level =>
             Cardinality(streak \union {episode}) >= AdvanceThreshold[fsm.current_level]]_vars
=============================================================================
