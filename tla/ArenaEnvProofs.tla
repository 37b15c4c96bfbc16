--------------------------- MODULE ArenaEnvProofs ---------------------------
(***************************************************************************)
(* The safety properties of ArenaEnv, for every cluster, every table of    *)
(* levels and incidents, and every set of actions.                         *)
(*                                                                         *)
(* The env composes three parts, and so does the argument: what its steps  *)
(* do to the world (from the lemmas of IncidentLifecycleProofs), to the    *)
(* difficulty record, and to the rewards and counters.                     *)
(***************************************************************************)
EXTENDS ArenaEnv, IncidentLifecycleProofs

-----------------------------------------------------------------------------
\* The world: injections and actions keep the damage owned by active incidents.

\* While an id is free, FreshId is one.
LEMMA FreshIdIsFree ==
    ASSUME NEW w, FreeIds(w) # {}
    PROVE  FreshId(w) \in IncidentIds /\ w.active[FreshId(w)] = NoIncident
<1>1. \E id \in IncidentIds : w.active[id] = NoIncident
  BY DEF FreeIds, Active
<1> QED BY <1>1 DEF FreshId

\* An injection under a fresh id registers it.
LEMMA FreshInjection ==
    ASSUME NEW w \in World, DamageIsOwned(w), FreeIds(w) # {}, NEW kind \in Kinds
    PROVE  Registers(w, Inject(w, FreshId(w), kind), FreshId(w))
BY FreshIdIsFree, InjectOwns

\* The injection of a reset: one incident, or two at level 1, and both are owned.
LEMMA LevelInjection ==
    ASSUME NEW w \in World, DamageIsOwned(w), NEW kind \in Kinds, NEW lv,
           NEW i \in FreeIds(w), NEW j \in FreeIds(w), i # j
    PROVE  LET u == InjectForLevel(w, lv, kind)
           IN  u \in World /\ DamageIsOwned(u) /\ ~AllResolved(u)
<1> DEFINE v == Inject(w, FreshId(w), kind)
<1>1. Registers(w, v, FreshId(w))
  BY FreshInjection
<1>2. FreshId(w) \in IncidentIds
  BY FreshIdIsFree
<1> HIDE DEF v
<1>3. v \in World /\ DamageIsOwned(v) /\ ~AllResolved(v)
  BY <1>1 DEF Registers, AllResolved
<1>4. FreeIds(v) # {}
  BY <1>1 DEF Registers, FreeIds
<1>5. "pod_crash" \in Kinds /\ Inject(v, FreshId(v), "pod_crash") = InjectPodCrash(v, FreshId(v))
  BY DEF Kinds, Inject
<1>6. Registers(v, InjectPodCrash(v, FreshId(v)), FreshId(v))
  BY <1>3, <1>4, <1>5, FreshInjection
<1> DEFINE crashed == InjectPodCrash(v, FreshId(v))
<1>7. crashed \in World /\ DamageIsOwned(crashed) /\ ~AllResolved(crashed)
  BY <1>6 DEF Registers, AllResolved
<1> HIDE DEF crashed
<1>8. InjectForLevel(w, lv, kind) = v \/ InjectForLevel(w, lv, kind) = crashed
  BY DEF InjectForLevel, v, crashed
<1> QED BY <1>3, <1>7, <1>8

\* An action mends or closes, and only DECLARE_RESOLVED closes.
LEMMA ActionOwns ==
    ASSUME NEW w \in World, DamageIsOwned(w), NEW action
    PROVE  /\ ApplyAction(w, action) \in World
           /\ DamageIsOwned(ApplyAction(w, action))
           /\ action.action_type # "declare_resolved" =>
                 Active(ApplyAction(w, action)) = Active(w)
<1>1. CASE action.action_type \in {"restart_pod", "rollback_deployment"}
  <2>1. ApplyAction(w, action) = RestorePod(w, action.target)
    BY <1>1 DEF ApplyAction
  <2>2. CASE action.target \in Pods
    BY <2>1, <2>2, RestorePodMends, MendingOwns DEF Active
  <2>3. CASE action.target \notin Pods
    BY <2>1, <2>3 DEF RestorePod
  <2> QED BY <2>2, <2>3
<1>2. CASE action.action_type = "scale_deployment"
  <2>1. ApplyAction(w, action) = RestoreService(w, action.target)
    BY <1>2 DEF ApplyAction
  <2>2. CASE action.target \in Services
    BY <2>1, <2>2, RestoreServiceMends, MendingOwns DEF Active
  <2>3. CASE action.target \notin Services
    BY <2>1, <2>3 DEF RestoreService
  <2> QED BY <2>2, <2>3
<1>3. CASE action.action_type = "declare_resolved"
  <2>1. ApplyAction(w, action) = RemediateAll(w)
    BY <1>3 DEF ApplyAction
  <2> QED BY <1>3, <2>1, RemediateAllOwns
<1>4. CASE action.action_type \notin {"restart_pod", "rollback_deployment",
                                      "scale_deployment", "declare_resolved"}
  BY <1>4 DEF ApplyAction
<1> QED BY <1>1, <1>2, <1>3, <1>4

\* Nothing is broken where every incident is resolved and all damage is owned.
LEMMA ResolvedIsHealed ==
    ASSUME NEW w, DamageIsOwned(w), AllResolved(w)
    PROVE  /\ UnhealthyPods(w) = {} /\ UnhealthyServices(w) = {}
           /\ UnreadyNodes(w) = {} /\ w.partitions = {} /\ w.anomalies = {}
BY DEF DamageIsOwned, AllResolved, OwnedPods, OwnedServices

-----------------------------------------------------------------------------
\* The difficulty record and the rewards.

\* The fields of a difficulty record.
LEMMA DifficultyFields ==
    ASSUME NEW f \in DifficultyState
    PROVE  /\ f.current_level \in Levels
           /\ f.consecutive_successes \in Nat
           /\ f.total_episodes \in Nat /\ f.total_successes \in Nat
BY DEF DifficultyState

\* Every operation of the FSM keeps the type of its record.
LEMMA ForcedType ==
    ASSUME NEW f \in DifficultyState, NEW lv \in Levels
    PROVE  ForcedTo(f, lv) \in DifficultyState /\ ForcedTo(f, lv).current_level = lv
BY DEF ForcedTo, DifficultyState

\* Counting a result keeps the type of the record.
LEMMA CountedType ==
    ASSUME NEW f \in DifficultyState, NEW result
    PROVE  CountResult(f, result) \in DifficultyState
<1>1. CASE IsSuccess(result)
  <2>1. CountResult(f, result) =
          [current_level |-> f.current_level,
           consecutive_successes |-> f.consecutive_successes + 1,
           total_episodes |-> f.total_episodes + 1,
           total_successes |-> f.total_successes + 1]
    BY <1>1 DEF CountResult, DifficultyState
  <2> QED BY <2>1, DifficultyFields DEF DifficultyState
<1>2. CASE ~IsSuccess(result)
  <2>1. CountResult(f, result) =
          [current_level |-> f.current_level,
           consecutive_successes |-> 0,
           total_episodes |-> f.total_episodes + 1,
           total_successes |-> f.total_successes]
    BY <1>2 DEF CountResult, DifficultyState
  <2> QED BY <2>1, DifficultyFields DEF DifficultyState
<1> QED BY <1>1, <1>2

\* So does the advance that may follow.
LEMMA RecordedType ==
    ASSUME NEW f \in DifficultyState, NEW result
    PROVE  Recorded(f, result) \in DifficultyState
<1> DEFINE g == CountResult(f, result)
<1>1. g \in DifficultyState
  BY CountedType
<1> HIDE DEF g
<1>2. g.current_level < MaxLevel => g.current_level + 1 \in Levels
  BY <1>1, MaxLevelAssumption DEF DifficultyState, Levels
<1>3. MaybeAdvance(g) \in DifficultyState
  BY <1>1, <1>2 DEF MaybeAdvance, DifficultyState
<1> QED BY <1>3 DEF Recorded, g

\* The reward of a step is an integer, whatever the action and the world.
LEMMA RewardType ==
    ASSUME NEW w, NEW lv \in Levels, NEW action, NEW s, NEW t \in Nat
    PROVE  Compute(w, lv, action, s, t) \in Int
<1>1. lv \in 1 .. 5
  BY LevelTablesAssumption, MaxLevelAssumption DEF Levels
<1>2. IndividualWeight[lv] \in Nat /\ CoordinationWeight[lv] \in Nat
  BY <1>1 DEF IndividualWeight, CoordinationWeight
<1>3. IndividualReward(w, action) \in Int
  BY DEF IndividualReward
<1>4. CoordinationReward(action) \in Int
  BY DEF CoordinationReward
<1>5. EfficiencyReward(t, TargetMttr[lv]) \in Int
  <2>1. TargetMttr[lv] \in Nat
    BY LevelTablesAssumption
  <2> QED BY <2>1 DEF EfficiencyReward
<1>6. ResolutionReward(w, lv, action) \in Int
  BY <1>1 DEF ResolutionReward
<1>7. AdaptationBonus(w, action, s) \in Int /\ AuthorizationReward(action) \in Int
  BY DEF AdaptationBonus, AuthorizationReward
<1>8. /\ (IndividualReward(w, action) * IndividualWeight[lv]) \div 10 \in Int
      /\ (CoordinationReward(action) * CoordinationWeight[lv]) \div 10 \in Int
  BY <1>2, <1>3, <1>4
<1> QED BY <1>5, <1>6, <1>7, <1>8 DEF Compute
-----------------------------------------------------------------------------
\* The inductive invariant.  LevelsAgree and ResolutionIsDeclared are not inductive:
\* an episode can only end by a declaration because the incident of its reset stays
\* active until one, and that needs the world to be well formed.

\* What a reset injected is still active unless the agents have declared.
StillActive == episode > 0 /\ ~declared => ~AllResolved(world)

\* A truncated episode still meets the condition that truncated it.
LimitStillMet == truncated => CheckTruncation(step, ticks, wallOver)

\* World and difficulty record alone, without the counters.
WorldInv == world \in World /\ DamageIsOwned(world)
LevelInv == /\ fsm \in DifficultyState
            /\ level \in Levels /\ calcLevel \in Levels
            /\ LevelsAgree

EnvInv == /\ TypeOK /\ WorldInv /\ LevelsAgree
          /\ StillActive /\ ResolutionIsDeclared /\ LimitStillMet

\* A counter capped by Smaller stays below its cap.
LEMMA SmallerType ==
    ASSUME NEW m \in Nat, NEW n \in Nat
    PROVE  Smaller(m, n) \in 0 .. n /\ (Smaller(m, n) = m \/ Smaller(m, n) = n)
BY DEF Smaller

\* What BoundsAssumption says of each bound.
LEMMA BoundTypes ==
    /\ MaxSimTicks \in Nat /\ DemoMaxSteps \in Nat /\ MaxEpisodes \in Nat
    /\ MaxSteps \in Nat /\ MaxTicks \in Nat
    /\ DemoMaxSteps < MaxSteps /\ MaxSimTicks < MaxTicks
BY BoundsAssumption

\* What the first half of every step does to the world and the counters.
LEMMA AdvanceKeeps ==
    ASSUME EnvInv, NEW action \in Actions, Advance(action)
    PROVE  /\ WorldInv'
           /\ StillActive'
           /\ step' \in 0 .. MaxSteps /\ ticks' \in 0 .. MaxTicks
           /\ step' >= step /\ ticks' >= ticks
           /\ episode' = episode /\ episode \in 1 .. MaxEpisodes
           /\ demo' = demo /\ wallOver' = wallOver
           /\ declared \in BOOLEAN /\ declared' \in BOOLEAN
           /\ declared => declared'
<1> DEFINE acted == ApplyAction(world, action)
<1>1. /\ acted \in World /\ DamageIsOwned(acted)
      /\ action.action_type # "declare_resolved" => Active(acted) = Active(world)
  BY ActionOwns DEF EnvInv, WorldInv
<1>2. PICK keys \in SUBSET ExpirableAnomalies(acted) : world' = ExpireAnomalies(acted, keys)
  BY DEF Advance
<1> HIDE DEF acted
<1>3. world' \in World /\ DamageIsOwned(world') /\ Active(world') = Active(acted)
  BY <1>1, <1>2, ExpiryMends, MendingOwns DEF Active
<1>4. WorldInv'
  BY <1>3 DEF WorldInv
<1>5. /\ episode > 0 /\ episode' = episode /\ demo' = demo /\ wallOver' = wallOver
      /\ declared' = (declared \/ action.action_type = "declare_resolved")
      /\ step' = Smaller(step + 1, MaxSteps) /\ ticks' = Smaller(ticks + 1, MaxTicks)
  BY DEF Advance
<1>6. StillActive'
  BY <1>1, <1>3, <1>5 DEF EnvInv, StillActive, AllResolved
<1>7. /\ step' \in 0 .. MaxSteps /\ ticks' \in 0 .. MaxTicks
      /\ step' >= step /\ ticks' >= ticks
  <2>1. step \in 0 .. MaxSteps /\ ticks \in 0 .. MaxTicks
    BY DEF EnvInv, TypeOK
  <2>2. step + 1 \in Nat /\ ticks + 1 \in Nat /\ MaxSteps \in Nat /\ MaxTicks \in Nat
    BY <2>1, BoundTypes
  <2>3. /\ step' \in 0 .. MaxSteps /\ (step' = step + 1 \/ step' = MaxSteps)
        /\ ticks' \in 0 .. MaxTicks /\ (ticks' = ticks + 1 \/ ticks' = MaxTicks)
    BY <1>5, <2>2, SmallerType
  <2> QED BY <2>1, <2>2, <2>3
<1>8. episode \in 1 .. MaxEpisodes /\ declared \in BOOLEAN /\ declared' \in BOOLEAN
  BY <1>5, BoundTypes DEF EnvInv, TypeOK
<1> QED BY <1>4, <1>5, <1>6, <1>7, <1>8

\* Limits are never unmet by a later step.
LEMMA LimitsGrow ==
    ASSUME EnvInv, NEW action \in Actions, Advance(action), truncated
    PROVE  CheckTruncation(step, ticks, wallOver)'
<1>1. /\ step' \in 0 .. MaxSteps /\ ticks' \in 0 .. MaxTicks
      /\ step' >= step /\ ticks' >= ticks
      /\ demo' = demo /\ wallOver' = wallOver
  BY AdvanceKeeps
<1>2. step \in 0 .. MaxSteps /\ ticks \in 0 .. MaxTicks
  BY DEF EnvInv, TypeOK
<1>3. CheckTruncation(step, ticks, wallOver)
  BY DEF EnvInv, LimitStillMet
<1> QED BY <1>1, <1>2, <1>3, BoundTypes DEF CheckTruncation

-----------------------------------------------------------------------------
\* The second half of a scored step: the result, recorded where it resolved.
LEMMA RecordKeepsLevels ==
    ASSUME EnvInv, RecordIfResolved, episode \in 1 .. MaxEpisodes
    PROVE  LevelInv' /\ streak' \subseteq 1 .. MaxEpisodes
<1>1. LevelInv /\ streak \subseteq 1 .. MaxEpisodes
  BY DEF EnvInv, TypeOK, LevelInv
<1>2. CASE AllResolved(world')
  <2>1. fsm' = Recorded(fsm, Result)
    BY <1>2 DEF RecordIfResolved
  <2>2. fsm' \in DifficultyState
    BY <1>1, <2>1, RecordedType DEF LevelInv
  <2>3. streak' \subseteq 1 .. MaxEpisodes
    BY <1>1, <1>2 DEF RecordIfResolved
  <2>4. CASE Advanced(fsm, Result)
    BY <1>2, <2>2, <2>3, <2>4, DifficultyFields DEF RecordIfResolved, LevelInv, LevelsAgree
  <2>5. CASE ~Advanced(fsm, Result)
    <3>1. level' = level /\ calcLevel' = calcLevel
      BY <1>2, <2>5 DEF RecordIfResolved
    <3>2. fsm'.current_level = fsm.current_level
      BY <2>1, <2>5 DEF Advanced
    <3> QED BY <1>1, <2>2, <2>3, <3>1, <3>2 DEF LevelInv, LevelsAgree
  <2> QED BY <2>4, <2>5
<1>3. CASE ~AllResolved(world')
  BY <1>1, <1>3 DEF RecordIfResolved, LevelInv, LevelsAgree
<1> QED BY <1>2, <1>3

\* A new env, before its first reset, satisfies the invariant.
LEMMA InitEnvInv == Init => EnvInv
<1> SUFFICES ASSUME Init PROVE EnvInv
  OBVIOUS
<1>1. WorldInv
  <2>1. [active |-> [id \in IncidentIds |-> NoIncident]].active
          \in [IncidentIds -> Incident \union {NoIncident}]
    OBVIOUS
  <2> QED BY <2>1, ResetOwns DEF Init, NewWorld, WorldInv
<1>2. LevelInv
  BY DEF Init, LevelInv, LevelsAgree, NewDifficulty, DifficultyState
<1>3. TypeOK
  <2>1. /\ episode \in 0 .. MaxEpisodes /\ step \in 0 .. MaxSteps
        /\ ticks \in 0 .. MaxTicks /\ cumulative \in Int
    BY BoundTypes DEF Init
  <2>2. /\ demo \in BOOLEAN /\ wallOver \in BOOLEAN /\ terminated \in BOOLEAN
        /\ truncated \in BOOLEAN /\ declared \in BOOLEAN
    BY DEF Init
  <2>3. streak \subseteq 1 .. MaxEpisodes
    BY DEF Init
  <2> QED BY <1>1, <1>2, <2>1, <2>2, <2>3 DEF TypeOK, WorldInv, LevelInv
<1> QED BY <1>1, <1>2, <1>3
        DEF Init, EnvInv, LevelInv, StillActive, ResolutionIsDeclared, LimitStillMet

\* A reset does: what it injects is active, and the levels it sets agree.
LEMMA ResetKeeps ==
    ASSUME EnvInv, NEW option \in OptionLevels \union {NoLevel}, NEW kind \in Kinds,
           Reset(option, kind)
    PROVE  EnvInv'
<1>1. WorldInv' /\ ~AllResolved(world')
  <2> DEFINE w == ResetCluster(world)
  <2>1. w \in World /\ DamageIsOwned(w) /\ w.active = world.active
    BY WorldFields, ResetOwns DEF EnvInv, TypeOK, ResetCluster
  <2>2. PICK i \in FreeIds(w), j \in FreeIds(w) : i # j
    BY <2>1 DEF Reset, FreeIds, Active
  <2>3. world' = InjectForLevel(w, level', kind)
    BY DEF Reset
  <2> HIDE DEF w
  <2> QED BY <2>1, <2>2, <2>3, LevelInjection DEF WorldInv
<1>2. LevelInv'
  <2>1. LevelInv
    BY DEF EnvInv, TypeOK, LevelInv
  <2>2. CASE option = NoLevel
    BY <2>1, <2>2 DEF Reset, SetLevels, LevelInv, LevelsAgree
  <2>3. CASE option # NoLevel
    <3>1. option \in Levels
      BY <2>3, LevelTablesAssumption
    <3>2. level' = option /\ fsm' = ForcedTo(fsm, option) /\ calcLevel' = option
      BY <2>3 DEF Reset, SetLevels
    <3> QED BY <2>1, <3>1, <3>2, ForcedType DEF LevelInv, LevelsAgree
  <2> QED BY <2>2, <2>3
<1>3. /\ episode' = episode + 1 /\ episode < MaxEpisodes
      /\ step' = 0 /\ ticks' = 0 /\ wallOver' = FALSE /\ cumulative' = 0
      /\ terminated' = FALSE /\ truncated' = FALSE /\ declared' = FALSE
      /\ demo' = demo
      /\ streak' = streak \/ streak' = {}
  BY DEF Reset
<1>4. TypeOK'
  <2>1. TypeOK
    BY DEF EnvInv
  <2>2. /\ episode' \in 0 .. MaxEpisodes /\ step' \in 0 .. MaxSteps
        /\ ticks' \in 0 .. MaxTicks /\ cumulative' \in Int
    BY <1>3, <2>1, BoundTypes DEF TypeOK
  <2>3. /\ demo' \in BOOLEAN /\ wallOver' \in BOOLEAN /\ terminated' \in BOOLEAN
        /\ truncated' \in BOOLEAN /\ declared' \in BOOLEAN
    BY <1>3, <2>1 DEF TypeOK
  <2>4. streak' \subseteq 1 .. MaxEpisodes
    BY <1>3, <2>1 DEF TypeOK
  <2> QED BY <1>1, <1>2, <2>2, <2>3, <2>4 DEF TypeOK, WorldInv, LevelInv
<1> QED BY <1>1, <1>2, <1>3, <1>4
        DEF EnvInv, LevelInv, StillActive, ResolutionIsDeclared, LimitStillMet

\* An injection into a running episode only adds to what is active.
LEMMA DemoInjectKeeps ==
    ASSUME EnvInv, NEW kind \in DemoKinds, DemoInject(kind)
    PROVE  EnvInv'
<1>1. kind \in Kinds
  BY LevelTablesAssumption
<1>2. Registers(world, world', FreshId(world))
  BY <1>1, FreshInjection DEF DemoInject, EnvInv, WorldInv
<1>3. WorldInv' /\ ~AllResolved(world')
  BY <1>2 DEF Registers, WorldInv, AllResolved
<1>4. UNCHANGED <<fsm, level, calcLevel, demo, episode, step, ticks, wallOver,
                  cumulative, terminated, truncated, declared, streak>>
  BY DEF DemoInject
<1>5. TypeOK'
  BY <1>3, <1>4 DEF EnvInv, TypeOK, WorldInv
<1>6. LevelsAgree' /\ ResolutionIsDeclared'
  BY <1>4 DEF EnvInv, LevelsAgree, ResolutionIsDeclared
<1>7. LimitStillMet'
  BY <1>4 DEF EnvInv, LimitStillMet, CheckTruncation
<1> QED BY <1>3, <1>5, <1>6, <1>7 DEF EnvInv, StillActive

\* A step that raises leaves the verdict on the episode as it was.
LEMMA RaisingStepKeeps ==
    ASSUME EnvInv, NEW action \in Actions, RaisingStep(action)
    PROVE  EnvInv'
<1>1. /\ Advance(action)
      /\ UNCHANGED <<fsm, level, calcLevel, cumulative, terminated, truncated, streak>>
  BY DEF RaisingStep
<1>2. /\ WorldInv' /\ StillActive'
      /\ step' \in 0 .. MaxSteps /\ ticks' \in 0 .. MaxTicks
      /\ episode' = episode /\ demo' = demo /\ wallOver' = wallOver
      /\ declared' \in BOOLEAN /\ (declared => declared')
  BY <1>1, AdvanceKeeps
<1>3. TypeOK'
  BY <1>1, <1>2 DEF EnvInv, TypeOK, WorldInv
<1>4. LevelsAgree' /\ ResolutionIsDeclared'
  BY <1>1, <1>2 DEF EnvInv, LevelsAgree, ResolutionIsDeclared
<1>5. LimitStillMet'
  BY <1>1, LimitsGrow DEF LimitStillMet
<1> QED BY <1>2, <1>3, <1>4, <1>5 DEF EnvInv

\* A scored step decides it anew, from the world and counters it leaves.
LEMMA ScoredStepKeeps ==
    ASSUME EnvInv, NEW action \in Actions, ScoredStep(action)
    PROVE  EnvInv'
<1>1. /\ Advance(action) /\ RecordIfResolved
      /\ cumulative' = cumulative + Compute(world', calcLevel, action, step', ticks')
      /\ terminated' = AllResolved(world')
      /\ truncated' = CheckTruncation(step', ticks', wallOver)
  BY DEF ScoredStep
<1>2. /\ WorldInv' /\ StillActive'
      /\ step' \in 0 .. MaxSteps /\ ticks' \in 0 .. MaxTicks
      /\ episode' = episode /\ episode \in 1 .. MaxEpisodes
      /\ demo' = demo /\ wallOver' = wallOver
      /\ declared' \in BOOLEAN
  BY <1>1, AdvanceKeeps
<1>3. LevelInv' /\ streak' \subseteq 1 .. MaxEpisodes
  BY <1>1, <1>2, RecordKeepsLevels
<1>4. cumulative' \in Int
  <2>1. calcLevel \in Levels /\ cumulative \in Int /\ ticks' \in Nat
    BY <1>2, BoundTypes DEF EnvInv, TypeOK
  <2> QED BY <1>1, <2>1, RewardType
<1>5. terminated' \in BOOLEAN /\ truncated' \in BOOLEAN
  BY <1>1 DEF AllResolved, CheckTruncation
<1>6. TypeOK'
  BY <1>2, <1>3, <1>4, <1>5 DEF EnvInv, TypeOK, WorldInv, LevelInv
<1>7. ResolutionIsDeclared'
  BY <1>1, <1>2 DEF StillActive, ResolutionIsDeclared
<1>8. LimitStillMet'
  BY <1>1, <1>2 DEF LimitStillMet, CheckTruncation
<1> QED BY <1>2, <1>3, <1>6, <1>7, <1>8 DEF EnvInv, LevelInv

\* One case per action.
LEMMA NextEnvInv == EnvInv /\ [Next]_vars => EnvInv'
<1> SUFFICES ASSUME EnvInv, [Next]_vars PROVE EnvInv'
  OBVIOUS
<1>1. ASSUME NEW option \in OptionLevels \union {NoLevel}, NEW kind \in Kinds,
             Reset(option, kind)
      PROVE  EnvInv'
  BY <1>1, ResetKeeps
<1>2. ASSUME NEW kind \in DemoKinds, DemoInject(kind) PROVE EnvInv'
  BY <1>2, DemoInjectKeeps
<1>3. CASE WallClockRunsOut
  BY <1>3 DEF WallClockRunsOut, EnvInv, TypeOK, WorldInv, LevelsAgree, StillActive,
              ResolutionIsDeclared, LimitStillMet, CheckTruncation
<1>4. ASSUME NEW action \in Actions, RaisingStep(action) PROVE EnvInv'
  BY <1>4, RaisingStepKeeps
<1>5. ASSUME NEW action \in Actions, ScoredStep(action) PROVE EnvInv'
  BY <1>5, ScoredStepKeeps
<1>6. CASE UNCHANGED vars
  BY <1>6 DEF vars, EnvInv, TypeOK, WorldInv, LevelsAgree, StillActive,
              ResolutionIsDeclared, LimitStillMet, CheckTruncation
<1> QED BY <1>1, <1>2, <1>3, <1>4, <1>5, <1>6 DEF Next

\* EnvInv holds in every reachable state.
LEMMA EnvInvariance == Spec => []EnvInv
  BY InitEnvInv, NextEnvInv, PTL DEF Spec

-----------------------------------------------------------------------------
\* The env, its cluster, FSM, rewards and counters keep their types through every
\* sequence of resets, steps that raise, scored steps and injections.
THEOREM TypeCorrect == Spec => []TypeOK
<1>1. EnvInv => TypeOK
  BY DEF EnvInv
<1> QED BY EnvInvariance, <1>1, PTL

\* The three copies of the level (env, FSM, reward calculator) never differ.
THEOREM LevelsAlwaysAgree == Spec => []LevelsAgree
<1>1. EnvInv => LevelsAgree
  BY DEF EnvInv
<1> QED BY EnvInvariance, <1>1, PTL

\* Repairs alone never end an episode as resolved: a DECLARE_RESOLVED did.
THEOREM ResolvedByDeclaration == Spec => []ResolutionIsDeclared
<1>1. EnvInv => ResolutionIsDeclared
  BY DEF EnvInv
<1> QED BY EnvInvariance, <1>1, PTL

\* An episode reported as resolved leaves every pod, service and node in order, and no
\* partition or anomaly.  The usage of a node, which nothing restores, is left out.
THEOREM ResolvedLeavesNothingBroken == Spec => ResolvedMeansHealed
<1> DEFINE Healed ==
        \A action \in Actions :
          ScoredStep(action) /\ terminated' =>
             /\ UnhealthyPods(world') = {}
             /\ UnhealthyServices(world') = {}
             /\ UnreadyNodes(world') = {}
             /\ world'.partitions = {} /\ world'.anomalies = {}
<1>1. EnvInv /\ EnvInv' => Healed
  <2> SUFFICES ASSUME EnvInv', NEW action \in Actions, ScoredStep(action), terminated'
               PROVE  /\ UnhealthyPods(world') = {}
                      /\ UnhealthyServices(world') = {}
                      /\ UnreadyNodes(world') = {}
                      /\ world'.partitions = {} /\ world'.anomalies = {}
    OBVIOUS
  <2>1. AllResolved(world') /\ DamageIsOwned(world')
    BY DEF ScoredStep, EnvInv, WorldInv
  <2> QED BY <2>1, ResolvedIsHealed
<1>2. EnvInv /\ EnvInv' /\ [Next]_vars => [Healed]_vars
  BY <1>1
<1> HIDE DEF Healed
<1>3. Spec => [][Healed]_vars
  BY <1>2, EnvInvariance, PTL DEF Spec
<1> QED BY <1>3 DEF Healed, ResolvedMeansHealed

\* No later step takes a truncation back.
THEOREM TruncatedForGood == Spec => TruncationIsFinal
<1>1. EnvInv /\ [Next]_vars => [truncated => truncated' \/ episode' # episode]_vars
  <2> SUFFICES ASSUME EnvInv, [Next]_vars, truncated
               PROVE  truncated' \/ episode' # episode
    OBVIOUS
  <2>1. ASSUME NEW option \in OptionLevels \union {NoLevel}, NEW kind \in Kinds,
               Reset(option, kind)
        PROVE  episode' # episode
    BY <2>1, BoundTypes DEF Reset, EnvInv, TypeOK
  <2>2. ASSUME NEW action \in Actions, ScoredStep(action) PROVE truncated'
    <3>1. Advance(action) /\ truncated' = CheckTruncation(step', ticks', wallOver)
      BY <2>2 DEF ScoredStep
    <3>2. CheckTruncation(step, ticks, wallOver)'
      BY <3>1, LimitsGrow
    <3>3. wallOver' = wallOver /\ demo' = demo
      BY <3>1, AdvanceKeeps
    <3> QED BY <3>1, <3>2, <3>3 DEF CheckTruncation
  <2>3. ASSUME NEW action \in Actions, RaisingStep(action) PROVE truncated'
    BY <2>3 DEF RaisingStep
  <2> QED BY <2>1, <2>2, <2>3 DEF Next, DemoInject, WallClockRunsOut, vars
<1> QED BY <1>1, EnvInvariance, PTL DEF Spec, TruncationIsFinal
=============================================================================
