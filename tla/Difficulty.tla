----------------------------- MODULE Difficulty -----------------------------
(***************************************************************************)
(* The curriculum state of chaosmesh_arena/progression/difficulty_fsm.py   *)
(* and its transitions, as operators on a record: DifficultyFSM drives     *)
(* them on their own, ArenaEnv from env.step and env.reset.                *)
(*                                                                         *)
(* Rewards and times are integers in any fixed unit.  level_history, a log *)
(* that no decision reads, is left out.                                    *)
(***************************************************************************)
EXTENDS Naturals

CONSTANTS
    MaxLevel,          \* the last member of IncidentLevel (5 in the code)
    AdvanceThreshold,  \* _ADVANCE_THRESHOLD: successes in a row, per level
    MinReward          \* _MIN_REWARD_THRESHOLD

Levels == 1 .. MaxLevel

ASSUME MaxLevelAssumption == MaxLevel \in Nat \ {0}
ASSUME ThresholdAssumption == AdvanceThreshold \in [Levels -> Nat \ {0}]

DifficultyState ==
    [current_level: Levels, consecutive_successes: Nat,
     total_episodes: Nat, total_successes: Nat]

\* A new FSM at the level its constructor is given.
NewDifficulty(level) ==
    [current_level |-> level, consecutive_successes |-> 0,
     total_episodes |-> 0, total_successes |-> 0]

\* More than three times the target is too slow; a target of 0 waives the check.
IsSuccess(result) ==
    /\ result.resolved
    /\ result.cumulative_reward >= MinReward
    /\ \/ result.target_mttr_minutes = 0
       \/ result.sim_time_minutes <= 3 * result.target_mttr_minutes

\* Seeded fault: advances one success early.
MaybeAdvance_OffByOne(f) ==
    IF /\ f.consecutive_successes + 1 >= AdvanceThreshold[f.current_level]
       /\ f.current_level < MaxLevel
    THEN [f EXCEPT !.current_level = @ + 1, !.consecutive_successes = 0]
    ELSE f

\* At the top level the streak is kept and nothing advances.
MaybeAdvance(f) ==
    IF /\ f.consecutive_successes >= AdvanceThreshold[f.current_level]
       /\ f.current_level < MaxLevel
    THEN [f EXCEPT !.current_level = @ + 1, !.consecutive_successes = 0]
    ELSE f

\* Seeded fault: a failed episode does not clear the streak.
CountResult_FailureKeepsStreak(f, result) ==
    IF IsSuccess(result)
    THEN [f EXCEPT !.total_episodes = @ + 1,
                   !.consecutive_successes = @ + 1,
                   !.total_successes = @ + 1]
    ELSE [f EXCEPT !.total_episodes = @ + 1]

\* record_result up to its call of _maybe_advance.
CountResult(f, result) ==
    IF IsSuccess(result)
    THEN [f EXCEPT !.total_episodes = @ + 1,
                   !.consecutive_successes = @ + 1,
                   !.total_successes = @ + 1]
    ELSE [f EXCEPT !.total_episodes = @ + 1,
                   !.consecutive_successes = 0]

Recorded(f, result) == MaybeAdvance(CountResult(f, result))

\* What record_result returns.
Advanced(f, result) ==
    Recorded(f, result).current_level # f.current_level

\* Seeded fault: the streak earned at one level counts at the level forced.
ForcedTo_KeepsStreak(f, level) == [f EXCEPT !.current_level = level]

ForcedTo(f, level) ==
    [f EXCEPT !.current_level = level, !.consecutive_successes = 0]

\* Seeded fault: no floor.
Regressed_NoFloor(f) == ForcedTo(f, f.current_level - 1)

\* At level 1 regress returns False and changes nothing.
Regressed(f) ==
    IF f.current_level > 1
    THEN ForcedTo(f, f.current_level - 1)
    ELSE f
=============================================================================
