--------------------------- MODULE DifficultyFSM ----------------------------
(***************************************************************************)
(* The curriculum state machine as a component: any sequence of calls of   *)
(* record_result, force_level, regress, state_dict and load_state.         *)
(***************************************************************************)
EXTENDS Difficulty, Sequences

CONSTANTS
    Results,       \* the episode results a caller may record
    MaxEpisodes    \* bound on total_episodes

VARIABLES
    fsm,           \* DifficultyState
    saved,         \* the last state_dict() snapshot, or the defaults of load_state
    outcomes,      \* history: was each result since the last reset of the streak
                   \* a success?
    savedOutcomes  \* history: the outcomes that go with saved

vars == <<fsm, saved, outcomes, savedOutcomes>>

Init ==
    /\ \E level \in Levels : fsm = NewDifficulty(level)
    /\ saved = NewDifficulty(1)
    /\ outcomes = <<>>
    /\ savedOutcomes = <<>>

RecordResult(result) ==
    /\ fsm.total_episodes < MaxEpisodes
    /\ fsm' = Recorded(fsm, result)
    /\ outcomes' = IF Advanced(fsm, result)
                   THEN <<>>
                   ELSE Append(outcomes, IsSuccess(result))
    /\ UNCHANGED <<saved, savedOutcomes>>

ForceLevel(level) ==
    /\ fsm' = ForcedTo(fsm, level)
    /\ outcomes' = <<>>
    /\ UNCHANGED <<saved, savedOutcomes>>

Regress ==
    /\ fsm' = Regressed(fsm)
    /\ outcomes' = IF fsm.current_level > 1 THEN <<>> ELSE outcomes
    /\ UNCHANGED <<saved, savedOutcomes>>

\* state_dict() is read-only; its caller keeps the snapshot.
StateDict ==
    /\ saved' = fsm
    /\ savedOutcomes' = outcomes
    /\ UNCHANGED <<fsm, outcomes>>

LoadState ==
    /\ fsm' = saved
    /\ outcomes' = savedOutcomes
    /\ UNCHANGED <<saved, savedOutcomes>>

Next ==
    \/ \E result \in Results : RecordResult(result)
    \/ \E level \in Levels : ForceLevel(level)
    \/ Regress
    \/ StateDict
    \/ LoadState

Spec == Init /\ [][Next]_vars

-----------------------------------------------------------------------------
\* DifficultyState and its snapshot keep their types: no transition leaves the levels.
TypeOK ==
    /\ fsm \in DifficultyState
    /\ saved \in DifficultyState
    /\ outcomes \in Seq(BOOLEAN)
    /\ savedOutcomes \in Seq(BOOLEAN)

BelowThreshold(f) ==
    f.current_level < MaxLevel =>
        f.consecutive_successes < AdvanceThreshold[f.current_level]

\* Between calls no state below the top level is owed an advance: whatever mix of
\* recorded results, forced levels, regressions and restored snapshots led there,
\* the streak is short of the threshold of the level it is now counted for.  (A
\* streak carried from one level to another with a lower threshold would break it.)
NoAdvanceOwed == BelowThreshold(fsm) /\ BelowThreshold(saved)

OrderedCounters(f) ==
    /\ f.consecutive_successes <= f.total_successes
    /\ f.total_successes <= f.total_episodes

\* The success rate is a proportion and the streak is part of the successes it
\* counts, before and after a snapshot is restored.
CountersOrdered == OrderedCounters(fsm) /\ OrderedCounters(saved)

\* The last n entries of a sequence of outcomes are successes.
EndsInSuccesses(s, n) ==
    /\ n <= Len(s)
    /\ \A i \in 1 .. Len(s) : i > Len(s) - n => s[i]

TrailingSuccesses(s, n) ==
    /\ EndsInSuccesses(s, n)
    /\ n < Len(s) => ~s[Len(s) - n]

\* consecutive_successes is the length of the run of successes that ends at the
\* last recorded result: one failed episode starts the count again.
StreakIsTheTrailingRun ==
    /\ TrailingSuccesses(outcomes, fsm.consecutive_successes)
    /\ TrailingSuccesses(savedOutcomes, saved.consecutive_successes)

\* "N consecutive successful resolutions at the current level": a recorded result
\* raises the level by one, and only when it and the N - 1 results before it, all
\* since the level was entered, were successes.
AdvanceIsEarned ==
    [][\A result \in Results :
          RecordResult(result) /\ fsm'.current_level # fsm.current_level =>
             /\ fsm'.current_level = fsm.current_level + 1
             /\ EndsInSuccesses(Append(outcomes, IsSuccess(result)),
                                AdvanceThreshold[fsm.current_level])]_vars
=============================================================================
