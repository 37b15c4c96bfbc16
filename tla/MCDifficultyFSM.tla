-------------------------- MODULE MCDifficultyFSM ---------------------------
(* Values of DifficultyFSM's constants for TLC.                               *)
EXTENDS DifficultyFSM

\* The top level's 999 is scaled down so that its streak can reach the threshold.
MCAdvanceThreshold == <<3, 2, 3>>

\* A success, an unresolved episode, a reward below the threshold, a resolution
\* exactly at three times its target and one just past it, and a waived target.
MCResults ==
    LET R(resolved, reward, time, target) ==
            [resolved |-> resolved, cumulative_reward |-> reward,
             sim_time_minutes |-> time, target_mttr_minutes |-> target]
    IN  {R(TRUE, 2, 3, 3), R(FALSE, 4, 15, 3), R(TRUE, 1, 2, 3),
         R(TRUE, 2, 9, 3), R(TRUE, 4, 10, 3), R(TRUE, 2, 15, 0)}

=============================================================================
