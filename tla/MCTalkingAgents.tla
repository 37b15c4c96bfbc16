-------------------------- MODULE MCTalkingAgents ---------------------------
(* ArenaEnv under agents that keep stepping and may put a message in every    *)
(* action.  calls tells one step() call from the next once the clock and the  *)
(* step counter of the model have reached their bounds, so that a call that   *)
(* changes nothing else still counts as a step taken.                         *)
EXTENDS MCArenaEnv

VARIABLE calls

AnyStep ==
    /\ \E action \in Actions : Step(action)
    /\ calls' = 1 - calls

Others ==
    /\ \/ \E option \in OptionLevels \union {NoLevel}, kind \in Kinds : Reset(option, kind)
       \/ WallClockRunsOut
    /\ UNCHANGED calls

TalkingAgents ==
    /\ Init /\ calls = 0
    /\ [][AnyStep \/ Others]_<<vars, calls>>
    /\ WF_<<vars, calls>>(AnyStep)
=============================================================================
