----------------------------- MODULE MCSessions -----------------------------
(***************************************************************************)
(* A free user and the demo user and two coroutines.  The cfgs choose the  *)
(* users and the bounds; Orphans.cfg has only the demo user, whose resets  *)
(* skip the quota and the rows.                                            *)
(***************************************************************************)
EXTENDS Sessions, TLC

CONSTANTS free, demo, r1, r2

MCUsers == {free, demo}
MCFreeUsers == {free, demo}
MCDemoUsers == {demo}
MCRequests == {r1, r2}
MCSymmetry == Permutations(MCRequests)
=============================================================================
