---------------------------- MODULE MCWsManager -----------------------------
(***************************************************************************)
(* TLC instances of WsManager.                                             *)
(***************************************************************************)
EXTENDS WsManager

\* One client sees everything, one asks for a kind of event of one episode.
MCFilters == {<<Everything, Everything>>, <<"e1", "step_complete">>}
=============================================================================
