---------------------------- MODULE MCApiClients ----------------------------
(* Values of ApiClients' constants for TLC: two who register with one email,  *)
(* two keys and one program of any kind.                                     *)
EXTENDS ApiClients, TLC
=============================================================================
