---------------------------- MODULE MCMessageBus ----------------------------
(***************************************************************************)
(* TLC instances of MessageBus.                                            *)
(***************************************************************************)
EXTENDS MessageBus
=============================================================================
