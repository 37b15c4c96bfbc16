---------------------------- MODULE MCAgentTeam -----------------------------
(***************************************************************************)
(* TLC instances of AgentTeam.                                             *)
(***************************************************************************)
EXTENDS AgentTeam

MCPrompts == Callers \X Situations

MCEmpty == [tool |-> "nothing", sure |-> FALSE]

\* A dangerous action, which the commander does not know and reads as its default, and
\* texts with nothing in them.
MCAnswers == {[tool |-> "isolate_pod", sure |-> FALSE], MCEmpty, Malformed}
=============================================================================
