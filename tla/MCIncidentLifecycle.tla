------------------------ MODULE MCIncidentLifecycle -------------------------
(* Values of IncidentLifecycle's constants for TLC: the default cluster of    *)
(* cluster_state.py, with room for three incidents at once.                     *)
EXTENDS IncidentLifecycle, TLC

CONSTANTS api1, api2, db, cache, ingress, svcApi, svcDb, n1, n2, n3

MCHomeNode ==
    (api1 :> n1) @@ (api2 :> n2) @@ (db :> n1) @@ (cache :> n2) @@ (ingress :> n1)

Symmetry == Permutations(IncidentIds)
=============================================================================
