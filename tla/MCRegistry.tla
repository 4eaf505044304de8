----------------------------- MODULE MCRegistry -----------------------------
(* Instances of Registry for TLC: which task uses the service how.         *)
EXTENDS Registry, TLC

CONSTANTS p, q

\* A user of the service and a task that also spawns and manages instances.
Ops_manage ==
  (p :> {"from_registry", "stop", "drop"})
    @@ (q :> {"from_registry", "try_from_registry", "spawn", "register", "replace", "unregister",
              "drop"})

\* One task looks the service up while another finds and stops it.
Ops_meddle == (p :> {"from_registry"}) @@ (q :> {"from_registry", "stop"})
=============================================================================
