--------------------------- MODULE MCBackendLane ---------------------------
(* Instances of BackendLane for TLC. *)
EXTENDS BackendLane

MCTypes == {"backend_completed_grab"}
MCTypeOf == [k \in Keys |-> "backend_completed_grab"]
MCPriority == [t \in MCTypes |-> 5]
MCMaxAttempts == [t \in MCTypes |-> 2]
=============================================================================
