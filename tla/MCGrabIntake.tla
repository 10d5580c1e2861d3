---------------------------- MODULE MCGrabIntake ----------------------------
(* A TIDAL release and a folder, with two attempts each. *)
EXTENDS GrabIntake

MCKeys == {"release", "folder"}
MCTypes == {"tidal_grab", "local_grab"}
MCTypeOf == [k \in MCKeys |-> IF k = "release" THEN "tidal_grab" ELSE "local_grab"]
MCPriority == [t \in MCTypes |-> 5]
MCMaxAttempts == [t \in MCTypes |-> 2]
MCTidalKeys == {"release"}
=============================================================================
