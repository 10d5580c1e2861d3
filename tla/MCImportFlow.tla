---------------------------- MODULE MCImportFlow ----------------------------
(* One grab job with two attempts. *)
EXTENDS ImportFlow

MCJobIds == {1}
MCKeys == {"release"}
MCTypes == {"tidal_grab"}
MCTypeOf == [k \in MCKeys |-> "tidal_grab"]
MCPriority == [t \in MCTypes |-> 100]
MCMaxAttempts == [t \in MCTypes |-> 2]
=============================================================================
