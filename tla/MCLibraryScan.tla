--------------------------- MODULE MCLibraryScan ---------------------------
(***************************************************************************)
(* Instances of LibraryScan for TLC: the scan's dedupe key and one import  *)
(* key.                                                                    *)
(***************************************************************************)
EXTENDS LibraryScan

MCKeys == {"scan", "grab"}
MCTypes == {"library_scan", "source_grab"}
MCTypeOf == [k \in MCKeys |-> IF k = "scan" THEN "library_scan" ELSE "source_grab"]
MCPriority == [t \in MCTypes |-> IF t = "library_scan" THEN 50 ELSE 1]
MCMaxAttempts == [t \in MCTypes |-> 1]
MCModes == {"metadata", "spectral_missing"}
=============================================================================
