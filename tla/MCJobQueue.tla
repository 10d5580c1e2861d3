----------------------------- MODULE MCJobQueue -----------------------------
(* Small instances of JobQueue for TLC. *)
EXTENDS JobQueue

\* Dedupe keys: a TIDAL album, a verification action on a job, a finished
\* backend download, and one whose adapter failed to register.
MCTypeOf == [tidal |-> "tidal_grab", promote |-> "promote_import",
             backend |-> "backend_completed_grab", orphan |-> "soulseek_grab"]
MCKeys == DOMAIN MCTypeOf
MCTypes == {MCTypeOf[k] : k \in MCKeys}
MCPriority == [t \in MCTypes |-> IF t = "promote_import" THEN 2 ELSE 5]
MCMaxAttempts == [t \in MCTypes |-> 2]
MCExecutors == MCTypes \ {"soulseek_grab"}
MCRetryable == {"tidal_grab", "promote_import"}

\* Two keys, for the runs that want more steps per job.
TwoTypeOf == [tidal |-> "tidal_grab", backend |-> "backend_completed_grab"]
TwoKeys == DOMAIN TwoTypeOf
TwoTypes == {TwoTypeOf[k] : k \in TwoKeys}
TwoPriority == [t \in TwoTypes |-> 5]
TwoRetryable == {"tidal_grab"}
TwoMaxAttempts == [t \in TwoTypes |-> 2]
=============================================================================
