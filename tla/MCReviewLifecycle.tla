------------------------- MODULE MCReviewLifecycle -------------------------
(* Two action jobs, each with two attempts. *)
EXTENDS ReviewLifecycle

MCJobIds == {1, 2}
MCKeys == {"promote", "retry_import"}
MCTypes == {"promote_import", "retry_import"}
MCTypeOf == [k \in MCKeys |-> IF k = "promote" THEN "promote_import" ELSE "retry_import"]
MCPriority == [t \in MCTypes |-> 2]
MCMaxAttempts == [t \in MCTypes |-> 2]
=============================================================================
