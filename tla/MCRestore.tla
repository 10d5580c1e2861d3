----------------------------- MODULE MCRestore -----------------------------
(* A database and one evidence file, two restores. *)
EXTENDS Restore, TLC

Symmetric == Permutations(Ids)
=============================================================================
