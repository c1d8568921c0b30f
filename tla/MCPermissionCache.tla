-------------------------- MODULE MCPermissionCache --------------------------
(* Instances of PermissionCache for TLC. *)
EXTENDS PermissionCache, TLC

Symmetry == Permutations(Roles) \cup Permutations(Readers) \cup Permutations(Writers)
=============================================================================
