----------------------------- MODULE MCSessions -----------------------------
(* Instances of Sessions for TLC. *)
EXTENDS Sessions, TLC

OneIdentity == [u \in Users |-> CHOOSE i \in Identities : TRUE]

Symmetry == Permutations(Users) \cup Permutations(Sids) \cup Permutations(Requests)
=============================================================================
