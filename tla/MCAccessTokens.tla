--------------------------- MODULE MCAccessTokens ---------------------------
(* Instances of AccessTokens for TLC. *)
EXTENDS AccessTokens, TLC

(* Users, handlers, signers and names are interchangeable. *)
Symmetry == Permutations(Users) \cup Permutations(Handlers) \cup Permutations(Signers)
            \cup Permutations(RoleNames)
=============================================================================
