------------------------------- MODULE MCLogin -------------------------------
(* Instances of Login for TLC. *)
EXTENDS Login, TLC

Symmetry ==
    Permutations(Requests) \cup Permutations(Challenges) \cup Permutations(Devices)
        \cup Permutations(Secrets)
=============================================================================
