------------------------------ MODULE MCCards ------------------------------
(* Cards on small sets of requests, images and versions.                   *)
EXTENDS Cards, TLC

Symmetry ==
    Permutations(Requests) \cup Permutations(Images) \cup Permutations(Versions)

=============================================================================
