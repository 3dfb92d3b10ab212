----------------------------- MODULE MCIdentity -----------------------------
(* Every configuration and every request of two people.                    *)
EXTENDS Identity, TLC

Symmetry == Permutations(Users)

=============================================================================
