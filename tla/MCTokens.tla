------------------------------ MODULE MCTokens ------------------------------
(* Tokens on small sets of requests, users and tokens.                     *)
EXTENDS Tokens, TLC

Symmetry ==
    Permutations(Requests) \cup Permutations(Users) \cup Permutations(Tokens)

=============================================================================
