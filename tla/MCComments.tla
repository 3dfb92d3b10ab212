----------------------------- MODULE MCComments -----------------------------
(* Comments on small sets of requests, users, texts, ids and pages.         *)
EXTENDS Comments, TLC

Symmetry ==
    Permutations(Requests) \cup Permutations(Users)
        \cup Permutations(Texts) \cup Permutations(Ids)

=============================================================================
