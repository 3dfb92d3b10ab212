------------------------------ MODULE MCActivity ------------------------------
(* Activity on small sets of requests, slugs and users.                    *)
EXTENDS Activity, TLC

Symmetry ==
    Permutations(Requests) \cup Permutations(Slugs) \cup Permutations(Users)

=============================================================================
