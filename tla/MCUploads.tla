----------------------------- MODULE MCUploads -----------------------------
(* Uploads on small sets of clients, slugs and contents.                   *)
EXTENDS Uploads, TLC

Symmetry ==
    Permutations(Clients) \cup Permutations(Slugs)

AllModes == {"create", "overwrite", "match"}

=============================================================================
