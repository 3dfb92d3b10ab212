---------------------------- MODULE MCModeration ----------------------------
(* Moderation with two guidances: one blocks both files, the other only    *)
(* the first.                                                              *)
EXTENDS Moderation, TLC

CONSTANTS p1, p2, f1, f2

SomePrompts == {p1, p2}

SomeFiles == {f1, f2}

SomeBlocks == {<<p1, f1>>, <<p2, f1>>, <<p2, f2>>}

NoFile == {}

Symmetry == Permutations(Requests)

=============================================================================
