------------------------------ MODULE MCSites ------------------------------
(* Sites on a few uploads of small ZIPs: one with its directory and a page  *)
(* called 'raw', one whose names all begin with a slash, with one that      *)
(* needs cleaning and is blocked, one with too many files.                  *)
EXTENDS Sites, TLC

CONSTANTS dir, slash, wide

SomeZips == {dir, slash, wide}

SomeNames(z) ==
    CASE z = dir   -> {<<"x", "">>, <<"x", "index.html">>, <<"x", "raw">>,
                       <<"__MACOSX", "x", "raw">>}
      [] z = slash -> {<<"", "index.html">>, <<"", "y", "..", ".", "a">>}
      [] z = wide  -> {<<"index.html">>, <<"y">>, <<"z">>}

SomeBanned == {<<slash, <<"a">>>>}

NoParts == {}

Symmetry ==
    Permutations(Uploads) \cup Permutations(Readers)

=============================================================================
