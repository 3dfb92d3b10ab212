----------------------------- MODULE ActivityLog -----------------------------
(***************************************************************************)
(* What a browser's activity promises, without manifests and conditional   *)
(* puts: for each artifact the instant of the latest upload and of the     *)
(* latest view, each only ever moving forwards, one at a time.             *)
(***************************************************************************)
EXTENDS Naturals

CONSTANTS Slugs, None, MaxTime

VARIABLE last   \* last[kind][slug], None before the first

Time  == 0..MaxTime
Kinds == {"uploads", "views"}

Init ==
    last \in [Kinds -> [Slugs -> {None, 0}]]

\* Something happened to artifact s at t; the log may hear of it late.
Happened(k, s, t) ==
    /\ last[k][s] = None \/ last[k][s] < t
    /\ last' = [last EXCEPT ![k][s] = t]

Next == \E k \in Kinds, s \in Slugs, t \in Time : Happened(k, s, t)

Spec == Init /\ [][Next]_last

=============================================================================
