-------------------------------- MODULE Slack --------------------------------
(***************************************************************************)
(* What the two uses of Slack share: the clock their caches expire by.     *)
(***************************************************************************)
EXTENDS Naturals

CONSTANTS
    MaxTime,  \* bound: ticks
    None

ASSUME SlackAssumption == MaxTime \in Nat /\ None \notin Nat

VARIABLE now

=============================================================================
