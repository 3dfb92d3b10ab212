------------------------------ MODULE MCNotify ------------------------------
(* The dispatcher on small sets, with a clock of a few ticks.              *)
EXTENDS Notify

=============================================================================
