---------------------------------- MODULE Auth ----------------------------------
(***************************************************************************)
(* What the modules about people and their credentials share.  Tokens and  *)
(* Identity model two parts of package auth, each with a state of its own. *)
(***************************************************************************)
CONSTANTS
    Users,   \* normalized addresses
    None

=================================================================================
