---------------------------- MODULE MCRadioOwner ----------------------------
(* RadioOwner on a small instance. *)
EXTENDS RadioOwner
=============================================================================
