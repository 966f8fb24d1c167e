--------------------------- MODULE MCConnectivity ---------------------------
(* Connectivity on a small instance. *)
EXTENDS Connectivity
=============================================================================
