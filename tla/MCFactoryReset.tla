--------------------------- MODULE MCFactoryReset ---------------------------
(* FactoryReset on small instances.                                        *)
EXTENDS FactoryReset
=============================================================================
