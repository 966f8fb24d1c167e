-------------------------- MODULE MCStorageManager --------------------------
(* StorageManager on a small instance: up to MaxEvents cards swapped,      *)
(* faults of the bridge and commands in all.                               *)
EXTENDS StorageManager

MaxEvents == 3

Events == taken.swaps + taken.faults + taken.commands <= MaxEvents
=============================================================================
