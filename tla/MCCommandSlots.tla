--------------------------- MODULE MCCommandSlots ---------------------------
(* CommandSlots with three callers, two slots and a queue of one place.    *)
(* A caller finds a slot taken, or all of them, only in a crowd; so that   *)
(* the instance stays small the callers arrive in one:                     *)
(*   - caller c makes the c-th call, when the slots that c - 1 callers can *)
(*     take are taken, however far these calls and the owner have come;    *)
(*   - the first call carries a password;                                  *)
(*   - commands nobody waits for are posted to an idle owner.              *)
EXTENDS CommandSlots

Crowded ==
  /\ \A c \in Callers : id'[c] \in {0, c}
  /\ nextId' # nextId => \A s \in 1 .. nextId : word[s] # Free
  /\ admin' \subseteq {1}
  /\ Len(queue') > Len(queue) /\ UNCHANGED pc => ownerPc = "idle"
=============================================================================
