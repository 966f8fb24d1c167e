----------------------------- MODULE MCServices -----------------------------
(* Services of the owner task: ProtocolTime with a sequence of nine        *)
(* timestamps, AdminSession with three peers, two of which share the key   *)
(* of their record in NVS, and DmDelivery with a ring of one row.  The     *)
(* three share no state, so that one runs at a time, the others in their   *)
(* first state: every behaviour of the one goes with every behaviour of    *)
(* the others.                                                             *)
EXTENDS ProtocolTime, AdminSession, DmDelivery, TLC

VARIABLE running     \* the service that runs

servicesVars == <<running, timeVars, adminVars, vars>>

ServicesInit ==
  /\ TimeInit /\ AdminInit /\ DmInit
  /\ running \in {"time", "admin", "messages"}
  /\ running # "time" => legacy = 0
ServicesNext ==
  \/ running = "time" /\ TimeNext /\ UNCHANGED <<running, adminVars, vars>>
  \/ running = "admin" /\ AdminNext /\ UNCHANGED <<running, timeVars, vars>>
  \/ running = "messages" /\ DmNext /\ UNCHANGED <<running, timeVars, adminVars>>
Services == ServicesInit /\ [][ServicesNext]_servicesVars

(* Two of a power loss, a clear and a remount in one behaviour.             *)
TwoOfThree == spent'.crashes + spent'.clears + spent'.remounts <= 2

(* Nothing tells two clients or two slots apart.                           *)
Alike == {f @@ g : f \in Permutations(Clients), g \in Permutations(ResponseSlots)}
=============================================================================
