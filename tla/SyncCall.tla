------------------------------ MODULE SyncCall ------------------------------
(***************************************************************************)
(* What a synchronous MeshCore service command promises its caller         *)
(* (d1l_meshcore_service_send_* in mesh/meshcore_service.c), without the   *)
(* slots, the queue or the semaphores: a call opens, the owner task may    *)
(* run its command once, and the call returns either the answer of its own *)
(* command or ESP_ERR_TIMEOUT, the latter only for a command that has not  *)
(* run and never will.                                                     *)
(***************************************************************************)
EXTENDS Naturals

CONSTANT Ids        \* request ids, nonzero: answer 0 means "no answer yet"

VARIABLES
  status,           \* where each call is
  answer            \* the command whose result the call returned

Statuses == {"unused", "open", "ran", "answered", "timedout"}

Init == /\ status = [n \in Ids |-> "unused"]
        /\ answer = [n \in Ids |-> 0]

Move(n, from, to) == /\ status[n] = from
                     /\ status' = [status EXCEPT ![n] = to]

Begin(n)   == Move(n, "unused", "open") /\ UNCHANGED answer
Run(n)     == Move(n, "open", "ran") /\ UNCHANGED answer
TimeOut(n) == Move(n, "open", "timedout") /\ UNCHANGED answer
Answer(n)  == Move(n, "ran", "answered") /\ answer' = [answer EXCEPT ![n] = n]

Next == \E n \in Ids : Begin(n) \/ Run(n) \/ TimeOut(n) \/ Answer(n)

Spec == Init /\ [][Next]_<<status, answer>>
=============================================================================
