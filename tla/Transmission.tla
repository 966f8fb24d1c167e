---------------------------- MODULE Transmission ----------------------------
(***************************************************************************)
(* What the mesh owner promises of its radio transmissions, without the    *)
(* driver, the callback history and the watchdog: operations are begun one *)
(* at a time and in order, and each ends exactly once.  Either the driver  *)
(* reports its end and the owner handles that very report, or the watchdog *)
(* takes an operation back that the driver has not reported, and then no   *)
(* report of it ever comes.  A report that was given is never lost.        *)
(***************************************************************************)
EXTENDS Naturals

CONSTANT MaxOp      \* UINT32_MAX, after which no operation begins

VARIABLES
  op,               \* the operation begun last, 0 before the first
  stage             \* how far it is

Over == {"handled", "reclaimed"}

Init == op = 0 /\ stage = "none"

Begin == /\ stage \in Over \cup {"none"} /\ op < MaxOp
         /\ op' = op + 1 /\ stage' = "onAir"

Move(from, to) == stage = from /\ stage' = to /\ UNCHANGED op

Report  == Move("onAir", "reported")
Handle  == Move("reported", "handled")
Reclaim == Move("onAir", "reclaimed")

Next == Begin \/ Report \/ Handle \/ Reclaim

Spec == Init /\ [][Next]_<<op, stage>>
=============================================================================
