---------------------------- MODULE MCDmDelivery ----------------------------
(* DmDelivery on small instances.                                          *)
EXTENDS DmDelivery

(* A power loss, a clear or a remount meets the first message alone; the   *)
(* behaviours with two messages go without (MCServices has them).          *)
LoneFault ==
  spent'.crashes + spent'.clears + spent'.remounts <= IF used' <= 1 THEN 1 ELSE 0
=============================================================================
