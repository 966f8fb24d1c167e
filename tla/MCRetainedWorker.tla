-------------------------- MODULE MCRetainedWorker --------------------------
(* RetainedWorker with two tasks and two stores.  The instance is kept     *)
(* small by an alternative: one force flush beside any number of quiesces  *)
(* and mutations of both stores, or several that share the mailbox, with   *)
(* the first store mutated and nobody quiescing.                           *)
EXTENDS RetainedWorker

Few ==
  \/ nextId' + Cardinality(DrawingId') <= 1
  \/ rev'[2] = 0 /\ \A t \in Tasks : op'[t] = "force"
=============================================================================
