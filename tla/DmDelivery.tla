----------------------------- MODULE DmDelivery -----------------------------
(***************************************************************************)
(* Delivery of a direct message: the sole mesh owner task takes one message*)
(* at a time through retained delivery states, radio callbacks, the peer's *)
(* ACK, one flood retry and its deadline, while the retained worker writes *)
(* the message store, the console clears it and power may fail.            *)
(*                                                                         *)
(* Source: main/mesh/meshcore_service.c (the DM session owner),            *)
(* main/mesh/dm_store.c (rows, compare-and-swap transitions, persistence), *)
(* main/mesh/dm_delivery_state.c, meshcore_dm_retry.h and                  *)
(* meshcore_ack_completion.h.                                              *)
(*                                                                         *)
(* The two media of the store are one here: what a reboot would load.  A   *)
(* step of the owner task that touches only what no other task reads is    *)
(* joined to the compare-and-swap that follows it.                         *)
(***************************************************************************)
EXTENDS Naturals, FiniteSets

CONSTANTS
  MaxRows,     \* bound: rows appended over the whole behaviour
  Capacity,    \* D1L_DM_STORE_CAPACITY
  MaxCrashes,  \* bound: power losses
  MaxClears,   \* bound: `messages dm clear` commands
  MaxRemounts  \* bound: changes of the SD backend generation

ASSUME DeliveryAssumption ==
  /\ MaxRows \in Nat /\ Capacity \in Nat \ {0}
  /\ MaxCrashes \in Nat /\ MaxClears \in Nat /\ MaxRemounts \in Nat

VARIABLES
  ram,       \* s_entries, by row number in append order
  disk,      \* the rows a reboot would load
  dirty,     \* RAM rows differ from one of the media
  receipts,  \* s_ack_persistence_pending: ACKs admitted but not durable
  remounted, \* s_sd_reconcile_pending after a backend generation change
  io,        \* holder of s_persist_io_lock and the snapshot it writes
  clearing,  \* the console is inside d1l_dm_store_clear
  own,       \* s_pending_dm_tx
  radio,     \* s_active_radio_tx, s_tx_busy and the latched terminal event
  quiesced,  \* the owner task holds the retained worker quiesced
  pc,        \* where the owner task is
  call,      \* the transition being persisted and where it returns to
  ret,       \* what the last transition returned
  used,      \* rows appended so far
  sent,      \* history: transmissions of each row, by attempt
  acked,     \* history: rows whose ACK the store admitted
  verdict,   \* history: direct path results reported for each row
  effects,   \* history: terminal ACK effects taken for each row
  spent      \* crashes, clears and remounts so far

storeVars   == <<ram, disk, dirty, receipts, remounted, io>>
historyVars == <<sent, acked, verdict, effects>>
controlVars == <<pc, call, ret>>
vars == <<ram, disk, dirty, receipts, remounted, io, clearing, own, radio,
          quiesced, pc, call, ret, used, sent, acked, verdict, effects, spent>>

Rows == 1..MaxRows

-----------------------------------------------------------------------------
(* dm_delivery_state.c                                                     *)

InFlight  == {"waiting_radio", "tx_active", "tx_done", "awaiting_ack", "retry_tx"}
Open      == InFlight \cup {"queued", "retry_wait"}
Failed    == {"failed_radio", "failed_timeout", "failed_queue"}
Terminal  == Failed \cup {"acknowledged", "interrupted"}
RowStates == Open \cup Terminal \cup {"absent", "rx"}

(* d1l_dm_delivery_transition_allowed, for the states this build reaches:  *)
(* nothing cancels a message or retries it at the user's request.          *)
TransitionAllowed(from, to) ==
  CASE to = "acknowledged"   -> from \in RowStates \ {"absent", "rx", "acknowledged", "failed_queue"}
    [] to = "waiting_radio"  -> from \in {"queued", "retry_tx"}
    [] to = "tx_active"      -> from \in {"waiting_radio", "retry_tx"}
    [] to = "tx_done"        -> from = "tx_active"
    [] to = "awaiting_ack"   -> from = "tx_done"
    [] to = "retry_wait"     -> from \in (Open \cup Failed \cup {"interrupted"}) \ {"queued", "retry_wait"}
    [] to = "retry_tx"       -> from = "retry_wait"
    [] to = "failed_queue"   -> from \in {"queued", "waiting_radio", "retry_tx"}
    [] to = "failed_radio"   -> from \in {"tx_active", "retry_tx"}
    [] to = "failed_timeout" -> from \in {"tx_done", "awaiting_ack", "retry_wait", "interrupted"}
    [] OTHER                 -> FALSE

-----------------------------------------------------------------------------
(* Values                                                                  *)

Row(state)  == [state |-> state, rev |-> IF state = "rx" THEN 0 ELSE 1, attempt |-> 0]
Absent      == [state |-> "absent", rev |-> 0, attempt |-> 0]
NoRows      == [r \in Rows |-> Absent]
NoIo        == [by |-> "none", rows |-> NoRows]
NoCall      == [row |-> 0, to |-> "absent", then |-> "idle", direct |-> FALSE]
NoHeard     == [rev |-> 0, attempt |-> 0]
RadioIdle   == [row |-> 0, rev |-> 0, phase |-> "idle"]

(* s_pending_dm_tx: the delivery owner, the attempt and route it sends,    *)
(* the ACK completion (base, admitted) and receipt (heard), and the        *)
(* deadline of the peer's ACK.                                             *)
NoOwner ==
  [row |-> 0, state |-> "absent", rev |-> 0, attempt |-> 0, direct |-> FALSE,
   retried |-> FALSE, base |-> 0, admitted |-> FALSE, heard |-> NoHeard,
   pending |-> FALSE, armed |-> FALSE, due |-> FALSE]

DmInit ==
  /\ ram = NoRows /\ disk = NoRows /\ dirty = FALSE /\ receipts = {}
  /\ remounted = FALSE /\ io = NoIo /\ clearing = FALSE
  /\ own = NoOwner /\ radio = RadioIdle /\ quiesced = FALSE
  /\ pc = "idle" /\ call = NoCall /\ ret = "ok"
  /\ used = 0
  /\ sent = [r \in Rows |-> [a \in 0..1 |-> 0]]
  /\ acked = {}
  /\ verdict = [r \in Rows |-> 0]
  /\ effects = [r \in Rows |-> 0]
  /\ spent = [crashes |-> 0, clears |-> 0, remounts |-> 0]

-----------------------------------------------------------------------------
(* The message store                                                       *)

(* Queries mask an ACK until it is durable                                 *)
(* (project_ack_persistence_truth_locked).                                 *)
Visible(r) ==
  IF r \in receipts /\ ram[r].state = "acknowledged"
  THEN [ram[r] EXCEPT !.state = "awaiting_ack", !.rev = @ - 1]
  ELSE ram[r]

Present   == {r \in Rows : ram[r] # Absent}
RingFull  == Cardinality(Present) = Capacity
OldestRow == CHOOSE r \in Present : \A q \in Present : r <= q

(* A full ring does not evict an outbound row that is still being          *)
(* delivered, or whose ACK is not durable yet.                             *)
RingRefuses == RingFull /\ Visible(OldestRow).state \in Open

Insert(row) ==
  /\ ram' = [r \in Rows |->
               IF r = used + 1 THEN row
               ELSE IF RingFull /\ r = OldestRow THEN Absent ELSE ram[r]]
  /\ used' = used + 1
  /\ dirty' = TRUE

(* The comparison of transition_delivery_internal.                         *)
MatchesRow(r, from, rev, to) ==
  /\ ram[r].state = from /\ ram[r].rev = rev
  /\ TransitionAllowed(from, to)

Moved(row, to) ==
  [state |-> to, rev |-> row.rev + 1,
   attempt |-> IF to = "retry_tx" THEN row.attempt + 1 ELSE row.attempt]

(* The owner task swaps the row in RAM and then persists it; a comparison  *)
(* that fails returns at once.                                             *)
Transition(r, from, rev, to, then) ==
  IF MatchesRow(r, from, rev, to)
  THEN /\ ram' = [ram EXCEPT ![r] = Moved(@, to)]
       /\ dirty' = TRUE
       /\ call' = [row |-> r, to |-> to, then |-> then, direct |-> FALSE]
       /\ pc' = "flush" /\ ret' = "ok"
  ELSE /\ pc' = then /\ ret' = "error" /\ call' = NoCall
       /\ UNCHANGED <<ram, dirty>>

OwnTransition(to, then) == Transition(own.row, own.state, own.rev, to, then)

-----------------------------------------------------------------------------
(* Persistence: persist_store, run by the owner, the worker or the console *)

(* Faulty variant: a snapshot that the rows have outrun clears the dirty   *)
(* flags and the receipts all the same.                                    *)
CommitAny(written, ok) ==
  /\ disk' = IF written THEN io.rows ELSE disk
  /\ io' = NoIo
  /\ IF ok THEN dirty' = FALSE /\ receipts' = {} ELSE UNCHANGED <<dirty, receipts>>

(* The end of a write.  The rows are clean, and every ACK durable, only if *)
(* all media took the snapshot and nothing changed since it was taken.     *)
Commit(written, ok) ==
  /\ disk' = IF written THEN io.rows ELSE disk
  /\ io' = NoIo
  /\ IF ok /\ ram = io.rows
     THEN dirty' = FALSE /\ receipts' = {}
     ELSE UNCHANGED <<dirty, receipts>>

(* All media written; some, with an error; none, with an error.            *)
WriteOutcomes == {[written |-> TRUE, ok |-> TRUE], [written |-> TRUE, ok |-> FALSE],
                  [written |-> FALSE, ok |-> FALSE]}

(* The generation moved while the card was away: the write cannot succeed  *)
(* before a reconciliation does.                                           *)
PossibleOutcomes == {o \in WriteOutcomes : o.ok => ~remounted}

(* The lock is taken and the rows are serialised.  After a remount the     *)
(* card's rows are merged first.  A merge, and one that is rolled back,    *)
(* rebuilds the ring and so drops every ACK receipt (clear_history_locked);*)
(* an empty card, or one that cannot be read, leaves the receipts.         *)
BeginWrite(by) ==
  /\ io.by = "none"
  /\ dirty \/ remounted
  /\ io' = [by |-> by, rows |-> ram]
  /\ \/ /\ remounted
        /\ receipts' \in {receipts, {}}
        /\ \/ remounted' = FALSE /\ dirty' = TRUE
           \/ UNCHANGED <<remounted, dirty>>
     \/ ~remounted /\ UNCHANGED <<dirty, receipts, remounted>>
  /\ UNCHANGED <<ram, disk>>

WorkerBegin ==
  /\ ~quiesced
  /\ BeginWrite("worker")
  /\ UNCHANGED <<clearing, own, radio, quiesced, controlVars, used, historyVars, spent>>

WorkerEnd(written, ok) ==
  /\ io.by = "worker"
  /\ Commit(written, ok)
  /\ UNCHANGED <<ram, remounted, clearing, own, radio, quiesced, controlVars, used,
                 historyVars, spent>>

(* What the owner task learns from a transition it has persisted.  A       *)
(* transition to AWAITING_ACK starts the ACK completion at its revision;   *)
(* any other one retires a completion that has admitted no ACK.            *)
Publish(to) ==
  IF own.row # call.row \/ own.row = 0 THEN own
  ELSE [own EXCEPT !.state = to,
                   !.rev = @ + 1,
                   !.attempt = IF to = "retry_tx" THEN @ + 1 ELSE @,
                   !.base = IF to = "awaiting_ack" THEN own.rev + 1
                            ELSE IF own.admitted THEN @ ELSE 0,
                   !.admitted = IF to = "awaiting_ack" THEN FALSE ELSE @,
                   !.heard = IF to = "awaiting_ack" \/ ~own.admitted
                             THEN NoHeard ELSE @]

OwnerFlushBegin ==
  /\ pc = "flush"
  /\ BeginWrite("owner")
  /\ pc' = "write"
  /\ UNCHANGED <<clearing, own, radio, quiesced, call, ret, used, historyVars, spent>>

(* The worker or the console has written the row first.                    *)
OwnerFlushClean ==
  /\ pc = "flush"
  /\ io.by = "none" /\ ~dirty /\ ~remounted
  /\ receipts' = {}
  /\ own' = Publish(call.to)
  /\ pc' = call.then /\ ret' = "ok"
  /\ UNCHANGED <<ram, disk, dirty, remounted, io, clearing, radio, quiesced, call, used,
                 historyVars, spent>>

(* Faulty variant: the owner learns only of a transition that is durable.  *)
OwnerFlushEndIfDurable(written, ok) ==
  /\ pc = "write"
  /\ Commit(written, ok)
  /\ ret' = IF ok /\ ram = io.rows THEN "ok" ELSE "error"
  /\ own' = IF ok /\ ram = io.rows THEN Publish(call.to) ELSE own
  /\ pc' = call.then
  /\ UNCHANGED <<ram, remounted, clearing, radio, quiesced, call, used, historyVars, spent>>

OwnerFlushEnd(written, ok) ==
  /\ pc = "write"
  /\ Commit(written, ok)
  /\ ret' = IF ok /\ ram = io.rows THEN "ok" ELSE "error"
  /\ own' = Publish(call.to)
  /\ pc' = call.then
  /\ UNCHANGED <<ram, remounted, clearing, radio, quiesced, call, used, historyVars, spent>>

(* A write that yields returns ESP_ERR_NOT_FINISHED; the append and every  *)
(* transition but the attempt's rebinding and the detached failure are     *)
(* then flushed again, for a limited time.                                 *)
OwnerFlushYield ==
  /\ pc = "write"
  /\ call.to # "retry_tx" /\ call.then # "released"
  /\ io' = NoIo /\ pc' = "flush"
  /\ UNCHANGED <<ram, disk, dirty, receipts, remounted, clearing, own, radio, quiesced,
                 call, ret, used, historyVars, spent>>

-----------------------------------------------------------------------------
(* meshcore_service_handle_send_dm                                         *)

TerminalWaiting == radio.phase \in {"done", "timeout"}   \* the first lane served
OwnerIdle       == pc = "idle" /\ ~TerminalWaiting

Continue(place) == pc' = place /\ UNCHANGED <<call, ret>>

(* A command waits in the owner's held slot while the radio is busy; then, *)
(* with no active session, the worker is quiesced and the row appended.    *)
SendDm(direct) ==
  /\ OwnerIdle /\ radio.phase = "idle"
  /\ own.row = 0
  /\ io.by # "worker"
  /\ used < MaxRows
  /\ IF RingRefuses
     THEN Continue("maint") /\ UNCHANGED <<ram, dirty, used, quiesced>>
     ELSE /\ Insert(Row("queued"))
          /\ quiesced' = TRUE
          /\ call' = [row |-> used + 1, to |-> "queued", then |-> "appended",
                      direct |-> direct]
          /\ pc' = "flush" /\ ret' = "ok"
  /\ UNCHANGED <<disk, receipts, remounted, io, clearing, own, radio, historyVars, spent>>

(* begin_pending_dm_tx: the session is owned from its durable append on.   *)
AfterAppendReserve ==
  /\ pc = "appended"
  /\ ret = "ok" /\ radio.phase = "idle"
  /\ own' = [NoOwner EXCEPT !.row = call.row, !.state = "queued", !.rev = 1,
                            !.direct = call.direct]
  /\ Transition(call.row, "queued", 1, "waiting_radio", "reserved")
  /\ UNCHANGED <<disk, receipts, remounted, io, clearing, radio, quiesced, used,
                 historyVars, spent>>

(* The append is not durable, the radio is busy or does not start: the row *)
(* fails without ever having had an owner.                                 *)
AfterAppendFail ==
  /\ pc = "appended"
  /\ Transition(call.row, "queued", 1, "failed_queue", "released")
  /\ UNCHANGED <<disk, receipts, remounted, io, clearing, own, radio, quiesced, used,
                 historyVars, spent>>

Released ==
  /\ pc = "released"
  /\ quiesced' = FALSE
  /\ Continue("maint")
  /\ UNCHANGED <<storeVars, clearing, own, radio, used, historyVars, spent>>

(* fail_pending_dm_before_radio                                            *)
FailBeforeRadio ==
  OwnTransition(IF own.state = "tx_active" THEN "failed_radio" ELSE "failed_queue",
                "notSent")

AfterReserved ==
  /\ pc = "reserved"
  /\ IF ret = "ok" THEN OwnTransition("tx_active", "started") ELSE FailBeforeRadio
  /\ UNCHANGED <<disk, receipts, remounted, io, clearing, own, radio, quiesced, used,
                 historyVars, spent>>

(* Faulty variant: the message goes out although TX_ACTIVE did not persist.*)
AfterStartedRegardless ==
  /\ pc = "started"
  /\ radio' = [row |-> own.row, rev |-> own.rev, phase |-> "air"]
  /\ sent' = [sent EXCEPT ![own.row][own.attempt] = @ + 1]
  /\ quiesced' = FALSE
  /\ Continue("maint")
  /\ UNCHANGED <<ram, disk, dirty, receipts, remounted, io, clearing, own, used, acked,
                 verdict, effects, spent>>

(* meshcore_radio_tx_operation_begin and Radio.SendWithOrigin.             *)
AfterStarted ==
  /\ pc = "started"
  /\ IF ret = "ok"
     THEN /\ radio' = [row |-> own.row, rev |-> own.rev, phase |-> "air"]
          /\ sent' = [sent EXCEPT ![own.row][own.attempt] = @ + 1]
          /\ quiesced' = FALSE
          /\ Continue("maint")
          /\ UNCHANGED <<ram, dirty>>
     ELSE FailBeforeRadio /\ UNCHANGED <<radio, sent, quiesced>>
  /\ UNCHANGED <<disk, receipts, remounted, io, clearing, own, used, acked, verdict,
                 effects, spent>>

ClearedIfTerminal == IF own.state \in Terminal THEN NoOwner ELSE own

AfterNotSent ==
  /\ pc = "notSent"
  /\ own' = ClearedIfTerminal
  /\ quiesced' = FALSE
  /\ Continue("maint")
  /\ UNCHANGED <<storeVars, clearing, radio, used, historyVars, spent>>

-----------------------------------------------------------------------------
(* Received messages and other transmissions of the owner task             *)

(* A received message is appended without I/O; the worker writes it later. *)
ReceiveDm ==
  /\ OwnerIdle
  /\ used < MaxRows
  /\ ~RingRefuses
  /\ Insert(Row("rx"))
  /\ Continue("maint")
  /\ UNCHANGED <<disk, receipts, remounted, io, clearing, own, radio, quiesced,
                 historyVars, spent>>

(* An advert, a channel message or an ACK response takes the radio.        *)
SendOther ==
  /\ OwnerIdle
  /\ radio.phase = "idle"
  /\ radio' = [RadioIdle EXCEPT !.phase = "air"]
  /\ Continue("maint")
  /\ UNCHANGED <<storeVars, clearing, own, quiesced, used, historyVars, spent>>

-----------------------------------------------------------------------------
(* Radio callbacks and their owner-side handlers                           *)

(* The driver latches one terminal event for the operation it was given;   *)
(* if it never reports, the watchdog recovers the operation as timed out.  *)
RadioEnds(phase) ==
  /\ radio.phase = "air"
  /\ radio' = [radio EXCEPT !.phase = phase]
  /\ UNCHANGED <<storeVars, clearing, own, quiesced, controlVars, used, historyVars, spent>>

(* meshcore_radio_terminal_matches                                         *)
TerminalMatches ==
  radio.row # 0 => /\ own.row = radio.row /\ own.rev = radio.rev
                   /\ own.state = "tx_active"

RadioTxDone ==
  /\ pc = "idle" /\ radio.phase = "done" /\ TerminalMatches
  /\ radio' = RadioIdle
  /\ IF radio.row = 0
     THEN Continue("maint") /\ UNCHANGED <<ram, dirty>>
     ELSE OwnTransition("tx_done", "txDone")
  /\ UNCHANGED <<disk, receipts, remounted, io, clearing, own, quiesced, used,
                 historyVars, spent>>

RadioTxTimeout ==
  /\ pc = "idle" /\ radio.phase = "timeout" /\ TerminalMatches
  /\ radio' = RadioIdle
  /\ IF radio.row = 0
     THEN Continue("maint") /\ UNCHANGED <<ram, dirty>>
     ELSE OwnTransition("failed_radio", "notSent")
  /\ UNCHANGED <<disk, receipts, remounted, io, clearing, own, quiesced, used,
                 historyVars, spent>>

AfterTxDone ==
  /\ pc = "txDone"
  /\ IF own.state = "tx_done"
     THEN OwnTransition("awaiting_ack", "awaiting")
     ELSE Continue("maint") /\ UNCHANGED <<ram, dirty>>
  /\ UNCHANGED <<disk, receipts, remounted, io, clearing, own, radio, quiesced, used,
                 historyVars, spent>>

(* Faulty variant: the deadline is armed only if the state is durable.     *)
AfterAwaitingDurable ==
  /\ pc = "awaiting"
  /\ own' = IF own.state = "awaiting_ack" /\ ret = "ok"
            THEN [own EXCEPT !.armed = TRUE, !.due = FALSE] ELSE own
  /\ Continue("maint")
  /\ UNCHANGED <<storeVars, clearing, radio, quiesced, used, historyVars, spent>>

(* The deadline is armed from what the owner has become, not from whether  *)
(* the transition is durable.                                              *)
AfterAwaiting ==
  /\ pc = "awaiting"
  /\ own' = IF own.state = "awaiting_ack"
            THEN [own EXCEPT !.armed = TRUE, !.due = FALSE] ELSE own
  /\ Continue("maint")
  /\ UNCHANGED <<storeVars, clearing, radio, quiesced, used, historyVars, spent>>

Expire ==
  /\ own.armed /\ ~own.due
  /\ own' = [own EXCEPT !.due = TRUE]
  /\ UNCHANGED <<storeVars, clearing, radio, quiesced, controlVars, used, historyVars, spent>>

-----------------------------------------------------------------------------
(* record_dm_ack and transition_pending_dm_ack                             *)

Binding == [rev |-> own.rev, attempt |-> own.attempt]

(* The ACK of the attempt in hand arrives (again); one for another attempt *)
(* or session, or after an admitted one, changes nothing.  The row moves in*)
(* RAM only: the session waits for the worker to make the ACK durable.  A  *)
(* comparison that fails forgets the receipt.                              *)
HandleAck ==
  /\ OwnerIdle
  /\ own.row # 0 /\ own.state = "awaiting_ack" /\ ~own.admitted
  /\ sent[own.row][own.attempt] > 0
  /\ own.base = own.rev /\ own.heard \in {NoHeard, Binding}
  /\ IF MatchesRow(own.row, "awaiting_ack", own.rev, "acknowledged")
     THEN /\ ram' = [ram EXCEPT ![own.row] = Moved(@, "acknowledged")]
          /\ dirty' = TRUE
          /\ receipts' = receipts \cup {own.row}
          /\ own' = [own EXCEPT !.admitted = TRUE, !.pending = TRUE, !.heard = Binding]
          /\ acked' = acked \cup {own.row}
     ELSE /\ own' = [own EXCEPT !.heard = NoHeard]
          /\ UNCHANGED <<ram, dirty, receipts, acked>>
  /\ Continue("maint")
  /\ UNCHANGED <<disk, remounted, io, clearing, radio, quiesced, used, sent, verdict,
                 effects, spent>>

-----------------------------------------------------------------------------
(* meshcore_service_run_owner_maintenance                                  *)

Poll ==
  /\ OwnerIdle
  /\ Continue("maint")
  /\ UNCHANGED <<storeVars, clearing, own, radio, quiesced, used, historyVars, spent>>

(* An ACK response waiting for the radio, or Public history waiting to be  *)
(* written, goes first.                                                    *)
Deferred ==
  /\ pc \in {"maint", "reconcile"} /\ radio.phase = "idle"
  /\ Continue("idle")
  /\ UNCHANGED <<storeVars, clearing, own, radio, quiesced, used, historyVars, spent>>

OrphanFailure(state) ==
  CASE state \in {"queued", "waiting_radio", "retry_tx"} -> "failed_queue"
    [] state = "tx_active"                               -> "failed_radio"
    [] state \in {"tx_done", "retry_wait"}               -> "failed_timeout"

IsOrphan ==
  /\ own.row # 0
  /\ own.state \in Open \ {"awaiting_ack"}
  /\ ~own.pending /\ ~own.admitted

(* Nothing is done while the radio is busy; a session without a radio      *)
(* operation that waits for none is failed.                                *)
Maintain ==
  /\ pc = "maint"
  /\ IF radio.phase # "idle"
     THEN Continue("idle") /\ UNCHANGED <<ram, dirty>>
     ELSE IF IsOrphan
     THEN OwnTransition(OrphanFailure(own.state), "orphaned")
     ELSE Continue("reconcile") /\ UNCHANGED <<ram, dirty>>
  /\ UNCHANGED <<disk, receipts, remounted, io, clearing, own, radio, quiesced, used,
                 historyVars, spent>>

AfterOrphaned ==
  /\ pc = "orphaned"
  /\ own' = ClearedIfTerminal
  /\ Continue("reconcile")
  /\ UNCHANGED <<storeVars, clearing, radio, quiesced, used, historyVars, spent>>

(* Faulty variant: the row is read without the mask.                       *)
AckIsInRam ==
  /\ own.pending /\ own.admitted /\ own.state = "awaiting_ack"
  /\ ram[own.row].state = "acknowledged"

(* Faulty variant: the admitted revision is looked for one too low.        *)
AckIsVisibleAtBase ==
  /\ own.pending /\ own.admitted /\ own.state = "awaiting_ack"
  /\ Visible(own.row).state = "acknowledged" /\ Visible(own.row).rev = own.rev

(* reconcile_pending_dm_ack_persistence: the store shows the acknowledged  *)
(* revision, so the effects of the ACK are taken, once, and the session is *)
(* released.                                                               *)
AckIsVisible ==
  /\ own.pending /\ own.admitted /\ own.state = "awaiting_ack"
  /\ Visible(own.row).state = "acknowledged" /\ Visible(own.row).rev = own.rev + 1
  /\ own.heard = [rev |-> own.base, attempt |-> own.attempt]

ReconcileAck ==
  /\ pc = "reconcile"
  /\ AckIsVisible
  /\ effects' = [effects EXCEPT ![own.row] = @ + 1]
  /\ verdict' = IF own.direct THEN [verdict EXCEPT ![own.row] = @ + 1] ELSE verdict
  /\ own' = NoOwner
  /\ Continue("idle")
  /\ UNCHANGED <<storeVars, clearing, radio, quiesced, used, sent, acked, spent>>

DeadlineDue == ~own.admitted /\ own.state = "awaiting_ack" /\ own.armed /\ own.due

(* d1l_meshcore_dm_ack_deadline_take_due: only the first direct attempt is *)
(* retried, and only once.                                                 *)
RetryDue == own.direct /\ own.attempt = 0 /\ ~own.retried

DeadlineTaken == [own EXCEPT !.armed = FALSE, !.due = FALSE]

(* Faulty variant: the retry does not mark itself consumed.                *)
RetryTakenUnmarked == DeadlineTaken
RetryTaken         == [DeadlineTaken EXCEPT !.retried = TRUE]

(* retry_pending_dm_as_flood: the direct path is blamed, the worker is     *)
(* quiesced and the retry is scheduled; if the contact, the packet or the  *)
(* quiesce is not to be had, the session times out.                        *)
RetryAsFlood ==
  /\ pc = "reconcile" /\ ~AckIsVisible
  /\ DeadlineDue /\ RetryDue
  /\ own' = RetryTaken
  /\ verdict' = [verdict EXCEPT ![own.row] = @ + 1]
  /\ \/ /\ io.by # "worker"
        /\ quiesced' = TRUE
        /\ OwnTransition("retry_wait", "retryWait")
     \/ /\ OwnTransition("failed_timeout", "timedOut")
        /\ UNCHANGED quiesced
  /\ UNCHANGED <<disk, receipts, remounted, io, clearing, radio, used, sent, acked,
                 effects, spent>>

FailAckTimeout ==
  /\ pc = "reconcile" /\ ~AckIsVisible
  /\ DeadlineDue /\ ~RetryDue
  /\ own' = DeadlineTaken
  /\ OwnTransition("failed_timeout", "timedOut")
  /\ UNCHANGED <<disk, receipts, remounted, io, clearing, radio, quiesced, used,
                 historyVars, spent>>

NothingDue ==
  /\ pc = "reconcile" /\ ~AckIsVisible /\ ~DeadlineDue
  /\ Continue("idle")
  /\ UNCHANGED <<storeVars, clearing, own, radio, quiesced, used, historyVars, spent>>

(* A session that could not be failed keeps a deadline.                    *)
AfterTimedOut ==
  /\ pc = "timedOut"
  /\ own' = IF own.row = 0 \/ own.state \in Terminal THEN NoOwner
            ELSE [own EXCEPT !.armed = TRUE, !.due = FALSE]
  /\ quiesced' = FALSE
  /\ Continue("idle")
  /\ UNCHANGED <<storeVars, clearing, radio, used, historyVars, spent>>

AfterRetryWait ==
  /\ pc = "retryWait"
  /\ IF ret = "ok" THEN OwnTransition("retry_tx", "retryTx")
                   ELSE OwnTransition("failed_timeout", "timedOut")
  /\ UNCHANGED <<disk, receipts, remounted, io, clearing, own, radio, quiesced, used,
                 historyVars, spent>>

(* The new attempt, with its own ACK hash, goes out as a flood.            *)
AfterRetryTx ==
  /\ pc = "retryTx"
  /\ IF ret = "ok"
     THEN /\ own' = [own EXCEPT !.direct = FALSE]
          /\ OwnTransition("waiting_radio", "reserved")
     ELSE /\ IF own.state = "retry_wait" THEN OwnTransition("failed_timeout", "timedOut")
                                         ELSE FailBeforeRadio
          /\ UNCHANGED own
  /\ UNCHANGED <<disk, receipts, remounted, io, clearing, radio, quiesced, used,
                 historyVars, spent>>

-----------------------------------------------------------------------------
(* The rest of the device                                                  *)

(* `messages dm clear` empties the ring in RAM and erases the NVS copy,    *)
(* which may be the only medium; then, unless the erase failed, it flushes.*)
ConsoleClear ==
  /\ ~clearing
  /\ spent.clears < MaxClears
  /\ spent' = [spent EXCEPT !.clears = @ + 1]
  /\ ram' = NoRows /\ receipts' = {} /\ dirty' = TRUE
  /\ disk' \in {disk, NoRows}
  /\ clearing' \in BOOLEAN
  /\ UNCHANGED <<remounted, io, own, radio, quiesced, controlVars, used, historyVars>>

ConsoleBegin ==
  /\ clearing
  /\ BeginWrite("console")
  /\ UNCHANGED <<clearing, own, radio, quiesced, controlVars, used, historyVars, spent>>

ConsoleEnd(written, ok) ==
  /\ io.by = "console"
  /\ Commit(written, ok)
  /\ clearing' = FALSE
  /\ UNCHANGED <<ram, remounted, own, radio, quiesced, controlVars, used, historyVars, spent>>

(* The card is mounted late, again or exchanged for a copy of itself.      *)
Remount ==
  /\ spent.remounts < MaxRemounts
  /\ spent' = [spent EXCEPT !.remounts = @ + 1]
  /\ remounted' = TRUE
  /\ UNCHANGED <<ram, disk, dirty, receipts, io, clearing, own, radio, quiesced,
                 controlVars, used, historyVars>>

(* Faulty variant: a reboot loads the rows as they were written.           *)
InterruptedAsIs(row) == row

(* normalize_interrupted_delivery_locked                                   *)
Interrupted(row) ==
  IF row.state \in InFlight
  THEN [row EXCEPT !.state = "interrupted", !.rev = @ + 1] ELSE row

Reboot ==
  /\ spent.crashes < MaxCrashes
  /\ spent' = [spent EXCEPT !.crashes = @ + 1]
  /\ ram' = [r \in Rows |-> Interrupted(disk[r])]
  /\ dirty' = (ram' # disk)
  /\ receipts' = {} /\ remounted' = FALSE /\ io' = NoIo /\ clearing' = FALSE
  /\ own' = NoOwner /\ radio' = RadioIdle /\ quiesced' = FALSE
  /\ pc' = "idle" /\ call' = NoCall /\ ret' = "ok"
  /\ UNCHANGED <<disk, used, historyVars>>

-----------------------------------------------------------------------------
FlushStep ==
  \/ OwnerFlushBegin \/ OwnerFlushClean
  \/ \E o \in PossibleOutcomes : OwnerFlushEnd(o.written, o.ok)

Continuation ==
  \/ AfterAppendReserve \/ AfterAppendFail \/ Released \/ AfterReserved
  \/ AfterStarted \/ AfterNotSent \/ AfterTxDone \/ AfterAwaiting
  \/ AfterOrphaned \/ AfterTimedOut \/ AfterRetryWait \/ AfterRetryTx

Maintenance ==
  \/ Poll \/ Deferred \/ Maintain
  \/ ReconcileAck \/ RetryAsFlood \/ FailAckTimeout \/ NothingDue

Handler ==
  \/ \E direct \in BOOLEAN : SendDm(direct)
  \/ ReceiveDm \/ SendOther \/ RadioTxDone \/ RadioTxTimeout \/ HandleAck

OwnerStep == FlushStep \/ Continuation \/ Maintenance \/ Handler

DmNext ==
  \/ OwnerStep \/ OwnerFlushYield
  \/ WorkerBegin \/ \E o \in PossibleOutcomes : WorkerEnd(o.written, o.ok)
  \/ \E phase \in {"done", "timeout"} : RadioEnds(phase)
  \/ Expire
  \/ ConsoleClear \/ ConsoleBegin
  \/ \E o \in PossibleOutcomes : ConsoleEnd(o.written, o.ok)
  \/ Remount \/ Reboot

Spec == DmInit /\ [][DmNext]_vars

(* The owner task, its radio (whose watchdog bounds every operation) and   *)
(* its timer always go on.  The retained worker is woken periodically and  *)
(* the retry loop of a yielding write is bounded in time.  Maintenance is  *)
(* put off only for one ACK response, whose own TX end is followed by      *)
(* maintenance, and for Public history until its deadline.  Media failures *)
(* are transient: a write that is tried again and again succeeds.          *)
Fairness ==
  /\ WF_vars(OwnerStep)
  /\ WF_vars(\E phase \in {"done", "timeout"} : RadioEnds(phase))
  /\ WF_vars(Expire)
  /\ SF_vars(Maintain /\ radio.phase = "idle")
  /\ SF_vars(ReconcileAck \/ RetryAsFlood \/ FailAckTimeout)
  /\ SF_vars(OwnerFlushBegin \/ OwnerFlushClean)
  /\ SF_vars(\E o \in PossibleOutcomes : OwnerFlushEnd(o.written, o.ok))
  /\ SF_vars(WorkerBegin)
  /\ SF_vars(WorkerEnd(TRUE, TRUE))
  /\ WF_vars(\E o \in PossibleOutcomes : ConsoleEnd(o.written, o.ok))

FairSpec == Spec /\ Fairness

-----------------------------------------------------------------------------
(* Properties                                                              *)

Nats      == [Rows -> Nat]
RowRecord == [state : RowStates, rev : Nat, attempt : Nat]
Owners    == [row : Rows \cup {0}, state : RowStates, rev : Nat, attempt : Nat,
              direct : BOOLEAN, retried : BOOLEAN, base : Nat, admitted : BOOLEAN,
              heard : [rev : Nat, attempt : Nat], pending : BOOLEAN,
              armed : BOOLEAN, due : BOOLEAN]
Places    == {"idle", "flush", "write", "appended", "released", "reserved", "started",
              "notSent", "txDone", "awaiting", "maint", "orphaned", "reconcile",
              "timedOut", "retryWait", "retryTx"}
Returns   == Places \ {"flush", "write"}

(* The types of all variables.  A session that is over leaves nothing      *)
(* behind: with no row owned, s_pending_dm_tx is all zero                  *)
(* (clear_pending_dm_tx).                                                  *)
TypeOK ==
  /\ ram \in [Rows -> RowRecord] /\ disk \in [Rows -> RowRecord]
  /\ dirty \in BOOLEAN /\ receipts \subseteq Rows /\ remounted \in BOOLEAN
  /\ io \in [by : {"none", "owner", "worker", "console"}, rows : [Rows -> RowRecord]]
  /\ clearing \in BOOLEAN
  /\ own \in Owners /\ (own.row = 0 => own = NoOwner)
  /\ radio \in [row : Rows \cup {0}, rev : Nat, phase : {"idle", "air", "done", "timeout"}]
  /\ quiesced \in BOOLEAN
  /\ pc \in Places
  /\ call \in [row : Rows \cup {0}, to : RowStates, then : Returns, direct : BOOLEAN]
  /\ ret \in {"ok", "error"}
  /\ used \in 0..MaxRows
  /\ sent \in [Rows -> [0..1 -> Nat]]
  /\ acked \subseteq Rows
  /\ verdict \in Nats /\ effects \in Nats
  /\ spent \in [crashes : Nat, clears : Nat, remounts : Nat]

(* The owner never drifts from the row it delivers: while the row is in    *)
(* the ring its state, revision and attempt are the owner's, one transition*)
(* ahead while that one is persisted, or the admitted ACK, which leaves    *)
(* the owner behind on purpose (publish_to_owner in transition_pending_dm_ *)
(* tx; transition_pending_dm_ack).  Otherwise every later compare-and-swap *)
(* of the session would fail.                                              *)
Persisting == pc \in {"flush", "write"} /\ call.row = own.row
OwnerMatchesRow ==
  own.row # 0 /\ ram[own.row] # Absent =>
    LET row == ram[own.row] IN
    IF Persisting
    THEN row = Moved([state |-> own.state, rev |-> own.rev, attempt |-> own.attempt], call.to)
    ELSE \/ row.state = own.state /\ row.rev = own.rev /\ row.attempt = own.attempt
         \/ row.state = "acknowledged" /\ row.rev = own.rev + 1 /\ own.admitted

(* Between two dispatches a session always has something that will end it: *)
(* it never rests in a terminal state, and one that awaits its ACK has an  *)
(* armed deadline or an admitted ACK, although the AWAITING_ACK write may  *)
(* have failed (the comment in meshcore_service_handle_radio_tx_done).     *)
SessionHasDriver ==
  pc = "idle" /\ own.row # 0 =>
    /\ own.state \in Open
    /\ own.state = "awaiting_ack" => (own.armed \/ (own.admitted /\ own.pending))

(* Between two dispatches a row that claims to be on its way to the peer   *)
(* belongs to the session that moves it.  After a power loss only a message*)
(* that was waiting for its turn (QUEUED) or its retry (RETRY_WAIT) may    *)
(* claim it: d1l_dm_store_init turns the others into INTERRUPTED.          *)
OpenRowsOwned ==
  pc = "idle" =>
    \A r \in Rows :
      Visible(r).state \in Open =>
        own.row = r \/ (spent.crashes > 0 /\ Visible(r).state \in {"queued", "retry_wait"})

(* Nothing is stranded between two dispatches: every row on its way has    *)
(* its session, and the session has what will end it.                      *)
OpenRowsDriven == OpenRowsOwned /\ SessionHasDriver

(* Nothing goes on the air before the medium says so: a transmission of a  *)
(* message that was not cleared finds TX_ACTIVE written, with the attempt  *)
(* it sends, so that no reboot can take a sent message for an unsent one   *)
(* ("RF remains blocked until this row is durable").                       *)
RfOnlyAfterDurable ==
  [][\A r \in Rows : sent'[r] # sent[r] /\ ram[r] # Absent =>
       disk[r].state = "tx_active" /\ disk[r].attempt = own.attempt]_vars

(* A direct path is blamed or credited at most once for a message, however *)
(* often its deadline is armed again (flood_retry_consumed,                *)
(* record_pending_direct_path_result).                                     *)
PathJudgedOnce == \A r \in Rows : verdict[r] <= 1

(* The route credit and the delivery log of an ACK are taken only when a   *)
(* reboot would find the message acknowledged ("Reaching this branch       *)
(* proves the exact next revision is durable"), and at most once.  It holds*)
(* until the card is mounted again: the merge then drops the receipts.     *)
EffectsAreDurable ==
  [][spent'.remounts = 0 =>
       \A r \in Rows : effects'[r] # effects[r] =>
         disk[r].state = "acknowledged" /\ effects[r] = 0]_vars

(* A message once shown as acknowledged is never shown as anything else,   *)
(* not even after a power loss; it can only leave the ring.                *)
AckTruthSurvives ==
  [][spent'.remounts = 0 =>
       \A r \in Rows : Visible(r).state = "acknowledged" =>
         Visible(r)'.state \in {"acknowledged", "absent"}]_vars

(* Every delivery session whose row stays in the ring ends: attempts and   *)
(* lifetime are bounded, through power losses and remounts too, and the    *)
(* next direct message is admitted again (meshcore_service_handle_send_dm  *)
(* rejects every message while a session is active).  The session of a row *)
(* that was cleared or evicted need not end.                               *)
SessionEnds == \A r \in Rows : own.row = r ~> own.row # r \/ ram[r] = Absent
=============================================================================
