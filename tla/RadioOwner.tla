----------------------------- MODULE RadioOwner -----------------------------
(* One radio transmission at a time, and how it ends.                       *)
(*                                                                          *)
(* The mesh owner task (meshcore_service_task) starts a transmission with a *)
(* fresh origin, the SX1262 driver's IRQ task reports its end through the   *)
(* terminal lane, and a watchdog takes the origin back when no report       *)
(* comes.  The same owner drains three queues of ordinary work, dispatching *)
(* only while it holds the reservation bit of the lane.                     *)
(*                                                                          *)
(* Abstracted: packets, the DONE/TIMEOUT difference of a terminal, task     *)
(* notifications (every wait of the owner ends by its own poll period), a   *)
(* radio profile that cannot be configured (the settings refuse it), the    *)
(* admin responses of the priority queue, which leave the radio alone, and  *)
(* the request slots of synchronous callers (module CommandSlots).          *)
EXTENDS Integers, Sequences, FiniteSets

CONSTANTS
  SlotCount,      \* D1L_MESHCORE_TX_ORIGIN_HISTORY_LEN
  MaxOp,          \* UINT32_MAX, after which no operation begins
  QueueCap,       \* places of each of the three queues
  EdgeCap,        \* places of the driver's gpio_evt_queue
  EventBurst,     \* D1L_MESH_OWNER_RADIO_EVENT_BURST_MAX
  PriorityBurst   \* D1L_MESH_OWNER_PRIORITY_COMMAND_BURST_MAX

ASSUME SlotCountAssumption == SlotCount \in 1..30
ASSUME BoundsAssumption ==
  /\ MaxOp \in Nat /\ QueueCap \in Nat \ {0} /\ EdgeCap \in Nat \ {0}
  /\ EventBurst \in Nat \ {0} /\ PriorityBurst \in Nat \ {0}

VARIABLES
  opc,         \* where the owner task is in its loop
  active,      \* s_active_radio_tx: the operation on the air, 0 for none
  activeAck,   \* s_active_tx_ack_response
  nextOp,      \* s_next_radio_tx_operation_id
  watch,       \* s_radio_tx_watchdog: off, armed, or past its deadline
  hist,        \* s_callback_tx_history: per slot its operation and terminal state
  lane,        \* s_terminal_lane: pending slots and the owner's reservation
  grabbed,     \* pending_slots of the terminal scan in progress
  event,       \* the operation whose terminal the owner is handling
  rxBit,       \* s_pending_rx_recovery
  rxTaken,     \* rx_recovery of this pass
  ackPending,  \* s_pending_ack_tx.active
  events,      \* s_radio_event_queue, by its length
  priority,    \* s_priority_command_queue
  normal,      \* s_service_queue, by its length
  cmd,         \* the dequeued command
  held,        \* held_cmd
  bursts,      \* d1l_mesh_owner_scheduler_t
  radio,       \* SX1262 and driver: RadioTxOrigin, operating mode, IRQ status
  edges,       \* gpio_evt_queue: the origin each edge was stamped with
  claim,       \* RadioIrqRecoveryClaim and who holds it
  irq,         \* the driver's IRQ task
  line,        \* a GPIO edge of the expander that has not been served yet
  settling     \* the owner has not dispatched since the last event on the air

ownerVars == <<active, activeAck, nextOp, watch, ackPending, held, cmd, event,
               grabbed, rxTaken, bursts>>
queueVars == <<events, priority, normal>>
driverVars == <<radio, edges, line, claim, irq, settling>>
vars == <<opc, ownerVars, hist, lane, rxBit, queueVars, driverVars>>

Ops   == 1..MaxOp
Slots == 0..(SlotCount - 1)
SlotOf(op) == (op - 1) % SlotCount
Busy  == active # 0
OwnerPlaces == {"take", "scan", "terminal", "peek", "reserve", "rx", "choose",
                "validate", "maintain", "recover", "quiesce"}
IrqPlaces == {"idle", "check", "process", "latch", "cas", "write", "rx"}
\* The two callbacks of a terminal are one path of the IRQ task.
InCallback == irq.pc \in {"latch", "cas", "write"}
\* Commands that meshcore_service_command_requires_idle_tx keeps while busy.
NeedsIdleTx(c) == c \in {"ack", "raw", "send"}
Idle == [pc |-> "idle", origin |-> 0, op |-> 0, flags |-> {}]

TypeOK ==
  /\ opc \in OwnerPlaces
  /\ active \in 0..MaxOp /\ nextOp \in 0..MaxOp /\ event \in 0..MaxOp
  /\ activeAck \in BOOLEAN /\ ackPending \in BOOLEAN
  /\ rxBit \in BOOLEAN /\ rxTaken \in BOOLEAN
  /\ watch \in {"off", "armed", "due"}
  /\ hist \in [Slots -> [op : 0..MaxOp, term : {"none", "writing", "final"}]]
  /\ lane \in [pending : SUBSET Slots, reserved : BOOLEAN]
  /\ grabbed \subseteq Slots
  /\ events \in 0..QueueCap /\ normal \in 0..QueueCap
  /\ priority \in Seq({"ack", "raw"}) /\ Len(priority) <= QueueCap
  /\ {cmd, held} \subseteq {"none", "event", "ack", "raw", "send", "start"}
  /\ bursts \in [event : 0..EventBurst, priority : 0..PriorityBurst]
  /\ radio \in [origin : 0..MaxOp, mode : {"standby", "rx", "tx"},
                flags : SUBSET {"tx", "rx"}]
  /\ edges \in Seq(0..MaxOp) /\ Len(edges) <= EdgeCap
  /\ claim \in {"none", "irq", "owner"}
  /\ irq \in [pc : IrqPlaces, origin : 0..MaxOp, op : 0..MaxOp,
              flags : SUBSET {"tx", "rx"}]
  /\ settling \in BOOLEAN
  /\ line \in BOOLEAN

Init ==
  /\ opc = "take" /\ active = 0 /\ activeAck = FALSE /\ nextOp = 0
  /\ watch = "off" /\ hist = [s \in Slots |-> [op |-> 0, term |-> "none"]]
  /\ lane = [pending |-> {}, reserved |-> FALSE]
  /\ grabbed = {} /\ event = 0 /\ rxBit = FALSE /\ rxTaken = FALSE
  /\ ackPending = FALSE /\ events = 0 /\ priority = <<>> /\ normal = 0
  /\ cmd = "none" /\ held = "none"
  /\ bursts = [event |-> 0, priority |-> 0]
  /\ radio = [origin |-> 0, mode |-> "standby", flags |-> {}]
  /\ edges = <<>> /\ claim = "none" /\ irq = Idle
  /\ settling = FALSE /\ line = FALSE

----------------------------------------------------------------------------
(* Producers of ordinary work.                                              *)

\* A console, UI or BLE command: a transmission ("send") or an RX start.  Which
\* of them it is shows when it is dequeued.
PostNormal ==
  /\ normal < QueueCap /\ normal' = normal + 1
  /\ UNCHANGED <<opc, ownerVars, hist, lane, rxBit, events, priority,
                 driverVars>>

----------------------------------------------------------------------------
(* Starting and ending a transmission.                                      *)

\* meshcore_radio_tx_operation_begin, then SendWithOrigin.  The watchdog is
\* armed and the history slot published before the radio is touched.
StartTx(ack) ==
  /\ nextOp' = nextOp + 1
  /\ active' = nextOp + 1
  /\ activeAck' = ack
  /\ watch' = "armed"
  /\ hist' = [hist EXCEPT ![SlotOf(nextOp + 1)] =
                [op |-> nextOp + 1, term |-> "none"]]
  /\ radio' = [radio EXCEPT !.origin = nextOp + 1, !.mode = "tx"]
  /\ settling' = TRUE

CanStartTx == ~Busy /\ nextOp < MaxOp

\* d1l_mesh_rx_restart_begin: a busy radio only remembers the request.
RestartRx(busy) ==
  IF busy
  THEN rxBit' = TRUE /\ UNCHANGED radio
  ELSE rxBit' = FALSE /\ radio' = [radio EXCEPT !.mode = "rx"]

\* meshcore_service_handle_radio_tx_done / _timeout for the operation op.
\* r is the radio as the caller leaves it.  A terminal of another operation is
\* dropped whole.
EndTx(op, r) ==
  IF op = active
  THEN /\ active' = 0 /\ watch' = "off" /\ activeAck' = FALSE
       /\ rxBit' = FALSE
       /\ radio' = [r EXCEPT !.mode = "rx"]
       /\ ackPending' = (ackPending /\ ~activeAck)
  ELSE radio' = r /\ UNCHANGED <<active, watch, activeAck, rxBit, ackPending>>

----------------------------------------------------------------------------
(* The owner's loop: terminals first.                                       *)

\* d1l_mesh_terminal_lane_take_pending.
Take ==
  /\ opc = "take"
  /\ grabbed' = lane.pending
  /\ lane' = [lane EXCEPT !.pending = {}]
  /\ opc' = IF lane.pending = {} THEN "peek" ELSE "scan"
  /\ UNCHANGED <<active, activeAck, nextOp, watch, ackPending, held, cmd, event,
                 rxTaken, bursts, hist, rxBit, queueVars, driverVars>>

\* Faulty variant: the bits of an unfinished callback are not put back.
ScanForgets ==
  /\ opc = "scan"
  /\ IF \E s \in grabbed : hist[s].term # "final"
     THEN opc' = "peek" /\ UNCHANGED event
     ELSE /\ \E s \in grabbed : event' = hist[s].op
          /\ opc' = "terminal"
  /\ grabbed' = {}
  /\ UNCHANGED <<active, activeAck, nextOp, watch, ackPending, held, cmd, rxTaken,
                 bursts, hist, lane, rxBit, queueVars, driverVars>>

\* meshcore_service_take_latched_terminal: a slot whose callback has not yet
\* written it puts every taken bit back; otherwise the newest terminal is read.
Scan ==
  /\ opc = "scan"
  /\ IF \E s \in grabbed : hist[s].term # "final"
     THEN /\ lane' = [lane EXCEPT !.pending = @ \cup grabbed]
          /\ opc' = "peek" /\ UNCHANGED event
     ELSE /\ \E s \in grabbed :
               /\ \A t \in grabbed : hist[t].op <= hist[s].op
               /\ event' = hist[s].op
          /\ opc' = "terminal" /\ UNCHANGED lane
  /\ grabbed' = {}
  /\ UNCHANGED <<active, activeAck, nextOp, watch, ackPending, held, cmd, rxTaken,
                 bursts, hist, rxBit, queueVars, driverVars>>

\* The recovered terminal is handled without a reservation.
Terminal ==
  /\ opc = "terminal"
  /\ EndTx(event, radio)
  /\ event' = 0
  /\ opc' = "maintain"
  /\ UNCHANGED <<nextOp, held, cmd, grabbed, rxTaken, bursts, hist, lane,
                 queueVars, edges, claim, irq, settling, line>>

\* d1l_mesh_terminal_lane_has_pending, then d1l_mesh_rx_recovery_take: the
\* owner yields to a callback in progress, and leaves the RX request of a busy
\* radio where it is.
Peek ==
  /\ opc = "peek"
  /\ IF lane.pending # {}
     THEN opc' = "take" /\ UNCHANGED <<rxTaken, rxBit>>
     ELSE /\ opc' = "reserve"
          /\ rxTaken' = (rxBit /\ ~Busy)
          /\ rxBit' = (rxBit /\ Busy)
  /\ UNCHANGED <<active, activeAck, nextOp, watch, ackPending, held, cmd, event,
                 grabbed, bursts, hist, lane, queueVars, driverVars>>

\* d1l_mesh_terminal_lane_try_reserve_owner.
Reserve ==
  /\ opc = "reserve"
  /\ IF lane.pending = {}
     THEN /\ lane' = [lane EXCEPT !.reserved = TRUE]
          /\ opc' = IF rxTaken THEN "rx" ELSE "choose"
          /\ UNCHANGED rxBit
     ELSE /\ opc' = "take"
          /\ rxBit' = (rxBit \/ rxTaken)
          /\ UNCHANGED lane
  /\ UNCHANGED <<ownerVars, hist, queueVars, driverVars>>

\* A requested RX restart, validated against a callback that came meanwhile.
RxRecovery ==
  /\ opc = "rx"
  /\ IF lane.pending = {}
     THEN RestartRx(Busy) /\ opc' = "maintain" /\ UNCHANGED lane
     ELSE /\ rxBit' = TRUE /\ opc' = "take"
          /\ lane' = [lane EXCEPT !.reserved = FALSE]
          /\ UNCHANGED radio
  /\ UNCHANGED <<ownerVars, hist, queueVars, edges, claim, irq, settling,
                 line>>

----------------------------------------------------------------------------
(* The owner's loop: one item of ordinary work.                             *)

UrgentAck == ackPending /\ ~Busy /\ priority # <<>>

\* Faulty variant: received packets always go first.
TakeEventAlways ==
  /\ ~UrgentAck /\ events > 0
  /\ cmd' = "event" /\ events' = events - 1
  /\ UNCHANGED <<bursts, priority, normal>>

\* d1l_mesh_owner_scheduler_choose, after the override for a pending ACK.
ForcedNormal == normal > 0 /\ bursts.priority >= PriorityBurst
Bumped == IF bursts.priority < PriorityBurst THEN bursts.priority + 1
                                             ELSE bursts.priority

TakeEvent ==
  /\ ~UrgentAck /\ events > 0
  /\ \/ /\ bursts.event < EventBurst
        /\ bursts' = [bursts EXCEPT !.event = @ + 1]
     \/ /\ bursts.event >= EventBurst /\ priority = <<>> /\ normal = 0
        /\ UNCHANGED bursts
  /\ cmd' = "event" /\ events' = events - 1
  /\ UNCHANGED <<priority, normal>>

TakePriority ==
  /\ priority # <<>>
  /\ UrgentAck \/ (~(events > 0 /\ bursts.event < EventBurst) /\ ~ForcedNormal)
  /\ bursts' = [event |-> 0, priority |-> Bumped]
  /\ cmd' = Head(priority) /\ priority' = Tail(priority)
  /\ UNCHANGED <<events, normal>>

TakeNormal ==
  /\ normal > 0 /\ ~UrgentAck
  /\ ~(events > 0 /\ bursts.event < EventBurst)
  /\ priority = <<>> \/ ForcedNormal
  /\ bursts' = [event |-> 0, priority |-> 0]
  /\ cmd' \in {"send", "start"} /\ normal' = normal - 1
  /\ UNCHANGED <<events, priority>>

\* The command kept from an earlier pass goes before the queues.  With nothing
\* to do the reservation is released before maintenance.
Choose ==
  /\ opc = "choose"
  /\ \/ held # "none" /\ cmd' = held /\ opc' = "validate"
        /\ UNCHANGED <<bursts, queueVars, lane>>
     \/ held = "none" /\ (TakeEvent \/ TakePriority \/ TakeNormal)
        /\ opc' = "validate" /\ UNCHANGED lane
     \/ /\ held = "none" /\ events = 0 /\ priority = <<>> /\ normal = 0
        /\ bursts' = [event |-> 0, priority |-> 0]
        /\ lane' = [lane EXCEPT !.reserved = FALSE]
        /\ opc' = "maintain"
        /\ UNCHANGED <<cmd, queueVars>>
  /\ settling' = FALSE
  /\ UNCHANGED <<active, activeAck, nextOp, watch, ackPending, held, event,
                 grabbed, rxTaken, hist, rxBit, radio, edges, claim, irq, line>>

\* d1l_mesh_terminal_lane_owner_still_reserved and a radio that may be used.
Cleared == opc = "validate" /\ lane.pending = {} /\ ~(Busy /\ NeedsIdleTx(cmd))

\* The reservation is validated before any effect: a command that loses to a
\* terminal, or that needs the radio while it transmits, is kept.
Hold ==
  /\ opc = "validate" /\ ~Cleared
  /\ held' = cmd /\ cmd' = "none"
  /\ lane' = [lane EXCEPT !.reserved = FALSE]
  /\ opc' = IF lane.pending # {} THEN "take" ELSE "maintain"
  /\ UNCHANGED <<active, activeAck, nextOp, watch, ackPending, event, grabbed,
                 rxTaken, bursts, hist, rxBit, queueVars, driverVars>>

\* A received packet: a DM may ask for an ACK response (one at a time, put in
\* front), another packet for a raw response; a full queue refuses either.  RX restarts
\* unless an ACK was queued.
RunEvent ==
  /\ cmd = "event"
  /\ \/ /\ ~Busy /\ ~ackPending /\ Len(priority) < QueueCap
        /\ priority' = <<"ack">> \o priority /\ ackPending' = TRUE
        /\ UNCHANGED <<rxBit, radio>>
     \/ /\ Len(priority) < QueueCap
        /\ priority' = Append(priority, "raw")
        /\ RestartRx(Busy) /\ UNCHANGED ackPending
     \/ RestartRx(Busy) /\ UNCHANGED <<priority, ackPending>>
  /\ UNCHANGED <<active, activeAck, nextOp, watch, hist, settling>>

\* meshcore_service_handle_start_rx.
RunStart ==
  /\ cmd = "start"
  /\ IF Busy THEN UNCHANGED <<rxBit, radio>> ELSE RestartRx(FALSE)
  /\ UNCHANGED <<active, activeAck, nextOp, watch, hist, settling, priority,
                 ackPending>>

\* Faulty variant: an ACK that cannot start is forgotten, not completed.
RunSendForgets ==
  /\ NeedsIdleTx(cmd)
  /\ \/ CanStartTx /\ StartTx(cmd = "ack") /\ UNCHANGED rxBit
     \/ /\ IF cmd = "ack" THEN RestartRx(Busy) ELSE UNCHANGED <<rxBit, radio>>
        /\ UNCHANGED <<active, activeAck, nextOp, watch, hist, settling>>
  /\ UNCHANGED <<priority, ackPending>>

\* meshcore_service_handle_send_raw.  An ACK that cannot start is completed as
\* failed and gives RX back.
RunSend ==
  /\ NeedsIdleTx(cmd)
  /\ \/ /\ CanStartTx /\ StartTx(cmd = "ack")
        /\ UNCHANGED <<rxBit, ackPending>>
     \/ /\ IF cmd = "ack" THEN ackPending' = FALSE /\ RestartRx(Busy)
                          ELSE UNCHANGED <<ackPending, rxBit, radio>>
        /\ UNCHANGED <<active, activeAck, nextOp, watch, hist, settling>>
  /\ UNCHANGED priority

Dispatch ==
  /\ Cleared
  /\ RunEvent \/ RunStart \/ RunSend
  /\ held' = "none" /\ cmd' = "none"
  /\ opc' = "maintain"
  /\ UNCHANGED <<event, grabbed, rxTaken, bursts, lane, events, normal, edges,
                 claim, irq, line>>

----------------------------------------------------------------------------
(* Owner maintenance and the watchdog.                                      *)

\* The end of a pass: the owner releases its reservation, if it still has it,
\* and looks for terminals again.
NextPass == opc' = "take" /\ lane' = [lane EXCEPT !.reserved = FALSE]

\* meshcore_service_run_owner_maintenance: the watchdog first; with the radio
\* idle and no ACK waiting it may retry a direct message.
Maintain ==
  /\ opc = "maintain"
  /\ \/ /\ watch = "due" /\ watch' = "off" /\ opc' = "recover"
        /\ UNCHANGED <<active, activeAck, nextOp, hist, radio, settling, lane>>
     \/ /\ watch # "due" /\ NextPass
        /\ UNCHANGED <<active, activeAck, nextOp, watch, hist, radio, settling>>
     \/ /\ watch # "due" /\ CanStartTx /\ ~ackPending
        /\ StartTx(FALSE) /\ NextPass
  /\ UNCHANGED <<ackPending, held, cmd, event, grabbed, rxTaken, bursts,
                 rxBit, queueVars, edges, claim, irq, line>>

\* RadioRecoverTxWithOrigin: the claim, then the origin under the claim.  The
\* watchdog is armed again when either is refused.
Recover ==
  /\ opc = "recover"
  /\ IF claim = "none"
     THEN claim' = "owner" /\ opc' = "quiesce" /\ UNCHANGED <<watch, lane>>
     ELSE watch' = "armed" /\ NextPass /\ UNCHANGED claim
  /\ UNCHANGED <<active, activeAck, nextOp, ackPending, held, cmd, event, grabbed,
                 rxTaken, bursts, hist, rxBit, queueVars, radio, edges, irq,
                 settling, line>>

\* Faulty variant: the watchdog ends an operation the driver already reported.
QuiesceAnyOrigin ==
  /\ opc = "quiesce"
  /\ claim' = "none"
  /\ EndTx(active, [origin |-> 0, mode |-> "standby", flags |-> {}])
  /\ NextPass
  /\ UNCHANGED <<nextOp, held, cmd, event, grabbed, rxTaken, bursts, hist,
                 queueVars, edges, irq, settling, line>>

Quiesce ==
  /\ opc = "quiesce"
  /\ claim' = "none"
  /\ IF radio.origin = active
     THEN EndTx(active, [origin |-> 0, mode |-> "standby", flags |-> {}])
     ELSE watch' = "armed"
          /\ UNCHANGED <<active, activeAck, rxBit, radio, ackPending>>
  /\ NextPass
  /\ UNCHANGED <<nextOp, held, cmd, event, grabbed, rxTaken, bursts, hist,
                 queueVars, edges, irq, settling, line>>

\* The watchdog's deadline passes.
DeadlinePasses ==
  /\ watch = "armed" /\ watch' = "due"
  /\ UNCHANGED <<opc, active, activeAck, nextOp, ackPending, held, cmd, event,
                 grabbed, rxTaken, bursts, hist, lane, rxBit, queueVars,
                 driverVars>>

----------------------------------------------------------------------------
(* The radio and the driver's IRQ task.                                     *)

irqFrame == <<opc, ownerVars, priority, normal>>

\* gpio_isr_handler: the edge is stamped with the origin of this moment, which
\* may no longer be the one that raised it, and lost when the queue is full.
Isr ==
  /\ line /\ line' = FALSE
  /\ edges' = IF Len(edges) < EdgeCap THEN Append(edges, radio.origin) ELSE edges
  /\ UNCHANGED <<irqFrame, hist, lane, rxBit, events, radio, claim, irq, settling>>

\* DIO1, as SX126xSetDioIrqParams maps it for the mode.
Dio1 == \/ radio.mode = "tx" /\ "tx" \in radio.flags
        \/ radio.mode = "rx" /\ "rx" \in radio.flags

\* Timing: a packet takes tens of milliseconds on the air, more than the ISR and
\* the IRQ task need for what they have begun, or the owner for one dispatch.
AirIsSlow == ~settling /\ ~line /\ irq.pc = "idle"

\* A transmission ends, by TX_DONE or the hardware timeout; it may also hang.
TxEnds ==
  /\ radio.mode = "tx" /\ "tx" \notin radio.flags /\ AirIsSlow
  /\ radio' = [radio EXCEPT !.flags = @ \cup {"tx"}]
  /\ line' = TRUE
  /\ UNCHANGED <<irqFrame, hist, lane, rxBit, events, edges, claim, irq, settling>>

\* A packet, or an RX error, arrives while the radio listens.
RxArrives ==
  /\ radio.mode = "rx" /\ "rx" \notin radio.flags /\ AirIsSlow
  /\ radio' = [radio EXCEPT !.flags = @ \cup {"rx"}]
  /\ line' = TRUE
  /\ settling' = TRUE
  /\ UNCHANGED <<irqFrame, hist, lane, rxBit, events, edges, claim, irq>>

\* RadioOnDioIrq: an event that finds the claim taken is dropped.
IrqClaim ==
  /\ irq.pc = "idle" /\ edges # <<>>
  /\ edges' = Tail(edges)
  /\ IF claim = "none"
     THEN /\ claim' = "irq"
          /\ irq' = [pc |-> "check", origin |-> Head(edges), op |-> 0, flags |-> {}]
     ELSE UNCHANGED <<claim, irq>>
  /\ UNCHANGED <<irqFrame, hist, lane, rxBit, events, radio, settling, line>>

\* Only an event of the transmission that is on the air, with DIO1 up, goes on.
IrqCheck ==
  /\ irq.pc = "check"
  /\ IF irq.origin = radio.origin /\ Dio1
     THEN irq' = [irq EXCEPT !.pc = "process"] /\ UNCHANGED claim
     ELSE claim' = "none" /\ irq' = Idle
  /\ UNCHANGED <<irqFrame, hist, lane, rxBit, events, radio, edges, settling, line>>

\* RadioIrqProcess: every interrupt is acknowledged; the end of a transmission
\* clears the origin before the callback, which captures the operation of its
\* origin from the history.
IrqProcess ==
  /\ irq.pc = "process"
  /\ LET ends == /\ "tx" \in radio.flags
                 /\ irq.origin = 0 \/ irq.origin = radio.origin
         captured == IF irq.origin # 0 /\ hist[SlotOf(irq.origin)].op = irq.origin
                     THEN irq.origin ELSE 0
     IN /\ radio' = [origin |-> IF ends THEN 0 ELSE radio.origin,
                     mode   |-> IF ends THEN "standby" ELSE radio.mode,
                     flags  |-> {}]
        /\ irq' = [pc     |-> IF ends /\ captured # 0 THEN "latch" ELSE "rx",
                   origin |-> irq.origin,
                   op     |-> IF ends THEN captured ELSE 0,
                   flags  |-> radio.flags]
  /\ UNCHANGED <<irqFrame, hist, lane, rxBit, events, edges, claim, settling, line>>

\* meshcore_service_latch_radio_recovery: the slot bit first, then the slot.
Latch ==
  /\ irq.pc = "latch"
  /\ lane' = [lane EXCEPT !.pending = @ \cup {SlotOf(irq.op)}]
  /\ irq' = [irq EXCEPT !.pc = "cas"]
  /\ UNCHANGED <<irqFrame, hist, rxBit, events, radio, edges, claim, settling, line>>

OwnSlot ==
  /\ irq.pc = "cas"
  /\ IF hist[SlotOf(irq.op)].term = "none"
     THEN /\ hist' = [hist EXCEPT ![SlotOf(irq.op)].term = "writing"]
          /\ irq' = [irq EXCEPT !.pc = "write"]
     ELSE irq' = [irq EXCEPT !.pc = "rx"] /\ UNCHANGED hist
  /\ UNCHANGED <<irqFrame, lane, rxBit, events, radio, edges, claim, settling, line>>

WriteSlot ==
  /\ irq.pc = "write"
  /\ hist' = [hist EXCEPT ![SlotOf(irq.op)].term = "final"]
  /\ irq' = [irq EXCEPT !.pc = "rx"]
  /\ UNCHANGED <<irqFrame, lane, rxBit, events, radio, edges, claim, settling, line>>

\* enqueue_radio_event of a reception, which asks for an RX restart when the
\* event queue is full; then the claim is released.
IrqEnd ==
  /\ irq.pc = "rx"
  /\ \/ "rx" \in irq.flags /\ events < QueueCap /\ events' = events + 1 /\ UNCHANGED rxBit
     \/ "rx" \in irq.flags /\ events = QueueCap /\ rxBit' = TRUE /\ UNCHANGED events
     \/ "rx" \notin irq.flags /\ UNCHANGED <<events, rxBit>>
  /\ claim' = "none" /\ irq' = Idle
  /\ UNCHANGED <<irqFrame, hist, lane, radio, edges, settling, line>>

----------------------------------------------------------------------------

OwnerStep == \/ Take \/ Scan \/ Terminal \/ Peek \/ Reserve \/ RxRecovery
             \/ Choose \/ Hold \/ Dispatch
             \/ Maintain \/ Recover \/ Quiesce
IrqStep == \/ IrqClaim \/ IrqCheck \/ IrqProcess \/ Latch \/ OwnSlot
           \/ WriteSlot \/ IrqEnd
Environment == PostNormal \/ TxEnds \/ RxArrives \/ Isr

Next == OwnerStep \/ IrqStep \/ DeadlinePasses \/ Environment

Spec == Init /\ [][Next]_vars

\* Both tasks run and time passes; nothing is assumed of the radio, the peers
\* or the producers.
FairSpec == Spec /\ WF_vars(OwnerStep) /\ WF_vars(IrqStep)
                 /\ WF_vars(DeadlinePasses)

----------------------------------------------------------------------------
(* Properties.                                                              *)

\* Every pending slot of the lane, every terminal being scanned, handled or
\* reported, and the driver's origin belong to the operation on the air: a
\* callback that the watchdog overtook is never latched for a successor.
TerminalsAreCurrent ==
  /\ \A s \in lane.pending \cup grabbed : Busy /\ s = SlotOf(active)
  /\ event # 0 => event = active
  /\ InCallback => irq.op = active
  /\ radio.origin # 0 => radio.origin = active

\* What is under way of a report, from the callback to the owner's handler.
Reported == InCallback \/ lane.pending # {} \/ grabbed # {} \/ event # 0

\* How far the latest operation is, and, once it is over, how it ended: its
\* history slot says so until the next operation begins.
Stage == CASE nextOp = 0 -> "none"
           [] nextOp # 0 /\ Busy -> IF radio.origin = active THEN "onAir"
                                   ELSE IF Reported THEN "reported" ELSE "lost"
           [] nextOp # 0 /\ ~Busy -> IF hist[SlotOf(nextOp)].term = "final"
                                    THEN "handled" ELSE "reclaimed"

Air == INSTANCE Transmission WITH op <- nextOp, stage <- Stage

\* Each transmission ends exactly once, by its own report or by the watchdog,
\* which takes back only what the driver has not reported; no report is lost
\* between the callback and the owner, and none comes after the watchdog
\* (meshcore_service_latch_radio_recovery, _take_latched_terminal and the
\* claim of RadioRecoverTxWithOrigin).  A lost one would keep the radio busy
\* for ever, since the watchdog finds no origin to take back.
TransmissionsKept == Air!Spec

\* Every transmission ends for its owner, and every request to restart RX is
\* served: the radio listens again, though a transmission may hang, the driver
\* may lose the interrupt and the watchdog may find the claim taken.
ListensAgain == Busy \/ rxBit ~> ~Busy /\ radio.mode = "rx"

\* A pending ACK response always ends, transmitted or refused: while it is
\* pending, maintenance and further ACK responses wait for it.
AckEnds == ackPending ~> ~ackPending

\* An accepted ordinary command runs, however long received packets and raw
\* responses keep the other two queues full: the bursts are bounded.  ACK
\* responses go outside the bursts, so it is said of runs where they pause.
NormalServed ==
  <>[](~ackPending)
    => (normal > 0 ~> (Cleared /\ cmd \in {"send", "start"}))
============================================================================
