-------------------------- MODULE RadioOwnerProofs --------------------------
(***************************************************************************)
(* Proofs about the radio owner, for any history length, number of         *)
(* operations, queue lengths and burst limits.                             *)
(*                                                                         *)
(* The inductive invariant OwnerInv follows the one report of a            *)
(* transmission on its way from the driver to the owner: origin, callback, *)
(* slot bit, latched event.  At most one of these exists, and only for the *)
(* operation on the air.                                                   *)
(***************************************************************************)
EXTENDS RadioOwner, SequenceTheorems, TLAPS

RadioType == [origin : 0..MaxOp, mode : {"standby", "rx", "tx"},
              flags : SUBSET {"tx", "rx"}]
HistType == [Slots -> [op : 0..MaxOp, term : {"none", "writing", "final"}]]
LaneType == [pending : SUBSET Slots, reserved : BOOLEAN]
IrqType == [pc : IrqPlaces, origin : 0..MaxOp, op : 0..MaxOp,
            flags : SUBSET {"tx", "rx"}]

\* The part of the type that the report's way needs.
CoreType ==
  /\ active \in 0..MaxOp /\ nextOp \in 0..MaxOp /\ event \in 0..MaxOp
  /\ hist \in HistType
  /\ lane \in LaneType
  /\ grabbed \subseteq Slots
  /\ radio \in RadioType
  /\ irq \in IrqType

\* The history slot of the operation on the air.
Term == hist[SlotOf(active)].term

OriginLive ==
  radio.origin # 0 => radio.origin = active /\ Term = "none"

Claims ==
  /\ (claim = "owner") <=> (opc = "quiesce")
  /\ (claim = "irq") <=> (irq.pc # "idle")
  /\ irq.pc = "process" /\ irq.origin # 0 => irq.origin = radio.origin

CallbackLive ==
  InCallback => /\ Busy /\ irq.op = active /\ radio.origin = 0
                /\ Term = IF irq.pc = "write" THEN "writing" ELSE "none"
                /\ irq.pc = "latch" => lane.pending = {} /\ grabbed = {}

SlotsLive ==
  \A s \in lane.pending \cup grabbed :
    Busy /\ s = SlotOf(active) /\ radio.origin = 0

EventLive ==
  /\ event # 0 => /\ event = active /\ radio.origin = 0 /\ Term = "final"
                  /\ lane.pending = {} /\ opc = "terminal"
  /\ opc = "terminal" => event # 0
  /\ grabbed # {} => opc = "scan" /\ lane.pending = {}

\* The watchdog runs for the operation on the air, whose slot is its own.
WatchLive ==
  /\ watch # "off" \/ opc \in {"recover", "quiesce"} => Busy
  /\ Busy => hist[SlotOf(active)].op = active

OwnerInv == /\ CoreType /\ OriginLive /\ Claims /\ CallbackLive
            /\ SlotsLive /\ EventLive /\ WatchLive

LEMMA SlotOfType ==
  ASSUME NEW op \in Ops PROVE SlotOf(op) \in Slots
  BY SlotCountAssumption DEF SlotOf, Slots, Ops

coreVars == <<opc, active, nextOp, watch, hist, lane, grabbed, event, radio,
              claim, irq>>

LEMMA OwnerInit == Init => OwnerInv
<1> SUFFICES ASSUME Init PROVE OwnerInv
  OBVIOUS
<1>1. hist \in HistType
  BY BoundsAssumption DEF Init, HistType
<1>2. irq \in IrqType /\ irq.pc = "idle"
  BY BoundsAssumption DEF Init, Idle, IrqType, IrqPlaces
<1>3. radio \in RadioType /\ radio.origin = 0
  BY BoundsAssumption DEF Init, RadioType
<1>4. lane \in LaneType /\ lane.pending = {} /\ grabbed = {}
  BY DEF Init, LaneType
<1>5. CoreType
  BY <1>1, <1>2, <1>3, <1>4, BoundsAssumption DEF Init, CoreType
<1> QED
  BY <1>2, <1>3, <1>4, <1>5
  DEF Init, OwnerInv, OriginLive, Claims, CallbackLive, InCallback, SlotsLive,
      EventLive, WatchLive, Busy

LEMMA CoreStutter == OwnerInv /\ UNCHANGED coreVars => OwnerInv'
  BY DEF coreVars, OwnerInv, CoreType, Term, OriginLive, Claims, CallbackLive,
         InCallback, SlotsLive, EventLive, WatchLive, Busy

LEMMA TakeKeeps == OwnerInv /\ Take => OwnerInv'
  BY SlotOfType
  DEF Take, OwnerInv, CoreType, LaneType, Term, OriginLive, Claims, CallbackLive,
      InCallback, SlotsLive, EventLive, WatchLive, Busy, driverVars

LEMMA ScanKeeps == ASSUME OwnerInv, Scan PROVE OwnerInv'
<1>1. CoreType /\ \A s \in grabbed : s \in Slots /\ s = SlotOf(active)
  BY DEF OwnerInv, CoreType, SlotsLive
<1>2. grabbed' = {} /\ UNCHANGED <<active, nextOp, watch, hist, radio, claim, irq>>
  BY DEF Scan, driverVars
<1>3. CASE \E s \in grabbed : hist[s].term # "final"
  <2>1. /\ lane' \in LaneType /\ lane'.pending = lane.pending \cup grabbed
        /\ opc' = "peek" /\ event' = event
    BY <1>1, <1>3 DEF Scan, CoreType, LaneType
  <2> QED
    BY <1>1, <1>2, <2>1
    DEF Scan, OwnerInv, CoreType, Term, OriginLive, Claims, CallbackLive,
        InCallback, SlotsLive, EventLive, WatchLive, Busy
<1>4. CASE ~\E s \in grabbed : hist[s].term # "final"
  <2>1. PICK s \in grabbed : event' = hist[s].op
    BY <1>4 DEF Scan
  <2>2. /\ Busy /\ s = SlotOf(active) /\ radio.origin = 0 /\ Term = "final"
        /\ event' = active /\ lane.pending = {}
    BY <1>1, <1>4, <2>1 DEF OwnerInv, SlotsLive, EventLive, WatchLive, Term
  <2>3. opc' = "terminal" /\ lane' = lane
    BY <1>4 DEF Scan
  <2> QED
    BY <1>1, <1>2, <1>4, <2>2, <2>3
    DEF Scan, OwnerInv, CoreType, Term, OriginLive, Claims, CallbackLive,
        InCallback, SlotsLive, EventLive, WatchLive, Busy
<1> QED
  BY <1>3, <1>4

LEMMA TerminalKeeps == OwnerInv /\ Terminal => OwnerInv'
  BY SlotOfType
  DEF Terminal, EndTx, OwnerInv, CoreType, RadioType, Term, OriginLive, Claims,
      CallbackLive, InCallback, SlotsLive, EventLive, WatchLive, Busy
LEMMA PeekKeeps == OwnerInv /\ Peek => OwnerInv'
  BY SlotOfType
  DEF Peek, driverVars, OwnerInv, CoreType, Term, OriginLive, Claims,
      CallbackLive, InCallback, SlotsLive, EventLive, WatchLive, Busy

LEMMA ReserveKeeps == OwnerInv /\ Reserve => OwnerInv'
  BY SlotOfType
  DEF Reserve, ownerVars, driverVars, OwnerInv, CoreType, LaneType, Term, OriginLive, Claims,
      CallbackLive, InCallback, SlotsLive, EventLive, WatchLive, Busy

LEMMA RxRecoveryKeeps == ASSUME OwnerInv, RxRecovery PROVE OwnerInv'
<1>1. /\ UNCHANGED <<active, nextOp, watch, hist, grabbed, event, claim, irq>>
      /\ opc = "rx" /\ opc' \in {"maintain", "take"}
  BY DEF RxRecovery, ownerVars
<1>2. lane' \in LaneType /\ lane'.pending = lane.pending
  BY DEF RxRecovery, OwnerInv, CoreType, LaneType
<1>3. radio' \in RadioType /\ radio'.origin = radio.origin
  BY DEF RxRecovery, RestartRx, OwnerInv, CoreType, RadioType
<1> QED
  BY <1>1, <1>2, <1>3
  DEF OwnerInv, CoreType, Term, OriginLive, Claims, CallbackLive, InCallback,
      SlotsLive, EventLive, WatchLive, Busy

LEMMA ChooseKeeps == OwnerInv /\ Choose => OwnerInv'
  BY SlotOfType
  DEF Choose, OwnerInv, CoreType, LaneType, Term, OriginLive, Claims,
      CallbackLive, InCallback, SlotsLive, EventLive, WatchLive, Busy

LEMMA HoldKeeps == OwnerInv /\ Hold => OwnerInv'
  BY SlotOfType
  DEF Hold, driverVars, OwnerInv, CoreType, LaneType, Term, OriginLive, Claims,
      CallbackLive, InCallback, SlotsLive, EventLive, WatchLive, Busy

LEMMA RecoverKeeps == OwnerInv /\ Recover => OwnerInv'
  BY SlotOfType
  DEF Recover, NextPass, OwnerInv, CoreType, LaneType, Term, OriginLive, Claims,
      CallbackLive, InCallback, SlotsLive, EventLive, WatchLive, Busy

LEMMA QuiesceKeeps == ASSUME OwnerInv, Quiesce PROVE OwnerInv'
<1>1. /\ UNCHANGED <<nextOp, hist, grabbed, event, irq>>
      /\ opc = "quiesce" /\ opc' = "take" /\ claim = "owner" /\ claim' = "none"
      /\ Busy /\ irq.pc = "idle"
  BY DEF Quiesce, NextPass, OwnerInv, Claims, WatchLive
<1>2. lane' \in LaneType /\ lane'.pending = lane.pending
  BY DEF Quiesce, NextPass, OwnerInv, CoreType, LaneType
<1>3. CASE radio.origin = active
  <2>1. /\ radio' = [[origin |-> 0, mode |-> "standby", flags |-> {}]
                      EXCEPT !.mode = "rx"]
        /\ active' = 0 /\ watch' = "off"
    BY <1>3 DEF Quiesce, EndTx
  <2>2. radio' \in RadioType /\ radio'.origin = 0 /\ active' \in 0..MaxOp
    BY <2>1, BoundsAssumption DEF RadioType
  <2>3. lane.pending = {} /\ grabbed = {} /\ event = 0
    BY <1>1, <1>3 DEF OwnerInv, CoreType, LaneType, SlotsLive, EventLive, Busy
  <2> QED
    BY <1>1, <1>2, <2>1, <2>2, <2>3
    DEF OwnerInv, CoreType, Term, OriginLive, Claims, CallbackLive, InCallback,
        SlotsLive, EventLive, WatchLive, Busy
<1>4. CASE radio.origin # active
  <2>1. UNCHANGED <<active, radio>>
    BY <1>4 DEF Quiesce
  <2> QED
    BY <1>1, <1>2, <2>1
    DEF OwnerInv, CoreType, Term, OriginLive, Claims, CallbackLive, InCallback,
        SlotsLive, EventLive, WatchLive, Busy
<1> QED
  BY <1>3, <1>4

LEMMA DeadlinePassesKeeps == OwnerInv /\ DeadlinePasses => OwnerInv'
  BY SlotOfType
  DEF DeadlinePasses, driverVars, OwnerInv, CoreType, Term, OriginLive, Claims,
      CallbackLive, InCallback, SlotsLive, EventLive, WatchLive, Busy

\* The IRQ task's record after each of its steps.
LEMMA IdleTyped == Idle \in IrqType /\ Idle.pc = "idle"
  BY BoundsAssumption DEF Idle, IrqType, IrqPlaces

LEMMA IrqAt ==
  ASSUME irq \in IrqType, NEW p \in IrqPlaces
  PROVE  /\ [irq EXCEPT !.pc = p] \in IrqType
         /\ [irq EXCEPT !.pc = p].pc = p
         /\ [irq EXCEPT !.pc = p].op = irq.op
         /\ [irq EXCEPT !.pc = p].origin = irq.origin
  BY DEF IrqType

LEMMA IrqRecord ==
  ASSUME NEW p \in IrqPlaces, NEW g \in 0..MaxOp, NEW o \in 0..MaxOp,
         NEW f \in SUBSET {"tx", "rx"}
  PROVE  [pc |-> p, origin |-> g, op |-> o, flags |-> f] \in IrqType
  BY DEF IrqType

\* What an IRQ step leaves alone.
irqStepFrame == <<opc, active, nextOp, watch, grabbed, event>>

LEMMA IrqFrames ==
  UNCHANGED irqFrame => UNCHANGED irqStepFrame
  BY DEF irqFrame, irqStepFrame, ownerVars

LEMMA IrqClaimKeeps ==
  ASSUME OwnerInv, IrqClaim, edges \in Seq(0..MaxOp) PROVE OwnerInv'
<1>1. irq \in IrqType /\ CoreType
  BY DEF OwnerInv, CoreType
<1>2. UNCHANGED irqStepFrame
  BY IrqFrames DEF IrqClaim
<1> edges # <<>>
  BY DEF IrqClaim
<1>3. Head(edges) \in 0..MaxOp
  BY HeadTailProperties
<1>4. 0 \in 0..MaxOp /\ "check" \in IrqPlaces
  BY BoundsAssumption DEF IrqPlaces
<1>5. /\ irq' \in IrqType
      /\ IF claim = "none" THEN irq'.pc = "check" /\ claim' = "irq"
                           ELSE UNCHANGED <<irq, claim>>
  BY <1>1, <1>3, <1>4, IrqRecord DEF IrqClaim
<1>6. UNCHANGED <<radio, hist, lane>>
  BY DEF IrqClaim
<1> QED
  BY <1>1, <1>2, <1>5, <1>6
  DEF irqStepFrame, OwnerInv, CoreType, Term, OriginLive, Claims, CallbackLive, InCallback,
      SlotsLive, EventLive, WatchLive, Busy

LEMMA IrqCheckKeeps ==
  ASSUME OwnerInv, IrqCheck PROVE OwnerInv'
<1>1. irq \in IrqType /\ CoreType
  BY DEF OwnerInv, CoreType
<1>2. UNCHANGED irqStepFrame
  BY IrqFrames DEF IrqCheck
<1>3. [irq EXCEPT !.pc = "process"] \in IrqType /\ Idle \in IrqType
  BY <1>1, IdleTyped, IrqAt DEF IrqPlaces
<1>4. /\ irq' \in IrqType
      /\ \/ irq'.pc = "process" /\ irq'.origin = radio.origin /\ claim' = claim
         \/ irq'.pc = "idle" /\ claim' = "none"
  <2>1. CASE irq.origin = radio.origin /\ Dio1
    <3>1. irq' = [irq EXCEPT !.pc = "process"] /\ claim' = claim
      BY <2>1 DEF IrqCheck
    <3>2. irq'.pc = "process" /\ irq'.origin = irq.origin
      BY <1>1, <3>1, IrqAt DEF IrqPlaces
    <3> QED
      BY <1>3, <2>1, <3>1, <3>2
  <2>2. CASE ~(irq.origin = radio.origin /\ Dio1)
    BY <1>3, <2>2, IdleTyped DEF IrqCheck
  <2> QED
    BY <2>1, <2>2
<1>5. UNCHANGED <<radio, hist, lane>>
  BY DEF IrqCheck
<1> QED
  BY <1>1, <1>2, <1>4, <1>5
  DEF IrqCheck, irqStepFrame, OwnerInv, CoreType, Term, OriginLive, Claims, CallbackLive, InCallback,
      SlotsLive, EventLive, WatchLive, Busy

LEMMA LatchKeeps ==
  ASSUME OwnerInv, Latch PROVE OwnerInv'
<1>1. irq \in IrqType /\ CoreType
  BY DEF OwnerInv, CoreType
<1>2. UNCHANGED irqStepFrame
  BY IrqFrames DEF Latch
<1>3. /\ Busy /\ irq.op = active /\ radio.origin = 0 /\ Term = "none"
      /\ lane.pending = {} /\ grabbed = {} /\ event = 0
  BY DEF Latch, OwnerInv, CallbackLive, InCallback, EventLive
<1>4. SlotOf(irq.op) \in Slots
  BY <1>1, <1>3, SlotOfType DEF Busy, CoreType, Ops
<1>5. irq' \in IrqType /\ irq'.pc = "cas" /\ irq'.op = irq.op
  BY <1>1, IrqAt DEF Latch, IrqPlaces
<1>6. lane' \in LaneType /\ lane'.pending = {SlotOf(irq.op)}
  BY <1>1, <1>3, <1>4 DEF Latch, CoreType, LaneType
<1>7. UNCHANGED <<radio, hist, claim>>
  BY DEF Latch
<1> QED
  BY <1>1, <1>2, <1>3, <1>5, <1>6, <1>7
  DEF Latch, irqStepFrame, OwnerInv, CoreType, Term, OriginLive, Claims, CallbackLive, InCallback,
      SlotsLive, EventLive, WatchLive, Busy

LEMMA OwnSlotKeeps ==
  ASSUME OwnerInv, OwnSlot PROVE OwnerInv'
<1>1. irq \in IrqType /\ CoreType
  BY DEF OwnerInv, CoreType
<1>2. UNCHANGED irqStepFrame
  BY IrqFrames DEF OwnSlot
<1>3. /\ Busy /\ irq.op = active /\ radio.origin = 0 /\ Term = "none" /\ event = 0
  BY DEF OwnSlot, OwnerInv, CallbackLive, InCallback, EventLive
<1>4. SlotOf(active) \in Slots
  BY <1>1, <1>3, SlotOfType DEF Busy, CoreType, Ops
<1>5. irq' \in IrqType /\ irq'.pc = "write" /\ irq'.op = irq.op
  BY <1>1, <1>3, IrqAt DEF OwnSlot, IrqPlaces, Term
<1>6. /\ hist' \in HistType /\ hist'[SlotOf(active)].term = "writing"
      /\ hist'[SlotOf(active)].op = hist[SlotOf(active)].op
  BY <1>1, <1>3, <1>4 DEF OwnSlot, CoreType, HistType, Term
<1>7. UNCHANGED <<radio, lane, claim>>
  BY DEF OwnSlot
<1> QED
  BY <1>1, <1>2, <1>3, <1>5, <1>6, <1>7
  DEF OwnSlot, irqStepFrame, OwnerInv, CoreType, Term, OriginLive, Claims, CallbackLive, InCallback,
      SlotsLive, EventLive, WatchLive, Busy

LEMMA WriteSlotKeeps ==
  ASSUME OwnerInv, WriteSlot PROVE OwnerInv'
<1>1. irq \in IrqType /\ CoreType
  BY DEF OwnerInv, CoreType
<1>2. UNCHANGED irqStepFrame
  BY IrqFrames DEF WriteSlot
<1>3. /\ Busy /\ irq.op = active /\ radio.origin = 0 /\ Term = "writing"
      /\ event = 0
  BY DEF WriteSlot, OwnerInv, CallbackLive, InCallback, EventLive
<1>4. SlotOf(active) \in Slots
  BY <1>1, <1>3, SlotOfType DEF Busy, CoreType, Ops
<1>5. irq' \in IrqType /\ irq'.pc = "rx"
  BY <1>1, IrqAt DEF WriteSlot, IrqPlaces
<1>6. /\ hist' \in HistType
      /\ hist'[SlotOf(active)].op = hist[SlotOf(active)].op
  BY <1>1, <1>3, <1>4 DEF WriteSlot, CoreType, HistType, Term
<1>7. UNCHANGED <<radio, lane, claim>>
  BY DEF WriteSlot
<1> QED
  BY <1>1, <1>2, <1>3, <1>5, <1>6, <1>7
  DEF WriteSlot, irqStepFrame, OwnerInv, CoreType, Term, OriginLive, Claims, CallbackLive, InCallback,
      SlotsLive, EventLive, WatchLive, Busy

LEMMA IrqEndKeeps ==
  ASSUME OwnerInv, IrqEnd PROVE OwnerInv'
<1>1. irq \in IrqType /\ CoreType
  BY DEF OwnerInv, CoreType
<1>2. UNCHANGED irqStepFrame
  BY IrqFrames DEF IrqEnd
<1>3. irq' \in IrqType /\ irq'.pc = "idle" /\ claim' = "none"
  BY IdleTyped DEF IrqEnd
<1>4. UNCHANGED <<radio, lane, hist>>
  BY DEF IrqEnd
<1> QED
  BY <1>1, <1>2, <1>3, <1>4
  DEF IrqEnd, irqStepFrame, OwnerInv, CoreType, Term, OriginLive, Claims, CallbackLive, InCallback,
      SlotsLive, EventLive, WatchLive, Busy

LEMMA IrqProcessKeeps ==
  ASSUME OwnerInv, IrqProcess PROVE OwnerInv'
<1>1. irq \in IrqType /\ CoreType
  BY DEF OwnerInv, CoreType
<1>2. UNCHANGED irqStepFrame
  BY IrqFrames DEF IrqProcess
<1> DEFINE ends == "tx" \in radio.flags
                   /\ (irq.origin = 0 \/ irq.origin = radio.origin)
           captured == IF irq.origin # 0 /\ hist[SlotOf(irq.origin)].op = irq.origin
                       THEN irq.origin ELSE 0
<1>3. /\ radio' \in RadioType
      /\ radio'.origin = IF ends THEN 0 ELSE radio.origin
  BY <1>1, BoundsAssumption DEF IrqProcess, CoreType, RadioType
<1>4. irq.origin \in 0..MaxOp /\ captured \in 0..MaxOp
  BY <1>1, BoundsAssumption DEF IrqType
<1>5. "latch" \in IrqPlaces /\ "rx" \in IrqPlaces /\ 0 \in 0..MaxOp
  BY BoundsAssumption DEF IrqPlaces
<1>6. irq' = [pc     |-> IF ends /\ captured # 0 THEN "latch" ELSE "rx",
             origin |-> irq.origin,
             op     |-> IF ends THEN captured ELSE 0,
             flags  |-> radio.flags]
  BY DEF IrqProcess
<1>7. irq' \in IrqType
  <2>1. radio.flags \in SUBSET {"tx", "rx"}
    BY <1>1 DEF CoreType, RadioType
  <2> HIDE DEF captured, ends
  <2> QED BY <2>1, <1>4, <1>5, <1>6, IrqRecord
<1>8. UNCHANGED <<lane, hist, claim>>
  BY DEF IrqProcess
<1>9. irq'.pc = "latch" => /\ irq'.op = irq.origin /\ irq.origin # 0
                           /\ irq.origin = radio.origin /\ radio'.origin = 0
  BY <1>3, <1>6 DEF IrqProcess, OwnerInv, Claims
<1>10. irq'.pc \in {"latch", "rx"}
  BY <1>6
<1>11. irq'.pc = "latch" =>
         /\ Busy /\ irq'.op = active /\ Term = "none"
         /\ lane.pending = {} /\ grabbed = {}
  BY <1>1, <1>9
  DEF OwnerInv, OriginLive, SlotsLive, Busy, CoreType, LaneType
<1>12. radio'.origin # 0 => radio'.origin = radio.origin
  BY <1>3
<1>13. radio.origin = 0 => radio'.origin = 0
  BY <1>3
<1> QED
  BY <1>1, <1>2, <1>3, <1>7, <1>8, <1>9, <1>10, <1>11, <1>12, <1>13
  DEF IrqProcess, irqStepFrame, OwnerInv, CoreType, Term, OriginLive, Claims, CallbackLive, InCallback,
      SlotsLive, EventLive, WatchLive, Busy

LEMMA TxEndsKeeps == OwnerInv /\ TxEnds => OwnerInv'
  BY SlotOfType
  DEF TxEnds, irqFrame, ownerVars, OwnerInv, CoreType, RadioType, Term, OriginLive, Claims,
      CallbackLive, InCallback, SlotsLive, EventLive, WatchLive, Busy

LEMMA RxArrivesKeeps == OwnerInv /\ RxArrives => OwnerInv'
  BY SlotOfType
  DEF RxArrives, irqFrame, ownerVars, OwnerInv, CoreType, RadioType, Term, OriginLive, Claims,
      CallbackLive, InCallback, SlotsLive, EventLive, WatchLive, Busy

\* A transmission begins with the radio idle: nothing is left of the last one.
LEMMA StartTxKeeps ==
  ASSUME OwnerInv, CanStartTx, NEW ack, StartTx(ack),
         opc \in {"validate", "maintain"}, opc' \in {"maintain", "take"},
         lane' \in LaneType, lane'.pending = lane.pending,
         UNCHANGED <<grabbed, event, claim, irq>>
  PROVE  OwnerInv'
<1>1. /\ active = 0 /\ nextOp \in 0..MaxOp /\ nextOp + 1 \in Ops
      /\ nextOp + 1 # 0
  BY BoundsAssumption DEF CanStartTx, Busy, OwnerInv, CoreType, Ops
<1>2. SlotOf(nextOp + 1) \in Slots
  BY <1>1, SlotOfType
<1>3. /\ hist' \in HistType
      /\ hist'[SlotOf(nextOp + 1)].op = nextOp + 1
      /\ hist'[SlotOf(nextOp + 1)].term = "none"
  <2>1. [op |-> nextOp + 1, term |-> "none"]
          \in [op : 0..MaxOp, term : {"none", "writing", "final"}]
    BY <1>1 DEF Ops
  <2>2. /\ hist \in HistType
        /\ hist' = [hist EXCEPT ![SlotOf(nextOp + 1)] =
                      [op |-> nextOp + 1, term |-> "none"]]
    BY DEF StartTx, OwnerInv, CoreType
  <2> QED
    BY <1>2, <2>1, <2>2 DEF HistType
<1>4. radio' \in RadioType /\ radio'.origin = nextOp + 1
  <2>1. nextOp + 1 \in 0..MaxOp
    BY <1>1 DEF Ops
  <2>2. /\ radio \in RadioType
        /\ radio' = [radio EXCEPT !.origin = nextOp + 1, !.mode = "tx"]
    BY DEF StartTx, OwnerInv, CoreType
  <2> QED
    BY <2>1, <2>2 DEF RadioType
<1>5. /\ radio.origin = 0 /\ lane.pending = {} /\ grabbed = {} /\ event = 0
      /\ ~InCallback
  BY <1>1
  DEF OwnerInv, CoreType, LaneType, OriginLive, CallbackLive, SlotsLive,
      EventLive, Busy
<1>6. active' = nextOp + 1 /\ active' \in 0..MaxOp /\ nextOp' \in 0..MaxOp
  BY <1>1 DEF StartTx, Ops
<1>7. hist'[SlotOf(active')].op = active' /\ Term' = "none"
  BY <1>3, <1>6 DEF Term
<1>8. CoreType'
  BY <1>3, <1>4, <1>5, <1>6 DEF OwnerInv, CoreType
<1>9. irq.pc = "process" => irq.origin = 0
  BY <1>5 DEF OwnerInv, Claims
<1>10. OriginLive' /\ WatchLive'
  BY <1>1, <1>4, <1>6, <1>7 DEF OriginLive, WatchLive, Busy
<1>11. Claims'
  BY <1>9 DEF OwnerInv, Claims
<1>12. CallbackLive' /\ SlotsLive' /\ EventLive'
  BY <1>5 DEF CallbackLive, InCallback, SlotsLive, EventLive
<1> QED
  BY <1>8, <1>10, <1>11, <1>12 DEF OwnerInv

\* The owner keeps or restarts RX: the origin is left alone.
LEMMA IdlePassKeeps ==
  ASSUME OwnerInv, opc \in {"validate", "maintain"},
         opc' \in {"maintain", "take"},
         radio' \in RadioType, radio'.origin = radio.origin,
         lane' \in LaneType, lane'.pending = lane.pending,
         UNCHANGED <<active, nextOp, watch, hist, grabbed, event, claim, irq>>
  PROVE  OwnerInv'
  BY DEF OwnerInv, CoreType, Term, OriginLive, Claims, CallbackLive, InCallback,
         SlotsLive, EventLive, WatchLive, Busy

LEMMA RestartKeepsOrigin ==
  ASSUME NEW busy, radio \in RadioType, RestartRx(busy) \/ UNCHANGED radio
  PROVE  radio' \in RadioType /\ radio'.origin = radio.origin
  BY DEF RestartRx, RadioType

LEMMA DispatchKeeps == ASSUME OwnerInv, Dispatch PROVE OwnerInv'
<1>1. /\ opc = "validate" /\ opc' = "maintain" /\ UNCHANGED lane
      /\ UNCHANGED <<grabbed, event, claim, irq>>
  BY DEF Dispatch, Cleared
<1>2. radio \in RadioType /\ lane \in LaneType
  BY DEF OwnerInv, CoreType
<1>3. CASE RunEvent \/ RunStart
  <2>1. UNCHANGED <<active, nextOp, watch, hist>>
    BY <1>3 DEF RunEvent, RunStart
  <2>2. RestartRx(Busy) \/ RestartRx(FALSE) \/ UNCHANGED radio
    BY <1>3 DEF RunEvent, RunStart
  <2>3. radio' \in RadioType /\ radio'.origin = radio.origin
    BY <1>2, <2>2, RestartKeepsOrigin
  <2> QED
    BY <1>1, <1>2, <2>1, <2>3, IdlePassKeeps
<1>4. CASE RunSend
  <2>1. CASE CanStartTx /\ StartTx(cmd = "ack")
    BY <1>1, <1>2, <2>1, StartTxKeeps
  <2>2. CASE ~(CanStartTx /\ StartTx(cmd = "ack"))
    <3>1. UNCHANGED <<active, nextOp, watch, hist>>
      BY <1>4, <2>2 DEF RunSend
    <3>2. RestartRx(Busy) \/ UNCHANGED radio
      BY <1>4, <2>2 DEF RunSend
    <3>3. radio' \in RadioType /\ radio'.origin = radio.origin
      BY <1>2, <3>2, RestartKeepsOrigin
    <3> QED
      BY <1>1, <1>2, <3>1, <3>3, IdlePassKeeps
  <2> QED
    BY <2>1, <2>2
<1> QED
  BY <1>3, <1>4 DEF Dispatch

LEMMA MaintainKeeps == ASSUME OwnerInv, Maintain PROVE OwnerInv'
<1>1. /\ opc = "maintain" /\ UNCHANGED <<grabbed, event, claim, irq>>
      /\ radio \in RadioType /\ lane \in LaneType
  BY DEF Maintain, OwnerInv, CoreType
<1>2. CASE watch = "due" /\ watch' = "off" /\ opc' = "recover"
  <2>1. UNCHANGED <<active, nextOp, hist, radio, lane>>
    BY <1>2 DEF Maintain, NextPass
  <2> QED
    BY <1>1, <1>2, <2>1
    DEF OwnerInv, CoreType, Term, OriginLive, Claims, CallbackLive, InCallback,
        SlotsLive, EventLive, WatchLive, Busy
<1>3. CASE NextPass
  <2>1. opc' = "take" /\ lane' \in LaneType /\ lane'.pending = lane.pending
    BY <1>1, <1>3 DEF NextPass, LaneType
  <2>2. CASE CanStartTx /\ StartTx(FALSE)
    BY <1>1, <2>1, <2>2, StartTxKeeps
  <2>3. CASE ~(CanStartTx /\ StartTx(FALSE))
    <3>1. UNCHANGED <<active, nextOp, watch, hist, radio>>
      BY <1>3, <2>1, <2>3 DEF Maintain
    <3> QED
      BY <1>1, <2>1, <3>1, IdlePassKeeps
  <2> QED
    BY <2>2, <2>3
<1> QED
  BY <1>2, <1>3 DEF Maintain

LEMMA PostNormalKeeps == OwnerInv /\ PostNormal => OwnerInv'
  BY CoreStutter DEF PostNormal, coreVars, ownerVars, driverVars

LEMMA IsrKeeps == OwnerInv /\ Isr => OwnerInv'
  BY CoreStutter DEF Isr, coreVars, irqFrame, ownerVars

-----------------------------------------------------------------------------
(* The rest of the type: control, flags, queues.                           *)

Commands == {"none", "event", "ack", "raw", "send", "start"}
ControlType ==
  /\ opc \in OwnerPlaces /\ watch \in {"off", "armed", "due"}
  /\ claim \in {"none", "irq", "owner"}

FlagType ==
  /\ activeAck \in BOOLEAN /\ ackPending \in BOOLEAN
  /\ rxBit \in BOOLEAN /\ rxTaken \in BOOLEAN
  /\ line \in BOOLEAN /\ settling \in BOOLEAN

QueueType ==
  /\ events \in 0..QueueCap /\ normal \in 0..QueueCap
  /\ priority \in Seq({"ack", "raw"}) /\ Len(priority) <= QueueCap
  /\ cmd \in Commands /\ held \in Commands

BurstType == bursts \in [event : 0..EventBurst, priority : 0..PriorityBurst]
EdgeType == edges \in Seq(0..MaxOp) /\ Len(edges) <= EdgeCap

LEMMA TypeParts ==
  TypeOK <=> CoreType /\ ControlType /\ FlagType /\ QueueType /\ BurstType /\ EdgeType
  BY DEF TypeOK, CoreType, ControlType, FlagType, QueueType, BurstType, EdgeType,
         RadioType, HistType, LaneType, IrqType, Commands

LEMMA ControlStep == ControlType /\ [Next]_vars => ControlType'
  BY DEF ControlType, OwnerPlaces, Next, OwnerStep, IrqStep, Environment, vars,
         ownerVars, driverVars, irqFrame, Take, Scan, Terminal, EndTx, Peek,
         Reserve, RxRecovery, Choose, Hold, Dispatch, RunEvent, RunStart, RunSend,
         StartTx, Maintain, NextPass, Recover, Quiesce, DeadlinePasses,
         PostNormal, TxEnds, RxArrives, Isr, IrqClaim, IrqCheck, IrqProcess,
         Latch, OwnSlot, WriteSlot, IrqEnd

LEMMA FlagStep == FlagType /\ [Next]_vars => FlagType'
<1> SUFFICES ASSUME FlagType, [Next]_vars PROVE FlagType'
  OBVIOUS
<1>1. activeAck' \in BOOLEAN /\ ackPending' \in BOOLEAN
  BY DEF FlagType, Next, OwnerStep, IrqStep, Environment, vars, ownerVars, driverVars,
      irqFrame, Take, Scan, Terminal, EndTx, Peek, Reserve, RxRecovery, Choose, Hold,
      Dispatch, RunEvent, RunStart, RunSend, StartTx, Maintain, NextPass, Recover,
      Quiesce, DeadlinePasses, PostNormal, TxEnds, RxArrives, Isr, IrqClaim,
      IrqCheck, IrqProcess, Latch, OwnSlot, WriteSlot, IrqEnd
<1>2. rxBit' \in BOOLEAN
  BY DEF FlagType, Next, OwnerStep, IrqStep, Environment, vars, ownerVars, driverVars,
      irqFrame, Take, Scan, Terminal, EndTx, Peek, Reserve, RxRecovery, RestartRx, Choose, Hold,
      Dispatch, RunEvent, RunStart, RunSend, StartTx, Maintain, NextPass, Recover,
      Quiesce, DeadlinePasses, PostNormal, TxEnds, RxArrives, Isr, IrqClaim,
      IrqCheck, IrqProcess, Latch, OwnSlot, WriteSlot, IrqEnd
<1>3. rxTaken' \in BOOLEAN
  BY DEF FlagType, Next, OwnerStep, IrqStep, Environment, vars, ownerVars, driverVars,
      irqFrame, Take, Scan, Terminal, Peek, Reserve, RxRecovery, Choose, Hold,
      Dispatch, RunEvent, RunStart, RunSend, StartTx, Maintain, NextPass, Recover,
      Quiesce, DeadlinePasses, PostNormal, TxEnds, RxArrives, Isr, IrqClaim,
      IrqCheck, IrqProcess, Latch, OwnSlot, WriteSlot, IrqEnd
<1>4. line' \in BOOLEAN /\ settling' \in BOOLEAN
  BY DEF FlagType, Next, OwnerStep, IrqStep, Environment, vars, ownerVars, driverVars,
      irqFrame, Take, Scan, Terminal, Peek, Reserve, RxRecovery, Choose, Hold,
      Dispatch, RunEvent, RunStart, RunSend, StartTx, Maintain, NextPass, Recover,
      Quiesce, DeadlinePasses, PostNormal, TxEnds, RxArrives, Isr, IrqClaim,
      IrqCheck, IrqProcess, Latch, OwnSlot, WriteSlot, IrqEnd
<1> QED
  BY <1>1, <1>2, <1>3, <1>4 DEF FlagType

LEMMA QueueStep == QueueType /\ [Next]_vars => QueueType'
<1> SUFFICES ASSUME QueueType, [Next]_vars PROVE QueueType'
  OBVIOUS
<1> USE BoundsAssumption DEF QueueType, Commands
<1>1. CASE TakeEvent /\ UNCHANGED held
  BY <1>1 DEF TakeEvent
<1>2. CASE TakePriority /\ UNCHANGED held
  BY <1>2, HeadTailProperties DEF TakePriority
<1>3. CASE TakeNormal /\ UNCHANGED held
  BY <1>3 DEF TakeNormal
<1>4. CASE RunEvent /\ cmd' = "none" /\ held' = "none" /\ UNCHANGED <<events, normal>>
  <2>1. /\ <<"ack">> \in Seq({"ack", "raw"}) /\ Len(<<"ack">>) = 1
        /\ <<"ack">> \o priority \in Seq({"ack", "raw"})
        /\ Len(<<"ack">> \o priority) = Len(priority) + 1
    BY ConcatProperties
  <2>2. /\ Append(priority, "raw") \in Seq({"ack", "raw"})
        /\ Len(Append(priority, "raw")) = Len(priority) + 1
    BY AppendProperties
  <2>3. \/ UNCHANGED priority
        \/ Len(priority) < QueueCap /\ priority' = Append(priority, "raw")
        \/ Len(priority) < QueueCap /\ priority' = <<"ack">> \o priority
    BY <1>4 DEF RunEvent
  <2>4. Len(priority) \in Nat
    OBVIOUS
  <2>5. priority' \in Seq({"ack", "raw"})
    BY <2>1, <2>2, <2>3
  <2>6. Len(priority') <= QueueCap
    BY <2>1, <2>2, <2>3, <2>4
  <2> QED
    BY <1>4, <2>5, <2>6
<1>5. CASE PostNormal \/ IrqEnd
  BY <1>5 DEF PostNormal, IrqEnd, ownerVars, irqFrame
<1>6. CASE UNCHANGED <<events, priority, normal, cmd, held>>
  BY <1>6
<1> QED
  BY <1>1, <1>2, <1>3, <1>4, <1>5, <1>6
  DEF Next, OwnerStep, IrqStep, Environment, vars, queueVars,
         ownerVars, driverVars, irqFrame, Take, Scan, Terminal, EndTx, Peek,
         Reserve, RxRecovery, Choose, Hold, Dispatch, RunStart, RunSend,
         StartTx, Maintain, NextPass, Recover, Quiesce, DeadlinePasses,
         TxEnds, RxArrives, Isr, IrqClaim, IrqCheck, IrqProcess,
         Latch, OwnSlot, WriteSlot

LEMMA BurstStep == BurstType /\ [Next]_vars => BurstType'
<1> SUFFICES ASSUME BurstType, [Next]_vars PROVE BurstType'
  OBVIOUS
<1> USE BoundsAssumption DEF BurstType
<1>1. CASE TakeEvent
  BY <1>1 DEF TakeEvent
<1>2. CASE TakePriority
  <2>1. Bumped \in 0..PriorityBurst
    BY DEF Bumped
  <2> QED
    BY <1>2, <2>1 DEF TakePriority
<1>3. CASE bursts' = [event |-> 0, priority |-> 0]
  BY <1>3
<1>4. CASE UNCHANGED bursts
  BY <1>4
<1> QED
  BY <1>1, <1>2, <1>3, <1>4
  DEF Next, OwnerStep, IrqStep, Environment, vars, ownerVars, irqFrame, Take,
      Scan, Terminal, Peek, Reserve, RxRecovery, Choose, TakeNormal, Hold,
      Dispatch, Maintain, Recover, Quiesce, DeadlinePasses, PostNormal, TxEnds,
      RxArrives, Isr, IrqClaim, IrqCheck, IrqProcess, Latch, OwnSlot, WriteSlot,
      IrqEnd

LEMMA EdgeStep == EdgeType /\ radio \in RadioType /\ [Next]_vars => EdgeType'
<1> SUFFICES ASSUME EdgeType, radio \in RadioType, [Next]_vars PROVE EdgeType'
  OBVIOUS
<1> USE BoundsAssumption DEF EdgeType
<1>1. CASE Isr
  <2>1. radio.origin \in 0..MaxOp
    BY DEF RadioType
  <2>2. CASE Len(edges) < EdgeCap
    <3>1. edges' = Append(edges, radio.origin)
      BY <1>1, <2>2 DEF Isr
    <3>2. edges' \in Seq(0..MaxOp) /\ Len(edges') = Len(edges) + 1
      BY <2>1, <3>1, AppendProperties
    <3> QED
      BY <2>2, <3>2
  <2>3. CASE ~(Len(edges) < EdgeCap)
    BY <1>1, <2>3 DEF Isr
  <2> QED
    BY <2>2, <2>3
<1>2. CASE IrqClaim
  BY <1>2, HeadTailProperties DEF IrqClaim
<1>3. CASE UNCHANGED edges
  BY <1>3
<1> QED
  BY <1>1, <1>2, <1>3
  DEF Next, OwnerStep, IrqStep, Environment, vars, driverVars, Take,
      Scan, Terminal, Peek, Reserve, RxRecovery, Choose, Hold,
      Dispatch, Maintain, Recover, Quiesce, DeadlinePasses, PostNormal, TxEnds,
      RxArrives, IrqCheck, IrqProcess, Latch, OwnSlot, WriteSlot, IrqEnd

-----------------------------------------------------------------------------
(* The theorems.                                                           *)

LEMMA OwnerStepKeeps ==
  ASSUME OwnerInv, EdgeType, [Next]_vars PROVE OwnerInv'
<1>1. CASE OwnerStep
  BY <1>1, TakeKeeps, ScanKeeps, TerminalKeeps, PeekKeeps, ReserveKeeps,
     RxRecoveryKeeps, ChooseKeeps, HoldKeeps, DispatchKeeps, MaintainKeeps,
     RecoverKeeps, QuiesceKeeps DEF OwnerStep
<1>2. CASE IrqStep
  BY <1>2, IrqClaimKeeps, IrqCheckKeeps, IrqProcessKeeps, LatchKeeps,
     OwnSlotKeeps, WriteSlotKeeps, IrqEndKeeps DEF IrqStep, EdgeType
<1>3. CASE DeadlinePasses \/ Environment
  BY <1>3, DeadlinePassesKeeps, PostNormalKeeps, TxEndsKeeps, RxArrivesKeeps,
     IsrKeeps DEF Environment
<1>4. CASE UNCHANGED vars
  BY <1>4, CoreStutter DEF vars, coreVars, ownerVars, driverVars
<1> QED
  BY <1>1, <1>2, <1>3, <1>4 DEF Next

Inv == TypeOK /\ OwnerInv

\* The owner's and the driver's variables keep their types and the report of a
\* transmission stays on its way (meshcore_service_task, RadioOnDioIrq).
THEOREM OwnerInvariant == Spec => []Inv
<1>1. Init => Inv
  <2>1. Init => ControlType /\ FlagType
    BY DEF Init, ControlType, OwnerPlaces, FlagType, Idle
  <2>2. Init => QueueType /\ EdgeType
    BY BoundsAssumption DEF Init, QueueType, EdgeType, Commands
  <2>3. Init => BurstType
    BY BoundsAssumption DEF Init, BurstType
  <2> QED
    BY <2>1, <2>2, <2>3, OwnerInit, TypeParts DEF Inv, OwnerInv
<1>2. Inv /\ [Next]_vars => Inv'
  <2> SUFFICES ASSUME Inv, [Next]_vars PROVE Inv'
    OBVIOUS
  <2>1. ControlType /\ FlagType /\ QueueType /\ BurstType /\ EdgeType /\ OwnerInv
    BY TypeParts DEF Inv
  <2>2. ControlType' /\ FlagType' /\ QueueType' /\ BurstType'
    BY <2>1, ControlStep, FlagStep, QueueStep, BurstStep
  <2>3. EdgeType'
    BY <2>1, EdgeStep DEF OwnerInv, CoreType
  <2>4. OwnerInv'
    BY <2>1, OwnerStepKeeps
  <2>5. TypeOK'
    <3>1. CoreType'
      BY <2>4 DEF OwnerInv
    <3> QED
      BY <2>2, <2>3, <3>1
      DEF TypeOK, CoreType, ControlType, FlagType, QueueType, BurstType, EdgeType,
          RadioType, HistType, LaneType, IrqType, Commands
  <2> QED
    BY <2>4, <2>5 DEF Inv
<1> QED
  BY <1>1, <1>2, PTL DEF Spec

\* Every variable of the owner, its queues and the driver keeps its type.
THEOREM TypeCorrect == Spec => []TypeOK
  BY OwnerInvariant, PTL DEF Inv

\* A pending, scanned, handled or reported terminal, and the driver's origin,
\* are of the operation on the air (meshcore_service_take_latched_terminal).
THEOREM TerminalsStayCurrent == Spec => []TerminalsAreCurrent
<1>1. Inv => TerminalsAreCurrent
  BY DEF Inv, OwnerInv, OriginLive, CallbackLive, SlotsLive, EventLive,
         TerminalsAreCurrent
<1> QED
  BY <1>1, OwnerInvariant, PTL
-----------------------------------------------------------------------------
(* RadioOwner implements Transmission: no report is lost on its way, and the *)
(* end of an operation is the last that is heard of it.                      *)

\* What the radio shows of a transmission belongs to an origin that is still on
\* the air, also for an interrupt task that took an event without one.
ChipLive ==
  /\ radio.mode = "tx" \/ "tx" \in radio.flags => radio.origin # 0
  /\ irq.pc = "process" /\ irq.origin = 0 => "tx" \notin radio.flags

\* A transmission whose origin is gone has its report under way; the slot bit of
\* a callback is there until the callback has written the slot.
ReportKept ==
  /\ Busy => active = nextOp
  /\ Busy /\ radio.origin # active => Reported
  /\ irq.pc \in {"cas", "write"} => lane.pending \cup grabbed # {}

KeptInv == ChipLive /\ ReportKept

LEMMA KeptInit == Init => KeptInv
  BY DEF Init, Idle, KeptInv, ChipLive, ReportKept, Busy

\* A step that ends no transmission and begins none.
Quiet ==
  /\ UNCHANGED <<active, nextOp>>
  /\ radio'.origin = radio.origin
  /\ Busy \/ UNCHANGED hist

LEMMA QuietStutters ==
  ASSUME KeptInv, KeptInv', Quiet PROVE UNCHANGED <<nextOp, Stage>>
<1>1. CASE Busy
  BY <1>1 DEF Quiet, KeptInv, ReportKept, Busy, Stage
<1>2. CASE ~Busy
  BY <1>2 DEF Quiet, Busy, Stage
<1> QED
  BY <1>1, <1>2

\* A step of the owner that passes the report on, or leaves it where it is.
LEMMA PassesOn ==
  ASSUME KeptInv, UNCHANGED <<active, nextOp, irq>>,
         radio'.origin = radio.origin, radio'.flags = radio.flags,
         radio'.mode \in {radio.mode, "rx"},
         Reported => Reported',
         irq.pc \in {"cas", "write"} /\ lane.pending \cup grabbed # {}
           => lane'.pending \cup grabbed' # {}
  PROVE  KeptInv'
  BY DEF KeptInv, ChipLive, ReportKept, Busy

LEMMA SameReport ==
  ASSUME UNCHANGED <<irq, grabbed, event>>, lane'.pending = lane.pending
  PROVE  /\ Reported => Reported'
         /\ lane'.pending \cup grabbed' = lane.pending \cup grabbed
  BY DEF Reported, InCallback

\* The mapped step: one of Transmission, or a stutter.
AirStep == Air!Next \/ UNCHANGED <<nextOp, Stage>>

LEMMA QuietSteps ==
  ASSUME KeptInv, UNCHANGED <<active, nextOp, irq, hist>>,
         radio'.origin = radio.origin, radio'.flags = radio.flags,
         radio'.mode \in {radio.mode, "rx"},
         Reported => Reported',
         irq.pc \in {"cas", "write"} /\ lane.pending \cup grabbed # {}
           => lane'.pending \cup grabbed' # {}
  PROVE  KeptInv' /\ AirStep
<1>1. KeptInv'
  BY PassesOn
<1> QED
  BY <1>1, QuietStutters DEF Quiet, AirStep

LEMMA LaneTyped == OwnerInv => lane \in LaneType /\ radio \in RadioType
  BY DEF OwnerInv, CoreType

\* Most of the owner's steps leave the report alone.
LEMMA OwnerLeaves ==
  ASSUME OwnerInv, KeptInv,
         Peek \/ Reserve \/ RxRecovery \/ Choose \/ Hold \/ Recover
           \/ DeadlinePasses \/ PostNormal \/ Isr
  PROVE  KeptInv' /\ AirStep
<1>1. UNCHANGED <<active, nextOp, irq, hist, grabbed, event>>
  BY DEF Peek, Reserve, RxRecovery, Choose, Hold, Recover, DeadlinePasses, PostNormal,
         Isr, ownerVars, driverVars, irqFrame
<1>2. lane'.pending = lane.pending
  BY LaneTyped
  DEF Peek, Reserve, RxRecovery, Choose, Hold, Recover, DeadlinePasses, PostNormal,
      Isr, NextPass, LaneType
<1>3. /\ radio'.origin = radio.origin /\ radio'.flags = radio.flags
      /\ radio'.mode \in {radio.mode, "rx"}
  BY LaneTyped
  DEF Peek, Reserve, RxRecovery, RestartRx, Choose, Hold, Recover, DeadlinePasses,
      PostNormal, Isr, driverVars, RadioType
<1> QED
  BY <1>1, <1>2, <1>3, SameReport, QuietSteps

LEMMA TakePasses == ASSUME OwnerInv, KeptInv, Take PROVE KeptInv' /\ AirStep
<1>1. UNCHANGED <<active, nextOp, irq, hist, event, radio>>
  BY DEF Take, driverVars
<1>2. grabbed' = lane.pending /\ (lane.pending = {} \/ grabbed = {})
  BY DEF Take, OwnerInv, EventLive
<1>3. grabbed = {}
  BY DEF Take, OwnerInv, EventLive
<1>4. Reported => Reported'
  BY <1>1, <1>2, <1>3 DEF Reported, InCallback
<1> QED
  BY <1>1, <1>2, <1>3, <1>4, QuietSteps

\* The scan puts the bits back or hands a terminal to the owner; in the second
\* case the callback has written its slot.
LEMMA ScanPasses == ASSUME OwnerInv, KeptInv, Scan PROVE KeptInv' /\ AirStep
<1>1. UNCHANGED <<active, nextOp, irq, hist, radio>>
  BY DEF Scan, driverVars
<1>2. CASE \E s \in grabbed : hist[s].term # "final"
  <2>1. lane'.pending = lane.pending \cup grabbed /\ grabbed' = {} /\ event' = event
    BY <1>2, LaneTyped DEF Scan, LaneType
  <2>2. Reported => Reported'
    BY <1>1, <2>1 DEF Reported, InCallback
  <2> QED
    BY <1>1, <2>1, <2>2, QuietSteps
<1>3. CASE ~\E s \in grabbed : hist[s].term # "final"
  <2>1. PICK s \in grabbed : event' = hist[s].op
    BY <1>3 DEF Scan
  <2>2. Busy /\ s = SlotOf(active) /\ Term = "final"
    BY <1>3, <2>1 DEF OwnerInv, SlotsLive, Term
  <2>3. event' # 0
    BY <2>1, <2>2 DEF OwnerInv, WatchLive, Busy
  <2>4. irq.pc \notin {"cas", "write"}
    BY <2>2 DEF OwnerInv, CallbackLive, InCallback
  <2>5. Reported'
    BY <2>3 DEF Reported
  <2> QED
    BY <1>1, <2>4, <2>5, QuietSteps
<1> QED
  BY <1>2, <1>3

\* The owner handles the report of the operation on the air: it is over.
LEMMA TerminalHandles ==
  ASSUME OwnerInv, KeptInv, Terminal PROVE KeptInv' /\ AirStep
<1>1. /\ event = active /\ Busy /\ radio.origin = 0 /\ Term = "final"
  BY DEF Terminal, OwnerInv, EventLive, Busy
<1>2. /\ active' = 0 /\ radio' = [radio EXCEPT !.mode = "rx"]
      /\ UNCHANGED <<nextOp, hist, irq, lane, grabbed>>
  BY <1>1 DEF Terminal, EndTx
<1>3. radio'.mode = "rx" /\ radio'.flags = radio.flags /\ radio'.origin = radio.origin
  BY <1>2, LaneTyped DEF RadioType
<1>4. KeptInv'
  BY <1>2, <1>3 DEF KeptInv, ChipLive, ReportKept, Busy
<1>5. active = nextOp /\ nextOp # 0
  BY <1>1 DEF KeptInv, ReportKept, Busy
<1>6. Reported
  BY <1>1 DEF Reported, Busy
<1>7. Stage = "reported"
  BY <1>1, <1>5, <1>6 DEF Stage, Busy
<1>8. Stage' = "handled"
  BY <1>1, <1>2, <1>5 DEF Stage, Busy, Term
<1> QED
  BY <1>2, <1>4, <1>7, <1>8 DEF AirStep, Air!Next, Air!Handle, Air!Move

\* The watchdog takes an origin back that is still on the air, or nothing.
LEMMA QuiesceReclaims ==
  ASSUME OwnerInv, KeptInv, Quiesce PROVE KeptInv' /\ AirStep
<1>1. Busy /\ active = nextOp /\ nextOp # 0
  BY DEF Quiesce, OwnerInv, WatchLive, KeptInv, ReportKept, Busy
<1>2. UNCHANGED <<nextOp, hist, grabbed, event, irq>>
  BY DEF Quiesce
<1>3. lane'.pending = lane.pending
  BY LaneTyped DEF Quiesce, NextPass, LaneType
<1>4. CASE radio.origin = active
  <2>1. /\ radio' = [[origin |-> 0, mode |-> "standby", flags |-> {}]
                      EXCEPT !.mode = "rx"]
        /\ active' = 0
    BY <1>4 DEF Quiesce, EndTx
  <2>2. radio'.mode = "rx" /\ radio'.flags = {}
    BY <2>1
  <2>3. KeptInv'
    BY <1>2, <1>3, <2>1, <2>2 DEF KeptInv, ChipLive, ReportKept, Busy
  <2>4. Stage = "onAir"
    BY <1>1, <1>4 DEF Stage
  <2>5. Term = "none"
    BY <1>1, <1>4 DEF OwnerInv, OriginLive, Busy
  <2>6. Stage' = "reclaimed"
    BY <1>1, <1>2, <2>1, <2>5 DEF Stage, Busy, Term
  <2> QED
    BY <1>2, <2>3, <2>4, <2>6 DEF AirStep, Air!Next, Air!Reclaim, Air!Move
<1>5. CASE radio.origin # active
  <2>1. UNCHANGED <<active, radio>>
    BY <1>5 DEF Quiesce
  <2> QED
    BY <1>2, <1>3, <2>1, SameReport, QuietSteps
<1> QED
  BY <1>4, <1>5

\* A transmission begins where the one before is over.
LEMMA StartBegins ==
  ASSUME OwnerInv, KeptInv, CanStartTx, NEW ack, StartTx(ack),
         lane'.pending = lane.pending, UNCHANGED <<grabbed, event, irq>>
  PROVE  KeptInv' /\ AirStep
<1>1. /\ ~Busy /\ nextOp < MaxOp /\ nextOp \in Nat /\ nextOp + 1 # 0
      /\ nextOp' = nextOp + 1 /\ active' = nextOp + 1
  BY BoundsAssumption DEF CanStartTx, StartTx, OwnerInv, CoreType
<1>2. radio'.origin = nextOp + 1 /\ radio'.flags = radio.flags
  BY LaneTyped DEF StartTx, RadioType
<1>3. ~InCallback /\ radio.origin = 0
  BY <1>1 DEF OwnerInv, CallbackLive, OriginLive, Busy
<1>4. "tx" \notin radio.flags
  BY <1>3 DEF KeptInv, ChipLive
<1>5. KeptInv'
  BY <1>1, <1>2, <1>3, <1>4 DEF KeptInv, ChipLive, ReportKept, Busy, InCallback
<1>6. Stage \in {"none", "handled", "reclaimed"}
  BY <1>1 DEF Stage, Busy
<1>7. Stage' = "onAir"
  BY <1>1, <1>2 DEF Stage, Busy
<1> QED
  BY <1>1, <1>5, <1>6, <1>7 DEF AirStep, Air!Next, Air!Begin, Air!Over

LEMMA DispatchPasses ==
  ASSUME OwnerInv, KeptInv, Dispatch PROVE KeptInv' /\ AirStep
<1>1. UNCHANGED <<grabbed, event, irq, lane>>
  BY DEF Dispatch
<1>2. CASE RunSend /\ CanStartTx /\ StartTx(cmd = "ack")
  BY <1>1, <1>2, StartBegins
<1>3. CASE ~(RunSend /\ CanStartTx /\ StartTx(cmd = "ack"))
  <2>1. UNCHANGED <<active, nextOp, hist>>
    BY <1>3 DEF Dispatch, RunEvent, RunStart, RunSend
  <2>2. RestartRx(Busy) \/ RestartRx(FALSE) \/ UNCHANGED radio
    BY <1>3 DEF Dispatch, RunEvent, RunStart, RunSend
  <2>3. /\ radio'.origin = radio.origin /\ radio'.flags = radio.flags
        /\ radio'.mode \in {radio.mode, "rx"}
    BY <2>2, LaneTyped DEF RestartRx, RadioType
  <2> QED
    BY <1>1, <2>1, <2>3, SameReport, QuietSteps
<1> QED
  BY <1>2, <1>3

LEMMA MaintainPasses ==
  ASSUME OwnerInv, KeptInv, Maintain PROVE KeptInv' /\ AirStep
<1>1. UNCHANGED <<grabbed, event, irq>>
  BY DEF Maintain
<1>2. lane'.pending = lane.pending
  BY LaneTyped DEF Maintain, NextPass, LaneType
<1>3. CASE CanStartTx /\ StartTx(FALSE)
  BY <1>1, <1>2, <1>3, StartBegins
<1>4. CASE ~(CanStartTx /\ StartTx(FALSE))
  <2>1. UNCHANGED <<active, nextOp, hist, radio>>
    BY <1>4 DEF Maintain
  <2> QED
    BY <1>1, <1>2, <2>1, SameReport, QuietSteps
<1> QED
  BY <1>3, <1>4

\* The air: only a transmission ends, and only with its origin.
LEMMA AirPasses ==
  ASSUME OwnerInv, KeptInv, TxEnds \/ RxArrives PROVE KeptInv' /\ AirStep
<1>1. UNCHANGED <<active, nextOp, hist, grabbed, event, irq, lane>>
  BY DEF TxEnds, RxArrives, irqFrame, ownerVars
<1>2. radio'.origin = radio.origin /\ radio'.mode = radio.mode
  BY LaneTyped DEF TxEnds, RxArrives, RadioType
<1>3. irq.pc = "idle"
  BY DEF TxEnds, RxArrives, AirIsSlow
<1>4. "tx" \in radio'.flags => radio.mode = "tx" \/ "tx" \in radio.flags
  BY LaneTyped DEF TxEnds, RxArrives, RadioType
<1>5. KeptInv'
  BY <1>1, <1>2, <1>3, <1>4, SameReport
  DEF KeptInv, ChipLive, ReportKept, Busy
<1> QED
  BY <1>1, <1>2, <1>5, QuietStutters DEF Quiet, AirStep

\* The interrupt task's steps around the report.
LEMMA IrqPasses ==
  ASSUME OwnerInv, KeptInv, edges \in Seq(0..MaxOp), IrqClaim \/ IrqCheck \/ IrqEnd
  PROVE  KeptInv' /\ AirStep
<1>1. UNCHANGED <<active, nextOp, hist, grabbed, event, lane, radio>>
  BY DEF IrqClaim, IrqCheck, IrqEnd, irqFrame, ownerVars
<1>2. irq \in IrqType /\ ~InCallback
  BY DEF IrqClaim, IrqCheck, IrqEnd, OwnerInv, CoreType, InCallback
<1>3. /\ irq'.pc \in {"idle", "check", "process"}
      /\ irq'.pc = "process" => irq'.origin = radio.origin
  <2>1. CASE IrqClaim
    <3>1. irq.pc = "idle" /\ (irq'.pc = "check" \/ irq' = irq)
      BY <2>1 DEF IrqClaim
    <3> QED
      BY <3>1
  <2>2. CASE IrqCheck /\ irq.origin = radio.origin /\ Dio1
    <3>1. irq' = [irq EXCEPT !.pc = "process"] /\ radio' = radio
      BY <2>2 DEF IrqCheck
    <3>2. irq'.pc = "process" /\ irq'.origin = irq.origin
      BY <1>2, <3>1, IrqAt DEF IrqPlaces
    <3> QED
      BY <2>2, <3>2
  <2>3. CASE irq' = Idle
    BY <2>3 DEF Idle
  <2>4. CASE IrqCheck /\ ~(irq.origin = radio.origin /\ Dio1)
    <3>1. irq' = Idle
      BY <2>4 DEF IrqCheck
    <3> QED
      BY <2>3, <3>1
  <2>5. CASE IrqEnd
    <3>1. irq' = Idle
      BY <2>5 DEF IrqEnd
    <3> QED
      BY <2>3, <3>1
  <2> QED
    BY <2>1, <2>2, <2>4, <2>5
<1>4. Reported => Reported'
  BY <1>1, <1>2 DEF Reported
<1>5. KeptInv'
  BY <1>1, <1>3, <1>4 DEF KeptInv, ChipLive, ReportKept, Busy
<1> QED
  BY <1>1, <1>5, QuietStutters DEF Quiet, AirStep

\* The driver takes the origin off the air only with the report in hand: the
\* history slot of the origin is its own.
LEMMA ProcessReports ==
  ASSUME OwnerInv, KeptInv, IrqProcess PROVE KeptInv' /\ AirStep
<1>1. UNCHANGED <<active, nextOp, hist, grabbed, event, lane>>
  BY DEF IrqProcess, irqFrame, ownerVars
<1> DEFINE ends == "tx" \in radio.flags
                   /\ (irq.origin = 0 \/ irq.origin = radio.origin)
<1>2. /\ radio'.origin = IF ends THEN 0 ELSE radio.origin
      /\ radio'.mode = IF ends THEN "standby" ELSE radio.mode
      /\ radio'.flags = {}
  BY DEF IrqProcess
<1>3. irq'.pc \in {"latch", "rx"}
  BY DEF IrqProcess
<1>4. irq.pc = "process" /\ ~InCallback
  BY DEF IrqProcess, InCallback
<1>5. CASE ~ends
  <2>1. Reported => Reported'
    BY <1>1, <1>4 DEF Reported
  <2>2. KeptInv'
    BY <1>1, <1>2, <1>3, <1>5, <2>1 DEF KeptInv, ChipLive, ReportKept, Busy
  <2> QED
    BY <1>1, <1>2, <1>5, <2>2, QuietStutters DEF Quiet, AirStep
<1>6. CASE ends
  <2>1. irq.origin # 0 /\ radio.origin = irq.origin
    BY <1>4, <1>6 DEF KeptInv, ChipLive, OwnerInv, Claims
  <2>2. radio.origin = active /\ Busy /\ hist[SlotOf(active)].op = active
    BY <2>1 DEF OwnerInv, OriginLive, WatchLive, Busy
  <2>3. irq'.pc = "latch"
    BY <1>6, <2>1, <2>2 DEF IrqProcess
  <2>4. Reported'
    BY <2>3 DEF Reported, InCallback
  <2>5. KeptInv'
    BY <1>1, <1>2, <1>6, <2>3, <2>4 DEF KeptInv, ChipLive, ReportKept, Busy
  <2>6. active = nextOp /\ nextOp # 0
    BY <2>2 DEF KeptInv, ReportKept, Busy
  <2>7. Stage = "onAir"
    BY <2>2, <2>6 DEF Stage
  <2>8. Stage' = "reported"
    BY <1>1, <1>2, <1>6, <2>2, <2>4, <2>6 DEF Stage, Busy
  <2> QED
    BY <1>1, <2>5, <2>7, <2>8 DEF AirStep, Air!Next, Air!Report, Air!Move
<1> QED
  BY <1>5, <1>6

\* The callback sets the slot bit before it touches the slot, and writes the slot
\* while the operation is on the air.
LEMMA CallbackPasses ==
  ASSUME OwnerInv, KeptInv, Latch \/ OwnSlot \/ WriteSlot
  PROVE  KeptInv' /\ AirStep
<1>1. UNCHANGED <<active, nextOp, grabbed, event, radio>>
  BY DEF Latch, OwnSlot, WriteSlot, irqFrame, ownerVars
<1>2. irq \in IrqType /\ InCallback /\ Busy
  BY DEF Latch, OwnSlot, WriteSlot, OwnerInv, CoreType, CallbackLive, InCallback
<1>3. irq'.pc \in {"cas", "write", "rx"}
  BY <1>2, IrqAt DEF Latch, OwnSlot, WriteSlot, IrqPlaces
<1>4. lane'.pending \cup grabbed' # {}
  <2>1. CASE Latch
    BY <2>1, LaneTyped DEF Latch, LaneType
  <2>2. CASE OwnSlot \/ WriteSlot
    BY <1>1, <2>2 DEF OwnSlot, WriteSlot, KeptInv, ReportKept
  <2> QED
    BY <2>1, <2>2
<1>5. Reported'
  BY <1>4 DEF Reported
<1>6. KeptInv'
  BY <1>1, <1>3, <1>4, <1>5 DEF KeptInv, ChipLive, ReportKept, Busy
<1> QED
  BY <1>1, <1>2, <1>6, QuietStutters DEF Quiet, AirStep

LEMMA StepKept ==
  ASSUME Inv, KeptInv, [Next]_vars PROVE KeptInv' /\ AirStep
<1>1. OwnerInv /\ edges \in Seq(0..MaxOp)
  BY DEF Inv, TypeOK
<1>2. CASE OwnerStep
  BY <1>1, <1>2, TakePasses, ScanPasses, TerminalHandles, OwnerLeaves,
     DispatchPasses, MaintainPasses, QuiesceReclaims DEF OwnerStep
<1>3. CASE IrqStep
  BY <1>1, <1>3, IrqPasses, ProcessReports, CallbackPasses DEF IrqStep
<1>4. CASE DeadlinePasses \/ Environment
  BY <1>1, <1>4, OwnerLeaves, AirPasses DEF Environment
<1>5. CASE UNCHANGED vars
  <2>1. UNCHANGED <<active, nextOp, irq, hist, radio, lane, grabbed, event>>
    BY <1>5 DEF vars, ownerVars, driverVars
  <2> QED
    BY <2>1, SameReport, QuietSteps
<1> QED
  BY <1>2, <1>3, <1>4, <1>5 DEF Next

\* The owner's transmissions are those of Transmission, for any number of them
\* and any history length, queues and bursts: each is begun after the one
\* before is over, is reported or taken back, never both, and the owner handles
\* the report of each that was reported (RadioRecoverTxWithOrigin,
\* meshcore_service_latch_radio_recovery, meshcore_service_take_latched_terminal).
THEOREM TransmissionsImplemented == Spec => TransmissionsKept
<1>1. Init => Air!Init
  BY DEF Init, Air!Init, Stage
<1>2. Init => KeptInv
  BY KeptInit
<1>3. Inv /\ KeptInv /\ [Next]_vars => KeptInv' /\ [Air!Next]_<<nextOp, Stage>>
  BY StepKept DEF AirStep
<1> QED
  BY <1>1, <1>2, <1>3, OwnerInvariant, PTL DEF Spec, TransmissionsKept, Air!Spec

=============================================================================
