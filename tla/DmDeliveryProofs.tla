-------------------------- MODULE DmDeliveryProofs --------------------------
(***************************************************************************)
(* Proofs about DmDelivery, for any number of rows, any capacity of the    *)
(* ring and any number of power losses, clears and remounts.               *)
(***************************************************************************)
EXTENDS DmDelivery, TLAPS

-----------------------------------------------------------------------------
(* The type invariant by parts.                                            *)

Calls  == [row : Rows \cup {0}, to : RowStates, then : Returns, direct : BOOLEAN]
Ios    == [by : {"none", "owner", "worker", "console"}, rows : [Rows -> RowRecord]]
Radios == [row : Rows \cup {0}, rev : Nat, phase : {"idle", "air", "done", "timeout"}]

RowsOK  == ram \in [Rows -> RowRecord] /\ dirty \in BOOLEAN
MediaOK == /\ disk \in [Rows -> RowRecord] /\ receipts \subseteq Rows
           /\ remounted \in BOOLEAN /\ io \in Ios /\ clearing \in BOOLEAN
OwnOK   == own \in Owners /\ (own.row = 0 => own = NoOwner)
RadioOK == radio \in Radios /\ quiesced \in BOOLEAN
CallOK  == pc \in Places /\ call \in Calls /\ ret \in {"ok", "error"}
PastOK  == /\ used \in 0..MaxRows /\ sent \in [Rows -> [0..1 -> Nat]]
           /\ acked \subseteq Rows /\ verdict \in Nats /\ effects \in Nats
           /\ spent \in [crashes : Nat, clears : Nat, remounts : Nat]

LEMMA TypeParts ==
  /\ TypeOK <=> RowsOK /\ MediaOK /\ OwnOK /\ RadioOK /\ CallOK /\ PastOK
  /\ TypeOK' <=> RowsOK' /\ MediaOK' /\ OwnOK' /\ RadioOK' /\ CallOK' /\ PastOK'
BY DEF TypeOK, RowsOK, MediaOK, OwnOK, RadioOK, CallOK, PastOK, Calls, Ios, Radios

(* A row that is being appended has a number.                              *)
Appending == pc = "appended" \/ (pc \in {"flush", "write"} /\ call.then = "appended")
AppendOK  == Appending => call.row \in 1..used

-----------------------------------------------------------------------------
(* What the helpers return                                                 *)

LEMMA RowTyped == ASSUME NEW state \in RowStates PROVE Row(state) \in RowRecord
BY DEF Row, RowRecord

LEMMA AbsentTyped == Absent \in RowRecord /\ NoRows \in [Rows -> RowRecord]
BY DEF Absent, NoRows, RowRecord, RowStates

LEMMA MovedTyped ==
  ASSUME NEW row \in RowRecord, NEW to \in RowStates PROVE Moved(row, to) \in RowRecord
BY DEF Moved, RowRecord

LEMMA InterruptedTyped ==
  ASSUME NEW row \in RowRecord PROVE Interrupted(row) \in RowRecord
<1>1. "interrupted" \in RowStates
  BY DEF RowStates, Terminal
<1>2. row.rev + 1 \in Nat
  BY DEF RowRecord
<1>3. QED
  BY <1>1, <1>2 DEF Interrupted, RowRecord

LEMMA InsertTyped ==
  ASSUME RowsOK, PastOK, used < MaxRows, NEW state \in RowStates, Insert(Row(state))
  PROVE  RowsOK' /\ used' \in 0..MaxRows
<1>1. \A r \in Rows : ram[r] \in RowRecord
  BY DEF RowsOK
<1>2. ram' \in [Rows -> RowRecord]
  BY <1>1, RowTyped, AbsentTyped DEF Insert
<1>3. QED
  BY <1>2, DeliveryAssumption DEF Insert, RowsOK, PastOK

LEMMA TransitionTyped ==
  ASSUME RowsOK, CallOK, NEW r \in Rows \cup {0}, NEW from, NEW rev,
         NEW to \in RowStates, NEW then \in Returns, Transition(r, from, rev, to, then)
  PROVE  RowsOK' /\ CallOK'
<1>1. CASE MatchesRow(r, from, rev, to)
  <2>1. ram' = [ram EXCEPT ![r] = Moved(@, to)] /\ dirty' = TRUE
    BY <1>1 DEF Transition
  <2>2. ram' \in [Rows -> RowRecord]
    <3>1. \A q \in Rows : ram'[q] \in RowRecord
      BY <2>1, MovedTyped DEF RowsOK
    <3>2. QED
      BY <2>1, <3>1 DEF RowsOK
  <2>3. call' = [row |-> r, to |-> to, then |-> then, direct |-> FALSE] /\ pc' = "flush" /\ ret' = "ok"
    BY <1>1 DEF Transition
  <2>4. QED
    BY <2>1, <2>2, <2>3 DEF RowsOK, CallOK, Calls, Places
<1>2. CASE ~MatchesRow(r, from, rev, to)
  <2>1. call' = NoCall /\ pc' = then /\ ret' = "error" /\ UNCHANGED <<ram, dirty>>
    BY <1>2 DEF Transition
  <2>2. NoCall \in Calls
    BY DEF NoCall, Calls, RowStates, Returns, Places
  <2>3. QED
    BY <2>1, <2>2 DEF RowsOK, CallOK, Returns
<1>3. QED
  BY <1>1, <1>2

LEMMA ContinueTyped ==
  ASSUME CallOK, NEW place \in Places, Continue(place) PROVE CallOK'
BY DEF Continue, CallOK

LEMMA CommitTyped ==
  ASSUME MediaOK, RowsOK, NEW written, NEW ok, Commit(written, ok), UNCHANGED <<ram, remounted>>,
         clearing' \in BOOLEAN
  PROVE  RowsOK' /\ MediaOK'
<1>1. NoIo \in Ios
  BY AbsentTyped DEF NoIo, Ios
<1>2. io.rows \in [Rows -> RowRecord]
  BY DEF MediaOK, Ios
<1>3. disk' \in [Rows -> RowRecord]
  BY <1>2 DEF Commit, MediaOK
<1>4. QED
  BY <1>1, <1>3 DEF Commit, MediaOK, RowsOK

LEMMA BeginWriteTyped ==
  ASSUME MediaOK, RowsOK, NEW by \in {"owner", "worker", "console"}, BeginWrite(by),
         UNCHANGED clearing
  PROVE  RowsOK' /\ MediaOK'
<1>1. io' = [by |-> by, rows |-> ram] /\ UNCHANGED <<ram, disk>>
  BY DEF BeginWrite
<1>2. io' \in Ios
  BY <1>1 DEF Ios, RowsOK
<1>3. receipts' \subseteq Rows /\ remounted' \in BOOLEAN /\ dirty' \in BOOLEAN
  BY DEF BeginWrite, MediaOK, RowsOK
<1>4. QED
  BY <1>1, <1>2, <1>3 DEF MediaOK, RowsOK

LEMMA NoOwnerTyped == NoOwner \in Owners
BY DEF NoOwner, NoHeard, Owners, RowStates

LEMMA SessionRecord ==
  ASSUME NEW o \in Owners, NEW state \in RowStates, NEW rev \in Nat, NEW attempt \in Nat,
         NEW base \in Nat, NEW admitted \in BOOLEAN, NEW heard \in [rev : Nat, attempt : Nat]
  PROVE  [o EXCEPT !.state = state, !.rev = rev, !.attempt = attempt, !.base = base,
                   !.admitted = admitted, !.heard = heard] \in Owners
BY DEF Owners

LEMMA PublishTyped ==
  ASSUME OwnOK, NEW to \in RowStates, own' = Publish(to) PROVE OwnOK'
<1>1. CASE own.row # call.row \/ own.row = 0
  BY <1>1 DEF OwnOK, Publish
<1>2. CASE ~(own.row # call.row \/ own.row = 0)
  <2>1. own.rev + 1 \in Nat /\ own.attempt + 1 \in Nat /\ own.base \in Nat
    BY DEF OwnOK, Owners
  <2>2. NoHeard \in [rev : Nat, attempt : Nat] /\ own.heard \in [rev : Nat, attempt : Nat]
    BY DEF NoHeard, OwnOK, Owners
  <2>3. own' \in Owners
    <3> DEFINE attempt  == IF to = "retry_tx" THEN own.attempt + 1 ELSE own.attempt
               base     == IF to = "awaiting_ack" THEN own.rev + 1
                           ELSE IF own.admitted THEN own.base ELSE 0
               admitted == IF to = "awaiting_ack" THEN FALSE ELSE own.admitted
               heard    == IF to = "awaiting_ack" \/ ~own.admitted THEN NoHeard ELSE own.heard
    <3>1. own \in Owners
      BY DEF OwnOK
    <3>2. attempt \in Nat /\ base \in Nat /\ heard \in [rev : Nat, attempt : Nat]
      BY <2>1, <2>2, <3>1 DEF Owners
    <3>3. admitted \in BOOLEAN
      BY <3>1 DEF Owners
    <3>4. own' = [own EXCEPT !.state = to, !.rev = own.rev + 1, !.attempt = attempt, !.base = base,
                             !.admitted = admitted, !.heard = heard]
      BY <1>2, Zenon DEF Publish
    <3> HIDE DEF attempt, base, admitted, heard
    <3>5. [own EXCEPT !.state = to, !.rev = own.rev + 1, !.attempt = attempt, !.base = base,
                      !.admitted = admitted, !.heard = heard] \in Owners
      BY <2>1, <3>1, <3>2, <3>3, SessionRecord
    <3>6. QED
      BY <3>4, <3>5
  <2>4. own'.row = own.row
    BY <1>2 DEF Publish, OwnOK, Owners
  <2>5. QED
    BY <1>2, <2>3, <2>4 DEF OwnOK
<1>3. QED
  BY <1>1, <1>2

LEMMA OwnTransitionTyped ==
  ASSUME RowsOK, OwnOK, CallOK, NEW to \in RowStates, NEW then \in Returns,
         OwnTransition(to, then)
  PROVE  RowsOK' /\ CallOK'
<1>1. own.row \in Rows \cup {0}
  BY DEF OwnOK, Owners
<1>2. Transition(own.row, own.state, own.rev, to, then)
  BY DEF OwnTransition
<1>3. QED
  BY <1>1, <1>2, TransitionTyped

LEMMA FailBeforeRadioTyped ==
  ASSUME RowsOK, OwnOK, CallOK, FailBeforeRadio PROVE RowsOK' /\ CallOK'
<1>1. "failed_radio" \in RowStates /\ "failed_queue" \in RowStates /\ "notSent" \in Returns
  BY DEF RowStates, Terminal, Failed, Returns, Places
<1>2. \E to \in RowStates : OwnTransition(to, "notSent")
  BY <1>1 DEF FailBeforeRadio
<1>3. QED
  BY <1>1, <1>2, OwnTransitionTyped

(* Used only to keep what a step leaves alone.                             *)
LEMMA RowsFrame == ASSUME RowsOK, UNCHANGED <<ram, dirty>> PROVE RowsOK'
BY DEF RowsOK
LEMMA MediaFrame ==
  ASSUME MediaOK, UNCHANGED <<disk, receipts, remounted, io, clearing>> PROVE MediaOK'
BY DEF MediaOK
LEMMA OwnFrame == ASSUME OwnOK, UNCHANGED own PROVE OwnOK'
BY DEF OwnOK
LEMMA RadioFrame == ASSUME RadioOK, UNCHANGED <<radio, quiesced>> PROVE RadioOK'
BY DEF RadioOK
LEMMA CallFrame == ASSUME CallOK, UNCHANGED controlVars PROVE CallOK'
BY DEF CallOK, controlVars
LEMMA PastFrame ==
  ASSUME PastOK, UNCHANGED <<used, historyVars, spent>> PROVE PastOK'
BY DEF PastOK, historyVars

LEMMA InitTyped == DmInit => TypeOK
<1> SUFFICES ASSUME DmInit PROVE TypeOK
  OBVIOUS
<1>1. RowsOK /\ clearing \in BOOLEAN /\ disk \in [Rows -> RowRecord] /\ receipts \subseteq Rows
  BY AbsentTyped DEF DmInit, RowsOK
<1>2. io \in Ios
  BY AbsentTyped DEF DmInit, NoIo, Ios
<1>3. OwnOK
  BY NoOwnerTyped DEF DmInit, OwnOK
<1>4. RadioOK
  BY DEF DmInit, RadioOK, Radios, RadioIdle
<1>5. CallOK
  BY DEF DmInit, CallOK, Calls, NoCall, Returns, Places, RowStates
<1>6. PastOK
  <2>1. sent \in [Rows -> [0..1 -> Nat]] /\ verdict \in Nats /\ effects \in Nats
    BY DEF DmInit, Nats
  <2>2. used \in 0..MaxRows
    BY DeliveryAssumption DEF DmInit
  <2>3. QED
    BY <2>1, <2>2 DEF DmInit, PastOK
<1>7. QED
  BY <1>1, <1>2, <1>3, <1>4, <1>5, <1>6, TypeParts DEF MediaOK, DmInit

(* The steps of the flush the owner waits for.                             *)
LEMMA FlushTyped ==
  ASSUME TypeOK, FlushStep \/ OwnerFlushYield PROVE TypeOK'
<1> USE TypeParts
<1>1. CASE OwnerFlushBegin
  <2>1. RowsOK' /\ MediaOK'
    BY <1>1, BeginWriteTyped DEF OwnerFlushBegin
  <2>2. CallOK'
    BY <1>1 DEF OwnerFlushBegin, CallOK, Places
  <2>3. QED
    BY <1>1, <2>1, <2>2, OwnFrame, RadioFrame, PastFrame DEF OwnerFlushBegin
<1>2. CASE OwnerFlushClean
  <2>1. call.to \in RowStates /\ call.then \in Returns
    BY DEF CallOK, Calls
  <2>2. OwnOK'
    BY <1>2, <2>1, PublishTyped DEF OwnerFlushClean
  <2>3. CallOK'
    BY <1>2, <2>1 DEF OwnerFlushClean, CallOK, Returns
  <2>4. QED
    BY <1>2, <2>2, <2>3, RowsFrame, RadioFrame, PastFrame
       DEF OwnerFlushClean, MediaOK
<1>3. ASSUME NEW written, NEW ok, OwnerFlushEnd(written, ok) PROVE TypeOK'
  <2>1. call.to \in RowStates /\ call.then \in Returns
    BY DEF CallOK, Calls
  <2>2. OwnOK'
    BY <1>3, <2>1, PublishTyped DEF OwnerFlushEnd
  <2>3. CallOK'
    BY <1>3, <2>1 DEF OwnerFlushEnd, CallOK, Returns
  <2>4. RowsOK' /\ MediaOK'
    BY <1>3, CommitTyped DEF OwnerFlushEnd, MediaOK
  <2>5. QED
    BY <1>3, <2>2, <2>3, <2>4, RadioFrame, PastFrame DEF OwnerFlushEnd
<1>4. CASE OwnerFlushYield
  <2>1. io' \in Ios
    BY <1>4, AbsentTyped DEF OwnerFlushYield, NoIo, Ios
  <2>2. MediaOK'
    BY <1>4, <2>1 DEF OwnerFlushYield, MediaOK
  <2>3. CallOK'
    BY <1>4 DEF OwnerFlushYield, CallOK, Places
  <2>4. QED
    BY <1>4, <2>2, <2>3, RowsFrame, OwnFrame, RadioFrame, PastFrame DEF OwnerFlushYield
<1>5. QED
  BY <1>1, <1>2, <1>3, <1>4 DEF FlushStep

LEMMA ClearedTyped == ASSUME OwnOK, own' = ClearedIfTerminal PROVE OwnOK'
BY NoOwnerTyped DEF OwnOK, ClearedIfTerminal, NoOwner

LEMMA StatesTyped ==
  /\ {"queued", "rx", "waiting_radio", "tx_active", "tx_done", "awaiting_ack", "retry_wait",
      "retry_tx", "failed_radio", "failed_queue", "failed_timeout", "acknowledged"} \subseteq RowStates
  /\ {"idle", "maint", "appended", "released", "reserved", "started", "notSent", "txDone",
      "awaiting", "orphaned", "reconcile", "timedOut", "retryWait", "retryTx"} = Returns
  /\ Returns \subseteq Places
BY DEF RowStates, Open, InFlight, Terminal, Failed, Returns, Places

(* Sending: from the command to the radio.                                 *)
LEMMA SendTyped ==
  ASSUME TypeOK, AppendOK,
         \/ \E direct \in BOOLEAN : SendDm(direct)
         \/ AfterAppendReserve \/ AfterAppendFail \/ Released \/ AfterReserved
         \/ AfterStarted \/ AfterNotSent
  PROVE  TypeOK'
<1> USE TypeParts, StatesTyped
<1>1. ASSUME NEW direct \in BOOLEAN, SendDm(direct) PROVE TypeOK'
  <2>1. RowsOK' /\ CallOK' /\ used' \in 0..MaxRows /\ quiesced' \in BOOLEAN
    <3>1. CASE RingRefuses
      BY <1>1, <3>1, RowsFrame, ContinueTyped DEF SendDm, PastOK, RadioOK
    <3>2. CASE ~RingRefuses
      <4>1. RowsOK' /\ used' \in 0..MaxRows
        BY <1>1, <3>2, InsertTyped DEF SendDm
      <4>2. used + 1 \in Rows
        <5>1. used < MaxRows
          BY <1>1 DEF SendDm
        <5>2. used \in 0..MaxRows
          BY DEF PastOK
        <5>3. QED
          BY <5>1, <5>2, DeliveryAssumption DEF Rows
      <4>3. /\ call' = [row |-> used + 1, to |-> "queued", then |-> "appended", direct |-> direct]
            /\ pc' = "flush" /\ ret' = "ok" /\ quiesced' = TRUE
        BY <1>1, <3>2 DEF SendDm
      <4>4. QED
        BY <4>1, <4>2, <4>3 DEF CallOK, Calls, Places
    <3>3. QED
      BY <3>1, <3>2
  <2>2. QED
    <3>1. MediaOK' /\ OwnOK'
      BY <1>1, MediaFrame, OwnFrame DEF SendDm
    <3>2. RadioOK'
      BY <1>1, <2>1 DEF SendDm, RadioOK
    <3>3. PastOK'
      BY <1>1, <2>1 DEF SendDm, PastOK, historyVars
    <3>4. QED
      BY <2>1, <3>1, <3>2, <3>3
<1>2. CASE AfterAppendReserve
  <2>1. call.row \in Rows
    <3>1. call.row \in 1..used
      BY <1>2 DEF AfterAppendReserve, AppendOK, Appending
    <3>2. used \in 0..MaxRows
      BY DEF PastOK
    <3>3. QED
      BY <3>1, <3>2, DeliveryAssumption DEF Rows
  <2>2. call.row # 0
    BY <2>1 DEF Rows
  <2>3. Transition(call.row, "queued", 1, "waiting_radio", "reserved")
    BY <1>2 DEF AfterAppendReserve
  <2>4. RowsOK' /\ CallOK'
    BY <2>1, <2>3, TransitionTyped
  <2>5. call.direct \in BOOLEAN
    BY DEF CallOK, Calls
  <2>6. own' = [NoOwner EXCEPT !.row = call.row, !.state = "queued", !.rev = 1,
                               !.direct = call.direct]
    BY <1>2 DEF AfterAppendReserve
  <2>7. own' \in Owners /\ own'.row = call.row
    BY <2>1, <2>5, <2>6 DEF NoOwner, NoHeard, Owners
  <2>8. OwnOK'
    BY <2>2, <2>7 DEF OwnOK
  <2>9. QED
    BY <1>2, <2>4, <2>8, MediaFrame, RadioFrame, PastFrame DEF AfterAppendReserve
<1>3. CASE AfterAppendFail
  <2>1. call.row \in Rows \cup {0}
    BY DEF CallOK, Calls
  <2>2. Transition(call.row, "queued", 1, "failed_queue", "released")
    BY <1>3 DEF AfterAppendFail
  <2>3. RowsOK' /\ CallOK'
    BY <2>1, <2>2, TransitionTyped
  <2>4. QED
    BY <1>3, <2>3, MediaFrame, OwnFrame, RadioFrame, PastFrame DEF AfterAppendFail
<1>4. CASE Released
  BY <1>4, ContinueTyped, RowsFrame, MediaFrame, OwnFrame, PastFrame
     DEF Released, storeVars, RadioOK
<1>5. CASE AfterReserved
  <2>1. RowsOK' /\ CallOK'
    BY <1>5, OwnTransitionTyped, FailBeforeRadioTyped DEF AfterReserved
  <2>2. QED
    BY <1>5, <2>1, MediaFrame, OwnFrame, RadioFrame, PastFrame DEF AfterReserved
<1>6. CASE AfterStarted
  <2>1. CASE ret = "ok"
    <3>1. radio' \in Radios
      BY <1>6, <2>1 DEF AfterStarted, Radios, OwnOK, Owners
    <3>2. sent' \in [Rows -> [0..1 -> Nat]]
      <4>1. sent' = [sent EXCEPT ![own.row][own.attempt] = @ + 1]
        BY <1>6, <2>1 DEF AfterStarted
      <4>2. \A r \in Rows : sent[r] \in [0..1 -> Nat]
        BY DEF PastOK
      <4>3. \A r \in Rows : [sent[r] EXCEPT ![own.attempt] = @ + 1] \in [0..1 -> Nat]
        <5> TAKE r \in Rows
        <5>1. sent[r] = [a \in 0..1 |-> sent[r][a]] /\ \A a \in 0..1 : sent[r][a] \in Nat
          BY <4>2
        <5>2. \A a \in 0..1 : sent[r][a] + 1 \in Nat
          BY <5>1
        <5>3. QED
          BY <5>1, <5>2
      <4>4. QED
        BY <4>1, <4>2, <4>3 DEF PastOK
    <3>3. QED
      BY <1>6, <2>1, <3>1, <3>2, ContinueTyped, RowsFrame, MediaFrame, OwnFrame
         DEF AfterStarted, RadioOK, PastOK
  <2>2. CASE ret # "ok"
    BY <1>6, <2>2, FailBeforeRadioTyped, MediaFrame, OwnFrame DEF AfterStarted, RadioOK, PastOK
  <2>3. QED
    BY <2>1, <2>2
<1>7. CASE AfterNotSent
  BY <1>7, ClearedTyped, ContinueTyped, RowsFrame, MediaFrame, PastFrame
     DEF AfterNotSent, storeVars, RadioOK
<1>8. QED
  BY <1>1, <1>2, <1>3, <1>4, <1>5, <1>6, <1>7

(* The radio and what arrives over it.                                     *)
LEMMA RadioTyped ==
  ASSUME TypeOK,
         \/ ReceiveDm \/ SendOther \/ RadioTxDone \/ RadioTxTimeout \/ AfterTxDone
         \/ AfterAwaiting \/ Expire \/ HandleAck
         \/ \E phase \in {"done", "timeout"} : RadioEnds(phase)
  PROVE  TypeOK'
<1> USE TypeParts, StatesTyped
<1>1. CASE ReceiveDm
  <2>1. RowsOK' /\ used' \in 0..MaxRows
    BY <1>1, InsertTyped DEF ReceiveDm
  <2>2. QED
    BY <1>1, <2>1, ContinueTyped, MediaFrame, OwnFrame, RadioFrame DEF ReceiveDm, PastOK, historyVars
<1>2. CASE SendOther
  <2>1. radio' \in Radios
    BY <1>2 DEF SendOther, RadioIdle, Radios
  <2>2. QED
    BY <1>2, <2>1, ContinueTyped, RowsFrame, MediaFrame, OwnFrame, PastFrame
       DEF SendOther, storeVars, RadioOK
<1>3. ASSUME RadioTxDone \/ RadioTxTimeout PROVE TypeOK'
  <2>1. radio' \in Radios
    BY <1>3 DEF RadioTxDone, RadioTxTimeout, RadioIdle, Radios
  <2>2. RowsOK' /\ CallOK'
    <3>1. CASE radio.row = 0
      BY <1>3, <3>1, ContinueTyped, RowsFrame DEF RadioTxDone, RadioTxTimeout
    <3>2. CASE radio.row # 0
      BY <1>3, <3>2, OwnTransitionTyped DEF RadioTxDone, RadioTxTimeout
    <3>3. QED
      BY <3>1, <3>2
  <2>3. QED
    BY <1>3, <2>1, <2>2, MediaFrame, OwnFrame, PastFrame DEF RadioTxDone, RadioTxTimeout, RadioOK
<1>4. CASE AfterTxDone
  <2>1. RowsOK' /\ CallOK'
    <3>1. CASE own.state = "tx_done"
      BY <1>4, <3>1, OwnTransitionTyped DEF AfterTxDone
    <3>2. CASE own.state # "tx_done"
      BY <1>4, <3>2, ContinueTyped, RowsFrame DEF AfterTxDone
    <3>3. QED
      BY <3>1, <3>2
  <2>2. QED
    BY <1>4, <2>1, MediaFrame, OwnFrame, RadioFrame, PastFrame DEF AfterTxDone
<1>5. CASE AfterAwaiting
  <2>1. OwnOK'
    <3>1. own.row = 0 => own.state # "awaiting_ack"
      BY DEF OwnOK, NoOwner
    <3>2. [own EXCEPT !.armed = TRUE, !.due = FALSE] \in Owners
      BY DEF OwnOK, Owners
    <3>3. [own EXCEPT !.armed = TRUE, !.due = FALSE].row = own.row
      BY DEF OwnOK, Owners
    <3>4. QED
      BY <1>5, <3>1, <3>2, <3>3 DEF AfterAwaiting, OwnOK
  <2>2. QED
    BY <1>5, <2>1, ContinueTyped, RowsFrame, MediaFrame, RadioFrame, PastFrame
       DEF AfterAwaiting, storeVars
<1>6. CASE Expire
  <2>1. OwnOK'
    <3>1. own.row # 0
      BY <1>6 DEF Expire, OwnOK, NoOwner
    <3>2. [own EXCEPT !.due = TRUE] \in Owners /\ [own EXCEPT !.due = TRUE].row = own.row
      BY DEF OwnOK, Owners
    <3>3. QED
      BY <1>6, <3>1, <3>2 DEF Expire, OwnOK
  <2>2. QED
    BY <1>6, <2>1, CallFrame, RowsFrame, MediaFrame, RadioFrame, PastFrame DEF Expire, storeVars
<1>7. CASE HandleAck
  <2>1. own.row \in Rows
    BY <1>7 DEF HandleAck, OwnOK, Owners
  <2>2. own.row # 0 /\ Binding \in [rev : Nat, attempt : Nat]
        /\ NoHeard \in [rev : Nat, attempt : Nat]
    BY <1>7 DEF HandleAck, Binding, NoHeard, OwnOK, Owners
  <2>3. OwnOK'
    <3>1. \/ own' = [own EXCEPT !.admitted = TRUE, !.pending = TRUE, !.heard = Binding]
          \/ own' = [own EXCEPT !.heard = NoHeard]
      BY <1>7 DEF HandleAck
    <3>2. own' \in Owners /\ own'.row = own.row
      <4>1. own \in Owners
        BY DEF OwnOK
      <4>2. CASE own' = [own EXCEPT !.admitted = TRUE, !.pending = TRUE, !.heard = Binding]
        BY <2>2, <4>1, <4>2 DEF Owners
      <4>3. CASE own' = [own EXCEPT !.heard = NoHeard]
        BY <2>2, <4>1, <4>3 DEF Owners
      <4>4. QED
        BY <3>1, <4>2, <4>3
    <3>3. QED
      BY <2>2, <3>2 DEF OwnOK
  <2>4. RowsOK'
    <3>1. CASE UNCHANGED <<ram, dirty>>
      BY <3>1, RowsFrame
    <3>2. CASE ram' = [ram EXCEPT ![own.row] = Moved(@, "acknowledged")] /\ dirty' = TRUE
      <4>1. Moved(ram[own.row], "acknowledged") \in RowRecord
        BY <2>1, MovedTyped DEF RowsOK
      <4>2. QED
        BY <3>2, <4>1 DEF RowsOK
    <3>3. QED
      BY <1>7, <3>1, <3>2 DEF HandleAck
  <2>5. receipts' \subseteq Rows /\ acked' \subseteq Rows
    BY <1>7, <2>1 DEF HandleAck, MediaOK, PastOK
  <2>6. QED
    BY <1>7, <2>3, <2>4, <2>5, ContinueTyped, RadioFrame DEF HandleAck, MediaOK, PastOK
<1>8. ASSUME NEW phase \in {"done", "timeout"}, RadioEnds(phase) PROVE TypeOK'
  <2>1. radio' \in Radios
    BY <1>8 DEF RadioEnds, RadioOK, Radios
  <2>2. QED
    BY <1>8, <2>1, CallFrame, RowsFrame, MediaFrame, OwnFrame, PastFrame
       DEF RadioEnds, RadioOK, storeVars
<1>9. QED
  BY <1>1, <1>2, <1>3, <1>4, <1>5, <1>6, <1>7, <1>8

(* The owner's maintenance: orphans, reconciliation, deadline and retry.   *)
LEMMA MaintenanceTyped ==
  ASSUME TypeOK, Maintenance \/ AfterOrphaned \/ AfterTimedOut \/ AfterRetryWait \/ AfterRetryTx
  PROVE  TypeOK'
<1> USE TypeParts, StatesTyped
<1>1. ASSUME Poll \/ Deferred \/ NothingDue PROVE TypeOK'
  BY <1>1, ContinueTyped, RowsFrame, MediaFrame, OwnFrame, RadioFrame, PastFrame
     DEF Poll, Deferred, NothingDue, storeVars
<1>2. CASE Maintain
  <2>1. RowsOK' /\ CallOK'
    <3>1. CASE radio.phase = "idle" /\ IsOrphan
      <4>1. OrphanFailure(own.state) \in RowStates
        BY <3>1 DEF IsOrphan, OrphanFailure, Open, InFlight
      <4>2. OwnTransition(OrphanFailure(own.state), "orphaned")
        BY <1>2, <3>1 DEF Maintain
      <4>3. QED
        BY <4>1, <4>2, OwnTransitionTyped
    <3>2. CASE ~(radio.phase = "idle" /\ IsOrphan)
      BY <1>2, <3>2, ContinueTyped, RowsFrame DEF Maintain
    <3>3. QED
      BY <3>1, <3>2
  <2>2. QED
    BY <1>2, <2>1, MediaFrame, OwnFrame, RadioFrame, PastFrame DEF Maintain
<1>3. CASE AfterOrphaned
  BY <1>3, ClearedTyped, ContinueTyped, RowsFrame, MediaFrame, RadioFrame, PastFrame
     DEF AfterOrphaned, storeVars
<1>4. CASE ReconcileAck
  <2>1. OwnOK'
    BY <1>4, NoOwnerTyped DEF ReconcileAck, OwnOK
  <2>2. effects' \in Nats /\ verdict' \in Nats
    <3>1. \A r \in Rows : effects[r] + 1 \in Nat /\ verdict[r] + 1 \in Nat
      BY DEF PastOK, Nats
    <3>2. QED
      BY <1>4, <3>1 DEF ReconcileAck, PastOK, Nats
  <2>3. PastOK'
    BY <1>4, <2>2 DEF ReconcileAck, PastOK
  <2>4. QED
    BY <1>4, <2>1, <2>3, ContinueTyped, RowsFrame, MediaFrame, RadioFrame
       DEF ReconcileAck, storeVars
<1>5. DeadlineDue => own.row # 0
  BY DEF DeadlineDue, OwnOK, NoOwner
<1>6. DeadlineTaken \in Owners /\ DeadlineTaken.row = own.row
      /\ RetryTaken \in Owners /\ RetryTaken.row = own.row
  BY DEF DeadlineTaken, RetryTaken, OwnOK, Owners
<1>7. CASE RetryAsFlood
  <2>1. OwnOK'
    BY <1>5, <1>6, <1>7 DEF RetryAsFlood, OwnOK
  <2>2. RowsOK' /\ CallOK' /\ quiesced' \in BOOLEAN
    BY <1>7, OwnTransitionTyped DEF RetryAsFlood, RadioOK
  <2>3. PastOK'
    <3>1. \A r \in Rows : verdict[r] + 1 \in Nat
      BY DEF PastOK, Nats
    <3>2. verdict' \in Nats
      BY <1>7, <3>1 DEF RetryAsFlood, PastOK, Nats
    <3>3. QED
      BY <1>7, <3>2 DEF RetryAsFlood, PastOK
  <2>4. QED
    BY <1>7, <2>1, <2>2, <2>3, MediaFrame DEF RetryAsFlood, RadioOK
<1>8. CASE FailAckTimeout
  <2>1. OwnOK'
    BY <1>5, <1>6, <1>8 DEF FailAckTimeout, OwnOK
  <2>2. RowsOK' /\ CallOK'
    BY <1>8, OwnTransitionTyped DEF FailAckTimeout
  <2>3. QED
    BY <1>8, <2>1, <2>2, MediaFrame, RadioFrame, PastFrame DEF FailAckTimeout
<1>9. CASE AfterTimedOut
  <2>1. [own EXCEPT !.armed = TRUE, !.due = FALSE] \in Owners
        /\ [own EXCEPT !.armed = TRUE, !.due = FALSE].row = own.row
    BY DEF OwnOK, Owners
  <2>2. OwnOK'
    BY <1>9, <2>1, NoOwnerTyped DEF AfterTimedOut, OwnOK
  <2>3. QED
    BY <1>9, <2>2, ContinueTyped, RowsFrame, MediaFrame, PastFrame
       DEF AfterTimedOut, storeVars, RadioOK
<1>10. CASE AfterRetryWait
  <2>1. RowsOK' /\ CallOK'
    BY <1>10, OwnTransitionTyped DEF AfterRetryWait
  <2>2. QED
    BY <1>10, <2>1, MediaFrame, OwnFrame, RadioFrame, PastFrame DEF AfterRetryWait
<1>11. CASE AfterRetryTx
  <2>1. RowsOK' /\ CallOK'
    <3>1. CASE ret = "ok"
      BY <1>11, <3>1, OwnTransitionTyped DEF AfterRetryTx
    <3>2. CASE ret # "ok"
      BY <1>11, <3>2, OwnTransitionTyped, FailBeforeRadioTyped DEF AfterRetryTx
    <3>3. QED
      BY <3>1, <3>2
  <2>2. OwnOK'
    <3>1. [own EXCEPT !.direct = FALSE] \in Owners /\ [own EXCEPT !.direct = FALSE].row = own.row
      BY DEF OwnOK, Owners
    <3>2. own.row = 0 => [own EXCEPT !.direct = FALSE] = own
      BY DEF OwnOK, NoOwner
    <3>3. own' = own \/ own' = [own EXCEPT !.direct = FALSE]
      BY <1>11 DEF AfterRetryTx
    <3>4. QED
      BY <3>1, <3>2, <3>3 DEF OwnOK
  <2>3. QED
    BY <1>11, <2>1, <2>2, MediaFrame, RadioFrame, PastFrame DEF AfterRetryTx
<1>12. QED
  BY <1>1, <1>2, <1>3, <1>4, <1>7, <1>8, <1>9, <1>10, <1>11 DEF Maintenance

(* The worker, the console, the card and the power supply.                 *)
Device ==
  \/ WorkerBegin \/ \E o \in PossibleOutcomes : WorkerEnd(o.written, o.ok)
  \/ ConsoleClear \/ ConsoleBegin
  \/ \E o \in PossibleOutcomes : ConsoleEnd(o.written, o.ok)
  \/ Remount \/ Reboot

LEMMA DeviceTyped == ASSUME TypeOK, Device PROVE TypeOK'
<1> USE TypeParts, StatesTyped
<1>0. NoIo \in Ios
  BY AbsentTyped DEF NoIo, Ios
<1>1. ASSUME WorkerBegin \/ ConsoleBegin PROVE TypeOK'
  BY <1>1, BeginWriteTyped, CallFrame, OwnFrame, RadioFrame, PastFrame
     DEF WorkerBegin, ConsoleBegin
<1>2. ASSUME NEW written, NEW ok, WorkerEnd(written, ok) \/ ConsoleEnd(written, ok) PROVE TypeOK'
  <2>1. RowsOK' /\ MediaOK'
    BY <1>2, CommitTyped DEF WorkerEnd, ConsoleEnd, MediaOK
  <2>2. QED
    BY <1>2, <2>1, CallFrame, OwnFrame, RadioFrame, PastFrame DEF WorkerEnd, ConsoleEnd
<1>3. spent.crashes + 1 \in Nat /\ spent.clears + 1 \in Nat /\ spent.remounts + 1 \in Nat
  BY DEF PastOK
<1>4. ASSUME ConsoleClear \/ Remount \/ Reboot
      PROVE  spent' \in [crashes : Nat, clears : Nat, remounts : Nat]
  <2>1. \/ spent' = [spent EXCEPT !.crashes = @ + 1]
        \/ spent' = [spent EXCEPT !.clears = @ + 1]
        \/ spent' = [spent EXCEPT !.remounts = @ + 1]
    BY <1>4 DEF ConsoleClear, Remount, Reboot
  <2>2. QED
    BY <1>3, <2>1 DEF PastOK
<1>5. CASE ConsoleClear
  <2>1. RowsOK' /\ MediaOK'
    BY <1>5, AbsentTyped DEF ConsoleClear, RowsOK, MediaOK
  <2>2. PastOK'
    BY <1>4, <1>5 DEF ConsoleClear, PastOK, historyVars
  <2>3. QED
    BY <1>5, <2>1, <2>2, CallFrame, OwnFrame, RadioFrame DEF ConsoleClear
<1>6. CASE Remount
  <2>1. PastOK'
    BY <1>4, <1>6 DEF Remount, PastOK, historyVars
  <2>2. RowsOK' /\ MediaOK'
    BY <1>6 DEF Remount, RowsOK, MediaOK
  <2>3. QED
    BY <1>6, <2>1, <2>2, CallFrame, OwnFrame, RadioFrame DEF Remount
<1>7. CASE Reboot
  <2>1. ram' \in [Rows -> RowRecord]
    <3>1. \A r \in Rows : Interrupted(disk[r]) \in RowRecord
      BY InterruptedTyped DEF MediaOK
    <3>2. QED
      BY <1>7, <3>1 DEF Reboot
  <2>2. RowsOK' /\ MediaOK'
    BY <1>0, <1>7, <2>1 DEF Reboot, RowsOK, MediaOK
  <2>3. OwnOK' /\ RadioOK'
    BY <1>7, NoOwnerTyped DEF Reboot, OwnOK, RadioOK, Radios, RadioIdle
  <2>4. CallOK'
    BY <1>7 DEF Reboot, CallOK, Calls, NoCall, RowStates
  <2>5. PastOK'
    BY <1>4, <1>7 DEF Reboot, PastOK, historyVars
  <2>6. QED
    BY <2>2, <2>3, <2>4, <2>5
<1>8. QED
  BY <1>1, <1>2, <1>5, <1>6, <1>7 DEF Device

LEMMA TypeStep == ASSUME TypeOK, AppendOK, [DmNext]_vars PROVE TypeOK'
<1>1. CASE UNCHANGED vars
  BY <1>1 DEF vars, TypeOK
<1>2. CASE DmNext
  BY <1>2, FlushTyped, SendTyped, RadioTyped, MaintenanceTyped, DeviceTyped
     DEF DmNext, OwnerStep, Continuation, Maintenance, Handler, Device
<1>3. QED
  BY <1>1, <1>2

-----------------------------------------------------------------------------
(* Sessions: a row is appended, owned and credited once.                   *)

Settled == ~Appending /\ pc # "write"

LEMMA TransitionLeavesAppend ==
  ASSUME NEW r, NEW from, NEW rev, NEW to, NEW then \in Returns \ {"appended"},
         Transition(r, from, rev, to, then)
  PROVE  Settled'
BY DEF Transition, Settled, Appending, Returns

LEMMA ContinueLeavesAppend ==
  ASSUME NEW place \in Returns \ {"appended"}, Continue(place) PROVE Settled'
BY DEF Continue, Settled, Appending, Returns

Relays ==
  \/ AfterAppendReserve \/ AfterAppendFail \/ Released \/ AfterReserved \/ AfterStarted
  \/ AfterNotSent \/ AfterTxDone \/ AfterAwaiting \/ AfterOrphaned \/ AfterTimedOut
  \/ AfterRetryWait \/ AfterRetryTx \/ Maintenance \/ ReceiveDm \/ SendOther
  \/ RadioTxDone \/ RadioTxTimeout \/ HandleAck

LEMMA RelaysLeaveAppend == ASSUME Relays PROVE Settled'
<1> USE StatesTyped
<1>1. ASSUME \E to, then : then # "appended" /\ then \in Returns /\ OwnTransition(to, then)
      PROVE  Settled'
  BY <1>1, TransitionLeavesAppend DEF OwnTransition
<1>2. FailBeforeRadio => Settled'
  BY <1>1 DEF FailBeforeRadio
<1>3. AfterAppendReserve \/ AfterAppendFail => Settled'
  BY TransitionLeavesAppend DEF AfterAppendReserve, AfterAppendFail
<1>4. Released \/ AfterNotSent \/ AfterAwaiting \/ AfterOrphaned \/ AfterTimedOut \/ Poll
      \/ Deferred \/ ReconcileAck \/ NothingDue \/ ReceiveDm \/ SendOther \/ HandleAck => Settled'
  BY ContinueLeavesAppend
     DEF Released, AfterNotSent, AfterAwaiting, AfterOrphaned, AfterTimedOut, Poll, Deferred,
         ReconcileAck, NothingDue, ReceiveDm, SendOther, HandleAck
<1>5. AfterReserved \/ AfterStarted \/ AfterTxDone => Settled'
  BY <1>1, <1>2, ContinueLeavesAppend DEF AfterReserved, AfterStarted, AfterTxDone
<1>6. AfterRetryWait \/ AfterRetryTx \/ RetryAsFlood \/ FailAckTimeout => Settled'
  BY <1>1, <1>2 DEF AfterRetryWait, AfterRetryTx, RetryAsFlood, FailAckTimeout
<1>7. Maintain \/ RadioTxDone \/ RadioTxTimeout => Settled'
  BY <1>1, ContinueLeavesAppend DEF Maintain, RadioTxDone, RadioTxTimeout
<1>8. QED
  BY <1>3, <1>4, <1>5, <1>6, <1>7 DEF Relays, Maintenance

(* Every step but the command to send keeps the append in hand, or ends it.*)
LEMMA AppendKept ==
  ASSUME [DmNext]_vars, ~\E direct \in BOOLEAN : SendDm(direct)
  PROVE  Appending' => Appending /\ UNCHANGED call
<1>1. CASE Relays
  BY <1>1, RelaysLeaveAppend DEF Settled
<1>2. CASE OwnerFlushBegin \/ OwnerFlushYield
  BY <1>2 DEF OwnerFlushBegin, OwnerFlushYield, Appending
<1>3. CASE OwnerFlushClean
  BY <1>3 DEF OwnerFlushClean, Appending
<1>4. ASSUME NEW written, NEW ok, OwnerFlushEnd(written, ok)
      PROVE  Appending' => Appending /\ UNCHANGED call
  BY <1>4 DEF OwnerFlushEnd, Appending
<1>5. CASE UNCHANGED controlVars
  BY <1>5 DEF controlVars, Appending
<1>6. Reboot => ~Appending'
  BY DEF Reboot, Appending
<1>7. Device \/ Expire \/ UNCHANGED vars \/ (\E phase \in {"done", "timeout"} : RadioEnds(phase))
      => Reboot \/ UNCHANGED controlVars
  BY DEF Device, WorkerBegin, WorkerEnd, ConsoleClear, ConsoleBegin, ConsoleEnd, Remount,
         Expire, RadioEnds, vars, controlVars
<1>8. QED
  BY <1>1, <1>2, <1>3, <1>4, <1>5, <1>6, <1>7
     DEF DmNext, OwnerStep, FlushStep, Continuation, Handler, Relays, Device

LEMMA UsedGrows ==
  ASSUME TypeOK, [DmNext]_vars PROVE used' \in Nat /\ used \in Nat /\ used <= used'
<1>1. used \in Nat
  BY DeliveryAssumption DEF TypeOK
<1>2. used' = used \/ used' = used + 1
  BY DEF DmNext, OwnerStep, FlushStep, Continuation, Maintenance, Handler, SendDm, Insert,
         AfterAppendReserve, AfterAppendFail, Released, AfterReserved, AfterStarted,
         AfterNotSent, AfterTxDone, AfterAwaiting, AfterOrphaned, AfterTimedOut,
         AfterRetryWait, AfterRetryTx, Poll, Deferred, Maintain, ReconcileAck, RetryAsFlood,
         FailAckTimeout, NothingDue, ReceiveDm, SendOther, RadioTxDone, RadioTxTimeout,
         HandleAck, OwnerFlushBegin, OwnerFlushClean, OwnerFlushEnd, OwnerFlushYield,
         WorkerBegin, WorkerEnd, RadioEnds, Expire, ConsoleClear, ConsoleBegin,
         ConsoleEnd, Remount, Reboot, vars
<1>3. QED
  BY <1>1, <1>2

(* A card that was not mounted again after a step was not before it.       *)
LEMMA SteadyStep ==
  ASSUME TypeOK, [DmNext]_vars, spent'.remounts = 0
  PROVE  spent.remounts = 0 /\ ~Remount
<1>1. spent \in [crashes : Nat, clears : Nat, remounts : Nat]
  BY DEF TypeOK
<1>2. ~Remount
  BY <1>1 DEF Remount
<1>3. \/ spent' = spent
      \/ spent' = [spent EXCEPT !.crashes = @ + 1]
      \/ spent' = [spent EXCEPT !.clears = @ + 1]
  BY <1>2 DEF DmNext, OwnerStep, FlushStep, Continuation, Maintenance, Handler, SendDm, Insert,
         AfterAppendReserve, AfterAppendFail, Released, AfterReserved, AfterStarted,
         AfterNotSent, AfterTxDone, AfterAwaiting, AfterOrphaned, AfterTimedOut,
         AfterRetryWait, AfterRetryTx, Poll, Deferred, Maintain, ReconcileAck, RetryAsFlood,
         FailAckTimeout, NothingDue, ReceiveDm, SendOther, RadioTxDone, RadioTxTimeout,
         HandleAck, OwnerFlushBegin, OwnerFlushClean, OwnerFlushEnd, OwnerFlushYield,
         WorkerBegin, WorkerEnd, RadioEnds, Expire, ConsoleClear, ConsoleBegin,
         ConsoleEnd, Reboot, vars, OwnTransition, FailBeforeRadio
<1>4. QED
  BY <1>1, <1>2, <1>3

LEMMA AppendStep == ASSUME TypeOK, AppendOK, [DmNext]_vars PROVE AppendOK'
<1>1. ASSUME NEW direct \in BOOLEAN, SendDm(direct) PROVE AppendOK'
  <2>1. CASE RingRefuses
    BY <1>1, <2>1, ContinueLeavesAppend, StatesTyped DEF SendDm, AppendOK, Settled
  <2>2. CASE ~RingRefuses
    <3>1. call'.row = used + 1 /\ used' = used + 1 /\ used \in Nat
      BY <1>1, <2>2, DeliveryAssumption DEF SendDm, Insert, TypeOK
    <3>2. QED
      BY <3>1 DEF AppendOK
  <2>3. QED
    BY <2>1, <2>2
<1>2. CASE ~\E direct \in BOOLEAN : SendDm(direct)
  BY <1>2, AppendKept, UsedGrows DEF AppendOK
<1>3. QED
  BY <1>1, <1>2

(* Every variable keeps its type, and a session that is over leaves nothing*)
(* behind: TypeOK, for any number of rows and any capacity of the ring.    *)
THEOREM TypeCorrect == Spec => []TypeOK
<1>1. DmInit => TypeOK /\ AppendOK
  BY InitTyped DEF DmInit, AppendOK, Appending
<1>2. TypeOK /\ AppendOK /\ [DmNext]_vars => TypeOK' /\ AppendOK'
  BY TypeStep, AppendStep
<1>3. QED
  BY <1>1, <1>2, PTL DEF Spec

(* A session never returns to a row it has left: the effects of an ACK are *)
(* taken for a row that no session and no append holds any more.           *)
OwnedOK == own.row \in 0..used
OnceOK  == \A r \in Rows :
             effects[r] # 0 => r <= used /\ own.row # r /\ (Appending => call.row # r)

LEMMA OwnRowStep ==
  ASSUME TypeOK, [DmNext]_vars
  PROVE  \/ own'.row \in {own.row, 0}
         \/ AfterAppendReserve /\ own'.row = call.row
<1>1. own \in Owners
  BY DEF TypeOK
<1>2. \A to \in RowStates : Publish(to).row = own.row
  BY <1>1 DEF Publish, Owners
<1>3. call.to \in RowStates
  BY DEF TypeOK
<1>4. ASSUME OwnerFlushClean \/ \E written, ok : OwnerFlushEnd(written, ok)
      PROVE  own'.row \in {own.row, 0}
  BY <1>2, <1>3, <1>4 DEF OwnerFlushClean, OwnerFlushEnd
<1>5. AfterAppendReserve => own'.row = call.row
  BY DEF AfterAppendReserve, NoOwner
<1>6. ASSUME AfterNotSent \/ AfterOrphaned \/ ReconcileAck \/ Reboot
      PROVE  own'.row \in {own.row, 0}
  BY <1>6 DEF AfterNotSent, AfterOrphaned, ClearedIfTerminal, ReconcileAck, Reboot, NoOwner
<1>7. ASSUME AfterAwaiting \/ Expire \/ HandleAck \/ RetryAsFlood \/ FailAckTimeout
             \/ AfterTimedOut \/ AfterRetryTx
      PROVE  own'.row \in {own.row, 0}
  <2>1. \/ own' = own \/ own' = NoOwner
        \/ own' = [own EXCEPT !.armed = TRUE, !.due = FALSE]
        \/ own' = [own EXCEPT !.due = TRUE]
        \/ own' = [own EXCEPT !.heard = NoHeard]
        \/ own' = [own EXCEPT !.admitted = TRUE, !.pending = TRUE, !.heard = Binding]
        \/ own' = RetryTaken \/ own' = DeadlineTaken \/ own' = [own EXCEPT !.direct = FALSE]
    BY <1>7 DEF AfterAwaiting, Expire, HandleAck, RetryAsFlood, FailAckTimeout,
                AfterTimedOut, AfterRetryTx
  <2>2. NoOwner.row = 0 /\ RetryTaken.row = own.row /\ DeadlineTaken.row = own.row
    BY <1>1 DEF Owners, NoOwner, RetryTaken, DeadlineTaken
  <2>3. /\ [own EXCEPT !.armed = TRUE, !.due = FALSE].row = own.row
        /\ [own EXCEPT !.due = TRUE].row = own.row
        /\ [own EXCEPT !.heard = NoHeard].row = own.row
        /\ [own EXCEPT !.admitted = TRUE, !.pending = TRUE, !.heard = Binding].row = own.row
        /\ [own EXCEPT !.direct = FALSE].row = own.row
    BY <1>1 DEF Owners
  <2>4. QED
    BY <2>1, <2>2, <2>3
<1>8. SendDm(TRUE) \/ SendDm(FALSE) \/ ReceiveDm \/ SendOther \/ RadioTxDone \/ RadioTxTimeout
      \/ OwnerFlushBegin \/ OwnerFlushYield \/ AfterAppendFail \/ Released \/ AfterReserved
      \/ AfterStarted \/ AfterTxDone \/ AfterRetryWait \/ Poll \/ Deferred \/ Maintain \/ NothingDue
      => UNCHANGED own
  BY DEF SendDm, ReceiveDm, SendOther, RadioTxDone, RadioTxTimeout, OwnerFlushBegin,
         OwnerFlushYield, AfterAppendFail, Released, AfterReserved, AfterStarted,
         AfterTxDone, AfterRetryWait, Poll, Deferred, Maintain, NothingDue
<1>9. WorkerBegin \/ ConsoleBegin \/ ConsoleClear \/ Remount \/ UNCHANGED vars
      \/ (\E w, k : WorkerEnd(w, k) \/ ConsoleEnd(w, k))
      \/ (\E phase \in {"done", "timeout"} : RadioEnds(phase))
      => UNCHANGED own
  BY DEF WorkerBegin, ConsoleBegin, ConsoleClear, Remount, WorkerEnd, ConsoleEnd, RadioEnds, vars
<1>10. QED
  BY <1>4, <1>5, <1>6, <1>7, <1>8, <1>9
     DEF DmNext, OwnerStep, FlushStep, Continuation, Maintenance, Handler

LEMMA EffectsStep ==
  ASSUME [DmNext]_vars, ~ReconcileAck PROVE effects' = effects
BY DEF DmNext, OwnerStep, FlushStep, Continuation, Maintenance, Handler, SendDm,
       AfterAppendReserve, AfterAppendFail, Released, AfterReserved, AfterStarted,
       AfterNotSent, AfterTxDone, AfterAwaiting, AfterOrphaned, AfterTimedOut,
       AfterRetryWait, AfterRetryTx, Poll, Deferred, Maintain, RetryAsFlood,
       FailAckTimeout, NothingDue, ReceiveDm, SendOther, RadioTxDone, RadioTxTimeout,
       HandleAck, OwnerFlushBegin, OwnerFlushClean, OwnerFlushEnd, OwnerFlushYield,
       WorkerBegin, WorkerEnd, RadioEnds, Expire, ConsoleClear, ConsoleBegin,
       ConsoleEnd, Remount, Reboot, vars, historyVars

LEMMA OwnedStep ==
  ASSUME TypeOK, AppendOK, OwnedOK, [DmNext]_vars PROVE OwnedOK'
<1>1. used \in Nat /\ used' \in Nat /\ used <= used'
  BY UsedGrows
<1>2. AfterAppendReserve => call.row \in 1..used
  BY DEF AfterAppendReserve, AppendOK, Appending
<1>3. QED
  BY <1>1, <1>2, OwnRowStep DEF OwnedOK

LEMMA OnceStep ==
  ASSUME TypeOK, AppendOK, OwnedOK, OnceOK, [DmNext]_vars PROVE OnceOK'
<1>1. used \in Nat /\ used' \in Nat /\ used <= used'
  BY UsedGrows
<1> SUFFICES ASSUME NEW r \in Rows, effects'[r] # 0
             PROVE  r <= used' /\ own'.row # r /\ (Appending' => call'.row # r)
  BY DEF OnceOK
<1>2. r # 0 /\ r \in Nat
  BY DEF Rows
<1>3. CASE ReconcileAck
  <2>1. own'.row = 0 /\ ~Appending' /\ effects' = [effects EXCEPT ![own.row] = @ + 1]
    BY <1>3, ContinueLeavesAppend, StatesTyped DEF ReconcileAck, NoOwner, Settled
  <2>2. effects[r] # 0 \/ r = own.row
    BY <2>1 DEF TypeOK, Nats
  <2>3. r <= used
    BY <1>1, <2>2 DEF OnceOK, OwnedOK
  <2>4. QED
    BY <1>1, <1>2, <2>1, <2>3
<1>4. CASE ~ReconcileAck
  <2>1. r <= used /\ own.row # r /\ (Appending => call.row # r)
    BY <1>4, EffectsStep DEF OnceOK
  <2>2. own'.row # r
    BY <1>2, <2>1, OwnRowStep DEF AfterAppendReserve, Appending
  <2>3. Appending' => call'.row # r
    <3>1. ASSUME NEW direct \in BOOLEAN, SendDm(direct), Appending' PROVE call'.row # r
      <4>1. CASE RingRefuses
        BY <3>1, <4>1, ContinueLeavesAppend, StatesTyped DEF SendDm, Settled
      <4>2. CASE ~RingRefuses
        BY <1>1, <1>2, <2>1, <3>1, <4>2 DEF SendDm
      <4>3. QED
        BY <4>1, <4>2
    <3>2. QED
      BY <2>1, <3>1, AppendKept
  <2>4. QED
    BY <1>1, <1>2, <2>1, <2>2, <2>3
<1>5. QED
  BY <1>3, <1>4

-----------------------------------------------------------------------------
(* Durability of an acknowledgement, while the card stays where it is: an  *)
(* acknowledged row without a receipt is on the medium, and in every       *)
(* snapshot that is being written to it.                                   *)
Acked(row) == row.state = "acknowledged"

WriteOK == pc = "write" => io.by = "owner"
AckOK   == \A r \in Rows :
             Acked(ram[r]) /\ r \notin receipts =>
               Acked(disk[r]) /\ (io.by # "none" => Acked(io.rows[r]))
CardOK  == ~remounted
Steady  == spent.remounts = 0
CleanOK == receipts = {} \/ dirty = TRUE

LEMMA WriteStep == ASSUME TypeOK, WriteOK, [DmNext]_vars PROVE WriteOK'
<1>1. Relays => WriteOK'
  BY RelaysLeaveAppend DEF Settled, WriteOK
<1>2. ASSUME NEW direct \in BOOLEAN, SendDm(direct) PROVE WriteOK'
  BY <1>2 DEF SendDm, WriteOK, Continue
<1>3. OwnerFlushBegin => WriteOK'
  BY DEF OwnerFlushBegin, BeginWrite, WriteOK
<1>4. OwnerFlushYield => WriteOK'
  BY DEF OwnerFlushYield, WriteOK
<1>5. Reboot => WriteOK'
  BY DEF Reboot, WriteOK
<1>6. WorkerBegin \/ ConsoleBegin => WriteOK'
  BY DEF WorkerBegin, ConsoleBegin, BeginWrite, WriteOK, controlVars
<1>7. ASSUME NEW w, NEW k, WorkerEnd(w, k) \/ ConsoleEnd(w, k) PROVE WriteOK'
  BY <1>7 DEF WorkerEnd, ConsoleEnd, WriteOK, controlVars
<1>8. ConsoleClear \/ Remount \/ Expire \/ UNCHANGED vars
      \/ (\E phase \in {"done", "timeout"} : RadioEnds(phase)) => WriteOK'
  BY DEF ConsoleClear, Remount, Expire, RadioEnds, WriteOK, controlVars, storeVars, vars
<1>9. ASSUME OwnerFlushClean \/ \E w, k : OwnerFlushEnd(w, k) PROVE WriteOK'
  BY <1>9 DEF OwnerFlushClean, OwnerFlushEnd, WriteOK, TypeOK, Returns
<1>10. QED
  BY <1>1, <1>2, <1>3, <1>4, <1>5, <1>6, <1>7, <1>8, <1>9
     DEF DmNext, OwnerStep, FlushStep, Continuation, Handler, Relays

(* A row number that was not used yet names no acknowledged row.           *)
FreshOK == \A r \in Rows :
             r > used => ~Acked(ram[r]) /\ ~Acked(disk[r]) /\ ~Acked(io.rows[r])

(* A step that only moves rows in RAM, none of them to ACKNOWLEDGED or from*)
(* it.                                                                     *)
Quiet ==
  /\ UNCHANGED <<disk, receipts, remounted, io>>
  /\ dirty' \in {dirty, TRUE}
  /\ \A r \in Rows : /\ Acked(ram[r])' => Acked(ram[r])
                     /\ Acked(ram[r]) => ram'[r] \in {ram[r], Absent}

LEMMA NothingFollowsAck == \A to : ~TransitionAllowed("acknowledged", to)
BY DEF TransitionAllowed, Open, InFlight, Failed

LEMMA TransitionQuiet ==
  ASSUME TypeOK, NEW r, NEW from, NEW rev, NEW to, NEW then, to # "acknowledged",
         Transition(r, from, rev, to, then), UNCHANGED <<disk, receipts, remounted, io>>
  PROVE  Quiet
<1>0. dirty' \in {dirty, TRUE}
  BY DEF Transition
<1>1. \/ ram' = ram
      \/ ram' = [ram EXCEPT ![r] = Moved(@, to)] /\ ~Acked(ram[r])
  BY NothingFollowsAck DEF Transition, MatchesRow, Acked
<1>2. \A row : Moved(row, to).state = to
  BY DEF Moved
<1>3. ASSUME NEW q \in Rows PROVE /\ Acked(ram[q])' => Acked(ram[q])
                                  /\ Acked(ram[q]) => ram'[q] = ram[q]
  <2>1. CASE ram' = ram
    BY <2>1
  <2>2. CASE ram' = [ram EXCEPT ![r] = Moved(@, to)] /\ ~Acked(ram[r])
    <3>1. CASE q = r
      <4>1. ram'[q] = Moved(ram[r], to)
        BY <2>2, <3>1 DEF TypeOK
      <4>2. QED
        BY <1>2, <2>2, <3>1, <4>1 DEF Acked
    <3>2. CASE q # r
      BY <2>2, <3>2 DEF TypeOK
    <3>3. QED
      BY <3>1, <3>2
  <2>3. QED
    BY <1>1, <2>1, <2>2
<1>4. QED
  BY <1>0, <1>3 DEF Quiet

LEMMA InsertQuiet ==
  ASSUME TypeOK, FreshOK, NEW state, state # "acknowledged", Insert(Row(state)),
         UNCHANGED <<disk, receipts, remounted, io>>
  PROVE  Quiet
<1>1. ~Acked(Row(state)) /\ ~Acked(Absent)
  BY DEF Acked, Row, Absent
<1>2. \A r \in Rows : ram'[r] \in {Row(state), Absent, ram[r]}
  BY DEF Insert
<1>3. \A r \in Rows : Acked(ram[r]) => ram'[r] \in {ram[r], Absent}
  <2> SUFFICES ASSUME NEW r \in Rows, Acked(ram[r]) PROVE ram'[r] \in {ram[r], Absent}
    OBVIOUS
  <2>1. used \in Nat /\ r \in Nat
    BY DeliveryAssumption DEF TypeOK, Rows
  <2>2. r # used + 1
    BY <2>1 DEF FreshOK
  <2>3. QED
    BY <2>2 DEF Insert
<1>4. QED
  BY <1>1, <1>2, <1>3 DEF Quiet, Insert

LEMMA RelaysQuiet ==
  ASSUME TypeOK, FreshOK,
         (Relays /\ ~HandleAck) \/ \E direct \in BOOLEAN : SendDm(direct) PROVE Quiet
<1>1. ASSUME \E to, then : to # "acknowledged" /\ OwnTransition(to, then),
             UNCHANGED <<disk, receipts, remounted, io>>
      PROVE  Quiet
  BY <1>1, TransitionQuiet DEF OwnTransition
<1>2. ASSUME FailBeforeRadio, UNCHANGED <<disk, receipts, remounted, io>> PROVE Quiet
  BY <1>1, <1>2 DEF FailBeforeRadio
<1>3. ASSUME UNCHANGED <<ram, dirty, disk, receipts, remounted, io>> PROVE Quiet
  BY <1>3 DEF Quiet
<1>4. ASSUME NEW direct \in BOOLEAN, SendDm(direct) PROVE Quiet
  BY <1>3, <1>4, InsertQuiet DEF SendDm
<1>5. AfterAppendReserve \/ AfterAppendFail => Quiet
  BY TransitionQuiet DEF AfterAppendReserve, AfterAppendFail
<1>6. Released \/ AfterNotSent \/ AfterAwaiting \/ AfterOrphaned \/ AfterTimedOut \/ Poll
      \/ Deferred \/ ReconcileAck \/ NothingDue \/ SendOther => Quiet
  BY <1>3 DEF Released, AfterNotSent, AfterAwaiting, AfterOrphaned, AfterTimedOut, Poll, Deferred,
              ReconcileAck, NothingDue, SendOther, storeVars
<1>7. ReceiveDm => Quiet
  BY InsertQuiet DEF ReceiveDm
<1>8. AfterReserved \/ AfterStarted \/ AfterTxDone => Quiet
  BY <1>1, <1>2, <1>3 DEF AfterReserved, AfterStarted, AfterTxDone
<1>9. AfterRetryWait \/ AfterRetryTx \/ RetryAsFlood \/ FailAckTimeout => Quiet
  BY <1>1, <1>2 DEF AfterRetryWait, AfterRetryTx, RetryAsFlood, FailAckTimeout
<1>10. Maintain => Quiet
  <2>1. IsOrphan => OrphanFailure(own.state) # "acknowledged"
    BY DEF IsOrphan, OrphanFailure, Open, InFlight
  <2>2. QED
    BY <1>1, <1>3, <2>1 DEF Maintain
<1>11. RadioTxDone \/ RadioTxTimeout => Quiet
  BY <1>1, <1>3 DEF RadioTxDone, RadioTxTimeout
<1>12. QED
  BY <1>4, <1>5, <1>6, <1>7, <1>8, <1>9, <1>10, <1>11 DEF Relays, Maintenance

LEMMA CommitAck ==
  ASSUME AckOK, io.by # "none", NEW o \in PossibleOutcomes, Commit(o.written, o.ok),
         UNCHANGED ram
  PROVE  AckOK'
<1>1. io'.by = "none"
  BY DEF Commit, NoIo
<1>2. o.ok => o.written
  BY DEF PossibleOutcomes, WriteOutcomes
<1>3. CASE o.ok /\ ram = io.rows
  BY <1>1, <1>2, <1>3 DEF Commit, AckOK, Acked
<1>4. CASE ~(o.ok /\ ram = io.rows)
  <2>1. UNCHANGED receipts /\ disk' \in {disk, io.rows}
    BY <1>4 DEF Commit
  <2>2. QED
    BY <1>1, <2>1 DEF AckOK, Acked
<1>5. QED
  BY <1>3, <1>4

LEMMA BeginWriteAck ==
  ASSUME AckOK, CardOK, NEW by, BeginWrite(by) PROVE AckOK' /\ CardOK'
BY DEF BeginWrite, AckOK, CardOK, Acked

LEMMA HandleAckAck ==
  ASSUME TypeOK, AckOK, HandleAck PROVE AckOK'
<1>1. UNCHANGED <<disk, io>>
  BY DEF HandleAck
<1>2. own.row \in Rows
  BY DEF HandleAck, TypeOK, Owners
<1>3. \/ UNCHANGED <<ram, receipts>>
      \/ /\ ram' = [ram EXCEPT ![own.row] = Moved(@, "acknowledged")]
         /\ receipts' = receipts \cup {own.row}
  BY DEF HandleAck
<1>4. \A r \in Rows : \/ r \notin receipts' => r \notin receipts /\ ram'[r] = ram[r]
                      \/ UNCHANGED <<ram, receipts>>
  BY <1>2, <1>3 DEF TypeOK
<1>5. QED
  BY <1>1, <1>4 DEF AckOK, Acked

LEMMA RebootAck == ASSUME TypeOK, Reboot PROVE AckOK'
<1>1. \A row : Acked(Interrupted(row)) => Acked(row)
  BY DEF Acked, Interrupted
<1>2. io'.by = "none" /\ disk' = disk /\ ram' = [r \in Rows |-> Interrupted(disk[r])]
  BY DEF Reboot, NoIo
<1>3. QED
  BY <1>1, <1>2 DEF AckOK

LEMMA AckStep ==
  ASSUME ~Remount, TypeOK, FreshOK, WriteOK, CleanOK, CardOK, AckOK, [DmNext]_vars
  PROVE  AckOK' /\ CardOK'
<1>1. ASSUME Quiet PROVE AckOK' /\ CardOK'
  BY <1>1 DEF Quiet, AckOK, CardOK
<1>2. OwnerFlushBegin \/ WorkerBegin \/ ConsoleBegin => AckOK' /\ CardOK'
  BY BeginWriteAck DEF OwnerFlushBegin, WorkerBegin, ConsoleBegin
<1>3. ASSUME NEW o \in PossibleOutcomes,
             \/ OwnerFlushEnd(o.written, o.ok) \/ WorkerEnd(o.written, o.ok)
             \/ ConsoleEnd(o.written, o.ok)
      PROVE  AckOK' /\ CardOK'
  <2>1. io.by # "none" /\ UNCHANGED <<ram, remounted>> /\ Commit(o.written, o.ok)
    BY <1>3 DEF OwnerFlushEnd, WorkerEnd, ConsoleEnd, WriteOK
  <2>2. QED
    BY <2>1, CommitAck DEF CardOK
<1>4. OwnerFlushClean => AckOK' /\ CardOK'
  <2> SUFFICES ASSUME OwnerFlushClean PROVE AckOK' /\ CardOK'
    OBVIOUS
  <2>1. ~dirty /\ receipts' = {} /\ UNCHANGED <<ram, disk, remounted, io>>
    BY DEF OwnerFlushClean
  <2>2. receipts = {}
    BY <2>1, Zenon DEF CleanOK
  <2>3. QED
    BY <2>1, <2>2 DEF AckOK, CardOK
<1>5. OwnerFlushYield => AckOK' /\ CardOK'
  BY DEF OwnerFlushYield, NoIo, AckOK, CardOK, Acked
<1>6. HandleAck => AckOK' /\ CardOK'
  <2>1. HandleAck => remounted' = remounted
    BY DEF HandleAck
  <2>2. QED
    BY <2>1, HandleAckAck DEF CardOK
<1>7. ConsoleClear => AckOK' /\ CardOK'
  BY DEF ConsoleClear, NoRows, Absent, AckOK, CardOK, Acked
<1>9. Reboot => AckOK' /\ CardOK'
  BY RebootAck DEF Reboot, CardOK
<1>10. ASSUME \/ Expire \/ UNCHANGED vars
              \/ \E phase \in {"done", "timeout"} : RadioEnds(phase)
       PROVE  Quiet
  BY <1>10 DEF Expire, RadioEnds, vars, storeVars, Quiet
<1>11. QED
  BY <1>1, <1>2, <1>3, <1>4, <1>5, <1>6, <1>7, <1>9, <1>10, RelaysQuiet
     DEF DmNext, OwnerStep, FlushStep, Continuation, Handler, Relays

LEMMA CleanStep ==
  ASSUME TypeOK, FreshOK, CleanOK, [DmNext]_vars PROVE CleanOK'
<1>1. Quiet => CleanOK'
  BY DEF Quiet, CleanOK
<1>2. OwnerFlushBegin \/ WorkerBegin \/ ConsoleBegin => CleanOK'
  BY DEF OwnerFlushBegin, WorkerBegin, ConsoleBegin, BeginWrite, CleanOK
<1>3. ASSUME NEW w, NEW k, OwnerFlushEnd(w, k) \/ WorkerEnd(w, k) \/ ConsoleEnd(w, k)
      PROVE  CleanOK'
  BY <1>3 DEF OwnerFlushEnd, WorkerEnd, ConsoleEnd, Commit, CleanOK
<1>4. OwnerFlushYield \/ HandleAck \/ Remount => CleanOK'
  BY DEF OwnerFlushYield, HandleAck, Remount, CleanOK
<1>5. OwnerFlushClean \/ ConsoleClear \/ Reboot => CleanOK'
  BY DEF OwnerFlushClean, ConsoleClear, Reboot, CleanOK
<1>6. \/ Expire \/ UNCHANGED vars
      \/ \E phase \in {"done", "timeout"} : RadioEnds(phase)
      => CleanOK'
  BY DEF Expire, RadioEnds, vars, storeVars, CleanOK
<1>7. QED
  BY <1>1, <1>2, <1>3, <1>4, <1>5, <1>6, RelaysQuiet
     DEF DmNext, OwnerStep, FlushStep, Continuation, Handler, Relays

LEMMA FreshStep ==
  ASSUME TypeOK, OwnedOK, FreshOK, [DmNext]_vars PROVE FreshOK'
<1>0. used \in Nat /\ used' \in Nat /\ used <= used' /\ \A r \in Rows : r \in Nat
  BY UsedGrows DEF Rows
<1>1. Quiet => FreshOK'
  BY <1>0 DEF Quiet, FreshOK
<1>2. OwnerFlushBegin \/ WorkerBegin \/ ConsoleBegin => FreshOK'
  BY <1>0 DEF OwnerFlushBegin, WorkerBegin, ConsoleBegin, BeginWrite, FreshOK, Acked
<1>3. ~Acked(Absent) /\ \A r \in Rows : NoIo.rows[r] = Absent /\ NoRows[r] = Absent
  BY DEF Acked, Absent, NoIo, NoRows
<1>4. ASSUME NEW w, NEW k, OwnerFlushEnd(w, k) \/ WorkerEnd(w, k) \/ ConsoleEnd(w, k)
      PROVE  FreshOK'
  <2>1. ram' = ram /\ io' = NoIo /\ disk' \in {disk, io.rows}
    BY <1>4 DEF OwnerFlushEnd, WorkerEnd, ConsoleEnd, Commit
  <2>2. QED
    BY <1>0, <1>3, <2>1 DEF FreshOK, Acked
<1>5. OwnerFlushClean \/ Remount => FreshOK'
  BY <1>0 DEF OwnerFlushClean, Remount, FreshOK, Acked
<1>6. OwnerFlushYield => FreshOK'
  BY <1>0, <1>3 DEF OwnerFlushYield, FreshOK, Acked
<1>7. HandleAck => FreshOK'
  <2> SUFFICES ASSUME HandleAck PROVE FreshOK'
    OBVIOUS
  <2>1. UNCHANGED <<disk, io>>
    BY DEF HandleAck
  <2>2. ram' = ram \/ ram' = [ram EXCEPT ![own.row] = Moved(@, "acknowledged")]
    BY DEF HandleAck
  <2>3. \A r \in Rows : r > used => ram'[r] = ram[r]
    BY <1>0, <2>2 DEF OwnedOK, TypeOK
  <2>4. QED
    BY <1>0, <2>1, <2>3 DEF FreshOK, Acked
<1>8. ConsoleClear => FreshOK'
  <2> SUFFICES ASSUME ConsoleClear PROVE FreshOK'
    OBVIOUS
  <2>1. ram' = NoRows /\ disk' \in {disk, NoRows} /\ io' = io
    BY DEF ConsoleClear
  <2>2. QED
    BY <1>0, <1>3, <2>1 DEF FreshOK, Acked
<1>9. Reboot => FreshOK'
  <2> SUFFICES ASSUME Reboot PROVE FreshOK'
    OBVIOUS
  <2>1. \A row : Acked(Interrupted(row)) => Acked(row)
    BY DEF Acked, Interrupted
  <2>2. io' = NoIo /\ disk' = disk /\ ram' = [r \in Rows |-> Interrupted(disk[r])]
    BY DEF Reboot
  <2>3. QED
    BY <1>0, <1>3, <2>1, <2>2 DEF FreshOK
<1>10. ASSUME \/ Expire \/ UNCHANGED vars
              \/ \E phase \in {"done", "timeout"} : RadioEnds(phase)
       PROVE  Quiet
  BY <1>10 DEF Expire, RadioEnds, vars, storeVars, Quiet
<1>11. QED
  BY <1>1, <1>2, <1>4, <1>5, <1>6, <1>7, <1>8, <1>9, <1>10, RelaysQuiet
     DEF DmNext, OwnerStep, FlushStep, Continuation, Handler, Relays

IInv ==
  /\ TypeOK /\ AppendOK /\ OwnedOK /\ OnceOK
  /\ WriteOK /\ FreshOK /\ CleanOK
  /\ Steady => CardOK /\ AckOK

LEMMA Inductive == (DmInit => IInv) /\ (IInv /\ [DmNext]_vars => IInv')
<1>1. ASSUME DmInit PROVE IInv
  <2>1. TypeOK
    BY <1>1, InitTyped
  <2>2. AppendOK /\ OwnedOK /\ WriteOK /\ CleanOK /\ CardOK
    BY <1>1 DEF DmInit, AppendOK, Appending, OwnedOK, NoOwner, WriteOK, CleanOK, CardOK
  <2>3. OnceOK /\ FreshOK /\ AckOK
    BY <1>1 DEF DmInit, OnceOK, FreshOK, AckOK, Acked, NoRows, Absent, NoIo
  <2>4. QED
    BY <2>1, <2>2, <2>3 DEF IInv
<1>2. ASSUME IInv, [DmNext]_vars PROVE IInv'
  <2>1. ASSUME Steady' PROVE CardOK' /\ AckOK'
    <3>1. Steady /\ ~Remount
      BY <1>2, <2>1, SteadyStep DEF Steady, IInv
    <3>2. QED
      BY <1>2, <3>1, AckStep DEF IInv
  <2>2. QED
    BY <1>2, <2>1, TypeStep, AppendStep, OwnedStep, OnceStep, WriteStep, FreshStep,
       CleanStep DEF IInv
<1>3. QED
  BY <1>1, <1>2

(* The credit of the route and the delivery log of an ACK are taken when   *)
(* the medium already holds the acknowledged row, and once for a message,  *)
(* through any crashes, clears and failing writes, until the card is       *)
(* mounted again.                                                          *)
THEOREM AckEffectsDurable == Spec => EffectsAreDurable
<1>1. ASSUME IInv, [DmNext]_vars, spent'.remounts = 0, NEW r \in Rows, effects'[r] # effects[r]
      PROVE  disk[r].state = "acknowledged" /\ effects[r] = 0
  <2>0. Steady
    BY <1>1, SteadyStep DEF Steady, IInv
  <2>1. ReconcileAck
    BY <1>1, EffectsStep DEF IInv
  <2>2. effects' = [effects EXCEPT ![own.row] = @ + 1]
    BY <2>1 DEF ReconcileAck
  <2>3. r = own.row
    BY <1>1, <2>2 DEF IInv, TypeOK, Nats
  <2>4. effects[r] = 0
    BY <1>1, <2>3 DEF IInv, OnceOK
  <2>5. Visible(r).state = "acknowledged"
    BY <2>1, <2>3 DEF ReconcileAck, AckIsVisible
  <2>6. Acked(ram[r]) /\ r \notin receipts
    <3>1. ram[r] \in RowRecord
      BY <1>1 DEF IInv, TypeOK
    <3>2. QED
      BY <2>5, <3>1 DEF Visible, Acked, RowRecord
  <2>7. QED
    BY <1>1, <2>0, <2>4, <2>6 DEF IInv, AckOK, Acked
<1>2. IInv /\ [DmNext]_vars =>
        [spent'.remounts = 0 =>
           \A r \in Rows : effects'[r] # effects[r] =>
             disk[r].state = "acknowledged" /\ effects[r] = 0]_vars
  BY <1>1
<1>3. QED
  BY <1>2, Inductive, PTL DEF Spec, EffectsAreDurable

(* What the store has shown as acknowledged it never shows as anything     *)
(* else again, whatever fails, is cleared or loses power, until the card   *)
(* is mounted again.                                                       *)
THEOREM AckTruth == Spec => AckTruthSurvives
<1> DEFINE Shown(r) == Acked(ram[r]) /\ r \notin receipts
<1>1. ASSUME TypeOK, NEW r \in Rows PROVE Visible(r).state = "acknowledged" => Shown(r)
  <2>1. ram[r] \in RowRecord
    BY <1>1 DEF TypeOK
  <2>2. QED
    BY <2>1 DEF Visible, Acked, RowRecord
<1>2. ASSUME IInv, [DmNext]_vars, spent'.remounts = 0, NEW r \in Rows, Shown(r)
      PROVE  ram'[r] = Absent \/ Shown(r)'
  <2>0. TypeOK /\ FreshOK /\ AckOK /\ CardOK /\ CleanOK
    BY <1>2, SteadyStep DEF IInv, Steady
  <2>1. CASE Quiet
    BY <1>2, <2>1 DEF Quiet, Acked
  <2>2. CASE OwnerFlushBegin \/ WorkerBegin \/ ConsoleBegin
    BY <1>2, <2>2 DEF OwnerFlushBegin, WorkerBegin, ConsoleBegin, BeginWrite, Acked
  <2>3. ASSUME NEW w, NEW k, OwnerFlushEnd(w, k) \/ WorkerEnd(w, k) \/ ConsoleEnd(w, k)
        PROVE  Shown(r)'
    <3>1. ram' = ram /\ receipts' \in {receipts, {}}
      BY <2>3 DEF OwnerFlushEnd, WorkerEnd, ConsoleEnd, Commit
    <3>2. QED
      BY <1>2, <3>1 DEF Acked
  <2>4. CASE OwnerFlushClean \/ OwnerFlushYield \/ Remount
    BY <1>2, <2>4 DEF OwnerFlushClean, OwnerFlushYield, Remount, Acked
  <2>5. CASE HandleAck
    <3>1. UNCHANGED <<ram, receipts>> \/ (~Acked(ram[own.row]) /\ receipts' = receipts \cup {own.row}
            /\ ram' = [ram EXCEPT ![own.row] = Moved(@, "acknowledged")])
      BY <2>5 DEF HandleAck, MatchesRow, Acked
    <3>2. QED
      BY <1>2, <2>0, <3>1 DEF Acked, TypeOK
  <2>6. CASE ConsoleClear
    BY <2>6 DEF ConsoleClear, NoRows
  <2>7. CASE Reboot
    <3>1. Acked(disk[r]) /\ ram'[r] = Interrupted(disk[r]) /\ receipts' = {}
      BY <1>2, <2>0, <2>7 DEF AckOK, Reboot
    <3>2. QED
      BY <3>1 DEF Acked, Interrupted, InFlight
  <2>8. ASSUME \/ Expire \/ UNCHANGED vars
               \/ \E phase \in {"done", "timeout"} : RadioEnds(phase)
        PROVE  Quiet
    BY <2>8 DEF Expire, RadioEnds, vars, storeVars, Quiet
  <2>9. QED
    BY <1>2, <2>0, <2>1, <2>2, <2>3, <2>4, <2>5, <2>6, <2>7, <2>8, RelaysQuiet
       DEF DmNext, OwnerStep, FlushStep, Continuation, Handler, Relays
<1>3. ASSUME NEW r \in Rows, ram'[r] = Absent \/ Shown(r)'
      PROVE  Visible(r)'.state \in {"acknowledged", "absent"}
  BY <1>3 DEF Visible, Absent, Acked
<1>4. IInv /\ [DmNext]_vars =>
        [spent'.remounts = 0 =>
           \A r \in Rows : Visible(r).state = "acknowledged" =>
             Visible(r)'.state \in {"acknowledged", "absent"}]_vars
  BY <1>1, <1>2, <1>3 DEF IInv
<1>5. QED
  BY <1>4, Inductive, PTL DEF Spec, AckTruthSurvives

-----------------------------------------------------------------------------
(* A session and the row it delivers.  Where the owner task is says which  *)
(* states the session can be in: a transition that is being persisted, and *)
(* returns to a place, leads from one of From(place) to one of To(place).  *)
InHand  == pc \in {"flush", "write"}
Heading == IF InHand THEN call.then ELSE pc
Resting == {"idle", "maint", "reconcile"}
Loose   == {"appended", "released"}
Moving  == Returns \ (Resting \cup Loose)

From(place) ==
  CASE place = "reserved"  -> {"queued", "retry_tx"}
    [] place = "started"   -> {"waiting_radio"}
    [] place = "notSent"   -> {"queued", "waiting_radio", "retry_tx", "tx_active"}
    [] place = "txDone"    -> {"tx_active"}
    [] place = "awaiting"  -> {"tx_done"}
    [] place = "orphaned"  -> Open \ {"awaiting_ack"}
    [] place = "timedOut"  -> {"awaiting_ack", "retry_wait"}
    [] place = "retryWait" -> {"awaiting_ack"}
    [] place = "retryTx"   -> {"retry_wait"}

To(place) ==
  CASE place = "reserved"  -> {"waiting_radio"}
    [] place = "started"   -> {"tx_active"}
    [] place = "notSent"   -> {"failed_queue", "failed_radio"}
    [] place = "txDone"    -> {"tx_done"}
    [] place = "awaiting"  -> {"awaiting_ack"}
    [] place = "orphaned"  -> Failed
    [] place = "timedOut"  -> {"failed_timeout"}
    [] place = "retryWait" -> {"retry_wait"}
    [] place = "retryTx"   -> {"retry_tx"}

Gone   == ram[own.row] = Absent
Driven == own.state = "awaiting_ack" => own.armed \/ (own.admitted /\ own.pending)

(* A session that rests is open and has a driver.  One that moves has made *)
(* the step, or has not because its row is no longer in the ring.          *)
RestOK == /\ Heading \notin Loose
          /\ Heading \in Resting => own.state \in Open /\ Driven
MoveOK == Heading \in Moving =>
            IF InHand
            THEN /\ call.row = own.row
                 /\ own.state \in From(Heading) /\ call.to \in To(Heading)
            ELSE own.state \in To(pc) \/ (own.state \in From(pc) /\ ret = "error" /\ Gone)
SessionOK == /\ InHand => call.then \notin Resting
             /\ own.row = 0 => Heading \notin Moving
             /\ own.row # 0 => RestOK /\ MoveOK

(* An ACK that was admitted waits between two dispatches, and only its row *)
(* has a receipt.                                                          *)
AdmittedOK ==
  /\ own.admitted => own.row # 0 /\ own.state = "awaiting_ack" /\ pc \in Resting
  /\ \A r \in receipts : own.row = r /\ own.admitted

AppendRowOK == Appending => ram[call.row] \in {Absent, Row("queued")}

OpenOK ==
  \A r \in Rows : ram[r].state \in Open =>
    \/ own.row = r \/ (Appending /\ call.row = r)
    \/ spent.crashes > 0 /\ ram[r].state \in {"queued", "retry_wait"}

SInv == SessionOK /\ AdmittedOK /\ OwnerMatchesRow /\ AppendRowOK /\ OpenOK

LEMMA MoveTable ==
  /\ From("reserved") = {"queued", "retry_tx"} /\ To("reserved") = {"waiting_radio"}
  /\ From("started") = {"waiting_radio"} /\ To("started") = {"tx_active"}
  /\ From("notSent") = {"queued", "waiting_radio", "retry_tx", "tx_active"}
  /\ To("notSent") = {"failed_queue", "failed_radio"}
  /\ From("txDone") = {"tx_active"} /\ To("txDone") = {"tx_done"}
  /\ From("awaiting") = {"tx_done"} /\ To("awaiting") = {"awaiting_ack"}
  /\ From("orphaned") = Open \ {"awaiting_ack"} /\ To("orphaned") = Failed
  /\ From("timedOut") = {"awaiting_ack", "retry_wait"} /\ To("timedOut") = {"failed_timeout"}
  /\ From("retryWait") = {"awaiting_ack"} /\ To("retryWait") = {"retry_wait"}
  /\ From("retryTx") = {"retry_wait"} /\ To("retryTx") = {"retry_tx"}
BY DEF From, To

LEMMA MovingPlaces ==
  Moving = {"reserved", "started", "notSent", "txDone", "awaiting", "orphaned", "timedOut",
            "retryWait", "retryTx"}
BY DEF Moving, Returns, Places, Resting, Loose

LEMMA FromOpen == \A place \in Moving : From(place) \subseteq Open
BY MoveTable, MovingPlaces DEF Open, InFlight

LEMMA AbsentMovesNowhere == \A to : ~TransitionAllowed("absent", to)
BY DEF TransitionAllowed, Open, InFlight, Failed

Agree == /\ own'.row = own.row /\ own'.state = own.state /\ own'.rev = own.rev
         /\ own'.attempt = own.attempt /\ own'.admitted = own.admitted

LEMMA MoveStep ==
  ASSUME TypeOK, SInv, own.row # 0, ~InHand, ~own.admitted, pc # "appended",
         NEW then \in Moving, NEW to \in To(then),
         own.state \in From(then), TransitionAllowed(own.state, to),
         OwnTransition(to, then), Agree, UNCHANGED <<receipts, spent>>
  PROVE  SInv'
<1>1. own.row \in Rows
  BY DEF TypeOK, Owners
<1>2. then \notin Resting /\ then \notin Loose /\ then \notin {"flush", "write", "appended"}
  BY DEF Moving, Resting, Loose, Returns
<1>3. ram[own.row] \in RowRecord
  BY <1>1 DEF TypeOK
<1>4. receipts = {}
  BY DEF SInv, AdmittedOK
<1>5. own'.row = own.row /\ own'.row # 0 /\ ~own'.admitted
  BY DEF Agree
<1>7. Gone \/ (ram[own.row].state = own.state /\ ram[own.row].rev = own.rev
               /\ ram[own.row].attempt = own.attempt)
  BY DEF SInv, OwnerMatchesRow, Persisting, InHand, Gone
<1>8. CASE MatchesRow(own.row, own.state, own.rev, to)
  <2>1. /\ ram' = [ram EXCEPT ![own.row] = Moved(@, to)]
        /\ call' = [row |-> own.row, to |-> to, then |-> then, direct |-> FALSE]
        /\ pc' = "flush"
    BY <1>8 DEF OwnTransition, Transition
  <2>2. ram'[own.row] = Moved(ram[own.row], to) /\ \A r \in Rows \ {own.row} : ram'[r] = ram[r]
    BY <1>1, <2>1 DEF TypeOK
  <2>3. InHand' /\ Heading' = then /\ ~Appending'
    BY <1>2, <2>1 DEF InHand, Heading, Appending
  <2>4. SessionOK'
    BY <1>2, <1>5, <2>1, <2>3 DEF SessionOK, RestOK, MoveOK, Agree, Moving
  <2>5. AdmittedOK'
    BY <1>4, <1>5 DEF AdmittedOK
  <2>6. OwnerMatchesRow'
    <3>1. ~Gone
      BY <1>8, AbsentMovesNowhere DEF Gone, MatchesRow, Absent
    <3>2. ram[own.row].state = own.state /\ ram[own.row].rev = own.rev
          /\ ram[own.row].attempt = own.attempt
      BY <1>7, <3>1
    <3>3. Persisting'
      BY <1>5, <2>1 DEF Persisting
    <3>4. ram'[own.row] = Moved([state |-> own.state, rev |-> own.rev, attempt |-> own.attempt], to)
      BY <2>2, <3>2 DEF Moved
    <3>5. QED
      BY <1>5, <2>1, <3>3, <3>4 DEF OwnerMatchesRow, Agree
  <2>7. AppendRowOK'
    BY <2>3 DEF AppendRowOK
  <2>8. OpenOK'
    <3> SUFFICES ASSUME NEW r \in Rows, ram'[r].state \in Open, r # own.row
                 PROVE  spent.crashes > 0 /\ ram'[r].state \in {"queued", "retry_wait"}
      BY <1>5 DEF OpenOK
    <3>1. ~Appending
      BY DEF Appending, InHand
    <3>2. QED
      BY <2>2, <3>1 DEF OpenOK, SInv
  <2>9. QED
    BY <2>4, <2>5, <2>6, <2>7, <2>8 DEF SInv
<1>9. CASE ~MatchesRow(own.row, own.state, own.rev, to)
  <2>1. ram' = ram /\ pc' = then /\ ret' = "error"
    BY <1>9 DEF OwnTransition, Transition
  <2>2. Gone
    BY <1>7, <1>9 DEF MatchesRow
  <2>3. ~InHand' /\ Heading' = then /\ ~Appending' /\ Gone'
    BY <1>2, <1>5, <2>1, <2>2 DEF InHand, Heading, Appending, Gone
  <2>4. SessionOK'
    BY <1>2, <1>5, <2>1, <2>3 DEF SessionOK, RestOK, MoveOK, Agree
  <2>5. AdmittedOK'
    BY <1>4, <1>5 DEF AdmittedOK
  <2>6. OwnerMatchesRow' /\ AppendRowOK'
    BY <2>3 DEF OwnerMatchesRow, AppendRowOK, Gone
  <2>7. OpenOK'
    BY <1>5, <2>1 DEF OpenOK, SInv, Appending, InHand
  <2>8. QED
    BY <2>4, <2>5, <2>6, <2>7 DEF SInv
<1>10. QED
  BY <1>8, <1>9

(* The end of a flush: the owner publishes what it persisted.              *)
Landed == /\ own' = Publish(call.to) /\ pc' = call.then /\ UNCHANGED <<ram, call, spent>>
          /\ receipts' \in {receipts, {}}

LEMMA LandStep ==
  ASSUME TypeOK, SInv, InHand, Landed PROVE SInv'
<1>1. call.then \in Returns /\ call.then \notin {"flush", "write"}
  BY DEF TypeOK, Returns
<1>2. ~InHand' /\ Heading' = Heading /\ (Appending' => Appending) /\ pc' = Heading
  BY <1>1 DEF Landed, InHand, Heading, Appending
<1>3. Heading \notin Resting
  BY DEF SInv, SessionOK, InHand, Heading
<1>4. receipts = {} /\ ~own.admitted
  BY <1>3 DEF SInv, AdmittedOK, Heading, InHand, Resting
<1>5. CASE own.row = 0
  <2>1. own' = own
    BY <1>5 DEF Landed, Publish
  <2>2. Heading \notin Moving
    BY <1>5 DEF SInv, SessionOK
  <2>3. QED
    BY <1>2, <1>4, <1>5, <2>1, <2>2
       DEF SInv, SessionOK, AdmittedOK, OwnerMatchesRow, AppendRowOK, OpenOK, Landed, Appending, InHand
<1>6. CASE own.row # 0
  <2>1. Heading \in Moving
    BY <1>1, <1>3, <1>6 DEF SInv, SessionOK, RestOK, Heading, InHand, Moving
  <2>2. call.row = own.row /\ call.to \in To(Heading)
    BY <1>6, <2>1 DEF SInv, SessionOK, MoveOK
  <2>3. /\ own'.row = own.row /\ own'.state = call.to /\ own'.rev = own.rev + 1
        /\ own'.attempt = IF call.to = "retry_tx" THEN own.attempt + 1 ELSE own.attempt
        /\ ~own'.admitted
    BY <1>4, <1>6, <2>2 DEF Landed, Publish, TypeOK, Owners
  <2>4. ~Appending /\ ~Appending'
    BY <1>2, <2>1 DEF Appending, Heading, InHand, Moving, Loose
  <2>5. SessionOK'
    BY <1>2, <1>3, <1>6, <2>1, <2>2, <2>3 DEF SessionOK, RestOK, MoveOK, Moving
  <2>6. AdmittedOK'
    BY <1>4, <2>3 DEF AdmittedOK, Landed
  <2>7. OwnerMatchesRow'
    <3>1. Persisting /\ ~Persisting'
      BY <1>2, <2>2 DEF Persisting, InHand
    <3>2. QED
      BY <1>6, <2>3, <3>1 DEF SInv, OwnerMatchesRow, Moved, Landed
  <2>8. AppendRowOK' /\ OpenOK'
    BY <2>3, <2>4 DEF SInv, AppendRowOK, OpenOK, Landed
  <2>9. QED
    BY <2>5, <2>6, <2>7, <2>8 DEF SInv
<1>7. QED
  BY <1>5, <1>6

LEMMA FlushLands ==
  ASSUME OwnerFlushClean \/ \E w, k : OwnerFlushEnd(w, k) PROVE InHand /\ Landed
BY DEF OwnerFlushClean, OwnerFlushEnd, Commit, InHand, Landed

(* What the owner does between two places without touching the rows: it    *)
(* goes on to maintenance or to the next dispatch.                         *)
Settles == /\ UNCHANGED <<ram, call, receipts, spent>>
           /\ pc' \in Resting /\ ~InHand /\ pc # "appended"

LEMMA SettleKeeps ==
  ASSUME SInv, Settles, Agree, own.row # 0 => own.state \in Open /\ Driven'
  PROVE  SInv'
<1>1. ~InHand' /\ Heading' = pc' /\ ~Appending' /\ ~Appending
  BY DEF Settles, InHand, Heading, Appending, Resting
<1>2. pc' \notin Loose /\ pc' \notin Moving
  BY DEF Settles, Resting, Loose, Moving
<1>3. SessionOK'
  BY <1>1, <1>2 DEF SessionOK, RestOK, MoveOK, Agree, Settles
<1>4. AdmittedOK'
  BY DEF SInv, AdmittedOK, Agree, Settles
<1>5. OwnerMatchesRow'
  BY <1>1 DEF SInv, OwnerMatchesRow, Persisting, InHand, Settles, Agree
<1>6. AppendRowOK' /\ OpenOK'
  BY <1>1 DEF SInv, AppendRowOK, OpenOK, Settles, Agree
<1>7. QED
  BY <1>3, <1>4, <1>5, <1>6 DEF SInv

LEMMA SettleDrops ==
  ASSUME TypeOK, SInv, Settles, own' = NoOwner, own.row # 0,
         ~own.admitted \/ receipts = {},
         own.state \in Terminal \/ ram[own.row].state \notin Open
  PROVE  SInv'
<1>1. ~InHand' /\ Heading' = pc' /\ ~Appending' /\ ~Appending
  BY DEF Settles, InHand, Heading, Appending, Resting
<1>2. pc' \notin Loose /\ pc' \notin Moving /\ own'.row = 0 /\ ~own'.admitted
  BY DEF Settles, Resting, Loose, Moving, NoOwner
<1>3. ram[own.row].state \notin Open
  <2>1. ram[own.row] = Absent \/ ram[own.row].state = own.state
        \/ ram[own.row].state = "acknowledged"
    BY DEF SInv, OwnerMatchesRow, Persisting, Settles, InHand
  <2>2. QED
    BY <2>1 DEF Absent, Open, InFlight, Terminal, Failed
<1>4. receipts = {}
  BY DEF SInv, AdmittedOK
<1>5. QED
  BY <1>1, <1>2, <1>3, <1>4
     DEF SInv, SessionOK, AdmittedOK, OwnerMatchesRow, AppendRowOK, OpenOK, Settles, Resting

(* Nothing of the session, the rows or the owner's place moves; receipts   *)
(* may be dropped.                                                         *)
Rests == /\ UNCHANGED <<ram, call, ret, spent>> /\ receipts' \in {receipts, {}}
         /\ pc' = pc \/ {pc, pc'} = {"flush", "write"}

LEMMA SessionFrame ==
  ASSUME SInv, Rests, Agree, own'.armed = own.armed, own'.pending = own.pending PROVE SInv'
<1>1. Heading' = Heading /\ (InHand' <=> InHand) /\ (Appending' <=> Appending)
  BY DEF Rests, Heading, InHand, Appending
<1>2. SessionOK'
  BY <1>1 DEF SInv, SessionOK, RestOK, MoveOK, Rests, Agree, Driven, Gone, InHand
<1>3. AdmittedOK'
  BY DEF SInv, AdmittedOK, Rests, Agree, Resting
<1>4. OwnerMatchesRow'
  BY <1>1 DEF SInv, OwnerMatchesRow, Rests, Agree, Persisting, InHand
<1>5. AppendRowOK' /\ OpenOK'
  BY <1>1 DEF SInv, AppendRowOK, OpenOK, Rests, Agree
<1>6. QED
  BY <1>2, <1>3, <1>4, <1>5 DEF SInv

(* A row is appended; the ring may lose its oldest one.                    *)
LEMMA InsertedRows ==
  ASSUME TypeOK, NEW state, Insert(Row(state))
  PROVE  \A r \in Rows : ram'[r] = ram[r] \/ ram'[r] = Absent \/ (r = used + 1 /\ ram'[r] = Row(state))
BY DEF Insert, TypeOK

LEMMA InsertStep ==
  ASSUME TypeOK, OwnedOK, SInv, pc = "idle", UNCHANGED <<receipts, own, spent>>,
         \/ Insert(Row("rx")) /\ Continue("maint")
         \/ /\ Insert(Row("queued")) /\ own.row = 0 /\ used + 1 \in Rows
            /\ call'.row = used + 1 /\ call'.then = "appended" /\ pc' = "flush"
  PROVE  SInv'
<1>1. PICK state \in {"rx", "queued"} :
        /\ Insert(Row(state))
        /\ state = "rx" => Continue("maint")
        /\ state = "queued" => /\ own.row = 0 /\ used + 1 \in Rows
                               /\ call'.row = used + 1 /\ call'.then = "appended" /\ pc' = "flush"
  OBVIOUS
<1>2. \A r \in Rows : \/ ram'[r] = ram[r] \/ ram'[r] = Absent
                      \/ r = used + 1 /\ ram'[r] = Row(state)
  BY <1>1, InsertedRows
<1>3. ~InHand /\ ~Appending /\ Heading = "idle" /\ ~Persisting
  BY DEF InHand, Appending, Heading, Persisting
<1>4. own.row # 0 => ram'[own.row] \in {ram[own.row], Absent}
  <2>1. own.row # 0 => own.row \in Rows /\ own.row # used + 1
    BY DeliveryAssumption DEF OwnedOK, TypeOK, Owners
  <2>2. QED
    BY <1>2, <2>1
<1>5. AdmittedOK'
  <2>1. own.admitted => own.row # 0 /\ state = "rx"
    BY <1>1 DEF SInv, AdmittedOK
  <2>2. QED
    BY <1>1, <2>1 DEF SInv, AdmittedOK, Continue, Resting
<1>6. SessionOK'
  <2>1. CASE state = "rx"
    <3>1. pc' = "maint"
      BY <1>1, <2>1 DEF Continue
    <3>2. QED
      BY <1>3, <3>1 DEF SInv, SessionOK, RestOK, MoveOK, InHand, Heading, Driven,
                        Resting, Loose, Moving
  <2>2. CASE state = "queued"
    BY <1>1, <2>2 DEF SessionOK, InHand, Heading, Moving, Resting, Loose
  <2>3. QED
    BY <1>1, <2>1, <2>2
<1>7. OwnerMatchesRow'
  <2>1. CASE state = "rx"
    BY <1>1, <1>3, <1>4, <2>1 DEF SInv, OwnerMatchesRow, Persisting, Continue
  <2>2. CASE state = "queued"
    BY <1>1, <2>2 DEF OwnerMatchesRow
  <2>3. QED
    BY <1>1, <2>1, <2>2
<1>8. AppendRowOK'
  <2>1. CASE state = "rx"
    BY <1>1, <2>1 DEF AppendRowOK, Appending, Continue
  <2>2. CASE state = "queued"
    BY <1>1, <2>2 DEF AppendRowOK, Insert
  <2>3. QED
    BY <1>1, <2>1, <2>2
<1>9. OpenOK'
  <2> SUFFICES ASSUME NEW r \in Rows, ram'[r].state \in Open, own.row # r
               PROVE  \/ Appending' /\ call'.row = r
                      \/ spent.crashes > 0 /\ ram'[r].state \in {"queued", "retry_wait"}
    BY DEF OpenOK
  <2>1. Absent.state \notin Open /\ Row("rx").state \notin Open
    BY DEF Absent, Row, Open, InFlight
  <2>2. CASE ram'[r] = ram[r]
    BY <1>3, <2>2 DEF SInv, OpenOK
  <2>3. CASE r = used + 1 /\ state = "queued"
    BY <1>1, <2>3 DEF Appending
  <2>4. QED
    BY <1>1, <1>2, <2>1, <2>2, <2>3
<1>10. QED
  BY <1>5, <1>6, <1>7, <1>8, <1>9 DEF SInv

(* begin_pending_dm_tx: the appended row finds its session.                *)
LEMMA ReserveStep ==
  ASSUME TypeOK, AppendOK, SInv, AfterAppendReserve PROVE SInv'
<1>1. own.row = 0 /\ ~own.admitted /\ receipts = {}
  <2>1. Heading = "appended" /\ pc \notin Resting
    BY DEF AfterAppendReserve, Heading, InHand, Resting
  <2>2. own.row = 0
    BY <2>1 DEF SInv, SessionOK, RestOK, Loose
  <2>3. QED
    BY <2>2 DEF SInv, AdmittedOK
<1>2. call.row \in Rows /\ call.row # 0
  <2>1. call.row \in 1..used
    BY DEF AppendOK, Appending, AfterAppendReserve
  <2>2. used \in 0..MaxRows
    BY DEF TypeOK
  <2>3. QED
    BY <2>1, <2>2, DeliveryAssumption DEF Rows
<1>3. ram[call.row] \in {Absent, Row("queued")}
  BY DEF SInv, AppendRowOK, Appending, AfterAppendReserve
<1>4. /\ own'.row = call.row /\ own'.state = "queued" /\ own'.rev = 1 /\ own'.attempt = 0
      /\ ~own'.admitted
  BY DEF AfterAppendReserve, NoOwner
<1>5. UNCHANGED <<receipts, spent>> /\ pc = "appended"
  BY DEF AfterAppendReserve
<1>6. AdmittedOK'
  BY <1>1, <1>4, <1>5 DEF AdmittedOK
<1>10. \A r \in Rows : r # 0
  BY DEF Rows
<1>7. CASE MatchesRow(call.row, "queued", 1, "waiting_radio")
  <2>1. /\ ram' = [ram EXCEPT ![call.row] = Moved(@, "waiting_radio")]
        /\ call' = [row |-> call.row, to |-> "waiting_radio", then |-> "reserved", direct |-> FALSE]
        /\ pc' = "flush"
    BY <1>7 DEF AfterAppendReserve, Transition
  <2>2. ram'[call.row] = Moved(ram[call.row], "waiting_radio")
        /\ \A r \in Rows \ {call.row} : ram'[r] = ram[r]
    BY <1>2, <2>1 DEF TypeOK
  <2>3. ram[call.row] = [state |-> "queued", rev |-> 1, attempt |-> 0]
    BY <1>3, <1>7 DEF MatchesRow, Absent, Row
  <2>4. InHand' /\ Heading' = "reserved" /\ ~Appending' /\ Persisting'
    BY <1>4, <2>1 DEF InHand, Heading, Appending, Persisting
  <2>5. SessionOK'
    BY <1>2, <1>4, <2>1, <2>4, MoveTable DEF SessionOK, RestOK, MoveOK, Resting, Loose
  <2>6. OwnerMatchesRow'
    BY <1>4, <2>1, <2>2, <2>3, <2>4 DEF OwnerMatchesRow
  <2>7. OpenOK'
    BY <1>1, <1>4, <1>5, <1>10, <2>2 DEF SInv, OpenOK, Appending
  <2>8. QED
    BY <1>6, <2>4, <2>5, <2>6, <2>7 DEF SInv, AppendRowOK
<1>8. CASE ~MatchesRow(call.row, "queued", 1, "waiting_radio")
  <2>1. ram' = ram /\ pc' = "reserved" /\ ret' = "error"
    BY <1>8 DEF AfterAppendReserve, Transition
  <2>2. ram[call.row] = Absent
    BY <1>3, <1>8 DEF MatchesRow, Row, TransitionAllowed
  <2>3. ~InHand' /\ Heading' = "reserved" /\ ~Appending' /\ Gone'
    BY <1>4, <2>1, <2>2 DEF InHand, Heading, Appending, Gone
  <2>4. SessionOK'
    BY <1>2, <1>4, <2>1, <2>3, MoveTable DEF SessionOK, RestOK, MoveOK, Resting, Loose
  <2>5. OwnerMatchesRow' /\ AppendRowOK'
    BY <2>3 DEF OwnerMatchesRow, AppendRowOK, Gone
  <2>6. OpenOK'
    BY <1>1, <1>4, <1>5, <1>10, <2>1 DEF SInv, OpenOK, Appending
  <2>7. QED
    BY <1>6, <2>4, <2>5, <2>6 DEF SInv
<1>9. QED
  BY <1>7, <1>8

(* The row fails without ever having had a session.                        *)
LEMMA AppendFailStep ==
  ASSUME TypeOK, AppendOK, SInv, AfterAppendFail PROVE SInv'
<1>1. own.row = 0 /\ ~own.admitted /\ receipts = {}
  BY DEF AfterAppendFail, SInv, AdmittedOK, SessionOK, RestOK, Heading, InHand, Loose, Resting
<1>2. call.row \in Rows
  BY DeliveryAssumption DEF AppendOK, Appending, AfterAppendFail, TypeOK, Rows
<1>3. ram[call.row] \in {Absent, Row("queued")}
  BY DEF SInv, AppendRowOK, Appending, AfterAppendFail
<1>4. UNCHANGED <<receipts, spent, own>> /\ pc = "appended"
  BY DEF AfterAppendFail
<1>5. Heading' = "released" /\ ~Appending' /\ (InHand' => call'.then = "released")
  BY DEF AfterAppendFail, Transition, Heading, InHand, Appending
<1>6. \A r \in Rows : \/ ram'[r] = ram[r] /\ (r = call.row => ram[r] = Absent)
                      \/ ram'[r].state = "failed_queue"
  BY <1>2, <1>3 DEF AfterAppendFail, Transition, MatchesRow, Moved, Row, TransitionAllowed, TypeOK
<1>7. OpenOK'
  <2>1. Absent.state \notin Open /\ "failed_queue" \notin Open
    BY DEF Absent, Open, InFlight
  <2>2. QED
    BY <1>1, <1>4, <1>6, <2>1 DEF SInv, OpenOK, Appending
<1>8. SessionOK'
  BY <1>1, <1>4, <1>5 DEF SessionOK, Resting, Loose, Moving
<1>9. QED
  BY <1>1, <1>4, <1>5, <1>7, <1>8 DEF SInv, AdmittedOK, OwnerMatchesRow, AppendRowOK

(* The ACK moves the row and leaves the session behind.                    *)
LEMMA AckSessionStep ==
  ASSUME TypeOK, SInv, HandleAck PROVE SInv'
<1>1. own.row \in Rows /\ own.row # 0
  BY DEF HandleAck, TypeOK, Owners
<1>2. pc = "idle" /\ pc' = "maint" /\ own.state = "awaiting_ack" /\ ~own.admitted
      /\ UNCHANGED <<call, spent>>
  BY DEF HandleAck, OwnerIdle, Continue
<1>3. /\ own'.row = own.row /\ own'.state = own.state /\ own'.rev = own.rev
      /\ own'.attempt = own.attempt /\ own'.armed = own.armed
  <2>1. own \in Owners
    BY DEF TypeOK
  <2>2. \/ own' = [own EXCEPT !.admitted = TRUE, !.pending = TRUE, !.heard = Binding]
        \/ own' = [own EXCEPT !.heard = NoHeard]
    BY DEF HandleAck
  <2>3. QED
    BY <2>1, <2>2 DEF Owners
<1>4. receipts = {} /\ own.armed
  <2>1. receipts = {}
    BY <1>2 DEF SInv, AdmittedOK
  <2>2. ~InHand /\ Heading \in Resting
    BY <1>2 DEF Heading, InHand, Resting
  <2>3. Driven
    BY <1>1, <2>2 DEF SInv, SessionOK, RestOK
  <2>4. QED
    BY <1>2, <2>1, <2>3 DEF Driven
<1>5. SessionOK'
  BY <1>1, <1>2, <1>3, <1>4
     DEF SessionOK, RestOK, MoveOK, Driven, Heading, InHand, Resting, Loose, Moving, Open, InFlight
<1>6. CASE MatchesRow(own.row, "awaiting_ack", own.rev, "acknowledged")
  <2>1. /\ ram' = [ram EXCEPT ![own.row] = Moved(@, "acknowledged")]
        /\ receipts' = receipts \cup {own.row} /\ own'.admitted
    BY <1>6 DEF HandleAck, TypeOK, Owners
  <2>2. ram'[own.row] = Moved(ram[own.row], "acknowledged")
        /\ \A r \in Rows \ {own.row} : ram'[r] = ram[r]
    BY <1>1, <2>1 DEF TypeOK
  <2>3. AdmittedOK'
    BY <1>1, <1>2, <1>3, <1>4, <2>1 DEF AdmittedOK, Resting
  <2>4. OwnerMatchesRow'
    BY <1>2, <1>3, <1>6, <2>1, <2>2 DEF OwnerMatchesRow, Persisting, MatchesRow, Moved
  <2>5. OpenOK' /\ AppendRowOK'
    BY <1>2, <1>3, <2>2 DEF SInv, OpenOK, AppendRowOK, Appending
  <2>6. QED
    BY <1>5, <2>3, <2>4, <2>5 DEF SInv
<1>7. CASE ~MatchesRow(own.row, "awaiting_ack", own.rev, "acknowledged")
  <2>1. UNCHANGED <<ram, receipts>> /\ ~own'.admitted
    BY <1>2, <1>7 DEF HandleAck, TypeOK, Owners
  <2>2. AdmittedOK'
    BY <1>4, <2>1 DEF AdmittedOK
  <2>3. OwnerMatchesRow' /\ OpenOK' /\ AppendRowOK'
    BY <1>2, <1>3, <2>1 DEF SInv, OwnerMatchesRow, Persisting, OpenOK, AppendRowOK, Appending
  <2>4. QED
    BY <1>5, <2>2, <2>3 DEF SInv
<1>8. QED
  BY <1>6, <1>7
(* The console clears the rows under a session, which then finds it gone.  *)
LEMMA ClearSessionStep ==
  ASSUME TypeOK, AppendOK, SInv, ConsoleClear PROVE SInv'
<1>1. ram' = NoRows /\ receipts' = {} /\ own' = own /\ pc' = pc /\ call' = call /\ ret' = ret
  BY DEF ConsoleClear, controlVars
<1>2. \A r \in Rows : ram'[r] = Absent
  BY <1>1 DEF NoRows
<1>3. own.row # 0 => own.row \in Rows
  BY DEF TypeOK, Owners
<1>4. Heading' = Heading /\ (InHand' <=> InHand) /\ (Driven' <=> Driven)
  BY <1>1 DEF Heading, InHand, Driven
<1>5. SessionOK'
  <2>1. own.row # 0 => Gone'
    BY <1>1, <1>2, <1>3 DEF Gone
  <2>2. QED
    BY <1>1, <1>4, <2>1 DEF SInv, SessionOK, RestOK, MoveOK
<1>6. AdmittedOK'
  BY <1>1 DEF SInv, AdmittedOK
<1>7. OwnerMatchesRow'
  BY <1>1, <1>2, <1>3 DEF OwnerMatchesRow
<1>8. AppendRowOK'
  <2>1. Appending' => call.row \in Rows
    BY <1>1, DeliveryAssumption DEF AppendOK, Appending, TypeOK, Rows
  <2>2. QED
    BY <1>1, <1>2, <2>1 DEF AppendRowOK, Appending
<1>9. OpenOK'
  BY <1>2 DEF OpenOK, Absent, Open, InFlight
<1>10. QED
  BY <1>5, <1>6, <1>7, <1>8, <1>9 DEF SInv

(* A reboot ends the session; what was in flight is interrupted.           *)
LEMMA RebootSessionStep ==
  ASSUME TypeOK, Reboot PROVE SInv'
<1>1. /\ own' = NoOwner /\ pc' = "idle" /\ receipts' = {}
      /\ ram' = [r \in Rows |-> Interrupted(disk[r])]
  BY DEF Reboot
<1>2. spent'.crashes > 0
  <2>1. spent.crashes \in Nat /\ spent' = [spent EXCEPT !.crashes = @ + 1]
    BY DEF Reboot, TypeOK
  <2>2. spent'.crashes = spent.crashes + 1
    BY <2>1 DEF TypeOK
  <2>3. QED
    BY <2>1, <2>2
<1>3. own'.row = 0 /\ ~own'.admitted /\ ~Appending' /\ Heading' = "idle" /\ ~InHand'
  BY <1>1 DEF NoOwner, Appending, Heading, InHand
<1>4. OpenOK'
  <2> SUFFICES ASSUME NEW r \in Rows, ram'[r].state \in Open
               PROVE  ram'[r].state \in {"queued", "retry_wait"}
    BY <1>2 DEF OpenOK
  <2>1. ram'[r] = Interrupted(disk[r])
    BY <1>1
  <2>2. CASE disk[r].state \in InFlight
    <3>1. disk[r] \in RowRecord
      BY DEF TypeOK
    <3>2. ram'[r].state = "interrupted"
      BY <2>1, <2>2, <3>1 DEF Interrupted, RowRecord
    <3>3. QED
      BY <3>2 DEF Open, InFlight
  <2>3. CASE disk[r].state \notin InFlight
    BY <2>1, <2>3 DEF Interrupted, Open
  <2>4. QED
    BY <2>2, <2>3
<1>5. QED
  BY <1>1, <1>3, <1>4
     DEF SInv, SessionOK, AdmittedOK, OwnerMatchesRow, AppendRowOK, Moving, Resting
LEMMA DeviceSessionStep ==
  ASSUME TypeOK, AppendOK, SInv,
         Device \/ OwnerFlushBegin \/ OwnerFlushYield \/ Expire \/ UNCHANGED vars
           \/ \E phase \in {"done", "timeout"} : RadioEnds(phase)
  PROVE  SInv'
<1>1. ASSUME Rests, UNCHANGED own PROVE SInv'
  BY <1>1, SessionFrame DEF Agree
<1>2. WorkerBegin \/ ConsoleBegin \/ OwnerFlushBegin => Rests /\ UNCHANGED own
  BY DEF WorkerBegin, ConsoleBegin, OwnerFlushBegin, BeginWrite, controlVars, Rests
<1>3. ASSUME NEW w, NEW k, WorkerEnd(w, k) \/ ConsoleEnd(w, k) PROVE Rests /\ UNCHANGED own
  BY <1>3 DEF WorkerEnd, ConsoleEnd, Commit, controlVars, Rests
<1>4. OwnerFlushYield \/ UNCHANGED vars => Rests /\ UNCHANGED own
  BY DEF OwnerFlushYield, vars, Rests
<1>5. (\E phase \in {"done", "timeout"} : RadioEnds(phase)) => Rests /\ UNCHANGED own
  BY DEF RadioEnds, storeVars, controlVars, Rests
<1>6. ASSUME Expire PROVE SInv'
  <2>1. Rests
    BY <1>6 DEF Expire, storeVars, controlVars, Rests
  <2>2. Agree /\ own'.armed = own.armed /\ own'.pending = own.pending
    BY <1>6 DEF Expire, Agree, TypeOK, Owners
  <2>3. QED
    BY <2>1, <2>2, SessionFrame
<1>7. ASSUME Remount PROVE SInv'
  <2>1. spent'.crashes = spent.crashes
    BY <1>7 DEF Remount, TypeOK
  <2>2. UNCHANGED <<ram, receipts, own, call, pc, ret>>
    BY <1>7 DEF Remount, controlVars
  <2>3. QED
    BY <2>1, <2>2 DEF SInv, SessionOK, RestOK, MoveOK, AdmittedOK, OwnerMatchesRow, AppendRowOK,
                      OpenOK, InHand, Heading, Driven, Gone, Appending, Persisting
<1>8. QED
  BY <1>1, <1>2, <1>3, <1>4, <1>5, <1>6, <1>7, ClearSessionStep, RebootSessionStep DEF Device
(* The relays: each takes the session from one place of the table to the   *)
(* next, settles it, or drops it.                                          *)
LEMMA InMove ==
  ASSUME SInv, pc \in Moving
  PROVE  /\ own.row # 0 /\ ~InHand /\ ~own.admitted /\ pc # "appended" /\ receipts = {}
         /\ own.state \in To(pc) \/ (own.state \in From(pc) /\ ret = "error" /\ Gone)
<1>1. pc \notin {"flush", "write", "appended"} /\ pc \notin Resting
  BY MovingPlaces DEF Resting
<1>2. Heading = pc /\ ~InHand
  BY <1>1 DEF Heading, InHand
<1>3. QED
  BY <1>1, <1>2 DEF SInv, SessionOK, MoveOK, AdmittedOK

LEMMA AtRest ==
  ASSUME SInv, pc \in Resting
  PROVE  /\ ~InHand /\ pc # "appended"
         /\ own.row # 0 => own.state \in Open /\ Driven
BY DEF SInv, SessionOK, RestOK, Heading, InHand, Resting

LEMMA Owned == ASSUME TypeOK, own.state # "absent" PROVE own.row # 0
BY DEF TypeOK, NoOwner

LEMMA SettleOwned ==
  ASSUME TypeOK, SInv, Settles, UNCHANGED own, own.row # 0 => own.state \in Open /\ Driven
  PROVE  SInv'
BY SettleKeeps DEF Agree, Driven

LEMMA FailMove ==
  ASSUME TypeOK, SInv, own.row # 0, ~InHand, ~own.admitted, pc # "appended",
         own.state \in From("notSent"), FailBeforeRadio, UNCHANGED <<own, receipts, spent>>
  PROVE  SInv'
<1> DEFINE to == IF own.state = "tx_active" THEN "failed_radio" ELSE "failed_queue"
<1>1. "notSent" \in Moving /\ to \in To("notSent") /\ TransitionAllowed(own.state, to)
  BY MoveTable, MovingPlaces DEF TransitionAllowed
<1>2. OwnTransition(to, "notSent")
  BY DEF FailBeforeRadio
<1>3. QED
  BY <1>1, <1>2, MoveStep DEF Agree

LEMMA SendSessionStep ==
  ASSUME TypeOK, SInv,
         \/ AfterReserved \/ AfterStarted \/ AfterNotSent \/ AfterTxDone \/ AfterAwaiting
         \/ Released
  PROVE  SInv'
<1> USE MoveTable, MovingPlaces
<1>1. CASE AfterReserved
  <2>1. pc = "reserved" /\ UNCHANGED <<own, receipts, spent>>
    BY <1>1 DEF AfterReserved
  <2>2. own.state \in {"waiting_radio", "queued", "retry_tx"}
        /\ (ret = "ok" => own.state = "waiting_radio")
    BY <2>1, InMove
  <2>3. CASE ret = "ok"
    <3>1. OwnTransition("tx_active", "started") /\ TransitionAllowed(own.state, "tx_active")
      BY <1>1, <2>2, <2>3 DEF AfterReserved, TransitionAllowed
    <3>2. QED
      BY <2>1, <2>2, <2>3, <3>1, InMove, MoveStep DEF Agree
  <2>4. CASE ret # "ok"
    BY <1>1, <2>1, <2>2, <2>4, InMove, FailMove DEF AfterReserved
  <2>5. QED
    BY <2>3, <2>4
<1>2. CASE AfterStarted
  <2>1. pc = "started" /\ UNCHANGED <<own, receipts, spent>>
    BY <1>2 DEF AfterStarted
  <2>2. own.state \in {"tx_active", "waiting_radio"} /\ (ret = "ok" => own.state = "tx_active")
    BY <2>1, InMove
  <2>3. CASE ret = "ok"
    <3>1. Settles
      BY <1>2, <2>1, <2>3, InMove DEF AfterStarted, Continue, Settles, Resting
    <3>2. own.state \in Open /\ Driven
      BY <2>2, <2>3 DEF Open, InFlight, Driven
    <3>3. QED
      BY <2>1, <3>1, <3>2, SettleOwned
  <2>4. CASE ret # "ok"
    BY <1>2, <2>1, <2>2, <2>4, InMove, FailMove DEF AfterStarted
  <2>5. QED
    BY <2>3, <2>4
<1>3. CASE AfterNotSent
  <2>1. pc = "notSent" /\ own' = ClearedIfTerminal
    BY <1>3 DEF AfterNotSent
  <2>2. Settles
    BY <1>3, <2>1, InMove DEF AfterNotSent, Continue, Settles, Resting, storeVars
  <2>3. own.state \in Terminal \/ (own.state \in Open /\ Driven /\ own' = own)
    BY <2>1, InMove DEF ClearedIfTerminal, Terminal, Failed, Open, InFlight, Driven
  <2>4. QED
    BY <2>1, <2>2, <2>3, InMove, SettleDrops, SettleOwned DEF ClearedIfTerminal
<1>4. CASE AfterTxDone
  <2>1. pc = "txDone" /\ UNCHANGED <<own, receipts, spent>>
    BY <1>4 DEF AfterTxDone
  <2>2. own.state \in {"tx_done", "tx_active"}
    BY <2>1, InMove
  <2>3. CASE own.state = "tx_done"
    <3>1. OwnTransition("awaiting_ack", "awaiting") /\ TransitionAllowed(own.state, "awaiting_ack")
      BY <1>4, <2>3 DEF AfterTxDone, TransitionAllowed
    <3>2. QED
      BY <2>1, <2>3, <3>1, InMove, MoveStep DEF Agree
  <2>4. CASE own.state = "tx_active"
    <3>1. Settles
      BY <1>4, <2>1, <2>4, InMove DEF AfterTxDone, Continue, Settles, Resting
    <3>2. QED
      BY <2>1, <2>4, <3>1, SettleOwned DEF Open, InFlight, Driven
  <2>5. QED
    BY <2>2, <2>3, <2>4
<1>5. CASE AfterAwaiting
  <2>1. pc = "awaiting" /\ own.state \in {"tx_done", "awaiting_ack"}
    BY <1>5, InMove DEF AfterAwaiting
  <2>2. Settles
    BY <1>5, <2>1, InMove DEF AfterAwaiting, Continue, Settles, Resting, storeVars
  <2>3. Agree /\ (own.state = "awaiting_ack" => own'.armed)
    BY <1>5 DEF AfterAwaiting, Agree, TypeOK, Owners
  <2>4. QED
    BY <2>1, <2>2, <2>3, SettleKeeps DEF Driven, Agree, Open, InFlight
<1>6. CASE Released
  <2>1. own.row = 0 /\ Settles /\ UNCHANGED own
    BY <1>6 DEF Released, Continue, Settles, Resting, storeVars, SInv, SessionOK, RestOK, Heading,
                InHand, Loose
  <2>2. QED
    BY <2>1, SettleOwned
<1>7. QED
  BY <1>1, <1>2, <1>3, <1>4, <1>5, <1>6
LEMMA HandlerSessionStep ==
  ASSUME TypeOK, AppendOK, OwnedOK, SInv, Handler PROVE SInv'
<1> USE MoveTable, MovingPlaces
<1>1. ASSUME NEW direct \in BOOLEAN, SendDm(direct) PROVE SInv'
  <2>1. pc = "idle" /\ own.row = 0 /\ used < MaxRows /\ UNCHANGED <<own, receipts, spent>>
    BY <1>1 DEF SendDm, OwnerIdle
  <2>2. CASE RingRefuses
    <3>1. Settles
      BY <1>1, <2>1, <2>2 DEF SendDm, Continue, Settles, Resting, InHand
    <3>2. QED
      BY <2>1, <3>1, SettleOwned
  <2>3. CASE ~RingRefuses
    <3>1. used + 1 \in Rows
      BY <2>1, DeliveryAssumption DEF TypeOK, Rows
    <3>2. /\ Insert(Row("queued")) /\ call'.row = used + 1 /\ call'.then = "appended"
          /\ pc' = "flush"
      BY <1>1, <2>3 DEF SendDm
    <3>3. QED
      BY <2>1, <3>1, <3>2, InsertStep
  <2>4. QED
    BY <2>2, <2>3
<1>2. ASSUME ReceiveDm PROVE SInv'
  <2>1. pc = "idle" /\ Insert(Row("rx")) /\ Continue("maint") /\ UNCHANGED <<own, receipts, spent>>
    BY <1>2 DEF ReceiveDm, OwnerIdle
  <2>2. QED
    BY <2>1, InsertStep
<1>3. ASSUME SendOther PROVE SInv'
  <2>1. pc = "idle" /\ Settles /\ UNCHANGED own
    BY <1>3 DEF SendOther, OwnerIdle, Continue, Settles, Resting, storeVars, InHand
  <2>2. QED
    BY <2>1, AtRest, SettleOwned DEF Resting
<1>4. ASSUME RadioTxDone \/ RadioTxTimeout PROVE SInv'
  <2>1. pc = "idle" /\ UNCHANGED <<own, receipts, spent>> /\ TerminalMatches
    BY <1>4 DEF RadioTxDone, RadioTxTimeout
  <2>2. CASE radio.row = 0
    <3>1. Settles
      BY <1>4, <2>1, <2>2 DEF RadioTxDone, RadioTxTimeout, Continue, Settles, Resting, InHand
    <3>2. QED
      BY <2>1, <3>1, AtRest, SettleOwned DEF Resting
  <2>3. CASE radio.row # 0
    <3>1. own.row # 0 /\ own.state = "tx_active"
      BY <2>1, <2>3 DEF TerminalMatches
    <3>2. ~own.admitted /\ ~InHand /\ pc # "appended"
      BY <2>1, <3>1 DEF SInv, AdmittedOK, InHand
    <3>3. OwnTransition("tx_done", "txDone") \/ OwnTransition("failed_radio", "notSent")
      BY <1>4, <2>3 DEF RadioTxDone, RadioTxTimeout
    <3>4. TransitionAllowed("tx_active", "tx_done") /\ TransitionAllowed("tx_active", "failed_radio")
      BY DEF TransitionAllowed
    <3>5. QED
      BY <2>1, <3>1, <3>2, <3>3, <3>4, MoveStep DEF Agree
  <2>4. QED
    BY <2>2, <2>3
<1>5. QED
  BY <1>1, <1>2, <1>3, <1>4, AckSessionStep DEF Handler

LEMMA OrphanFails ==
  ASSUME TypeOK, IsOrphan
  PROVE  OrphanFailure(own.state) \in Failed /\ TransitionAllowed(own.state, OrphanFailure(own.state))
<1>1. own.state \in {"queued", "waiting_radio", "retry_tx", "tx_active", "tx_done", "retry_wait"}
  BY DEF IsOrphan, Open, InFlight
<1>2. QED
  BY <1>1 DEF OrphanFailure, TransitionAllowed, Failed

(* Taking the deadline leaves the binding of the session alone.            *)
LEMMA TakenKeeps ==
  ASSUME TypeOK, NEW taken \in {RetryTaken, DeadlineTaken}
  PROVE  /\ taken.row = own.row /\ taken.state = own.state /\ taken.rev = own.rev
         /\ taken.attempt = own.attempt /\ taken.admitted = own.admitted
         /\ taken.direct = own.direct
         /\ taken = RetryTaken => taken.retried
<1>1. own \in Owners
  BY DEF TypeOK
<1>2. /\ DeadlineTaken.row = own.row /\ DeadlineTaken.state = own.state
      /\ DeadlineTaken.rev = own.rev /\ DeadlineTaken.attempt = own.attempt
      /\ DeadlineTaken.admitted = own.admitted /\ DeadlineTaken.direct = own.direct
      /\ DeadlineTaken \in Owners
  BY <1>1 DEF DeadlineTaken, Owners
<1>3. RetryTaken = [DeadlineTaken EXCEPT !.retried = TRUE]
  BY DEF RetryTaken
<1>4. QED
  BY <1>2, <1>3 DEF Owners

LEMMA MaintenanceSessionStep ==
  ASSUME TypeOK, SInv, Maintenance PROVE SInv'
<1> USE MoveTable, MovingPlaces
<1>1. pc \in Resting /\ ~InHand /\ pc # "appended" /\ (own.row # 0 => own.state \in Open /\ Driven)
  <2>1. pc \in Resting
    BY DEF Maintenance, Poll, OwnerIdle, Deferred, Maintain, ReconcileAck, RetryAsFlood,
           FailAckTimeout, NothingDue, Resting
  <2>2. QED
    BY <2>1, AtRest
<1>2. CASE Poll \/ Deferred \/ NothingDue
  <2>1. Settles /\ UNCHANGED own
    BY <1>1, <1>2 DEF Poll, Deferred, NothingDue, Continue, Settles, Resting, storeVars
  <2>2. QED
    BY <1>1, <2>1, SettleOwned
<1>3. CASE Maintain
  <2>1. UNCHANGED <<own, receipts, spent>>
    BY <1>3 DEF Maintain
  <2>2. CASE radio.phase = "idle" /\ IsOrphan
    <3>1. OwnTransition(OrphanFailure(own.state), "orphaned")
      BY <1>3, <2>2 DEF Maintain
    <3>2. own.row # 0 /\ ~own.admitted /\ own.state \in Open \ {"awaiting_ack"}
      BY <2>2 DEF IsOrphan
    <3>3. QED
      BY <1>1, <2>1, <2>2, <3>1, <3>2, OrphanFails, MoveStep DEF Agree
  <2>3. CASE ~(radio.phase = "idle" /\ IsOrphan)
    <3>1. Settles
      BY <1>1, <1>3, <2>3 DEF Maintain, Continue, Settles, Resting
    <3>2. QED
      BY <1>1, <2>1, <3>1, SettleOwned
  <2>4. QED
    BY <2>2, <2>3
<1>4. CASE ReconcileAck
  <2>1. Settles /\ own' = NoOwner /\ own.state = "awaiting_ack"
        /\ Visible(own.row).state = "acknowledged"
    BY <1>1, <1>4 DEF ReconcileAck, AckIsVisible, Continue, Settles, Resting, storeVars
  <2>2. own.row # 0 /\ own.row \in Rows
    BY <2>1, Owned DEF TypeOK, Owners
  <2>3. own.row \notin receipts /\ ram[own.row].state = "acknowledged"
    <3>1. ram[own.row] \in RowRecord
      BY <2>2 DEF TypeOK
    <3>2. QED
      BY <2>1, <3>1 DEF Visible, RowRecord
  <2>4. receipts = {}
    BY <2>3 DEF SInv, AdmittedOK, TypeOK
  <2>5. ram[own.row].state \notin Open
    BY <2>3 DEF Open, InFlight
  <2>6. QED
    BY <2>1, <2>2, <2>4, <2>5, SettleDrops
<1>5. CASE RetryAsFlood \/ FailAckTimeout
  <2>1. own.state = "awaiting_ack" /\ ~own.admitted /\ UNCHANGED <<receipts, spent>>
    BY <1>5 DEF RetryAsFlood, FailAckTimeout, DeadlineDue
  <2>2. own.row # 0
    BY <2>1, Owned
  <2>3. Agree
    <3>1. own' \in {RetryTaken, DeadlineTaken}
      BY <1>5 DEF RetryAsFlood, FailAckTimeout
    <3>2. QED
      BY <3>1, TakenKeeps DEF Agree
  <2>4. OwnTransition("retry_wait", "retryWait") \/ OwnTransition("failed_timeout", "timedOut")
    BY <1>5 DEF RetryAsFlood, FailAckTimeout
  <2>5. TransitionAllowed("awaiting_ack", "retry_wait")
        /\ TransitionAllowed("awaiting_ack", "failed_timeout")
    BY DEF TransitionAllowed, Open, InFlight
  <2>6. QED
    BY <1>1, <2>1, <2>2, <2>3, <2>4, <2>5, MoveStep
<1>6. QED
  BY <1>2, <1>3, <1>4, <1>5 DEF Maintenance

LEMMA DeadlineSessionStep ==
  ASSUME TypeOK, SInv, AfterOrphaned \/ AfterTimedOut \/ AfterRetryWait \/ AfterRetryTx PROVE SInv'
<1> USE MoveTable, MovingPlaces
<1>1. CASE AfterOrphaned
  <2>1. pc = "orphaned" /\ own' = ClearedIfTerminal
    BY <1>1 DEF AfterOrphaned
  <2>2. Settles
    BY <1>1, <2>1, InMove DEF AfterOrphaned, Continue, Settles, Resting, storeVars
  <2>3. own.state \in Terminal \/ (own.state \in Open /\ Driven /\ own' = own)
    BY <2>1, InMove DEF ClearedIfTerminal, Terminal, Failed, Open, InFlight, Driven
  <2>4. QED
    BY <2>1, <2>2, <2>3, InMove, SettleDrops, SettleOwned DEF ClearedIfTerminal
<1>2. CASE AfterTimedOut
  <2>1. pc = "timedOut" /\ own.row # 0
    BY <1>2, InMove DEF AfterTimedOut
  <2>2. Settles
    BY <1>2, <2>1, InMove DEF AfterTimedOut, Continue, Settles, Resting, storeVars
  <2>3. own.state \in {"failed_timeout", "awaiting_ack", "retry_wait"}
    BY <2>1, InMove
  <2>4. CASE own.state = "failed_timeout"
    <3>1. own.state \in Terminal
      BY <2>4 DEF Terminal, Failed
    <3>2. own' = NoOwner
      BY <1>2, <3>1 DEF AfterTimedOut
    <3>3. QED
      BY <2>1, <2>2, <3>1, <3>2, InMove, SettleDrops
  <2>5. CASE own.state # "failed_timeout"
    <3>1. own.state \in Open /\ own.state \notin Terminal
      BY <2>3, <2>5 DEF Open, InFlight, Terminal, Failed
    <3>2. Agree /\ own'.armed
      BY <1>2, <2>1, <3>1 DEF AfterTimedOut, Agree, TypeOK, Owners
    <3>3. QED
      BY <2>2, <3>1, <3>2, SettleKeeps DEF Driven
  <2>6. QED
    BY <2>4, <2>5
<1>3. CASE AfterRetryWait
  <2>1. pc = "retryWait" /\ UNCHANGED <<own, receipts, spent>>
    BY <1>3 DEF AfterRetryWait
  <2>2. own.state \in {"retry_wait", "awaiting_ack"} /\ (ret = "ok" => own.state = "retry_wait")
    BY <2>1, InMove
  <2>3. /\ TransitionAllowed("retry_wait", "retry_tx")
        /\ \A from \in {"retry_wait", "awaiting_ack"} : TransitionAllowed(from, "failed_timeout")
    BY DEF TransitionAllowed
  <2>4. IF ret = "ok" THEN OwnTransition("retry_tx", "retryTx")
                      ELSE OwnTransition("failed_timeout", "timedOut")
    BY <1>3 DEF AfterRetryWait
  <2>5. QED
    BY <2>1, <2>2, <2>3, <2>4, InMove, MoveStep DEF Agree
<1>4. CASE AfterRetryTx
  <2>1. pc = "retryTx" /\ UNCHANGED <<receipts, spent>>
    BY <1>4 DEF AfterRetryTx
  <2>2. own.state \in {"retry_tx", "retry_wait"} /\ (ret = "ok" => own.state = "retry_tx")
    BY <2>1, InMove
  <2>3. CASE ret = "ok"
    <3>1. OwnTransition("waiting_radio", "reserved") /\ TransitionAllowed("retry_tx", "waiting_radio")
      BY <1>4, <2>3 DEF AfterRetryTx, TransitionAllowed
    <3>2. Agree
      BY <1>4, <2>3 DEF AfterRetryTx, Agree, TypeOK, Owners
    <3>3. QED
      BY <2>1, <2>2, <2>3, <3>1, <3>2, InMove, MoveStep
  <2>4. CASE ret # "ok" /\ own.state = "retry_wait"
    <3>1. /\ OwnTransition("failed_timeout", "timedOut") /\ UNCHANGED own
          /\ TransitionAllowed("retry_wait", "failed_timeout")
      BY <1>4, <2>4 DEF AfterRetryTx, TransitionAllowed
    <3>2. QED
      BY <2>1, <2>4, <3>1, InMove, MoveStep DEF Agree
  <2>5. CASE ret # "ok" /\ own.state # "retry_wait"
    BY <1>4, <2>1, <2>2, <2>5, InMove, FailMove DEF AfterRetryTx
  <2>6. QED
    BY <2>3, <2>4, <2>5
<1>5. QED
  BY <1>1, <1>2, <1>3, <1>4

LEMMA SessionStep ==
  ASSUME TypeOK, AppendOK, OwnedOK, SInv, [DmNext]_vars PROVE SInv'
<1>1. CASE OwnerFlushClean \/ \E w, k : OwnerFlushEnd(w, k)
  BY <1>1, FlushLands, LandStep
<1>2. CASE AfterAppendReserve \/ AfterAppendFail
  BY <1>2, ReserveStep, AppendFailStep
<1>3. QED
  BY <1>1, <1>2, SendSessionStep, HandlerSessionStep, MaintenanceSessionStep, DeadlineSessionStep,
     DeviceSessionStep
     DEF DmNext, OwnerStep, FlushStep, Continuation, Device

LEMMA SessionInit == DmInit => SInv
BY DEF DmInit, SInv, SessionOK, AdmittedOK, OwnerMatchesRow, AppendRowOK, OpenOK, NoOwner,
       NoRows, Absent, Open, InFlight, Appending, Heading, InHand, Moving, Resting

LEMMA SessionInductive ==
  /\ DmInit => TypeOK /\ AppendOK /\ OwnedOK /\ SInv
  /\ TypeOK /\ AppendOK /\ OwnedOK /\ SInv /\ [DmNext]_vars
       => TypeOK' /\ AppendOK' /\ OwnedOK' /\ SInv'
<1>1. DmInit => AppendOK /\ OwnedOK
  BY DEF DmInit, AppendOK, Appending, OwnedOK, NoOwner
<1>2. QED
  BY <1>1, InitTyped, SessionInit, TypeStep, AppendStep, OwnedStep, SessionStep

(* The session never drifts from the row it delivers, whatever the worker, *)
(* the console and the peer's ACK do to the store meanwhile: otherwise     *)
(* every later compare-and-swap of the session would fail.                 *)
THEOREM OwnerKeepsItsRow == Spec => []OwnerMatchesRow
<1>1. SInv => OwnerMatchesRow
  BY DEF SInv
<1>2. QED
  BY <1>1, SessionInductive, PTL DEF Spec

(* Between two dispatches every row shown as on its way belongs to the     *)
(* session that moves it, or waited for its turn when the power failed;    *)
(* and every session has what will end it: it is open, and while it awaits *)
(* the peer's ACK a deadline is armed or the admitted ACK is pending.      *)
THEOREM OpenRowsAreDriven == Spec => []OpenRowsDriven
<1>1. ASSUME SInv, pc = "idle", NEW r \in Rows, Visible(r).state \in Open, own.row # r
      PROVE  spent.crashes > 0 /\ Visible(r).state \in {"queued", "retry_wait"}
  <2>1. r \notin receipts
    BY <1>1 DEF SInv, AdmittedOK
  <2>2. Visible(r) = ram[r]
    BY <2>1 DEF Visible
  <2>3. QED
    BY <1>1, <2>2 DEF SInv, OpenOK, Appending
<1>2. SInv => OpenRowsOwned
  BY <1>1 DEF OpenRowsOwned
<1>3. SInv => SessionHasDriver
  BY AtRest DEF SessionHasDriver, Resting, Driven
<1>4. QED
  BY <1>2, <1>3, SessionInductive, PTL DEF Spec, OpenRowsDriven
(* What a step does to the rows in RAM.                                    *)
Moves   == \E r, from, rev, to, then : Transition(r, from, rev, to, then)
Inserts == \E state : Insert(Row(state))

LEMMA RowsStep ==
  ASSUME [DmNext]_vars
  PROVE  \/ Moves \/ Inserts \/ HandleAck \/ ConsoleClear \/ Reboot \/ UNCHANGED ram
<1> USE DEF Moves, Inserts
<1>1. \A to, then : OwnTransition(to, then) => Moves
  BY DEF OwnTransition
<1>2. FailBeforeRadio => Moves
  BY <1>1 DEF FailBeforeRadio
<1>3. Relays => Moves \/ Inserts \/ HandleAck \/ UNCHANGED ram
  BY <1>1, <1>2
     DEF Relays, Maintenance, AfterAppendReserve, AfterAppendFail, Released, AfterReserved,
         AfterStarted, AfterNotSent, AfterTxDone, AfterAwaiting, AfterOrphaned, AfterTimedOut,
         AfterRetryWait, AfterRetryTx, Poll, Deferred, Maintain, ReconcileAck, RetryAsFlood,
         FailAckTimeout, NothingDue, ReceiveDm, SendOther, RadioTxDone, RadioTxTimeout, storeVars
<1>4. (\E direct \in BOOLEAN : SendDm(direct)) => Inserts \/ UNCHANGED ram
  BY DEF SendDm
<1>5. FlushStep \/ OwnerFlushYield \/ Device \/ Expire \/ UNCHANGED vars
      \/ (\E phase \in {"done", "timeout"} : RadioEnds(phase))
      => ConsoleClear \/ Reboot \/ UNCHANGED ram
  BY DEF FlushStep, OwnerFlushBegin, OwnerFlushClean, OwnerFlushEnd, OwnerFlushYield, Device,
         WorkerBegin, WorkerEnd, ConsoleBegin, ConsoleEnd, Remount, Expire, RadioEnds, BeginWrite,
         storeVars, vars
<1>6. QED
  BY <1>3, <1>4, <1>5 DEF DmNext, OwnerStep, Continuation, Handler, Relays, Device

(* A row that has left the ring does not come back under its session.      *)
LEMMA GoneStays ==
  ASSUME TypeOK, OwnedOK, own.row # 0, Gone, [DmNext]_vars, ~Reboot PROVE ram'[own.row] = Absent
<1>1. own.row \in Rows /\ own.row # used + 1
  BY DeliveryAssumption DEF TypeOK, Owners, OwnedOK
<1>2. CASE Moves
  <2>1. PICK r, from, rev, to, then : Transition(r, from, rev, to, then)
    BY <1>2 DEF Moves
  <2>2. ram' = ram \/ (MatchesRow(r, from, rev, to) /\ ram' = [ram EXCEPT ![r] = Moved(@, to)])
    BY <2>1 DEF Transition
  <2>3. MatchesRow(r, from, rev, to) => r # own.row
    BY AbsentMovesNowhere DEF MatchesRow, Gone, Absent
  <2>4. QED
    BY <1>1, <2>2, <2>3 DEF Gone, TypeOK
<1>3. CASE Inserts
  BY <1>1, <1>3, InsertedRows DEF Inserts, Gone
<1>4. CASE HandleAck
  <2>1. ~MatchesRow(own.row, "awaiting_ack", own.rev, "acknowledged")
    BY DEF MatchesRow, Gone, Absent
  <2>2. QED
    BY <1>4, <2>1 DEF HandleAck, Gone
<1>5. CASE ConsoleClear
  BY <1>1, <1>5 DEF ConsoleClear, NoRows
<1>6. QED
  BY <1>2, <1>3, <1>4, <1>5, RowsStep DEF Gone

(* How the route of a session, and its one flood retry, change.            *)
LEMMA RouteStep ==
  ASSUME TypeOK, [DmNext]_vars, own'.row # 0, ~RetryAsFlood, ~AfterAppendReserve
  PROVE  /\ own'.row = own.row /\ own'.retried = own.retried
         /\ own'.direct => own.direct /\ ~(AfterRetryTx /\ ret = "ok")
         /\ own'.admitted =>
              \/ own.admitted
              \/ HandleAck /\ MatchesRow(own.row, "awaiting_ack", own.rev, "acknowledged")
<1>1. own \in Owners /\ NoOwner.row = 0
  BY DEF TypeOK, NoOwner
<1> DEFINE Same(next) == /\ next.row = own.row /\ next.retried = own.retried
                         /\ next.direct = own.direct /\ (next.admitted => own.admitted)
<1>2. Same(own)
  OBVIOUS
<1>3. ASSUME OwnerFlushClean \/ \E w, k : OwnerFlushEnd(w, k) PROVE Same(own')
  BY <1>1, <1>3 DEF OwnerFlushClean, OwnerFlushEnd, Publish, Owners
<1>4. ASSUME AfterNotSent \/ AfterOrphaned PROVE Same(own')
  BY <1>1, <1>4 DEF AfterNotSent, AfterOrphaned, ClearedIfTerminal
<1>5. ASSUME AfterAwaiting \/ Expire PROVE Same(own')
  BY <1>1, <1>5 DEF AfterAwaiting, Expire, Owners
<1>6. ASSUME AfterTimedOut PROVE Same(own')
  BY <1>1, <1>6 DEF AfterTimedOut, Owners
<1>7. ASSUME FailAckTimeout PROVE Same(own')
  BY <1>1, <1>7 DEF FailAckTimeout, DeadlineTaken, Owners
<1>8. ASSUME HandleAck
      PROVE  /\ own'.row = own.row /\ own'.retried = own.retried /\ own'.direct = own.direct
             /\ own'.admitted => MatchesRow(own.row, "awaiting_ack", own.rev, "acknowledged")
  BY <1>1, <1>8 DEF HandleAck, Owners
<1>9. ASSUME AfterRetryTx
      PROVE  /\ own'.row = own.row /\ own'.retried = own.retried /\ own'.admitted = own.admitted
             /\ own'.direct => own.direct /\ ret # "ok"
  BY <1>1, <1>9 DEF AfterRetryTx, Owners
<1>10. SendDm(TRUE) \/ SendDm(FALSE) \/ ReceiveDm \/ SendOther \/ RadioTxDone \/ RadioTxTimeout
      \/ OwnerFlushBegin \/ OwnerFlushYield \/ AfterAppendFail \/ Released \/ AfterReserved
      \/ AfterStarted \/ AfterTxDone \/ AfterRetryWait \/ Poll \/ Deferred \/ Maintain \/ NothingDue
      => UNCHANGED own
  BY DEF SendDm, ReceiveDm, SendOther, RadioTxDone, RadioTxTimeout, OwnerFlushBegin,
         OwnerFlushYield, AfterAppendFail, Released, AfterReserved, AfterStarted,
         AfterTxDone, AfterRetryWait, Poll, Deferred, Maintain, NothingDue
<1>11. WorkerBegin \/ ConsoleBegin \/ ConsoleClear \/ Remount \/ UNCHANGED vars
      \/ (\E w, k : WorkerEnd(w, k) \/ ConsoleEnd(w, k))
      \/ (\E phase \in {"done", "timeout"} : RadioEnds(phase))
      => UNCHANGED own
  BY DEF WorkerBegin, ConsoleBegin, ConsoleClear, Remount, WorkerEnd, ConsoleEnd, RadioEnds, vars
<1>12. ~ReconcileAck /\ ~Reboot
  BY <1>1 DEF ReconcileAck, Reboot
<1>13. AfterRetryTx /\ ret = "ok" => ~own'.direct
  BY <1>1 DEF AfterRetryTx, Owners
<1>14. DmNext /\ ~HandleAck /\ ~AfterRetryTx => Same(own')
  BY <1>2, <1>3, <1>4, <1>5, <1>6, <1>7, <1>10, <1>11, <1>12
     DEF DmNext, OwnerStep, FlushStep, Continuation, Maintenance, Handler
<1>15. CASE HandleAck
  BY <1>8, <1>13, <1>15
<1>16. CASE AfterRetryTx
  BY <1>9, <1>13, <1>16
<1>17. CASE ~HandleAck /\ ~AfterRetryTx
  <2>1. Same(own')
    BY <1>2, <1>11, <1>14, <1>17
  <2>2. QED
    BY <2>1, <1>17
<1>18. QED
  BY <1>15, <1>16, <1>17
(* A direct path is judged when its ACK is taken or when its one retry is; *)
(* a session that has retried and still has a direct route is giving up:   *)
(* it can no longer be acknowledged.                                       *)
GivingUp  == {"retryWait", "retryTx", "timedOut", "notSent"}
JudgedOK  == \A r \in Rows :
               verdict[r] # 0 => verdict[r] = 1 /\ r <= used /\ (Appending => call.row # r)
UnblameOK == own.row # 0 /\ ~own.retried => verdict[own.row] = 0
GiveUpOK  == own.row # 0 /\ own.retried /\ own.direct =>
               ~own.admitted /\ (Gone \/ Heading \in GivingUp)

LEMMA VerdictStep ==
  ASSUME [DmNext]_vars, ~ReconcileAck, ~RetryAsFlood PROVE verdict' = verdict
BY DEF DmNext, OwnerStep, FlushStep, Continuation, Maintenance, Handler, SendDm,
       AfterAppendReserve, AfterAppendFail, Released, AfterReserved, AfterStarted,
       AfterNotSent, AfterTxDone, AfterAwaiting, AfterOrphaned, AfterTimedOut,
       AfterRetryWait, AfterRetryTx, Poll, Deferred, Maintain,
       FailAckTimeout, NothingDue, ReceiveDm, SendOther, RadioTxDone, RadioTxTimeout,
       HandleAck, OwnerFlushBegin, OwnerFlushClean, OwnerFlushEnd, OwnerFlushYield,
       WorkerBegin, WorkerEnd, RadioEnds, Expire, ConsoleClear, ConsoleBegin,
       ConsoleEnd, Remount, Reboot, vars, historyVars

LEMMA TransitionHeads ==
  ASSUME NEW to, NEW then \in Moving, OwnTransition(to, then) PROVE Heading' = then
BY MovingPlaces DEF OwnTransition, Transition, Heading, InHand

(* A session that is giving up goes on doing so until it ends.             *)
LEMMA GivingUpStep ==
  ASSUME TypeOK, SInv, Heading \in GivingUp, [DmNext]_vars, own'.row # 0,
         ~(AfterRetryTx /\ ret = "ok")
  PROVE  Heading' \in GivingUp \/ Gone
<1> USE MoveTable, MovingPlaces DEF GivingUp
<1>1. CASE InHand
  <2>1. UNCHANGED <<pc, call>> \/ Reboot \/ OwnerFlushBegin \/ OwnerFlushYield
        \/ OwnerFlushClean \/ \E w, k : OwnerFlushEnd(w, k)
    BY <1>1 DEF InHand, DmNext, OwnerStep, FlushStep, Continuation, Maintenance, Handler, SendDm,
         AfterAppendReserve, AfterAppendFail, Released, AfterReserved, AfterStarted,
         AfterNotSent, AfterTxDone, AfterAwaiting, AfterOrphaned, AfterTimedOut,
         AfterRetryWait, AfterRetryTx, Poll, Deferred, Maintain, ReconcileAck, RetryAsFlood,
         FailAckTimeout, NothingDue, ReceiveDm, SendOther, RadioTxDone, RadioTxTimeout,
         HandleAck, OwnerIdle, WorkerBegin, WorkerEnd, RadioEnds, Expire, ConsoleClear,
         ConsoleBegin, ConsoleEnd, Remount, controlVars, vars
  <2>2. UNCHANGED <<pc, call>> \/ OwnerFlushBegin \/ OwnerFlushYield => Heading' = Heading
    BY <1>1 DEF OwnerFlushBegin, OwnerFlushYield, Heading, InHand
  <2>3. OwnerFlushClean \/ (\E w, k : OwnerFlushEnd(w, k)) => Heading' = Heading
    BY <1>1 DEF OwnerFlushClean, OwnerFlushEnd, Heading, InHand
  <2>4. ~Reboot
    BY DEF Reboot, NoOwner
  <2>5. QED
    BY <2>1, <2>2, <2>3, <2>4
<1>2. CASE ~InHand
  <2>1. pc = Heading
    BY <1>2 DEF Heading
  <2>2. UNCHANGED <<pc, call>> \/ Reboot \/ AfterNotSent \/ AfterTimedOut \/ AfterRetryWait
        \/ AfterRetryTx
    BY <2>1 DEF DmNext, OwnerStep, FlushStep, Continuation, Maintenance, Handler, SendDm,
         AfterAppendReserve, AfterAppendFail, Released, AfterReserved, AfterStarted,
         AfterTxDone, AfterAwaiting, AfterOrphaned,
         Poll, Deferred, Maintain, ReconcileAck, RetryAsFlood,
         FailAckTimeout, NothingDue, ReceiveDm, SendOther, RadioTxDone, RadioTxTimeout,
         HandleAck, OwnerIdle, OwnerFlushBegin, OwnerFlushClean, OwnerFlushEnd, OwnerFlushYield,
         WorkerBegin, WorkerEnd, RadioEnds, Expire, ConsoleClear,
         ConsoleBegin, ConsoleEnd, Remount, controlVars, vars
  <2>3. UNCHANGED <<pc, call>> => Heading' = Heading
    BY DEF Heading, InHand
  <2>4. ~Reboot
    BY DEF Reboot, NoOwner
  <2>5. ASSUME AfterNotSent \/ AfterTimedOut PROVE Gone
    <3>1. own.state \notin Terminal
      BY <2>5 DEF AfterNotSent, AfterTimedOut, ClearedIfTerminal, NoOwner
    <3>2. pc \in {"notSent", "timedOut"}
      BY <2>5 DEF AfterNotSent, AfterTimedOut
    <3>3. To(pc) \subseteq Terminal
      BY <3>2 DEF Terminal, Failed
    <3>4. QED
      BY <3>1, <3>2, <3>3, InMove
  <2>6. AfterRetryWait => Heading' \in GivingUp
    BY TransitionHeads DEF AfterRetryWait
  <2>7. AfterRetryTx => Heading' \in GivingUp
    BY TransitionHeads DEF AfterRetryTx, FailBeforeRadio
  <2>8. QED
    BY <2>1, <2>2, <2>3, <2>4, <2>5, <2>6, <2>7
<1>3. QED
  BY <1>1, <1>2

LEMMA GiveUpStep ==
  ASSUME TypeOK, OwnedOK, SInv, GiveUpOK, [DmNext]_vars PROVE GiveUpOK'
<1> SUFFICES ASSUME own'.row # 0, own'.retried, own'.direct
             PROVE  ~own'.admitted /\ (Gone' \/ Heading' \in GivingUp)
  BY DEF GiveUpOK
<1>1. CASE RetryAsFlood
  <2>1. own'.row = own.row /\ ~own'.admitted
    BY <1>1, TakenKeeps DEF RetryAsFlood, DeadlineDue
  <2>2. Heading' \in GivingUp
    BY <1>1, TransitionHeads, MovingPlaces DEF RetryAsFlood, GivingUp
  <2>3. QED
    BY <2>1, <2>2
<1>2. CASE AfterAppendReserve
  BY <1>2 DEF AfterAppendReserve, NoOwner
<1>3. CASE ~RetryAsFlood /\ ~AfterAppendReserve
  <2>1. own'.row = own.row /\ own.row # 0 /\ own.retried /\ own.direct
        /\ ~(AfterRetryTx /\ ret = "ok")
    BY <1>3, RouteStep
  <2>2. ~own.admitted /\ (Gone \/ Heading \in GivingUp)
    BY <2>1 DEF GiveUpOK
  <2>3. ~own'.admitted
    <3>1. HandleAck => Heading = "idle"
      BY DEF HandleAck, OwnerIdle, Heading, InHand
    <3>2. HandleAck => Gone
      BY <2>2, <3>1 DEF GivingUp
    <3>3. Gone => ~MatchesRow(own.row, "awaiting_ack", own.rev, "acknowledged")
      BY DEF Gone, MatchesRow, Absent
    <3>4. QED
      BY <1>3, <2>2, <3>2, <3>3, RouteStep
  <2>4. ~Reboot
    BY DEF Reboot, NoOwner
  <2>5. Gone => Gone'
    BY <2>1, <2>4, GoneStays DEF Gone
  <2>6. QED
    BY <2>1, <2>2, <2>3, <2>5, GivingUpStep
<1>4. QED
  BY <1>1, <1>2, <1>3

LEMMA JudgeStep ==
  ASSUME TypeOK, AppendOK, OwnedOK, SInv, JudgedOK, UnblameOK, GiveUpOK, [DmNext]_vars
  PROVE  JudgedOK' /\ UnblameOK'
<1>1. used \in Nat /\ used' \in Nat /\ used <= used' /\ \A r \in Rows : r # 0 /\ r \in Nat
  BY UsedGrows DEF Rows
<1>2. CASE ReconcileAck \/ RetryAsFlood
  <2>1. /\ own.row # 0 /\ own.row \in Rows /\ own.row <= used
        /\ verdict' = verdict \/ (verdict[own.row] = 0
                                  /\ verdict' = [verdict EXCEPT ![own.row] = @ + 1])
    <3>1. own.state = "awaiting_ack"
      BY <1>2 DEF ReconcileAck, RetryAsFlood, AckIsVisible, DeadlineDue
    <3>2. own.row # 0 /\ own.row \in Rows /\ own.row <= used
      BY <1>1, <3>1, Owned DEF TypeOK, Owners, OwnedOK
    <3>3. CASE ReconcileAck /\ own.direct
      <4>1. own.admitted
        BY <3>3 DEF ReconcileAck, AckIsVisible
      <4>2. ~own.retried
        BY <3>2, <3>3, <4>1 DEF GiveUpOK
      <4>3. QED
        BY <3>2, <3>3, <4>2 DEF ReconcileAck, UnblameOK
    <3>4. CASE ReconcileAck /\ ~own.direct
      BY <3>2, <3>4 DEF ReconcileAck
    <3>5. CASE RetryAsFlood
      BY <3>2, <3>5 DEF RetryAsFlood, RetryDue, UnblameOK
    <3>6. QED
      BY <1>2, <3>3, <3>4, <3>5
  <2>2. ~Appending'
    BY <1>2, RelaysLeaveAppend DEF Relays, Maintenance, Settled
  <2>3. \A r \in Rows : verdict'[r] = verdict[r]
                          \/ (r = own.row /\ verdict'[r] = 1)
    BY <2>1 DEF TypeOK, Nats
  <2>4. JudgedOK'
    BY <1>1, <2>1, <2>2, <2>3 DEF JudgedOK
  <2>5. own'.row = 0 \/ own'.retried
    BY <1>2, TakenKeeps DEF ReconcileAck, RetryAsFlood, NoOwner
  <2>6. QED
    BY <2>4, <2>5 DEF UnblameOK
<1>3. CASE ~ReconcileAck /\ ~RetryAsFlood
  <2>1. verdict' = verdict
    BY <1>3, VerdictStep
  <2>2. JudgedOK'
    <3> SUFFICES ASSUME NEW r \in Rows, verdict'[r] # 0
                 PROVE  verdict'[r] = 1 /\ r <= used' /\ (Appending' => call'.row # r)
      BY DEF JudgedOK
    <3>1. verdict[r] = 1 /\ r <= used /\ (Appending => call.row # r)
      BY <2>1 DEF JudgedOK
    <3>2. ASSUME NEW direct \in BOOLEAN, SendDm(direct), Appending' PROVE call'.row # r
      <4>1. CASE RingRefuses
        BY <3>2, <4>1, ContinueLeavesAppend, StatesTyped DEF SendDm, Settled
      <4>2. CASE ~RingRefuses
        BY <1>1, <3>1, <3>2, <4>2 DEF SendDm
      <4>3. QED
        BY <4>1, <4>2
    <3>3. QED
      BY <1>1, <2>1, <3>1, <3>2, AppendKept
  <2>3. UnblameOK'
    <3> SUFFICES ASSUME own'.row # 0, ~own'.retried PROVE verdict[own'.row] = 0
      BY <2>1 DEF UnblameOK
    <3>1. CASE AfterAppendReserve
      <4>1. own'.row = call.row /\ Appending /\ call.row \in Rows
        BY <3>1, DeliveryAssumption
           DEF AfterAppendReserve, NoOwner, Appending, AppendOK, TypeOK, Rows
      <4>2. QED
        BY <4>1 DEF JudgedOK
    <3>2. CASE ~AfterAppendReserve
      BY <1>3, <3>2, RouteStep DEF UnblameOK
    <3>3. QED
      BY <3>1, <3>2
  <2>4. QED
    BY <2>2, <2>3
<1>4. QED
  BY <1>2, <1>3

(* A direct path is blamed or credited at most once for a message, however *)
(* often its deadline is armed again and whatever becomes of its row.      *)
THEOREM OnePathVerdict == Spec => []PathJudgedOnce
<1>1. DmInit => JudgedOK /\ UnblameOK /\ GiveUpOK
  BY DEF DmInit, JudgedOK, UnblameOK, GiveUpOK, NoOwner
<1>2. TypeOK /\ AppendOK /\ OwnedOK /\ SInv /\ JudgedOK /\ UnblameOK /\ GiveUpOK /\ [DmNext]_vars
        => JudgedOK' /\ UnblameOK' /\ GiveUpOK'
  BY JudgeStep, GiveUpStep
<1>3. JudgedOK => PathJudgedOnce
  <2> SUFFICES ASSUME JudgedOK, NEW r \in Rows PROVE verdict[r] <= 1
    BY DEF PathJudgedOnce
  <2>1. verdict[r] = 0 \/ verdict[r] = 1
    BY DEF JudgedOK
  <2>2. QED
    BY <2>1
<1>4. QED
  BY <1>1, <1>2, <1>3, SessionInductive, PTL DEF Spec
(* What no flag calls dirty is on the medium, and in any snapshot that is  *)
(* being written; and so is the row of a session whose TX_ACTIVE returned  *)
(* without an error.                                                       *)
CleanDiskOK == ~dirty => disk = ram /\ (io.by # "none" => io.rows = ram)
OnMedium(r) == disk[r] = ram[r] /\ (io.by # "none" => io.rows[r] = ram[r])
StartedOK   == pc = "started" /\ ret = "ok" /\ own.row # 0 /\ ~Gone => OnMedium(own.row)

Memory == UNCHANGED <<disk, io>> /\ (dirty' = TRUE \/ UNCHANGED <<ram, dirty>>)

LEMMA RelaysMemory ==
  ASSUME Relays \/ \E direct \in BOOLEAN : SendDm(direct) PROVE Memory
<1> USE DEF Memory
<1>1. \A to, then : OwnTransition(to, then) => dirty' = TRUE \/ UNCHANGED <<ram, dirty>>
  BY DEF OwnTransition, Transition
<1>2. FailBeforeRadio => dirty' = TRUE \/ UNCHANGED <<ram, dirty>>
  BY <1>1 DEF FailBeforeRadio
<1>3. AfterAppendReserve \/ AfterAppendFail => Memory
  BY DEF AfterAppendReserve, AfterAppendFail, Transition
<1>4. Released \/ AfterNotSent \/ AfterAwaiting \/ AfterOrphaned \/ AfterTimedOut \/ Poll
      \/ Deferred \/ ReconcileAck \/ NothingDue \/ SendOther => Memory
  BY DEF Released, AfterNotSent, AfterAwaiting, AfterOrphaned, AfterTimedOut, Poll, Deferred,
         ReconcileAck, NothingDue, SendOther, storeVars
<1>5. AfterReserved \/ AfterStarted \/ AfterTxDone \/ AfterRetryWait \/ AfterRetryTx
      \/ RetryAsFlood \/ FailAckTimeout \/ Maintain \/ RadioTxDone \/ RadioTxTimeout => Memory
  BY <1>1, <1>2 DEF AfterReserved, AfterStarted, AfterTxDone, AfterRetryWait, AfterRetryTx,
                    RetryAsFlood, FailAckTimeout, Maintain, RadioTxDone, RadioTxTimeout
<1>6. ReceiveDm \/ (\E direct \in BOOLEAN : SendDm(direct)) \/ HandleAck => Memory
  BY DEF ReceiveDm, SendDm, Insert, HandleAck
<1>7. QED
  BY <1>3, <1>4, <1>5, <1>6 DEF Relays, Maintenance

(* The three writers: what their steps do to the media.                    *)
Writes(o) == io.by # "none" /\ Commit(o.written, o.ok) /\ UNCHANGED ram

LEMMA MediaStep ==
  ASSUME WriteOK, [DmNext]_vars
  PROVE  \/ Memory
         \/ \E by \in {"owner", "worker", "console"} : BeginWrite(by)
         \/ \E o \in PossibleOutcomes : Writes(o)
         \/ ConsoleClear \/ Reboot
         \/ OwnerFlushYield
<1>1. OwnerFlushBegin \/ WorkerBegin \/ ConsoleBegin
        => \E by \in {"owner", "worker", "console"} : BeginWrite(by)
  BY DEF OwnerFlushBegin, WorkerBegin, ConsoleBegin
<1>2. ASSUME NEW o \in PossibleOutcomes,
             \/ OwnerFlushEnd(o.written, o.ok) \/ WorkerEnd(o.written, o.ok)
             \/ ConsoleEnd(o.written, o.ok)
      PROVE  Writes(o)
  BY <1>2 DEF OwnerFlushEnd, WorkerEnd, ConsoleEnd, WriteOK, Writes
<1>3. OwnerFlushClean \/ Remount \/ Expire \/ UNCHANGED vars
      \/ (\E phase \in {"done", "timeout"} : RadioEnds(phase)) => Memory
  BY DEF OwnerFlushClean, Remount, Expire, RadioEnds, storeVars, vars, Memory
<1>4. QED
  BY <1>1, <1>2, <1>3, RelaysMemory
     DEF DmNext, OwnerStep, FlushStep, Continuation, Handler, Relays

LEMMA CleanDiskStep ==
  ASSUME TypeOK, WriteOK, CleanDiskOK, [DmNext]_vars PROVE CleanDiskOK'
<1>1. Memory => CleanDiskOK'
  BY DEF Memory, CleanDiskOK
<1>2. (\E by \in {"owner", "worker", "console"} : BeginWrite(by)) => CleanDiskOK'
  BY DEF BeginWrite, CleanDiskOK
<1>3. ASSUME NEW o \in PossibleOutcomes, Writes(o) PROVE CleanDiskOK'
  <2>1. o.ok => o.written
    BY DEF PossibleOutcomes, WriteOutcomes
  <2>2. io'.by = "none"
    BY <1>3 DEF Writes, Commit, NoIo
  <2>3. QED
    BY <1>3, <2>1, <2>2 DEF Writes, Commit, CleanDiskOK
<1>4. ConsoleClear => CleanDiskOK'
  BY DEF ConsoleClear, CleanDiskOK
<1>5. Reboot => CleanDiskOK'
  <2> SUFFICES ASSUME Reboot, ~dirty' PROVE disk' = ram' /\ io'.by = "none"
    BY DEF CleanDiskOK
  <2>1. dirty' = (ram' # disk) /\ disk' = disk /\ io'.by = "none"
    BY DEF Reboot, NoIo
  <2>2. QED
    BY <2>1, Zenon
<1>6. OwnerFlushYield => CleanDiskOK'
  BY DEF OwnerFlushYield, CleanDiskOK, NoIo
<1>7. QED
  BY <1>1, <1>2, <1>3, <1>4, <1>5, <1>6, MediaStep

(* What goes on beside the owner task.                                     *)
Aside == \/ Device \/ Expire \/ UNCHANGED vars
         \/ \E phase \in {"done", "timeout"} : RadioEnds(phase)

(* TX_ACTIVE is believed persisted only when a flush says so.              *)
LEMMA RelaysNeverStart ==
  ASSUME Relays \/ \E direct \in BOOLEAN : SendDm(direct) PROVE ~(pc' = "started" /\ ret' = "ok")
<1>1. \A to, then : OwnTransition(to, then) => pc' = "flush" \/ ret' = "error"
  BY DEF OwnTransition, Transition
<1>2. FailBeforeRadio => pc' = "flush" \/ ret' = "error"
  BY <1>1 DEF FailBeforeRadio
<1>3. AfterAppendReserve \/ AfterAppendFail => pc' = "flush" \/ ret' = "error"
  BY DEF AfterAppendReserve, AfterAppendFail, Transition
<1>4. Released \/ AfterNotSent \/ AfterAwaiting \/ AfterOrphaned \/ AfterTimedOut \/ Poll
      \/ Deferred \/ ReconcileAck \/ NothingDue \/ SendOther \/ ReceiveDm \/ HandleAck
      => pc' # "started"
  BY DEF Released, AfterNotSent, AfterAwaiting, AfterOrphaned, AfterTimedOut, Poll, Deferred,
         ReconcileAck, NothingDue, SendOther, ReceiveDm, HandleAck, Continue
<1>5. AfterReserved \/ AfterStarted \/ AfterTxDone \/ AfterRetryWait \/ AfterRetryTx
      \/ RetryAsFlood \/ FailAckTimeout \/ Maintain \/ RadioTxDone \/ RadioTxTimeout
      => pc' # "started" \/ ret' = "error"
  BY <1>1, <1>2 DEF AfterReserved, AfterStarted, AfterTxDone, AfterRetryWait, AfterRetryTx, Continue,
                    RetryAsFlood, FailAckTimeout, Maintain, RadioTxDone, RadioTxTimeout
<1>6. (\E direct \in BOOLEAN : SendDm(direct)) => pc' # "started"
  BY DEF SendDm, Continue
<1>7. QED
  BY <1>3, <1>4, <1>5, <1>6 DEF Relays, Maintenance

LEMMA SentStep ==
  ASSUME TypeOK, [DmNext]_vars, NEW r \in Rows, sent'[r] # sent[r]
  PROVE  AfterStarted /\ ret = "ok" /\ r = own.row
<1>1. CASE AfterStarted
  <2>1. ret = "ok" /\ sent' = [sent EXCEPT ![own.row][own.attempt] = @ + 1]
    BY <1>1 DEF AfterStarted
  <2>2. QED
    BY <1>1, <2>1 DEF TypeOK
<1>2. CASE ~AfterStarted
  <2>1. sent' = sent
    BY <1>2 DEF DmNext, OwnerStep, FlushStep, Continuation, Maintenance, Handler, SendDm,
       AfterAppendReserve, AfterAppendFail, Released, AfterReserved,
       AfterNotSent, AfterTxDone, AfterAwaiting, AfterOrphaned, AfterTimedOut,
       AfterRetryWait, AfterRetryTx, Poll, Deferred, Maintain, ReconcileAck, RetryAsFlood,
       FailAckTimeout, NothingDue, ReceiveDm, SendOther, RadioTxDone, RadioTxTimeout,
       HandleAck, OwnerFlushBegin, OwnerFlushClean, OwnerFlushEnd, OwnerFlushYield,
       WorkerBegin, WorkerEnd, RadioEnds, Expire, ConsoleClear, ConsoleBegin,
       ConsoleEnd, Remount, Reboot, vars, historyVars
  <2>2. QED
    BY <2>1
<1>3. QED
  BY <1>1, <1>2

LEMMA StartedStep ==
  ASSUME TypeOK, SInv, WriteOK, CleanDiskOK, StartedOK, [DmNext]_vars PROVE StartedOK'
<1> SUFFICES ASSUME pc' = "started", ret' = "ok", own'.row # 0, ram'[own'.row] # Absent
             PROVE  disk'[own'.row] = ram'[own'.row]
                    /\ (io'.by # "none" => io'.rows[own'.row] = ram'[own'.row])
  BY DEF StartedOK, OnMedium, Gone
<1>1. CASE OwnerFlushClean
  <2>1. own'.row = own.row
    BY <1>1 DEF OwnerFlushClean, Publish, TypeOK, Owners
  <2>2. QED
    BY <1>1, <2>1 DEF OwnerFlushClean, CleanDiskOK
<1>2. ASSUME NEW o \in PossibleOutcomes, OwnerFlushEnd(o.written, o.ok)
      PROVE  disk' = ram' /\ io'.by = "none"
  <2>1. o.ok /\ ram = io.rows /\ o.written
    BY <1>2 DEF OwnerFlushEnd, PossibleOutcomes, WriteOutcomes
  <2>2. QED
    BY <1>2, <2>1 DEF OwnerFlushEnd, Commit, NoIo
<1>3. CASE Aside
  <2>1. pc = "started" /\ ret = "ok" /\ own'.row = own.row /\ own.row # 0 /\ UNCHANGED ram
    <3>1. ~Reboot
      BY DEF Reboot
    <3>2. UNCHANGED <<pc, ret>>
      BY <1>3, <3>1 DEF Aside, Device, WorkerBegin, WorkerEnd, ConsoleClear, ConsoleBegin, ConsoleEnd,
                        Remount, Expire, RadioEnds, controlVars, vars
    <3>3. ~AfterAppendReserve /\ ~RetryAsFlood
      BY <3>2 DEF AfterAppendReserve, RetryAsFlood
    <3>4. own'.row = own.row
      BY <3>3, RouteStep
    <3>5. own.row \in Rows
      BY <3>4 DEF TypeOK, Owners
    <3>6. ~ConsoleClear
      BY <3>4, <3>5 DEF ConsoleClear, NoRows
    <3>7. UNCHANGED ram
      BY <1>3, <3>1, <3>6
         DEF Aside, Device, WorkerBegin, WorkerEnd, ConsoleBegin, ConsoleEnd, BeginWrite,
             Remount, Expire, RadioEnds, storeVars, vars
    <3>8. QED
      BY <3>2, <3>4, <3>7
  <2>2. OnMedium(own.row)
    BY <2>1 DEF StartedOK, Gone
  <2>3. Memory => OnMedium(own.row)'
    BY <2>1, <2>2 DEF Memory, OnMedium
  <2>4. (\E by \in {"owner", "worker", "console"} : BeginWrite(by)) => OnMedium(own.row)'
    BY <2>1, <2>2 DEF BeginWrite, OnMedium
  <2>5. ASSUME NEW o \in PossibleOutcomes, Writes(o) PROVE OnMedium(own.row)'
    <3>1. io.by # "none" /\ disk' \in {disk, io.rows} /\ io'.by = "none"
      BY <2>5 DEF Writes, Commit, NoIo
    <3>2. QED
      BY <2>1, <2>2, <3>1 DEF OnMedium
  <2>6. ~ConsoleClear /\ ~Reboot /\ ~OwnerFlushYield
    <3>1. own.row \in Rows
      BY <2>1 DEF TypeOK, Owners
    <3>2. QED
      BY <2>1, <3>1 DEF ConsoleClear, NoRows, Reboot, OwnerFlushYield
  <2>7. QED
    BY <2>1, <2>3, <2>4, <2>5, <2>6, MediaStep DEF OnMedium
<1>4. QED
  BY <1>1, <1>2, <1>3, RelaysNeverStart
     DEF DmNext, OwnerStep, FlushStep, Continuation, Handler, Relays, Aside, Device,
         OwnerFlushBegin, OwnerFlushYield

(* Nothing goes on the air before the medium holds TX_ACTIVE with the      *)
(* attempt that is sent, whatever fails, is cleared or loses power: no     *)
(* reboot takes a message that went out for one that did not.              *)
THEOREM SentAfterDurable == Spec => RfOnlyAfterDurable
<1> DEFINE DInv == /\ TypeOK /\ AppendOK /\ OwnedOK /\ SInv
                   /\ WriteOK /\ CleanDiskOK /\ StartedOK
<1>1. DmInit => DInv
  BY SessionInductive DEF DmInit, WriteOK, CleanDiskOK, StartedOK, NoIo
<1>2. DInv /\ [DmNext]_vars => DInv'
  BY SessionInductive, WriteStep, CleanDiskStep, StartedStep
<1>3. ASSUME DInv, [DmNext]_vars, NEW r \in Rows, sent'[r] # sent[r], ram[r] # Absent
      PROVE  disk[r].state = "tx_active" /\ disk[r].attempt = own.attempt
  <2>1. AfterStarted /\ ret = "ok" /\ r = own.row
    BY <1>3, SentStep
  <2>2. pc = "started" /\ pc \in Moving /\ ~Gone /\ r # 0
    BY <1>3, <2>1, MovingPlaces DEF AfterStarted, Gone, Rows
  <2>3. disk[r] = ram[r]
    BY <1>3, <2>1, <2>2 DEF StartedOK, OnMedium
  <2>4. own.state = "tx_active" /\ ~own.admitted
    BY <1>3, <2>1, <2>2, InMove, MoveTable
  <2>5. ram[r].state = own.state /\ ram[r].attempt = own.attempt
    BY <1>3, <2>1, <2>2, <2>4 DEF SInv, OwnerMatchesRow, Persisting, Gone
  <2>6. QED
    BY <2>3, <2>4, <2>5
<1>4. DInv /\ [DmNext]_vars =>
        [\A r \in Rows : sent'[r] # sent[r] /\ ram[r] # Absent =>
           disk[r].state = "tx_active" /\ disk[r].attempt = own.attempt]_vars
  BY <1>3
<1>5. QED
  BY <1>1, <1>2, <1>4, PTL DEF Spec, RfOnlyAfterDurable
=============================================================================
