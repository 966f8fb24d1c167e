------------------------- MODULE ConnectivityProofs -------------------------
(* Proofs about Connectivity, for any number of users, operations, resets   *)
(* and faults and any limits of retries and crashes.                        *)
(*                                                                          *)
(* The inductive invariant IInv joins the types to seven parts: who holds   *)
(* the control mutex (LockOK), what a boot that was not counted and a       *)
(* driver that is stopped are like (BootOK, StoppedOK), who will take down  *)
(* a link and a flag that were turned off (LinkOK, ConnectingOK), which     *)
(* loss is queued behind a flag that still shows a link (QueueOK), and what *)
(* the record in NVS knows of a row of crashes (CrashOK).                   *)
EXTENDS Connectivity, TLAPS

----------------------------------------------------------------------------
(* The type invariant by parts.                                             *)

Policies == [enabled : BOOLEAN, cancelled : BOOLEAN, safe : BOOLEAN,
             state : States, sched : BOOLEAN, attempt : 0..MaxAttempts]
Events   == {"start", "connected", "gotip", "lost", "auth", "leave"}
Acks     == [when : {"off", "armed", "due"}, fresh : BOOLEAN]
Places   == {"idle"} \cup ConnectPlaces \cup LeavePlaces \cup DisablePlaces
            \cup EnablePlaces \cup ScanPlaces

PolicyOK == policy \in Policies
GuardOK  == /\ saved \in [rec : Records, valid : BOOLEAN]
            /\ guard \in [rec : Records, ready : BOOLEAN]
            /\ ack \in Acks /\ ackTaken \in BOOLEAN
StationOK == /\ started \in BOOLEAN /\ link \in {"down", "joining", "joined", "up"}
             /\ events \in Seq(Events)
             /\ handling \in {"none", "accepted", "rejected"}
             /\ connected \in BOOLEAN /\ connecting \in BOOLEAN /\ token \in BOOLEAN
PlaceOK  == /\ phase \in {"boot", "run"} /\ crashed \in BOOLEAN /\ setting \in BOOLEAN
            /\ control \in Tasks \cup {Nobody, Worker} /\ pc \in [Tasks -> Places]
            /\ worker \in {"look", "sleep", "wait", "take", "retry", "join", "failed", "ack"}
            /\ notified \in BOOLEAN /\ auto \in BOOLEAN /\ untold \in BOOLEAN
CountOK  == spent \in 0..MaxSpent /\ loops \in Nat /\ loops <= spent + 1

Typed == PolicyOK /\ GuardOK /\ StationOK /\ PlaceOK /\ CountOK

LEMMA TypedIsTypeOK == Typed => TypeOK
<1>1. CountOK => loops \in 0..(MaxSpent + 1)
  BY NumbersAssumption DEF CountOK
<1>2. QED
  BY <1>1 DEF Typed, PolicyOK, GuardOK, StationOK, PlaceOK, CountOK, Policies, Events, Acks, Places,
              TypeOK

----------------------------------------------------------------------------
(* What the policy's operations return, and what they leave alone.          *)

SameMind(p, q) == /\ q.enabled = p.enabled /\ q.cancelled = p.cancelled
                  /\ q.safe = p.safe

LEMMA StateTyped ==
  ASSUME NEW p \in Policies, NEW state \in States
  PROVE  [p EXCEPT !.state = state] \in Policies /\ SameMind(p, [p EXCEPT !.state = state])
BY DEF Policies, SameMind

LEMMA IdleTyped ==
  ASSUME NEW p \in Policies PROVE Idle(p) \in Policies /\ SameMind(p, Idle(p))
<1> DEFINE state == IF ~p.enabled \/ p.cancelled THEN "off"
                    ELSE IF p.safe THEN "safe" ELSE "starting"
<1>1. state \in States
  BY DEF States
<1>2. Idle(p) = [p EXCEPT !.state = state]
  BY DEF Idle
<1> HIDE DEF state
<1>3. QED
  BY <1>1, <1>2, StateTyped

LEMMA NoRetryTyped ==
  ASSUME NEW p \in Policies PROVE NoRetry(p) \in Policies /\ SameMind(p, NoRetry(p))
<1> 0 \in 0..MaxAttempts
  BY NumbersAssumption
<1>1. QED
  BY DEF NoRetry, Policies, SameMind

LEMMA SchedTyped ==
  ASSUME NEW p \in Policies, NEW b \in BOOLEAN
  PROVE  [p EXCEPT !.sched = b] \in Policies /\ SameMind(p, [p EXCEPT !.sched = b])
BY DEF Policies, SameMind

LEMMA SameMindChains ==
  ASSUME NEW p, NEW q, NEW r, SameMind(p, q), SameMind(q, r) PROVE SameMind(p, r)
BY DEF SameMind

LEMMA MarksTyped ==
  ASSUME NEW p \in Policies
  PROVE  /\ MarkStarting(p) \in Policies /\ SameMind(p, MarkStarting(p))
         /\ MarkConnecting(p) \in Policies /\ SameMind(p, MarkConnecting(p))
         /\ Connected(p) \in Policies /\ SameMind(p, Connected(p))
         /\ FinishScan(p) \in Policies /\ SameMind(p, FinishScan(p))
<1>1. {"connecting", "connected", "backoff", "starting"} \subseteq States
  BY DEF States
<1>2. SameMind(p, p)
  BY DEF SameMind
<1>3. MarkStarting(p) \in Policies /\ SameMind(p, MarkStarting(p))
  BY <1>2, IdleTyped DEF MarkStarting
<1>4. MarkConnecting(p) \in Policies /\ SameMind(p, MarkConnecting(p))
  BY <1>1, IdleTyped, StateTyped DEF MarkConnecting
<1>5. Connected(p) \in Policies /\ SameMind(p, Connected(p))
  <2>1. NoRetry(p) \in Policies /\ SameMind(p, NoRetry(p))
    BY NoRetryTyped
  <2>2. QED
    BY <1>1, <2>1, IdleTyped, StateTyped, SameMindChains DEF Connected
<1>6. FinishScan(p) \in Policies /\ SameMind(p, FinishScan(p))
  BY <1>1, IdleTyped, StateTyped DEF FinishScan
<1>7. QED
  BY <1>3, <1>4, <1>5, <1>6

LEMMA LossTyped ==
  ASSUME NEW p \in Policies, NEW auth, NEW q \in AfterLoss(p, auth)
  PROVE  q \in Policies /\ SameMind(p, q)
<1> DEFINE p0 == [p EXCEPT !.sched = FALSE]
<1>1. p0 \in Policies /\ SameMind(p, p0) /\ p0.attempt = p.attempt
  BY SchedTyped DEF Policies
<1> HIDE DEF p0
<1>2. {"auth_failed", "unavailable", "backoff"} \subseteq States
  BY DEF States
<1>3. CASE q = Idle(p0)
  BY <1>1, <1>3, IdleTyped, SameMindChains
<1>4. CASE q = [NoRetry(p0) EXCEPT !.state = "auth_failed"]
  <2>1. NoRetry(p0) \in Policies /\ SameMind(p, NoRetry(p0))
    BY <1>1, NoRetryTyped, SameMindChains
  <2>2. QED
    BY <1>2, <1>4, <2>1, StateTyped, SameMindChains
<1>5. CASE q = [p0 EXCEPT !.state = "unavailable"]
  BY <1>1, <1>2, <1>5, StateTyped, SameMindChains
<1>6. CASE q = [p0 EXCEPT !.state = "backoff", !.sched = TRUE, !.attempt = @ + 1]
           /\ p.attempt < MaxAttempts
  <2>1. p0.attempt + 1 \in 0..MaxAttempts
    BY <1>1, <1>6, NumbersAssumption DEF Policies
  <2>2. q \in Policies /\ SameMind(p0, q)
    BY <1>1, <1>2, <1>6, <2>1 DEF Policies, SameMind
  <2>3. QED
    BY <1>1, <2>2, SameMindChains
<1>7. [p0 EXCEPT !.state = "unavailable"].sched = FALSE
      /\ [p0 EXCEPT !.state = "backoff", !.sched = TRUE, !.attempt = @ + 1].sched = TRUE
  BY <1>1 DEF Policies, p0
<1>8. q \in IF ~Allowed(p) THEN {Idle(p0)}
            ELSE IF auth THEN {[NoRetry(p0) EXCEPT !.state = "auth_failed"]}
            ELSE {r \in {[p0 EXCEPT !.state = "unavailable"],
                         [p0 EXCEPT !.state = "backoff", !.sched = TRUE, !.attempt = @ + 1]} :
                    IF r.sched THEN p.attempt < MaxAttempts ELSE p.attempt > 0}
  BY DEF AfterLoss, p0
<1>9. QED
  BY <1>3, <1>4, <1>5, <1>6, <1>7, <1>8

LEMMA UserTyped ==
  ASSUME NEW p \in Policies, NEW on \in BOOLEAN
  PROVE  /\ BeginConnect(p) \in Policies /\ BeginConnect(p).enabled = p.enabled
         /\ ~BeginConnect(p).cancelled /\ ~BeginConnect(p).safe
         /\ Cancel(p) \in Policies
         /\ Disable(p) \in Policies
         /\ SafeMode(p) \in Policies /\ SafeMode(p).enabled = p.enabled /\ ~SafeMode(p).cancelled
         /\ Configure(p, on) \in Policies /\ Configure(p, on).enabled = on
<1>1. ASSUME NEW q \in Policies PROVE NoRetry(q) \in Policies /\ SameMind(q, NoRetry(q))
  BY NoRetryTyped
<1>2. BeginConnect(p) \in Policies /\ BeginConnect(p).enabled = p.enabled
      /\ ~BeginConnect(p).cancelled /\ ~BeginConnect(p).safe
  <2> DEFINE q == [p EXCEPT !.cancelled = FALSE, !.safe = FALSE]
  <2>1. q \in Policies /\ q.enabled = p.enabled /\ ~q.cancelled /\ ~q.safe
    BY DEF Policies
  <2>2. BeginConnect(p) = Idle(NoRetry(q))
    BY DEF BeginConnect
  <2> HIDE DEF q
  <2>3. Idle(NoRetry(q)) \in Policies /\ SameMind(q, Idle(NoRetry(q)))
    BY <2>1, NoRetryTyped, IdleTyped, SameMindChains
  <2>4. QED
    BY <2>1, <2>2, <2>3 DEF SameMind
<1>3. Cancel(p) \in Policies /\ Disable(p) \in Policies /\ SafeMode(p) \in Policies
      /\ SafeMode(p).enabled = p.enabled /\ ~SafeMode(p).cancelled
  <2> DEFINE q == NoRetry(p)
  <2>1. q \in Policies /\ q.enabled = p.enabled
    BY NoRetryTyped DEF SameMind
  <2>2. /\ Cancel(p) = [q EXCEPT !.cancelled = TRUE, !.state = "off"]
        /\ Disable(p) = [q EXCEPT !.enabled = FALSE, !.cancelled = FALSE, !.safe = FALSE,
                                  !.state = "off"]
        /\ SafeMode(p) = [q EXCEPT !.safe = TRUE, !.cancelled = FALSE, !.state = "safe"]
    BY DEF Cancel, Disable, SafeMode
  <2> HIDE DEF q
  <2>3. QED
    BY <2>1, <2>2 DEF Policies, States
<1>4. Configure(p, on) \in Policies /\ Configure(p, on).enabled = on
  <2> DEFINE q == [p EXCEPT !.enabled = on, !.cancelled = FALSE, !.safe = FALSE]
  <2>1. q \in Policies /\ q.enabled = on
    BY DEF Policies
  <2>2. Configure(p, on) = Idle(NoRetry(q))
    BY DEF Configure
  <2> HIDE DEF q
  <2>3. Idle(NoRetry(q)) \in Policies /\ SameMind(q, Idle(NoRetry(q)))
    BY <2>1, NoRetryTyped, IdleTyped, SameMindChains
  <2>4. QED
    BY <2>1, <2>2, <2>3 DEF SameMind
<1>5. QED
  BY <1>2, <1>3, <1>4

LEMMA FreshTyped ==
  ASSUME NEW on \in BOOLEAN
  PROVE  /\ FreshPolicy(on) \in Policies /\ FreshPolicy(on).enabled = on
         /\ ~FreshPolicy(on).cancelled /\ ~FreshPolicy(on).safe
<1> DEFINE p == [enabled |-> on, cancelled |-> FALSE, safe |-> FALSE,
                 state |-> "off", sched |-> FALSE, attempt |-> 0]
<1>1. p \in Policies
  BY NumbersAssumption DEF Policies, States
<1>2. FreshPolicy(on) = Idle(p)
  BY DEF FreshPolicy
<1>3. QED
  BY <1>1, <1>2, IdleTyped DEF SameMind
----------------------------------------------------------------------------
(* Every step keeps the types.                                              *)

\* What the event task and the worker do to the policy leaves what the user
\* asked for alone.
LEMMA EventMind ==
  ASSUME PolicyOK, EventStep PROVE policy' \in Policies /\ SameMind(policy, policy')
<1>1. policy \in Policies /\ SameMind(policy, policy)
  BY DEF PolicyOK, SameMind
<1>2. CASE Unhandled
  BY <1>1, <1>2 DEF Unhandled
<1>3. CASE OnStart
  BY <1>1, <1>3, MarksTyped DEF OnStart
<1>4. CASE OnConnected
  BY <1>1, <1>4, MarksTyped DEF OnConnected
<1>5. CASE OnGotIp
  BY <1>1, <1>5, MarksTyped DEF OnGotIp
<1>6. CASE GotIpFlags
  BY <1>1, <1>6 DEF GotIpFlags
<1>7. ASSUME NEW reason \in {"lost", "auth", "leave"}, OnLoss(reason)
      PROVE  policy' \in Policies /\ SameMind(policy, policy')
  BY <1>1, <1>7, LossTyped DEF OnLoss
<1>8. QED
  BY <1>2, <1>3, <1>4, <1>5, <1>6, <1>7 DEF EventStep

LEMMA WorkerMind ==
  ASSUME PolicyOK, WorkerStep PROVE policy' \in Policies /\ SameMind(policy, policy')
<1>1. policy \in Policies /\ SameMind(policy, policy)
  BY DEF PolicyOK, SameMind
<1>2. CASE Retry
  <2>1. {"connecting", "unavailable"} \subseteq States
    BY DEF States
  <2>2. ASSUME NEW s \in {"connecting", "unavailable"}
        PROVE  /\ [policy EXCEPT !.sched = FALSE, !.state = s] \in Policies
               /\ SameMind(policy, [policy EXCEPT !.sched = FALSE, !.state = s])
    BY <1>1, <2>1, <2>2 DEF Policies, SameMind
  <2>3. policy' \in {policy, [policy EXCEPT !.sched = FALSE, !.state = "connecting"],
                     [policy EXCEPT !.sched = FALSE, !.state = "unavailable"]}
    BY <1>2 DEF Retry
  <2>4. QED
    BY <1>1, <2>2, <2>3
<1>3. CASE JoinFailed
  BY <1>1, <1>3, LossTyped DEF JoinFailed
<1>4. CASE Look \/ Sleep \/ Wait \/ WorkerTake \/ Join \/ Acknowledge
  BY <1>1, <1>4 DEF Look, Sleep, Wait, WorkerTake, Join, Acknowledge
<1>5. QED
  BY <1>2, <1>3, <1>4 DEF WorkerStep

\* A caller changes it only to turn Wi-Fi off, to stay safe, or to enable.
LEMMA CallerMind ==
  ASSUME PolicyOK, NEW t \in Tasks, CallerStep(t)
  PROVE  /\ policy' \in Policies
         /\ \/ SameMind(policy, policy')
            \/ Mark(t) /\ pc[t] = "mark" /\ MarkFails /\ policy' = SafeMode(policy)
            \/ (Start(t) \/ ConnectFails(t) \/ Save(t)) /\ policy' = Disable(policy)
            \/ Enable(t) /\ policy' = BeginConnect(Configure(policy, TRUE))
<1>1. policy \in Policies /\ SameMind(policy, policy)
  BY DEF PolicyOK, SameMind
<1>2. SafeMode(policy) \in Policies /\ Disable(policy) \in Policies
  BY <1>1, UserTyped
<1>3. CASE Mark(t)
  BY <1>1, <1>2, <1>3 DEF Mark, At
<1>4. CASE Start(t)
  BY <1>1, <1>2, <1>4 DEF Start
<1>5. CASE ConnectFails(t) \/ Save(t)
  BY <1>1, <1>2, <1>5 DEF ConnectFails, Save
<1>6. CASE Enable(t)
  BY <1>1, <1>6, UserTyped DEF Enable
<1>7. CASE ConnectRefused(t)
  BY <1>1, <1>7, LossTyped DEF ConnectRefused
<1>8. CASE Accept(t) \/ ScanFinish(t)
  BY <1>1, <1>8, MarksTyped DEF Accept, ScanFinish
<1>9. CASE ScanBegin(t)
  <2>1. "scanning" \in States
    BY DEF States
  <2>2. QED
    BY <1>1, <1>9, <2>1, StateTyped DEF ScanBegin
<1>10. CASE \/ Take(t) \/ Connect(t) \/ Clear(t) \/ CancelLeave(t) \/ CancelFlags(t)
            \/ Stop(t) \/ Scan(t)
  BY <1>1, <1>10 DEF Take, Connect, Clear, CancelLeave, CancelFlags, Stop, Scan
<1>11. QED
  BY <1>3, <1>4, <1>5, <1>6, <1>7, <1>8, <1>9, <1>10 DEF CallerStep

LEMMA PolicyStep == ASSUME PolicyOK, setting \in BOOLEAN, [Next]_vars PROVE PolicyOK'
<1>1. policy \in Policies
  BY DEF PolicyOK
<1>2. CASE (\E crash \in BOOLEAN : Reset(crash)) \/ BootCounted \/ BootGuardFails
  <2>1. FreshPolicy(FALSE) \in Policies /\ FreshPolicy(TRUE) \in Policies
    BY FreshTyped
  <2>2. SafeMode(FreshPolicy(TRUE)) \in Policies /\ BeginConnect(FreshPolicy(TRUE)) \in Policies
    BY <2>1, UserTyped
  <2>3. QED
    BY <1>2, <2>1, <2>2 DEF Reset, BootCounted, BootGuardFails, PolicyOK
<1>3. ASSUME NEW u \in Users, Call(u) PROVE policy' \in Policies
  BY <1>1, <1>3, UserTyped DEF Call
<1>4. CASE Driver \/ WindowPasses \/ UNCHANGED vars
  BY <1>1, <1>4 DEF Driver, Associates, GetsIp, JoinLost, LinkLost, Link, WindowPasses, vars,
                   PolicyOK
<1>5. QED
  BY <1>2, <1>3, <1>4, CallerMind, EventMind, WorkerMind DEF Next, PolicyOK
LEMMA RecordsTyped ==
  /\ Wiped \in Records /\ NoAck \in Acks
  /\ \A r \in Records : [r EXCEPT !.marker = "wifi"] \in Records /\ [r EXCEPT !.count = 0] \in Records
  /\ \A a \in Acks : [a EXCEPT !.fresh = FALSE] \in Acks /\ [a EXCEPT !.when = "due"] \in Acks
<1>1. 0 \in 0..CountMax
  BY NumbersAssumption DEF CountMax
<1>2. Wiped \in Records /\ NoAck \in Acks
  BY <1>1 DEF Wiped, NoAck, Records, Acks
<1>3. ASSUME NEW r \in Records
      PROVE  [r EXCEPT !.marker = "wifi"] \in Records /\ [r EXCEPT !.count = 0] \in Records
  BY <1>1 DEF Records
<1>4. ASSUME NEW a \in Acks
      PROVE  [a EXCEPT !.fresh = FALSE] \in Acks /\ [a EXCEPT !.when = "due"] \in Acks
  BY DEF Acks
<1>5. QED
  BY <1>2, <1>3, <1>4

LEMMA NotedTyped == ASSUME GuardOK PROVE Noted \in Records
<1>1. saved.rec \in Records /\ saved.rec.count \in 0..CountMax
  BY DEF GuardOK, Records
<1>2. QED
  BY <1>1, NumbersAssumption DEF Noted, Records, CountMax

LEMMA PersistTyped ==
  ASSUME GuardOK, NEW rec \in Records, Persisted(rec) \/ PersistFails(rec)
  PROVE  /\ saved' \in [rec : Records, valid : BOOLEAN]
         /\ guard' \in [rec : Records, ready : BOOLEAN]
         /\ ackTaken' \in BOOLEAN
<1>1. [rec |-> rec, valid |-> TRUE] \in [rec : Records, valid : BOOLEAN]
      /\ [rec |-> rec, ready |-> TRUE] \in [rec : Records, ready : BOOLEAN]
  OBVIOUS
<1>2. [guard EXCEPT !.ready = FALSE] \in [rec : Records, ready : BOOLEAN]
  BY DEF GuardOK
<1>3. QED
  BY <1>1, <1>2 DEF GuardOK, Persisted, PersistFails

LEMMA GuardMoves ==
  ASSUME GuardOK, MarkOk \/ MarkFails \/ ClearGuard PROVE GuardOK'
<1>1. guard.rec \in Records
  BY DEF GuardOK
<1>2. [guard.rec EXCEPT !.marker = "wifi"] \in Records /\ Wiped \in Records
      /\ [ack EXCEPT !.fresh = FALSE] \in Acks /\ NoAck \in Acks
  BY <1>1, RecordsTyped DEF GuardOK
<1>3. CASE UNCHANGED <<guardVars, ackTaken>> /\ ack' \in Acks
  BY <1>3 DEF GuardOK, guardVars
<1>4. CASE /\ ack' \in Acks
           /\ \E rec \in {[guard.rec EXCEPT !.marker = "wifi"], Wiped} :
                 Persisted(rec) \/ PersistFails(rec)
  BY <1>2, <1>4, PersistTyped DEF GuardOK
<1>5. CASE MarkOk
  BY <1>2, <1>3, <1>4, <1>5 DEF MarkOk, GuardOK
<1>6. CASE MarkFails
  BY <1>2, <1>4, <1>6 DEF MarkFails, GuardOK
<1>7. CASE ClearGuard
  BY <1>2, <1>3, <1>4, <1>7 DEF ClearGuard
<1>8. QED
  BY <1>5, <1>6, <1>7

LEMMA GuardStep == ASSUME GuardOK, [Next]_vars PROVE GuardOK'
<1>1. Wiped \in Records /\ NoAck \in Acks /\ Noted \in Records
  BY RecordsTyped, NotedTyped
<1>2. ASSUME ack' \in Acks, UNCHANGED guardVars, ackTaken' \in BOOLEAN PROVE GuardOK'
  BY <1>2 DEF GuardOK, guardVars
<1>3. ASSUME NEW crash \in BOOLEAN, Reset(crash) PROVE GuardOK'
  BY <1>1, <1>3 DEF Reset, GuardOK
<1>4. CASE BootCounted
  <2>1. CASE Persisted(Noted) \/ Persisted(Wiped)
    BY <1>1, <1>4, <2>1, PersistTyped DEF BootCounted, GuardOK
  <2>2. CASE /\ saved' \in [rec : {Noted, Wiped}, valid : {TRUE}]
             /\ guard' = [rec |-> Noted, ready |-> FALSE] /\ UNCHANGED ackTaken
    <3>1. saved' \in [rec : Records, valid : BOOLEAN] /\ guard' \in [rec : Records, ready : BOOLEAN]
      BY <1>1, <2>2
    <3>2. QED
      BY <1>4, <2>2, <3>1 DEF BootCounted, GuardOK
  <2>3. QED
    BY <1>4, <2>1, <2>2 DEF BootCounted
<1>5. CASE BootGuardFails
  BY <1>1, <1>5, PersistTyped DEF BootGuardFails, GuardOK
<1>6. ASSUME NEW u \in Users, Call(u) PROVE GuardOK'
  BY <1>1, <1>6 DEF Call, GuardOK, guardVars
<1>7. ASSUME NEW t \in Tasks, CallerStep(t) PROVE GuardOK'
  <2>1. CASE Mark(t)
    BY <2>1, GuardMoves DEF Mark
  <2>2. CASE Clear(t) \/ CancelFlags(t)
    BY <2>2, GuardMoves DEF Clear, CancelFlags
  <2>3. CASE UNCHANGED <<guardVars, ackTaken>> /\ ack' \in Acks
    BY <2>3, <1>2 DEF GuardOK
  <2>4. QED
    BY <1>1, <1>7, <2>1, <2>2, <2>3
       DEF CallerStep, Start, Take, Connect, ConnectRefused, ConnectFails, Accept, CancelLeave, Save,
           Stop, Enable, ScanBegin, Scan, ScanFinish, GuardFrame, GuardOK
<1>8. CASE EventStep
  <2>1. [when |-> "armed", fresh |-> TRUE] \in Acks
    BY DEF Acks
  <2>2. ack' \in Acks
    BY <1>1, <1>8, <2>1 DEF EventStep, Unhandled, OnStart, OnConnected, OnGotIp, GotIpFlags, OnLoss, GuardOK
  <2>3. UNCHANGED <<guardVars, ackTaken>>
    BY <1>8 DEF EventStep, Unhandled, OnStart, OnConnected, OnGotIp, GotIpFlags, OnLoss, EventFrame,
                workerVars
  <2>4. QED
    BY <1>2, <2>2, <2>3 DEF GuardOK
<1>9. CASE WorkerStep
  <2>1. CASE Acknowledge
    <3>1. ack' \in Acks /\ [guard.rec EXCEPT !.count = 0] \in Records
      BY <2>1, RecordsTyped DEF GuardOK, Acknowledge
    <3>2. QED
      BY <1>2, <2>1, <3>1, PersistTyped DEF Acknowledge, GuardOK
  <2>2. CASE Look
    <3>1. ack' \in Acks /\ ackTaken' \in BOOLEAN /\ UNCHANGED guardVars
      BY <1>1, <2>2 DEF Look, GuardOK
    <3>2. QED
      BY <1>2, <3>1
  <2>3. CASE Sleep \/ Wait \/ WorkerTake \/ Retry \/ Join \/ JoinFailed
    BY <1>2, <2>3 DEF Sleep, Wait, WorkerTake, Retry, Join, JoinFailed, GuardOK
  <2>4. QED
    BY <1>9, <2>1, <2>2, <2>3 DEF WorkerStep
<1>10. CASE Driver \/ UNCHANGED vars
  BY <1>2, <1>10 DEF Driver, Associates, GetsIp, JoinLost, LinkLost, Link, vars, workerVars, GuardOK
<1>11. CASE WindowPasses
  BY <1>2, <1>11, RecordsTyped DEF WindowPasses, workerVars, GuardOK
<1>12. QED
  BY <1>3, <1>4, <1>5, <1>6, <1>7, <1>8, <1>9, <1>10, <1>11 DEF Next
\* A caller's step moves that caller only, to a place of an operation.
LEMMA CallerMoves ==
  ASSUME PlaceOK, NEW t \in Tasks, CallerStep(t) \/ (t \in Users /\ Call(t))
  PROVE  \E place \in Places : pc' = [pc EXCEPT ![t] = place]
<1>1. ASSUME NEW place \in Places, Goto(t, place)
      PROVE  \E p \in Places : pc' = [pc EXCEPT ![t] = p]
  BY <1>1 DEF Goto
<1>2. CASE CallerStep(t)
  BY <1>1, <1>2
     DEF CallerStep, Mark, Start, Take, Connect, ConnectRefused, ConnectFails, Accept, Clear,
         CancelLeave, CancelFlags, Save, Stop, Enable, ScanBegin, Scan, ScanFinish,
         Places, ConnectPlaces, LeavePlaces, DisablePlaces, EnablePlaces, ScanPlaces
<1>3. CASE t \in Users /\ Call(t)
  BY <1>1, <1>3 DEF Call, Places, ConnectPlaces, LeavePlaces, DisablePlaces, EnablePlaces, ScanPlaces
<1>4. QED
  BY <1>2, <1>3

LEMMA PlaceStep == ASSUME PlaceOK, [Next]_vars PROVE PlaceOK'
<1>1. pc' \in [Tasks -> Places]
  <2>1. ASSUME NEW t \in Tasks, CallerStep(t) \/ (t \in Users /\ Call(t))
        PROVE  pc' \in [Tasks -> Places]
    BY <2>1, CallerMoves DEF PlaceOK
  <2>2. CASE (\E crash \in BOOLEAN : Reset(crash)) \/ BootCounted \/ BootGuardFails
    BY <2>2 DEF Reset, BootCounted, BootGuardFails, PlaceOK, Places, ConnectPlaces
  <2>3. CASE EventStep \/ WorkerStep \/ Driver \/ WindowPasses \/ UNCHANGED vars
    BY <2>3 DEF PlaceOK, EventStep, Unhandled, OnStart, OnConnected, OnGotIp, GotIpFlags, OnLoss,
        EventFrame, WorkerStep, Look, Sleep, Wait, WorkerTake, Retry, Join, JoinFailed, Acknowledge,
        WorkerFrame, Driver, Associates, GetsIp, JoinLost, LinkLost, Link, WindowPasses, vars
  <2>4. QED
    BY <2>1, <2>2, <2>3 DEF Next, Tasks
<1> DEFINE Marks == /\ phase \in {"boot", "run"} /\ crashed \in BOOLEAN /\ setting \in BOOLEAN
                    /\ auto \in BOOLEAN /\ untold \in BOOLEAN /\ notified \in BOOLEAN
<1>2. Marks'
  <2>1. CASE (\E crash \in BOOLEAN : Reset(crash)) \/ BootCounted \/ BootGuardFails
    BY <2>1 DEF Reset, BootCounted, BootGuardFails, PlaceOK, history
  <2>2. ASSUME NEW u \in Users, Call(u) PROVE Marks'
    BY <2>2 DEF Call, PlaceOK, bootVars
  <2>3. ASSUME NEW t \in Tasks, CallerStep(t) PROVE Marks'
    <3> Marks
      BY DEF PlaceOK
    <3>1. CASE Mark(t) \/ Start(t) \/ Take(t)
      BY <3>1 DEF Mark, Start, Take, CallerFrame, bootVars
    <3>2. CASE Connect(t) \/ ConnectRefused(t) \/ ConnectFails(t) \/ Accept(t) \/ Clear(t)
      BY <3>2 DEF Connect, ConnectRefused, ConnectFails, Accept, Clear, CallerFrame, bootVars
    <3>3. CASE CancelLeave(t) \/ CancelFlags(t) \/ Save(t) \/ Stop(t) \/ Enable(t)
      BY <3>3 DEF CancelLeave, CancelFlags, Save, Stop, Enable, CallerFrame, bootVars
    <3>4. CASE ScanBegin(t) \/ Scan(t) \/ ScanFinish(t)
      BY <3>4 DEF ScanBegin, Scan, ScanFinish, CallerFrame, bootVars
    <3>5. QED
      BY <2>3, <3>1, <3>2, <3>3, <3>4 DEF CallerStep
  <2>4. CASE EventStep
    BY <2>4 DEF PlaceOK, EventStep, Unhandled, OnStart, OnConnected, OnGotIp, GotIpFlags, OnLoss,
        EventFrame, bootVars, history
  <2>5. CASE WorkerStep
    BY <2>5 DEF PlaceOK, WorkerStep, Look, Sleep, Wait, WorkerTake, Retry, Join, JoinFailed,
        Acknowledge, WorkerFrame, bootVars
  <2>6. CASE Driver \/ WindowPasses \/ UNCHANGED vars
    BY <2>6 DEF PlaceOK, Driver, Associates, GetsIp, JoinLost, LinkLost, Link, WindowPasses, vars,
        bootVars, history
  <2>7. QED
    BY <2>1, <2>2, <2>3, <2>4, <2>5, <2>6 DEF Next
<1>3. control' \in Tasks \cup {Nobody, Worker}
  <2>1. control \in Tasks \cup {Nobody, Worker}
    BY DEF PlaceOK
  <2>2. CASE (\E crash \in BOOLEAN : Reset(crash)) \/ BootCounted \/ BootGuardFails
    BY <2>1, <2>2 DEF Reset, BootCounted, BootGuardFails
  <2>3. ASSUME NEW u \in Users, Call(u) PROVE UNCHANGED control
    BY <2>3 DEF Call
  <2>4. ASSUME NEW t \in Tasks, CallerStep(t) PROVE control' \in {control, Nobody, t}
    BY <2>4 DEF CallerStep, Mark, Start, Take, Connect, ConnectRefused, ConnectFails, Accept, Clear,
         CancelLeave, CancelFlags, Save, Stop, Enable, ScanBegin, Scan, ScanFinish
  <2>5. CASE EventStep
    BY <2>1, <2>5 DEF EventStep, Unhandled, OnStart, OnConnected, OnGotIp, GotIpFlags, OnLoss,
         EventFrame
  <2>6. ASSUME WorkerStep PROVE control' \in {control, Nobody, Worker}
    BY <2>6 DEF WorkerStep, Look, Sleep, Wait, WorkerTake, Retry, Join, JoinFailed, Acknowledge
  <2>7. CASE Driver \/ WindowPasses \/ UNCHANGED vars
    BY <2>1, <2>7 DEF Driver, Associates, GetsIp, JoinLost, LinkLost, Link, WindowPasses, vars
  <2>8. QED
    BY <2>1, <2>2, <2>3, <2>4, <2>5, <2>6, <2>7 DEF Next
<1> DEFINE Stages == {"look", "sleep", "wait", "take", "retry", "join", "failed", "ack"}
<1>4. worker' \in Stages
  <2>1. worker \in Stages
    BY DEF PlaceOK
  <2>2. CASE (\E crash \in BOOLEAN : Reset(crash)) \/ BootCounted \/ BootGuardFails
    BY <2>1, <2>2 DEF Reset, BootCounted, BootGuardFails
  <2>3. ASSUME NEW u \in Users, Call(u) PROVE UNCHANGED worker
    BY <2>3 DEF Call
  <2>4. ASSUME NEW t \in Tasks, CallerStep(t) PROVE UNCHANGED worker
    BY <2>4 DEF CallerStep, Mark, Start, Take, Connect, ConnectRefused, ConnectFails, Accept, Clear,
         CancelLeave, CancelFlags, Save, Stop, Enable, ScanBegin, Scan, ScanFinish, CallerFrame
  <2>5. CASE EventStep
    BY <2>1, <2>5 DEF EventStep, Unhandled, OnStart, OnConnected, OnGotIp, GotIpFlags, OnLoss,
         EventFrame, workerVars
  <2>6. CASE WorkerStep
    <3>1. CASE Look \/ Sleep \/ Wait
      BY <3>1 DEF Look, Sleep, Wait
    <3>2. CASE WorkerTake \/ Retry \/ Join \/ JoinFailed \/ Acknowledge
      BY <3>2 DEF WorkerTake, Retry, Join, JoinFailed, Acknowledge
    <3>3. QED
      BY <2>6, <3>1, <3>2 DEF WorkerStep
  <2>7. CASE Driver \/ WindowPasses \/ UNCHANGED vars
    BY <2>1, <2>7 DEF Driver, Associates, GetsIp, JoinLost, LinkLost, Link, WindowPasses, vars,
         workerVars
  <2>8. QED
    BY <2>1, <2>2, <2>3, <2>4, <2>5, <2>6, <2>7 DEF Next
<1>5. QED
  BY <1>1, <1>2, <1>3, <1>4 DEF PlaceOK
LEMMA StationStep == ASSUME StationOK, [Next]_vars PROVE StationOK'
<1>1. /\ events' \in Seq(Events)
  <2>1. /\ Tail(events) \in Seq(Events) \/ events = <<>>
        /\ \A e \in Events : Append(events, e) \in Seq(Events)
        /\ events \in Seq(Events) /\ <<>> \in Seq(Events)
    BY DEF StationOK
  <2>2. ASSUME NEW t \in Tasks, CallerStep(t) PROVE events' \in Seq(Events)
    BY <2>1, <2>2
       DEF CallerStep, Mark, Start, Take, Connect, ConnectRefused, ConnectFails, Accept, Clear,
           CancelLeave, CancelFlags, Save, Stop, Enable, ScanBegin, Scan, ScanFinish, LinkFrame,
           linkVars, Leave, Events
  <2>3. CASE EventStep
    BY <2>1, <2>3 DEF EventStep, Unhandled, OnStart, OnConnected, OnGotIp, GotIpFlags, OnLoss, Handles
  <2>4. CASE Driver
    BY <2>1, <2>4 DEF Driver, Associates, GetsIp, JoinLost, LinkLost, Link, Events
  <2>5. CASE (\E crash \in BOOLEAN : Reset(crash)) \/ BootCounted \/ BootGuardFails
    BY <2>1, <2>5 DEF Reset, BootCounted, BootGuardFails, linkVars
  <2>6. CASE (\E u \in Users : Call(u)) \/ WindowPasses \/ UNCHANGED vars
    BY <2>1, <2>6 DEF Call, LinkFrame, linkVars, WindowPasses, vars
  <2>7. CASE WorkerStep
    BY <2>1, <2>7 DEF WorkerStep, Look, Sleep, Wait, WorkerTake, Retry, Join, JoinFailed,
         Acknowledge, WorkerFrame
  <2>8. QED
    BY <2>2, <2>3, <2>4, <2>5, <2>6, <2>7 DEF Next
<1> DEFINE Flags == /\ started \in BOOLEAN /\ link \in {"down", "joining", "joined", "up"}
                    /\ handling \in {"none", "accepted", "rejected"}
                    /\ connected \in BOOLEAN /\ connecting \in BOOLEAN /\ token \in BOOLEAN
<1>2. Flags'
  <2>1. ASSUME NEW t \in Tasks, CallerStep(t) PROVE Flags'
    <3> Flags
      BY DEF StationOK
    <3>1. CASE \/ Mark(t) \/ Take(t) \/ Clear(t) \/ Save(t) \/ Enable(t)
               \/ ScanBegin(t) \/ Scan(t) \/ ScanFinish(t)
      <4>1. LinkFrame
        BY <3>1 DEF Mark, Take, Clear, Save, Enable, ScanBegin, Scan, ScanFinish
      <4>2. QED
        BY <4>1 DEF LinkFrame, linkVars, flagVars
    <3>2. CASE Start(t) \/ Connect(t)
      BY <3>2 DEF Start, Connect, flagVars
    <3>3. CASE ConnectRefused(t) \/ ConnectFails(t)
      BY <3>3 DEF ConnectRefused, ConnectFails, linkVars, flagVars
    <3>4. CASE Accept(t) \/ CancelLeave(t)
      BY <3>4 DEF Accept, CancelLeave, Leave, flagVars
    <3>5. CASE CancelFlags(t) \/ Stop(t)
      BY <3>5 DEF CancelFlags, Stop, Leave, linkVars
    <3>6. QED
      BY <2>1, <3>1, <3>2, <3>3, <3>4, <3>5 DEF CallerStep
  <2>2. CASE EventStep
    BY <2>2 DEF EventStep, Unhandled, OnStart, OnConnected, OnGotIp, GotIpFlags, OnLoss, EventFrame,
                flagVars, StationOK, Allowed
  <2>3. CASE WorkerStep
    <3> Flags
      BY DEF StationOK
    <3>1. CASE Look \/ Sleep \/ Wait \/ WorkerTake \/ Acknowledge
      BY <3>1 DEF Look, Sleep, Wait, WorkerTake, Acknowledge, WorkerFrame
    <3>2. CASE Retry \/ Join \/ JoinFailed
      BY <3>2 DEF Retry, Join, JoinFailed, WorkerFrame
    <3>3. QED
      BY <2>3, <3>1, <3>2 DEF WorkerStep
  <2>4. CASE \E crash \in BOOLEAN : Reset(crash)
    BY <2>4 DEF Reset
  <2>5. CASE BootCounted \/ BootGuardFails \/ (\E u \in Users : Call(u))
    BY <2>5 DEF BootCounted, BootGuardFails, Call, LinkFrame, linkVars, flagVars, StationOK
  <2>6. CASE Driver
    BY <2>6 DEF Driver, Associates, GetsIp, JoinLost, LinkLost, Link, flagVars, StationOK
  <2>7. CASE WindowPasses \/ UNCHANGED vars
    BY <2>7 DEF WindowPasses, vars, linkVars, flagVars, StationOK
  <2>8. QED
    BY <2>1, <2>2, <2>3, <2>4, <2>5, <2>6, <2>7 DEF Next
<1>3. QED
  BY <1>1, <1>2 DEF StationOK

\* Crashes are counted against the budget: each row of them costs resets.
LEMMA CountStep == ASSUME CountOK, [Next]_vars PROVE CountOK'
<1>1. ASSUME UNCHANGED spent \/ Spend, loops' \in {0, loops} PROVE CountOK'
  BY <1>1, NumbersAssumption DEF CountOK, Spend
<1>2. ASSUME NEW rec, Persisted(rec) \/ PersistFails(rec) PROVE UNCHANGED spent \/ Spend
  BY <1>2 DEF Persisted, PersistFails
<1>3. ASSUME MarkOk \/ MarkFails \/ ClearGuard PROVE UNCHANGED spent \/ Spend
  BY <1>2, <1>3 DEF MarkOk, MarkFails, ClearGuard
<1>4. ASSUME NEW crash \in BOOLEAN, Reset(crash) PROVE CountOK'
  BY <1>4, NumbersAssumption DEF Reset, Spend, CountOK
<1>5. CASE BootCounted \/ BootGuardFails
  BY <1>1, <1>2, <1>5 DEF BootCounted, BootGuardFails, history
<1>6. ASSUME NEW t \in Tasks, CallerStep(t) PROVE CountOK'
  BY <1>1, <1>3, <1>6
     DEF CallerStep, Mark, Start, Take, Connect, ConnectRefused, ConnectFails, Accept, Clear,
         CancelLeave, CancelFlags, Save, Stop, Enable, ScanBegin, Scan, ScanFinish, CallerFrame,
         GuardFrame
<1>7. ASSUME NEW u \in Users, Call(u) PROVE CountOK'
  BY <1>1, <1>7 DEF Call
<1>8. CASE WorkerStep
  BY <1>1, <1>2, <1>8 DEF WorkerStep, Look, Sleep, Wait, WorkerTake, Retry, Join, JoinFailed,
                          Acknowledge
<1>9. CASE EventStep \/ Driver \/ WindowPasses \/ UNCHANGED vars
  BY <1>1, <1>9 DEF EventStep, Unhandled, OnStart, OnConnected, OnGotIp, GotIpFlags, OnLoss,
         EventFrame, Driver, Associates, GetsIp, JoinLost, LinkLost, Link, WindowPasses, vars, history
<1>10. QED
  BY <1>4, <1>5, <1>6, <1>7, <1>8, <1>9 DEF Next

LEMMA InitTyped == ASSUME Init PROVE Typed
<1>1. PolicyOK
  BY FreshTyped DEF Init, PolicyOK
<1>2. GuardOK
  <2>1. Wiped \in Records /\ NoAck \in Acks /\ [count |-> 0, marker |-> "wifi"] \in Records
    BY RecordsTyped, NumbersAssumption DEF Records, CountMax
  <2>2. /\ [rec |-> Wiped, valid |-> FALSE] \in [rec : Records, valid : BOOLEAN]
        /\ [rec |-> [count |-> 0, marker |-> "wifi"], valid |-> TRUE] \in [rec : Records, valid : BOOLEAN]
        /\ [rec |-> Wiped, ready |-> FALSE] \in [rec : Records, ready : BOOLEAN]
    BY <2>1
  <2>3. saved \in [rec : Records, valid : BOOLEAN]
    BY <2>2 DEF Init
  <2>4. QED
    BY <2>1, <2>2, <2>3 DEF Init, GuardOK
<1>3. StationOK
  <2>1. <<>> \in Seq(Events)
    OBVIOUS
  <2>2. QED
    BY <2>1 DEF Init, StationOK
<1>4. PlaceOK
  BY DEF Init, PlaceOK, Places
<1>5. CountOK
  BY NumbersAssumption DEF Init, CountOK
<1>6. QED
  BY <1>1, <1>2, <1>3, <1>4, <1>5 DEF Typed

LEMMA TypedStep == ASSUME Typed, [Next]_vars PROVE Typed'
<1>1. setting \in BOOLEAN
  BY DEF Typed, PlaceOK
<1>2. QED
  BY <1>1, PolicyStep, GuardStep, StationStep, PlaceStep, CountStep DEF Typed

\* The values the variables may have; with it, that a count of crashes costs as
\* many resets, and that the policy's operations keep the attempts in range.
THEOREM WellTyped == Spec => []TypeOK
<1>1. Init => Typed
  BY InitTyped
<1>2. Typed /\ [Next]_vars => Typed'
  BY TypedStep
<1>3. QED
  BY <1>1, <1>2, TypedIsTypeOK, PTL DEF Spec
----------------------------------------------------------------------------
(* The control mutex: who holds it, and that a holder keeps the others out. *)

Holding == {"connect", "accept", "leave", "save", "stop", "scan"}
LockOK == /\ \A t \in Tasks : pc[t] \in Holding => control = t
          /\ worker \in {"retry", "join"} => control = Worker

\* A caller takes the mutex when it is free, gives it back, or leaves it.
LEMMA LockMoves ==
  ASSUME PlaceOK, NEW t \in Tasks, CallerStep(t) \/ (t \in Users /\ Call(t))
  PROVE  /\ \A s \in Tasks \ {t} : pc'[s] = pc[s]
         /\ worker' = worker
         /\ \/ control' = control /\ (pc'[t] \in Holding => pc[t] \in Holding)
            \/ control = Nobody /\ control' = t
            \/ pc[t] \in Holding /\ control' = Nobody /\ pc'[t] \notin Holding
<1>1. \A s \in Tasks \ {t} : pc'[s] = pc[s]
  BY CallerMoves DEF PlaceOK
<1>2. worker' = worker
  BY DEF CallerStep, Mark, Start, Take, Connect, ConnectRefused, ConnectFails, Accept, Clear,
         CancelLeave, CancelFlags, Save, Stop, Enable, ScanBegin, Scan, ScanFinish, CallerFrame, Call
<1>3. pc \in [Tasks -> Places]
  BY DEF PlaceOK
<1>4. CASE \/ Mark(t) \/ Start(t) \/ Clear(t) \/ CancelFlags(t) \/ Enable(t) \/ ScanBegin(t)
           \/ ScanFinish(t) \/ (t \in Users /\ Call(t))
  BY <1>1, <1>2, <1>3, <1>4 DEF Goto, Mark, Start, Clear, CancelFlags, Enable, ScanBegin, ScanFinish, Call, Holding
<1>5. CASE Take(t)
  BY <1>1, <1>2, <1>3, <1>5 DEF Goto, Take, Holding
<1>6. CASE Connect(t) \/ Save(t)
  BY <1>1, <1>2, <1>3, <1>6 DEF Goto, Connect, Save, At, Holding
<1>7. CASE \/ ConnectRefused(t) \/ ConnectFails(t) \/ Accept(t) \/ CancelLeave(t) \/ Stop(t)
           \/ Scan(t)
  BY <1>1, <1>2, <1>3, <1>7 DEF Goto, ConnectRefused, ConnectFails, Accept, CancelLeave, Stop, Scan, At, Holding
<1>8. QED
  BY <1>1, <1>2, <1>4, <1>5, <1>6, <1>7 DEF CallerStep

\* Nothing else moves a caller; the worker takes the mutex as a caller does.
LEMMA LockMovesElse ==
  ASSUME EventStep \/ WorkerStep \/ Driver \/ WindowPasses \/ UNCHANGED vars
  PROVE  /\ pc' = pc
         /\ \/ control' = control /\ (worker' \in {"retry", "join"} => worker \in {"retry", "join"})
            \/ control = Nobody /\ control' = Worker
            \/ worker \in {"retry", "join"} /\ control' = Nobody /\ worker' \notin {"retry", "join"}
<1>1. CASE EventStep
  BY <1>1 DEF EventStep, Unhandled, OnStart, OnConnected, OnGotIp, GotIpFlags, OnLoss, EventFrame,
              workerVars
<1>2. CASE WorkerStep
  <2>1. pc' = pc
    BY <1>2 DEF WorkerStep, Look, Sleep, Wait, WorkerTake, Retry, Join, JoinFailed, Acknowledge,
                WorkerFrame
  <2>2. QED
    BY <1>2, <2>1 DEF WorkerStep, Look, Sleep, Wait, WorkerTake, Retry, Join, JoinFailed, Acknowledge
<1>3. CASE Driver \/ WindowPasses \/ UNCHANGED vars
  BY <1>3 DEF Driver, Associates, GetsIp, JoinLost, LinkLost, Link, WindowPasses, vars, workerVars
<1>4. QED
  BY <1>1, <1>2, <1>3

LEMMA LockStep == ASSUME PlaceOK, LockOK, [Next]_vars PROVE LockOK'
<1>1. Nobody \notin Tasks /\ Worker \notin Tasks /\ Nobody # Worker
  BY NamesAssumption DEF Tasks
<1>2. CASE (\E crash \in BOOLEAN : Reset(crash)) \/ BootCounted \/ BootGuardFails
  <2>1. Main \in Tasks
    BY DEF Tasks
  <2>2. QED
    BY <1>2, <2>1 DEF Reset, BootCounted, BootGuardFails, LockOK, Holding, PlaceOK
<1>3. ASSUME NEW t \in Tasks, CallerStep(t) \/ (t \in Users /\ Call(t)) PROVE LockOK'
  BY <1>1, <1>3, LockMoves DEF LockOK
<1>4. CASE EventStep \/ WorkerStep \/ Driver \/ WindowPasses \/ UNCHANGED vars
  BY <1>1, <1>4, LockMovesElse DEF LockOK
<1>5. QED
  BY <1>2, <1>3, <1>4 DEF Next, Tasks

----------------------------------------------------------------------------
(* A driver that is stopped, and a boot that was not counted.               *)

\* Handlers are gone only when none runs, and with them link and flag.
StoppedOK == ~started => link = "down" /\ ~connected /\ handling = "none"

BootOK == phase = "boot" =>
  /\ \A t \in Tasks : pc[t] = "idle"
  /\ ~started /\ ~connecting /\ worker = "look" /\ ~auto /\ policy = FreshPolicy(FALSE)

LEMMA StoppedStep == ASSUME StoppedOK, [Next]_vars PROVE StoppedOK'
<1>1. ASSUME NEW t \in Tasks, CallerStep(t) PROVE StoppedOK'
  BY <1>1
     DEF CallerStep, Mark, Start, Take, Connect, ConnectRefused, ConnectFails, Accept, Clear,
         CancelLeave, CancelFlags, Save, Stop, Enable, ScanBegin, Scan, ScanFinish, LinkFrame,
         linkVars, flagVars, Leave, Drained, StoppedOK
<1>2. CASE EventStep
  BY <1>2 DEF EventStep, Unhandled, OnStart, OnConnected, OnGotIp, GotIpFlags, OnLoss, EventFrame,
              Handles, flagVars, StoppedOK
<1>3. CASE WorkerStep
  BY <1>3 DEF WorkerStep, Look, Sleep, Wait, WorkerTake, Retry, Join, JoinFailed, Acknowledge,
              WorkerFrame, StoppedOK
<1>4. QED
  BY <1>1, <1>2, <1>3
     DEF Next, Reset, BootCounted, BootGuardFails, Call, LinkFrame, linkVars, flagVars, Driver,
         Associates, GetsIp, JoinLost, LinkLost, Link, WindowPasses, vars, StoppedOK

LEMMA BootStep == ASSUME BootOK, StoppedOK, [Next]_vars PROVE BootOK'
<1>1. ASSUME NEW crash \in BOOLEAN, Reset(crash) PROVE BootOK'
  BY <1>1 DEF Reset, BootOK
<1>2. ASSUME NEW t \in Tasks, CallerStep(t) PROVE phase' # "boot"
  BY <1>2
     DEF CallerStep, Mark, Start, Take, Connect, ConnectRefused, ConnectFails, Accept, Clear,
         CancelLeave, CancelFlags, Save, Stop, Enable, ScanBegin, Scan, ScanFinish, CallerFrame,
         bootVars, At
<1>3. ASSUME NEW u \in Users, Call(u) PROVE phase' # "boot"
  BY <1>3 DEF Call, At, bootVars
<1>4. CASE BootCounted \/ BootGuardFails
  BY <1>4 DEF BootCounted, BootGuardFails, BootOK
<1>5. CASE EventStep
  BY <1>5 DEF EventStep, Unhandled, OnStart, OnConnected, OnGotIp, GotIpFlags, OnLoss, EventFrame,
              Handles, flagVars, bootVars, workerVars, history, BootOK, StoppedOK
<1>6. CASE WorkerStep
  BY <1>6 DEF WorkerStep, Look, Sleep, Wait, WorkerTake, Retry, Join, JoinFailed, Acknowledge,
              WorkerFrame, bootVars, BootOK
<1>7. CASE Driver \/ WindowPasses \/ UNCHANGED vars
  BY <1>7 DEF Driver, Associates, GetsIp, JoinLost, LinkLost, Link, WindowPasses, vars, bootVars,
              workerVars, linkVars, flagVars, history, BootOK, FreshPolicy, Idle
<1>8. QED
  BY <1>1, <1>2, <1>3, <1>4, <1>5, <1>6, <1>7 DEF Next, BootOK
----------------------------------------------------------------------------
(* What is turned off stays off.                                            *)

Shut == Off /\ ~untold
\* Callers that are about to take the link down, and to clear the flag.
Leavers  == {"cancelTake", "leave", "stopTake", "save", "stop", "accept"}
Clearers == {"cancelTake", "leave", "flags", "stopTake", "save", "stop"}

LinkOK == Shut /\ (link # "down" \/ worker = "join") => \E t \in Tasks : pc[t] \in Leavers
ConnectingOK == Shut /\ connecting => \E t \in Tasks : pc[t] \in Clearers

LEMMA MindKeepsOff == ASSUME SameMind(policy, policy') PROVE Off' <=> Off
BY DEF SameMind, Off

\* Enabling undoes both, and nothing that a connect does leaves it undone.
LEMMA ConnectMind ==
  ASSUME PolicyOK
  PROVE  /\ BeginConnect(policy).enabled = policy.enabled /\ ~BeginConnect(policy).cancelled
         /\ SafeMode(policy).enabled = policy.enabled /\ ~SafeMode(policy).cancelled
         /\ BeginConnect(Configure(policy, TRUE)).enabled
         /\ ~BeginConnect(Configure(policy, TRUE)).cancelled
BY UserTyped DEF PolicyOK

\* Turning off takes a caller to the mutex, unless no driver runs or it gives up;
\* turning on again is for enable and connect only.
LEMMA CallMind ==
  ASSUME PolicyOK, PlaceOK, NEW u \in Users, Call(u), Shut'
  PROVE  \/ Shut /\ pc[u] = "idle"
         \/ pc'[u] \in {"cancelTake", "stopTake"}
<1>1. pc \in [Tasks -> Places] /\ u \in Tasks
  BY DEF PlaceOK, Tasks
<1>2. pc[u] = "idle"
  BY DEF Call, At
<1>3. CASE Goto(u, IF started THEN "cancelTake" ELSE "flags") /\ untold' = (untold \/ ~started)
  BY <1>1, <1>3 DEF Goto, Shut
<1>4. CASE Goto(u, "stopTake")
  BY <1>1, <1>4 DEF Goto
<1>5. CASE policy' = BeginConnect(policy) /\ untold' = (untold /\ ~policy.enabled)
  BY <1>2, <1>5, ConnectMind DEF Shut, Off
<1>6. CASE UNCHANGED <<policy, untold>>
  BY <1>2, <1>6 DEF Shut, Off
<1>7. QED
  BY <1>3, <1>4, <1>5, <1>6 DEF Call

LEMMA CallerKeepsShut ==
  ASSUME PolicyOK, PlaceOK, NEW t \in Tasks, CallerStep(t), Shut'
  PROVE  \/ Shut
         \/ CancelLeave(t) \/ Stop(t)
         \/ pc'[t] \in {"stopTake", "stop"}
<1>1. pc \in [Tasks -> Places]
  BY DEF PlaceOK
<1>2. ~Enable(t)
  BY ConnectMind DEF Enable, Shut, Off
<1>3. CASE UNCHANGED untold /\ Off
  BY <1>3 DEF Shut
<1>4. CASE (Start(t) \/ ConnectFails(t) \/ Save(t)) /\ policy' = Disable(policy)
  <2>1. CASE Start(t) /\ SameMind(policy, policy')
    BY <1>3, <2>1, MindKeepsOff DEF Start, Shut
  <2>2. CASE Start(t) /\ Goto(t, "stopTake")
    BY <1>1, <2>2 DEF Goto
  <2>3. CASE ConnectFails(t) \/ Save(t)
    BY <1>1, <2>3 DEF Goto, ConnectFails, Save
  <2>4. SameMind(policy, policy)
    BY DEF SameMind
  <2>5. QED
    BY <1>4, <2>1, <2>2, <2>3, <2>4 DEF Start
<1>5. CASE Mark(t) /\ policy' = SafeMode(policy)
  BY <1>3, <1>5, ConnectMind DEF Mark, Shut, Off
<1>6. CASE SameMind(policy, policy')
  <2>1. Off
    BY <1>6, MindKeepsOff DEF Shut
  <2>2. CASE Take(t)
    BY <2>1, <2>2 DEF Take, Shut
  <2>3. QED
    BY <1>2, <1>3, <2>1, <2>2
       DEF CallerStep, Mark, Start, Connect, ConnectRefused, ConnectFails, Accept, Clear, CancelFlags,
           Save, ScanBegin, Scan, ScanFinish
<1>7. QED
  BY <1>2, <1>4, <1>5, <1>6, CallerMind
\* The event task, the worker, the driver and time do not ask for anything.
LEMMA OthersKeepShut ==
  ASSUME PolicyOK, EventStep \/ WorkerStep \/ Driver \/ WindowPasses \/ UNCHANGED vars, Shut'
  PROVE  Shut
<1>1. untold' = untold
  BY DEF EventStep, Unhandled, OnStart, OnConnected, OnGotIp, GotIpFlags, OnLoss, EventFrame,
      WorkerStep, Look, Sleep, Wait, WorkerTake, Retry, Join, JoinFailed, Acknowledge, WorkerFrame,
      Driver, Associates, GetsIp, JoinLost, LinkLost, Link, WindowPasses, vars, history
<1>2. CASE Driver \/ WindowPasses \/ UNCHANGED vars
  BY <1>1, <1>2 DEF Driver, Associates, GetsIp, JoinLost, LinkLost, Link, WindowPasses, vars, Shut, Off
<1>3. CASE EventStep \/ WorkerStep
  BY <1>1, <1>3, EventMind, WorkerMind, MindKeepsOff DEF Shut
<1>4. QED
  BY <1>2, <1>3

\* A caller that is about to leave the link does, gives up the mutex, or, in a
\* connect, was allowed to go on.
LEMMA LeaversLeave ==
  ASSUME PlaceOK, NEW t \in Tasks, CallerStep(t), pc[t] \in Leavers
  PROVE  pc'[t] \in Leavers \/ untold' \/ Accept(t) \/ CancelLeave(t) \/ Stop(t)
<1>1. pc \in [Tasks -> Places]
  BY DEF PlaceOK
<1>2. CASE Take(t)
  BY <1>1, <1>2 DEF Take, Goto, Leavers
<1>3. CASE Save(t)
  BY <1>1, <1>3 DEF Save, Goto, Leavers
<1>4. CASE \/ Mark(t) \/ Start(t) \/ Connect(t) \/ ConnectRefused(t) \/ ConnectFails(t) \/ Clear(t)
           \/ CancelFlags(t) \/ Enable(t) \/ ScanBegin(t) \/ Scan(t) \/ ScanFinish(t)
  BY <1>4 DEF Mark, Start, Connect, ConnectRefused, ConnectFails, Clear, CancelFlags, Enable,
              ScanBegin, Scan, ScanFinish, At, Leavers
<1>5. QED
  BY <1>2, <1>3, <1>4 DEF CallerStep

LEMMA ClearersClear ==
  ASSUME PlaceOK, NEW t \in Tasks, CallerStep(t), pc[t] \in Clearers
  PROVE  pc'[t] \in Clearers \/ untold' \/ CancelFlags(t) \/ Stop(t)
<1>1. pc \in [Tasks -> Places]
  BY DEF PlaceOK
<1>2. CASE Take(t)
  BY <1>1, <1>2 DEF Take, Goto, Clearers
<1>3. CASE Save(t) \/ CancelLeave(t)
  BY <1>1, <1>3 DEF Save, CancelLeave, Goto, Clearers
<1>4. CASE \/ Mark(t) \/ Start(t) \/ Connect(t) \/ ConnectRefused(t) \/ ConnectFails(t) \/ Clear(t)
           \/ Accept(t) \/ Enable(t) \/ ScanBegin(t) \/ Scan(t) \/ ScanFinish(t)
  BY <1>4 DEF Mark, Start, Connect, ConnectRefused, ConnectFails, Clear, Accept, Enable,
              ScanBegin, Scan, ScanFinish, At, Clearers
<1>5. QED
  BY <1>2, <1>3, <1>4 DEF CallerStep

\* Only a connect or the worker's join brings the link up from down, and only
\* callers that hold the mutex take it down.
LEMMA LinkMoves ==
  ASSUME NEW t \in Tasks, CallerStep(t)
  PROVE  \/ link' = link
         \/ link' = "down"
         \/ Connect(t)
BY DEF CallerStep, Mark, Start, Take, Connect, ConnectRefused, ConnectFails, Accept, Clear,
       CancelLeave, CancelFlags, Save, Stop, Enable, ScanBegin, Scan, ScanFinish, LinkFrame, linkVars,
       Leave

LEMMA LinkStep ==
  ASSUME PolicyOK, PlaceOK, LockOK, BootOK, StoppedOK, LinkOK, [Next]_vars
  PROVE  LinkOK'
<1> SUFFICES ASSUME Shut', (link # "down" \/ worker = "join")'
             PROVE  \E t \in Tasks : pc'[t] \in Leavers
  BY DEF LinkOK
<1>1. pc \in [Tasks -> Places]
  BY DEF PlaceOK
<1>2. CASE (\E crash \in BOOLEAN : Reset(crash)) \/ BootCounted \/ BootGuardFails
  BY <1>2 DEF Reset, BootCounted, BootGuardFails, linkVars, BootOK, StoppedOK
<1>3. ASSUME NEW u \in Users, Call(u) PROVE \E t \in Tasks : pc'[t] \in Leavers
  <2>1. u \in Tasks /\ UNCHANGED <<link, worker>>
    BY <1>3 DEF Tasks, Call, LinkFrame, linkVars
  <2>2. CASE pc'[u] \in {"cancelTake", "stopTake"}
    BY <2>1, <2>2 DEF Leavers
  <2>3. CASE Shut /\ pc[u] = "idle"
    <3>1. PICK s \in Tasks : pc[s] \in Leavers
      BY <2>1, <2>3 DEF LinkOK
    <3>2. s # u
      BY <2>3, <3>1 DEF Leavers
    <3>3. pc'[s] = pc[s]
      BY <1>3, <2>1, <3>2, LockMoves
    <3>4. QED
      BY <3>1, <3>3
  <2>4. QED
    BY <1>3, <2>2, <2>3, CallMind
<1>4. ASSUME NEW t \in Tasks, CallerStep(t) PROVE \E s \in Tasks : pc'[s] \in Leavers
  <2>1. worker' = worker /\ \A s \in Tasks \ {t} : pc'[s] = pc[s]
    BY <1>4, LockMoves
  <2>2. ASSUME Accept(t) \/ CancelLeave(t) \/ Stop(t) PROVE worker # "join"
    <3>1. control = t /\ t # Worker
      BY <2>2, NamesAssumption DEF Accept, CancelLeave, Stop, At, LockOK, Holding, Tasks
    <3>2. QED
      BY <3>1 DEF LockOK
  <2>3. CASE CancelLeave(t) \/ Stop(t)
    <3>1. link' = "down"
      BY <2>3 DEF CancelLeave, Stop, Leave, StoppedOK
    <3>2. QED
      BY <2>1, <2>2, <2>3, <3>1
  <2>4. CASE pc'[t] \in {"stopTake", "stop"}
    BY <2>4 DEF Leavers
  <2>5. CASE Connect(t)
    BY <1>1, <2>5 DEF Connect, Goto, Leavers
  <2>6. CASE Shut /\ ~Connect(t) /\ ~CancelLeave(t) /\ ~Stop(t)
    <3>1. link # "down" \/ worker = "join"
      BY <1>4, <2>1, <2>6, LinkMoves
    <3>2. PICK s \in Tasks : pc[s] \in Leavers
      BY <2>6, <3>1 DEF LinkOK
    <3>3. CASE s # t
      BY <2>1, <3>2, <3>3
    <3>4. CASE s = t /\ Accept(t)
      <4>1. ~Allowed(policy)
        BY <2>6 DEF Shut, Off, Allowed
      <4>2. link' = "down"
        BY <3>4, <4>1 DEF Accept, Leave
      <4>3. QED
        BY <2>1, <2>2, <3>4, <4>2
    <3>5. CASE s = t /\ ~Accept(t)
      BY <1>4, <2>6, <3>2, <3>5, LeaversLeave DEF Shut
    <3>6. QED
      BY <3>3, <3>4, <3>5
  <2>7. QED
    BY <1>4, <2>3, <2>4, <2>5, <2>6, CallerKeepsShut
<1>5. CASE EventStep \/ WorkerStep \/ Driver \/ WindowPasses \/ UNCHANGED vars
  <2>1. pc' = pc
    BY <1>5, LockMovesElse
  <2>4. Shut
    BY <1>5, OthersKeepShut
  <2>5. link # "down" \/ worker = "join"
    <3>1. CASE EventStep
      BY <3>1 DEF EventStep, Unhandled, OnStart, OnConnected, OnGotIp, GotIpFlags, OnLoss, EventFrame,
                  workerVars
    <3>2. CASE WorkerStep
      <4>1. ~Allowed(policy)
        BY <2>4 DEF Shut, Off, Allowed
      <4>2. QED
        BY <3>2, <4>1 DEF WorkerStep, Look, Sleep, Wait, WorkerTake, Retry, Join, JoinFailed,
                          Acknowledge
    <3>3. CASE Driver \/ WindowPasses \/ UNCHANGED vars
      BY <3>3 DEF Driver, Associates, GetsIp, JoinLost, LinkLost, Link, WindowPasses, vars, linkVars,
                  workerVars
    <3>4. QED
      BY <1>5, <3>1, <3>2, <3>3
  <2>6. QED
    BY <2>1, <2>4, <2>5 DEF LinkOK
<1>6. QED
  BY <1>2, <1>3, <1>4, <1>5 DEF Next
LEMMA ConnectingStep ==
  ASSUME PolicyOK, PlaceOK, BootOK, ConnectingOK, [Next]_vars
  PROVE  ConnectingOK'
<1> SUFFICES ASSUME Shut', connecting' PROVE \E t \in Tasks : pc'[t] \in Clearers
  BY DEF ConnectingOK
<1>1. pc \in [Tasks -> Places]
  BY DEF PlaceOK
<1>2. CASE (\E crash \in BOOLEAN : Reset(crash)) \/ BootCounted \/ BootGuardFails
  BY <1>2 DEF Reset, BootCounted, BootGuardFails, flagVars, BootOK
<1>3. ASSUME NEW u \in Users, Call(u) PROVE \E t \in Tasks : pc'[t] \in Clearers
  <2>1. u \in Tasks /\ UNCHANGED connecting
    BY <1>3 DEF Tasks, Call, LinkFrame, flagVars
  <2>2. CASE pc'[u] \in {"cancelTake", "stopTake"}
    BY <2>1, <2>2 DEF Clearers
  <2>3. CASE Shut /\ pc[u] = "idle"
    <3>1. PICK s \in Tasks : pc[s] \in Clearers
      BY <2>1, <2>3 DEF ConnectingOK
    <3>2. s # u
      BY <2>3, <3>1 DEF Clearers
    <3>3. pc'[s] = pc[s]
      BY <1>3, <2>1, <3>2, LockMoves
    <3>4. QED
      BY <3>1, <3>3
  <2>4. QED
    BY <1>3, <2>2, <2>3, CallMind
<1>4. ASSUME NEW t \in Tasks, CallerStep(t) PROVE \E s \in Tasks : pc'[s] \in Clearers
  <2>1. \A s \in Tasks \ {t} : pc'[s] = pc[s]
    BY <1>4, LockMoves
  <2>2. ~Stop(t) /\ ~CancelFlags(t)
    BY DEF Stop, CancelFlags
  <2>3. CASE CancelLeave(t)
    BY <1>1, <2>3 DEF CancelLeave, Goto, Clearers
  <2>4. CASE pc'[t] \in {"stopTake", "stop"}
    BY <2>4 DEF Clearers
  <2>5. CASE Shut
    <3>1. ~Allowed(policy)
      BY <2>5 DEF Shut, Off, Allowed
    <3>2. connecting
      BY <1>4, <3>1
         DEF CallerStep, Mark, Start, Take, Connect, ConnectRefused, ConnectFails, Accept, Clear,
             CancelLeave, CancelFlags, Save, Stop, Enable, ScanBegin, Scan, ScanFinish, LinkFrame,
             flagVars
    <3>3. PICK s \in Tasks : pc[s] \in Clearers
      BY <2>5, <3>2 DEF ConnectingOK
    <3>4. QED
      BY <1>4, <2>1, <2>2, <3>3, ClearersClear DEF Shut
  <2>6. QED
    BY <1>4, <2>2, <2>3, <2>4, <2>5, CallerKeepsShut
<1>5. CASE EventStep \/ WorkerStep \/ Driver \/ WindowPasses \/ UNCHANGED vars
  <2>1. pc' = pc
    BY <1>5, LockMovesElse
  <2>2. Shut
    BY <1>5, OthersKeepShut
  <2>3. ~Allowed(policy)
    BY <2>2 DEF Shut, Off, Allowed
  <2>4. connecting
    <3>1. CASE EventStep
      BY <2>3, <3>1 DEF EventStep, Unhandled, OnStart, OnConnected, OnGotIp, GotIpFlags, OnLoss,
                        flagVars
    <3>2. CASE WorkerStep
      BY <2>3, <3>2 DEF WorkerStep, Look, Sleep, Wait, WorkerTake, Retry, Join, JoinFailed,
                        Acknowledge
    <3>3. CASE Driver \/ WindowPasses \/ UNCHANGED vars
      BY <3>3 DEF Driver, Associates, GetsIp, JoinLost, LinkLost, Link, WindowPasses, vars, flagVars
    <3>4. QED
      BY <1>5, <3>1, <3>2, <3>3
  <2>5. QED
    BY <2>1, <2>2, <2>4 DEF ConnectingOK
<1>6. QED
  BY <1>2, <1>3, <1>4, <1>5 DEF Next

----------------------------------------------------------------------------
(* What is shown as up is up.                                               *)

Losses == {"lost", "auth", "leave"}
Shown  == connected \/ handling = "accepted"
\* The driver tells of a link that is gone: behind a flag that still shows it,
\* and behind every GOT_IP that would set the flag again.
QueueOK ==
  link # "up" =>
    /\ Shown => \E j \in DOMAIN events : events[j] \in Losses
    /\ \A i \in DOMAIN events : events[i] = "gotip" =>
          \E j \in DOMAIN events : j > i /\ events[j] \in Losses

\* The queue after an event is appended, or the first is taken.
LEMMA AppendKeeps ==
  ASSUME NEW q \in Seq(Events), NEW e \in Events
  PROVE  /\ DOMAIN Append(q, e) = 1..(Len(q) + 1) /\ DOMAIN q = 1..Len(q) /\ Len(q) \in Nat
         /\ \A i \in 1..Len(q) : Append(q, e)[i] = q[i]
         /\ Append(q, e)[Len(q) + 1] = e
OBVIOUS

LEMMA TailKeeps ==
  ASSUME NEW q \in Seq(Events), q # <<>>
  PROVE  /\ DOMAIN q = 1..Len(q) /\ Len(q) \in Nat \ {0} /\ Head(q) = q[1]
         /\ DOMAIN Tail(q) = 1..(Len(q) - 1)
         /\ \A i \in 1..(Len(q) - 1) : Tail(q)[i] = q[i + 1]
OBVIOUS
\* A loss that is queued makes up for everything before it.
LEMMA LossQueued ==
  ASSUME StationOK, NEW e \in Losses, events' = Append(events, e) PROVE QueueOK'
<1>1. events \in Seq(Events) /\ e \in Events
  BY DEF StationOK, Losses, Events
<1>2. /\ DOMAIN events' = 1..(Len(events) + 1) /\ Len(events) \in Nat
      /\ events'[Len(events) + 1] \in Losses /\ "gotip" \notin Losses
  BY <1>1, AppendKeeps DEF Losses
<1>3. QED
  BY <1>2 DEF QueueOK

\* Another event, or none, changes nothing of it.
LEMMA OtherQueued ==
  ASSUME StationOK, QueueOK, link # "up" \/ link' = "up", Shown' => Shown,
         events' = events \/ \E e \in Events \ {"gotip"} : events' = Append(events, e)
  PROVE  QueueOK'
<1>1. events \in Seq(Events) /\ DOMAIN events = 1..Len(events) /\ Len(events) \in Nat
  BY DEF StationOK
<1>2. CASE events' = events
  BY <1>2 DEF QueueOK, Shown
<1>3. ASSUME NEW e \in Events \ {"gotip"}, events' = Append(events, e) PROVE QueueOK'
  <2>1. /\ DOMAIN events' = 1..(Len(events) + 1) /\ \A i \in 1..Len(events) : events'[i] = events[i]
        /\ events'[Len(events) + 1] # "gotip"
    BY <1>1, <1>3, AppendKeeps
  <2> SUFFICES ASSUME link' # "up"
               PROVE  /\ Shown' => \E j \in DOMAIN events' : events'[j] \in Losses
                      /\ \A i \in DOMAIN events' : events'[i] = "gotip" =>
                           \E j \in DOMAIN events' : j > i /\ events'[j] \in Losses
    BY DEF QueueOK
  <2>2. Shown' => \E j \in DOMAIN events' : events'[j] \in Losses
    BY <1>1, <2>1 DEF QueueOK
  <2>3. ASSUME NEW i \in DOMAIN events', events'[i] = "gotip"
        PROVE  \E j \in DOMAIN events' : j > i /\ events'[j] \in Losses
    <3>1. i \in 1..Len(events) /\ events[i] = "gotip"
      BY <1>1, <2>1, <2>3
    <3>2. PICK j \in 1..Len(events) : j > i /\ events[j] \in Losses
      BY <1>1, <3>1 DEF QueueOK
    <3>3. j \in DOMAIN events' /\ events'[j] \in Losses
      BY <1>1, <2>1, <3>2
    <3>4. QED
      BY <3>2, <3>3
  <2>4. QED
    BY <2>2, <2>3
<1>4. QED
  BY <1>2, <1>3

\* The event that is handled next may be taken: a loss clears the flag, and
\* behind a GOT_IP there is one.
LEMMA EventTaken ==
  ASSUME StationOK, QueueOK, UNCHANGED link, events # <<>>, events' = Tail(events),
         Shown' => (Shown /\ Head(events) \notin Losses) \/ Head(events) = "gotip"
  PROVE  QueueOK'
<1> DEFINE n == Len(events)
<1>1. /\ DOMAIN events = 1..n /\ n \in Nat \ {0} /\ Head(events) = events[1]
      /\ DOMAIN events' = 1..(n - 1) /\ \A i \in 1..(n - 1) : events'[i] = events[i + 1]
  BY TailKeeps DEF StationOK
<1> HIDE DEF n
<1> SUFFICES ASSUME link # "up"
             PROVE  /\ Shown' => \E j \in DOMAIN events' : events'[j] \in Losses
                    /\ \A i \in DOMAIN events' : events'[i] = "gotip" =>
                         \E j \in DOMAIN events' : j > i /\ events'[j] \in Losses
  BY DEF QueueOK
<1>2. ASSUME NEW j \in 1..n, j > 1, events[j] \in Losses
      PROVE  j - 1 \in DOMAIN events' /\ events'[j - 1] \in Losses
  <2>1. j - 1 \in 1..(n - 1) /\ (j - 1) + 1 = j
    BY <1>1, <1>2
  <2>2. QED
    BY <1>1, <1>2, <2>1
<1>3. ASSUME Shown' PROVE \E j \in DOMAIN events' : events'[j] \in Losses
  <2>1. CASE Shown /\ events[1] \notin Losses
    <3>1. PICK j \in 1..n : events[j] \in Losses
      BY <1>1, <2>1 DEF QueueOK
    <3>2. j > 1
      BY <1>1, <2>1, <3>1
    <3>3. QED
      BY <1>2, <3>1, <3>2
  <2>2. CASE events[1] = "gotip"
    <3>1. PICK j \in 1..n : j > 1 /\ events[j] \in Losses
      BY <1>1, <2>2 DEF QueueOK
    <3>2. QED
      BY <1>2, <3>1
  <2>3. QED
    BY <1>1, <1>3, <2>1, <2>2
<1>4. ASSUME NEW i \in DOMAIN events', events'[i] = "gotip"
      PROVE  \E j \in DOMAIN events' : j > i /\ events'[j] \in Losses
  <2>1. i + 1 \in 1..n /\ events[i + 1] = "gotip" /\ i \in Nat
    BY <1>1, <1>4
  <2>2. PICK j \in 1..n : j > i + 1 /\ events[j] \in Losses
    BY <1>1, <2>1 DEF QueueOK
  <2>3. j > 1 /\ j - 1 > i
    BY <1>1, <2>1, <2>2
  <2>4. QED
    BY <1>2, <2>2, <2>3
<1>5. QED
  BY <1>3, <1>4

LEMMA QueueStep ==
  ASSUME StationOK, StoppedOK, QueueOK, [Next]_vars PROVE QueueOK'
<1>1. "leave" \in Losses /\ "lost" \in Losses /\ "auth" \in Losses
      /\ "start" \in Events \ {"gotip"} /\ "connected" \in Events \ {"gotip"}
      /\ "start" \notin Losses /\ "connected" \notin Losses
  BY DEF Losses, Events
<1>2. ASSUME NEW crash \in BOOLEAN, Reset(crash) PROVE QueueOK'
  BY <1>2 DEF Reset, QueueOK, Shown
<1>3. CASE UNCHANGED <<link, events, handling, connected>>
  BY <1>3 DEF QueueOK, Shown
<1>4. ASSUME Leave(events), Shown' => Shown PROVE QueueOK'
  BY <1>1, <1>4, LossQueued, OtherQueued DEF Leave
<1>5. ASSUME NEW t \in Tasks, CallerStep(t) PROVE QueueOK'
  <2>1. CASE Start(t)
    BY <1>1, <2>1, OtherQueued DEF Start, flagVars, Shown
  <2>2. CASE Connect(t)
    <3>1. Shown' => Shown
      BY <2>2 DEF Connect, Shown
    <3>2. CASE Again /\ link # "down"
      BY <1>1, <2>2, <3>2, LossQueued DEF Connect
    <3>3. CASE ~Again /\ link # "down"
      BY <2>2, <3>1, <3>3, OtherQueued DEF Connect, QueueOK, Shown
    <3>4. CASE link = "down"
      BY <2>2, <3>1, <3>4, OtherQueued DEF Connect
    <3>5. QED
      BY <3>2, <3>3, <3>4
  <2>3. CASE Accept(t) \/ CancelLeave(t) \/ Stop(t)
    BY <1>3, <1>4, <2>3 DEF Accept, CancelLeave, Stop, flagVars, Shown
  <2>4. CASE CancelFlags(t)
    BY <2>4 DEF CancelFlags, linkVars, QueueOK, Shown
  <2>5. QED
    BY <1>3, <1>5, <2>1, <2>2, <2>3, <2>4
       DEF CallerStep, Mark, Take, ConnectRefused, ConnectFails, Clear, Save, Enable, ScanBegin, Scan,
           ScanFinish, LinkFrame, linkVars, flagVars
<1>6. CASE EventStep
  <2>1. link' = link
    BY <1>6 DEF EventStep, Unhandled, OnStart, OnConnected, OnGotIp, GotIpFlags, OnLoss, EventFrame
  <2>2. CASE Unhandled
    BY <2>1, <2>2, EventTaken DEF Unhandled, flagVars, StoppedOK, Shown
  <2>3. CASE OnStart \/ OnConnected
    BY <1>1, <2>1, <2>3, EventTaken DEF OnStart, OnConnected, Handles, flagVars, Shown
  <2>4. CASE OnGotIp
    BY <2>1, <2>4, EventTaken DEF OnGotIp, Handles
  <2>5. CASE GotIpFlags
    BY <2>1, <2>5 DEF GotIpFlags, QueueOK, Shown
  <2>6. ASSUME NEW reason \in Losses, OnLoss(reason) PROVE QueueOK'
    BY <2>1, <2>6, EventTaken DEF OnLoss, Handles, Shown
  <2>7. QED
    BY <1>6, <2>2, <2>3, <2>4, <2>5, <2>6 DEF EventStep, Losses
<1>7. CASE WorkerStep
  <2>1. CASE Join
    BY <2>1, OtherQueued DEF Join, WorkerFrame, Shown, QueueOK
  <2>2. QED
    BY <1>3, <1>7, <2>1 DEF WorkerStep, Look, Sleep, Wait, WorkerTake, Retry, JoinFailed, Acknowledge,
                            WorkerFrame
<1>8. CASE Driver
  <2>1. CASE Associates
    BY <1>1, <2>1, OtherQueued DEF Associates, Link, flagVars, Shown
  <2>2. CASE GetsIp
    BY <2>2 DEF GetsIp, Link, QueueOK
  <2>3. CASE JoinLost \/ LinkLost
    BY <1>1, <2>3, LossQueued DEF JoinLost, LinkLost, Link
  <2>4. QED
    BY <1>8, <2>1, <2>2, <2>3 DEF Driver
<1>9. QED
  BY <1>2, <1>3, <1>5, <1>6, <1>7, <1>8
     DEF Next, BootCounted, BootGuardFails, Call, LinkFrame, linkVars, flagVars, WindowPasses, vars
----------------------------------------------------------------------------
(* The crash loop.                                                          *)

Rising  == {"mark", "start", "take", "connect", "accept"}
Falling == {"stopTake", "save", "stop", "clear"}
\* The record in NVS attributes a crash from now on, and counts all before it.
Marked == saved.valid /\ saved.rec.marker = "wifi" /\ saved.rec.count >= loops

\* A boot that connects by itself: no user took part, below the limit, and the
\* driver runs only behind a durable marker.
AutoOK ==
  /\ loops < FailureLimit
  /\ \A u \in Users : pc[u] = "idle"
  /\ pc[Main] \in {"idle"} \cup Rising \cup Falling
  /\ started \/ pc[Main] = "start" => Marked
  /\ pc[Main] = "mark" => guard.rec.marker = "none" /\ guard.rec.count >= loops /\ ~started
  /\ pc[Main] \in Rising => Allowed(policy)
  /\ pc[Main] \in {"take", "connect", "accept"} => started
  /\ pc[Main] \in Falling => ~started
CrashOK ==
  /\ loops <= FailureLimit
  /\ phase = "boot" /\ loops > 0 =>
       crashed /\ saved.valid /\ saved.rec.marker = "wifi" /\ saved.rec.count + 1 >= loops
  /\ phase = "run" /\ auto => AutoOK

LEMMA MarkIsDurable ==
  ASSUME GuardOK, NEW n \in Nat, MarkOk, guard.rec.marker = "none", guard.rec.count >= n
  PROVE  saved'.valid /\ saved'.rec.marker = "wifi" /\ saved'.rec.count >= n
<1> DEFINE rec == [guard.rec EXCEPT !.marker = "wifi"]
<1>1. guard.rec \in Records
  BY DEF GuardOK
<1>2. rec.marker = "wifi" /\ rec.count = guard.rec.count
  BY <1>1 DEF Records
<1> HIDE DEF rec
<1>3. Persisted(rec)
  BY DEF MarkOk, Armed, rec
<1>4. QED
  BY <1>2, <1>3 DEF Persisted

\* What a step of the boot sequence's connect does to the driver and the policy.
LEMMA MainStep ==
  ASSUME Typed, AutoOK, CallerStep(Main) PROVE AutoOK'
<1>1. pc \in [Tasks -> Places] /\ Main \in Tasks /\ loops \in Nat /\ guard.rec.count \in Nat
  <2>1. CountMax \in Nat
    BY NumbersAssumption DEF CountMax
  <2>2. guard.rec.count \in 0..CountMax
    BY DEF Typed, GuardOK, Records
  <2>3. QED
    BY <2>1, <2>2 DEF Typed, PlaceOK, CountOK, Tasks
<1>2. PlaceOK /\ PolicyOK /\ GuardOK
  BY DEF Typed
<1>3. loops' = loops
  BY DEF CallerStep, Mark, Start, Take, Connect, ConnectRefused, ConnectFails, Accept, Clear,
         CancelLeave, CancelFlags, Save, Stop, Enable, ScanBegin, Scan, ScanFinish, CallerFrame
<1>4. \A u \in Users : pc'[u] = "idle"
  <2>1. \A u \in Users : u \in Tasks \ {Main}
    BY NamesAssumption DEF Tasks
  <2>2. QED
    BY <1>2, <2>1, LockMoves DEF AutoOK, Tasks
<1>5. CASE Mark(Main)
  <2>1. pc[Main] = "mark" /\ started' = started
    BY <1>5 DEF Mark, At, AutoOK, Rising, Falling, LinkFrame, linkVars
  <2>2. CASE MarkOk /\ pc'[Main] = "start" /\ UNCHANGED policy
    <3>1. Marked'
      BY <1>1, <1>2, <1>3, <2>1, <2>2, MarkIsDurable DEF AutoOK, Marked
    <3>2. Allowed(policy')
      BY <2>1, <2>2 DEF AutoOK, Rising
    <3>3. QED
      BY <1>3, <1>4, <2>1, <2>2, <3>1, <3>2 DEF AutoOK, Rising, Falling, Allowed
  <2>3. CASE pc'[Main] = "idle"
    BY <1>3, <1>4, <2>1, <2>3 DEF AutoOK, Rising, Falling
  <2>4. QED
    BY <1>1, <1>5, <2>1, <2>2, <2>3 DEF Mark, Goto
<1>6. CASE Start(Main)
  <2>1. pc[Main] = "start" /\ saved' = saved
    BY <1>6 DEF Start, AutoOK, Rising, Falling, guardVars
  <2>2. Marked'
    BY <1>3, <2>1 DEF AutoOK, Marked
  <2>3. CASE started' = TRUE /\ pc'[Main] = "take" /\ UNCHANGED policy
    BY <1>3, <1>4, <2>1, <2>2, <2>3 DEF AutoOK, Rising, Falling, Allowed
  <2>4. CASE ~started /\ UNCHANGED started /\ pc'[Main] = "stopTake"
    BY <1>3, <1>4, <2>1, <2>2, <2>4 DEF AutoOK, Rising, Falling
  <2>5. QED
    BY <1>1, <1>6, <2>1, <2>3, <2>4 DEF Start, Goto
<1>7. ASSUME UNCHANGED <<saved, started, policy>>, pc'[Main] \in {"idle"} \cup Rising \cup Falling,
             pc'[Main] \notin {"mark", "start"}, pc[Main] \in Rising \ {"mark", "start"},
             pc'[Main] \notin Falling
      PROVE  AutoOK'
  BY <1>3, <1>4, <1>7 DEF AutoOK, Rising, Falling, Marked, Allowed
<1>8. ASSUME pc[Main] \in Falling, ~started', pc'[Main] \in {"idle"} \cup Falling PROVE AutoOK'
  BY <1>3, <1>4, <1>8 DEF AutoOK, Rising, Falling
<1>9. CASE Take(Main)
  <2>1. pc[Main] \in {"take", "stopTake"} /\ UNCHANGED <<saved, started, policy>>
    BY <1>9 DEF Take, AutoOK, Rising, Falling, LinkFrame, linkVars, guardVars
  <2>2. CASE pc[Main] = "take"
    <3>1. pc'[Main] \in {"connect", "idle"}
      BY <1>1, <1>9, <2>2 DEF Take, Goto
    <3>2. QED
      BY <1>7, <2>1, <2>2, <3>1 DEF Rising, Falling
  <2>3. CASE pc[Main] = "stopTake"
    <3>1. pc'[Main] \in {"save", "idle"}
      BY <1>1, <1>9, <2>3 DEF Take, Goto
    <3>2. QED
      BY <1>8, <2>1, <2>3, <3>1 DEF AutoOK, Falling
  <2>4. QED
    BY <2>1, <2>2, <2>3
<1>10. CASE Connect(Main)
  <2>1. pc[Main] = "connect" /\ pc'[Main] = "accept" /\ UNCHANGED <<saved, started, policy>>
    BY <1>1, <1>10 DEF Connect, At, Goto, GuardFrame, guardVars
  <2>2. QED
    BY <1>7, <2>1 DEF Rising, Falling
<1>11. CASE ConnectRefused(Main) \/ Accept(Main)
  <2>1. pc[Main] \in {"connect", "accept"} /\ UNCHANGED <<saved, started>>
    BY <1>11 DEF ConnectRefused, Accept, At, GuardFrame, guardVars, linkVars
  <2>2. Allowed(policy) /\ started
    BY <2>1 DEF AutoOK, Rising
  <2>3. pc'[Main] = "idle"
    BY <1>1, <1>11, <2>2 DEF ConnectRefused, Accept, Goto
  <2>4. QED
    BY <1>3, <1>4, <2>1, <2>2, <2>3 DEF AutoOK, Rising, Falling, Marked
<1>12. ~ConnectFails(Main)
  BY DEF ConnectFails, At, AutoOK
<1>13. CASE Save(Main) \/ Stop(Main) \/ Clear(Main)
  <2>1. pc[Main] \in Falling /\ ~started
    BY <1>13 DEF Save, Stop, Clear, At, AutoOK, Falling
  <2>2. ~started' /\ pc'[Main] \in {"stop", "clear", "idle"}
    BY <1>1, <1>13, <2>1 DEF Save, Stop, Clear, Goto, LinkFrame, linkVars
  <2>3. QED
    BY <1>8, <2>1, <2>2 DEF Falling
<1>14. ~CancelLeave(Main) /\ ~CancelFlags(Main) /\ ~Enable(Main) /\ ~ScanBegin(Main) /\ ~Scan(Main)
       /\ ~ScanFinish(Main)
  BY DEF CancelLeave, CancelFlags, Enable, ScanBegin, Scan, ScanFinish, At, AutoOK, Rising, Falling
<1>15. QED
  BY <1>5, <1>6, <1>9, <1>10, <1>11, <1>12, <1>13, <1>14 DEF CallerStep
LEMMA SameMindAllowed == ASSUME SameMind(policy, policy') PROVE Allowed(policy') <=> Allowed(policy)
BY DEF SameMind, Allowed

\* The other tasks leave the record alone, but for the acknowledgement, which
\* starts the count anew.
LEMMA OthersStep ==
  ASSUME Typed, AutoOK, EventStep \/ WorkerStep \/ Driver \/ WindowPasses \/ UNCHANGED vars
  PROVE  AutoOK'
<1>1. UNCHANGED <<pc, started>>
  BY DEF EventStep, Unhandled, OnStart, OnConnected, OnGotIp, GotIpFlags, OnLoss, EventFrame,
         WorkerStep, Look, Sleep, Wait, WorkerTake, Retry, Join, JoinFailed, Acknowledge, WorkerFrame,
         Driver, Associates, GetsIp, JoinLost, LinkLost, Link, WindowPasses, vars, linkVars
<1>2. Allowed(policy') <=> Allowed(policy)
  <2>1. CASE EventStep \/ WorkerStep
    BY <2>1, EventMind, WorkerMind, SameMindAllowed DEF Typed
  <2>2. CASE Driver \/ WindowPasses \/ UNCHANGED vars
    BY <2>2 DEF Driver, Associates, GetsIp, JoinLost, LinkLost, Link, WindowPasses, vars, Allowed
  <2>3. QED
    BY <2>1, <2>2
<1>3. CASE UNCHANGED <<guardVars, loops>>
  BY <1>1, <1>2, <1>3 DEF AutoOK, Marked, guardVars, Allowed
<1>4. CASE Acknowledge
  <2> DEFINE rec == [guard.rec EXCEPT !.count = 0]
  <2>1. guard.rec \in Records /\ saved.rec \in Records
    BY DEF Typed, GuardOK
  <2>2. rec.marker = guard.rec.marker /\ rec.count = 0
    BY <2>1 DEF Records
  <2>3. guard.rec.count >= 0 /\ saved.rec.count >= 0
    BY <2>1, NumbersAssumption DEF Records, CountMax
  <2>4. loops' = 0 /\ 0 < FailureLimit
    BY <1>4, NumbersAssumption DEF Acknowledge
  <2>5. CASE guard.rec.marker = "wifi" /\ (Persisted(rec) \/ PersistFails(rec))
    <3> HIDE DEF rec
    <3>1. pc[Main] # "mark"
      BY <2>5 DEF AutoOK
    <3>2. saved' \in {saved, [rec |-> rec, valid |-> TRUE]}
      BY <2>5 DEF Persisted, PersistFails
    <3>3. Marked => Marked'
      BY <2>2, <2>3, <2>4, <2>5, <3>2 DEF Marked
    <3>4. QED
      BY <1>1, <1>2, <2>4, <3>1, <3>3 DEF AutoOK
  <2>6. CASE UNCHANGED guardVars
    <3>1. Marked => Marked'
      BY <2>3, <2>4, <2>6 DEF Marked, guardVars
    <3>2. QED
      BY <1>1, <1>2, <2>3, <2>4, <2>6, <3>1 DEF AutoOK, guardVars
  <2>7. QED
    BY <1>4, <2>5, <2>6 DEF Acknowledge
<1>5. QED
  BY <1>3, <1>4 DEF EventStep, Unhandled, OnStart, OnConnected, OnGotIp, GotIpFlags, OnLoss, EventFrame,
         WorkerStep, Look, Sleep, Wait, WorkerTake, Retry, Join, JoinFailed,
         Driver, Associates, GetsIp, JoinLost, LinkLost, Link, WindowPasses, vars, history

\* The boot sequence connects by itself below the limit only, and with a record
\* that counts every crash of the row.
LEMMA BootAuto ==
  ASSUME Typed, BootOK, CrashOK, BootCounted, auto' PROVE AutoOK'
<1>1. pc \in [Tasks -> Places] /\ Main \in Tasks /\ loops \in Nat
  BY DEF Typed, PlaceOK, CountOK, Tasks
<1>2. /\ phase = "boot" /\ ~started /\ UNCHANGED <<started, loops>>
      /\ \A t \in Tasks : pc[t] = "idle"
  BY DEF BootCounted, BootOK, linkVars
<1>3. /\ setting /\ ~(Attributed /\ Noted.count >= FailureLimit)
      /\ policy' = BeginConnect(FreshPolicy(TRUE)) /\ Persisted(Noted)
      /\ pc' = [pc EXCEPT ![Main] = "mark"]
  BY <1>2 DEF BootCounted, BootOK
<1>4. pc'[Main] = "mark" /\ \A u \in Users : pc'[u] = "idle"
  BY <1>1, <1>2, <1>3, NamesAssumption DEF Tasks
<1>5. Allowed(policy')
  <2>1. FreshPolicy(TRUE) \in Policies /\ FreshPolicy(TRUE).enabled
    BY FreshTyped
  <2>2. QED
    BY <1>3, <2>1, UserTyped DEF Allowed
<1>6. guard'.rec = Noted /\ Noted.marker = "none"
  BY <1>3 DEF Persisted, Noted
<1>7. Noted.count >= loops /\ loops < FailureLimit
  <2>1. saved.rec.count \in 0..CountMax
    BY DEF Typed, GuardOK, Records
  <2>2. CASE loops = 0
    <3>1. Noted.count \in 0..CountMax
      BY NotedTyped DEF Typed, Records
    <3>2. QED
      BY <2>2, <3>1, NumbersAssumption DEF CountMax
  <2>3. CASE loops > 0
    <3>1. Attributed /\ saved.rec.count + 1 >= loops
      BY <1>2, <2>3 DEF CrashOK, Attributed
    <3>2. Noted.count = IF saved.rec.count < CountMax THEN saved.rec.count + 1 ELSE saved.rec.count
      BY <3>1 DEF Noted
    <3>3. Noted.count < FailureLimit
      BY <1>3, <2>1, <3>1, <3>2, NumbersAssumption DEF CountMax
    <3>4. QED
      BY <1>1, <2>1, <3>1, <3>2, <3>3, NumbersAssumption DEF CountMax
  <2>4. QED
    BY <1>1, <2>2, <2>3
<1>8. QED
  BY <1>2, <1>4, <1>5, <1>6, <1>7 DEF AutoOK, Rising, Falling

LEMMA CrashStep ==
  ASSUME Typed, BootOK, StoppedOK, CrashOK, [Next]_vars PROVE CrashOK'
<1>1. loops \in Nat /\ FailureLimit \in Nat /\ FailureLimit > 0 /\ saved.rec.count \in Nat
  <2>1. saved.rec.count \in 0..CountMax
    BY DEF Typed, GuardOK, Records
  <2>2. QED
    BY <2>1, NumbersAssumption DEF Typed, CountOK, CountMax
<1>2. ASSUME NEW crash \in BOOLEAN, Reset(crash) PROVE CrashOK'
  <2>1. saved' = saved /\ crashed' = crash /\ phase' = "boot" /\ ~auto'
    BY <1>2 DEF Reset
  <2>2. CASE crash /\ phase = "boot" /\ loops' = loops
    BY <2>1, <2>2 DEF CrashOK
  <2>3. CASE crash /\ phase # "boot" /\ auto /\ started /\ loops' = loops + 1
    <3>1. loops < FailureLimit /\ Marked
      BY <2>3 DEF CrashOK, AutoOK, Typed, PlaceOK
    <3>2. QED
      BY <1>1, <2>1, <2>3, <3>1 DEF CrashOK, Marked
  <2>4. CASE loops' = 0
    BY <1>1, <2>1, <2>4 DEF CrashOK
  <2>5. QED
    BY <1>2, <2>2, <2>3, <2>4 DEF Reset
<1>3. CASE BootCounted \/ BootGuardFails
  <2>1. phase' = "run" /\ loops' = loops
    BY <1>3 DEF BootCounted, BootGuardFails, history
  <2>2. CASE BootGuardFails
    <3>1. ~auto'
      BY <2>2 DEF BootGuardFails, history, BootOK
    <3>2. QED
      BY <2>1, <3>1 DEF CrashOK
  <2>3. CASE BootCounted
    BY <2>1, <2>3, BootAuto DEF CrashOK
  <2>4. QED
    BY <1>3, <2>2, <2>3
<1>4. ASSUME NEW u \in Users, Call(u) PROVE CrashOK'
  <2>1. phase' = "run" /\ ~auto' /\ loops' = 0
    BY <1>4 DEF Call, At, bootVars
  <2>2. QED
    BY <1>1, <2>1 DEF CrashOK
<1>5. ASSUME NEW t \in Tasks, CallerStep(t) PROVE CrashOK'
  <2>1. UNCHANGED <<phase, auto, loops>> /\ phase = "run" /\ pc[t] # "idle"
    BY <1>5
       DEF CallerStep, Mark, Start, Take, Connect, ConnectRefused, ConnectFails, Accept, Clear,
           CancelLeave, CancelFlags, Save, Stop, Enable, ScanBegin, Scan, ScanFinish, CallerFrame,
           bootVars, At
  <2>2. ASSUME auto PROVE AutoOK'
    <3>1. AutoOK /\ t = Main
      BY <2>1, <2>2 DEF CrashOK, AutoOK, Tasks
    <3>2. QED
      BY <1>5, <3>1, MainStep
  <2>3. QED
    BY <2>1, <2>2 DEF CrashOK
<1>6. CASE EventStep \/ WorkerStep \/ Driver \/ WindowPasses \/ UNCHANGED vars
  <2>1. UNCHANGED <<phase, auto, crashed>> /\ loops' \in {0, loops}
    BY <1>6 DEF EventStep, Unhandled, OnStart, OnConnected, OnGotIp, GotIpFlags, OnLoss, EventFrame,
         WorkerStep, Look, Sleep, Wait, WorkerTake, Retry, Join, JoinFailed, Acknowledge, WorkerFrame,
         Driver, Associates, GetsIp, JoinLost, LinkLost, Link, WindowPasses, vars, bootVars, history
  <2>2. phase = "boot" => UNCHANGED saved
    BY <1>6 DEF EventStep, Unhandled, OnStart, OnConnected, OnGotIp, GotIpFlags, OnLoss, EventFrame,
         WorkerStep, Look, Sleep, Wait, WorkerTake, Retry, Join, JoinFailed, Acknowledge,
         Driver, Associates, GetsIp, JoinLost, LinkLost, Link, WindowPasses, vars, guardVars, BootOK
  <2>3. phase = "run" /\ auto => AutoOK'
    BY <1>6, OthersStep DEF CrashOK
  <2>4. QED
    BY <1>1, <2>1, <2>2, <2>3 DEF CrashOK
<1>7. QED
  BY <1>2, <1>3, <1>4, <1>5, <1>6 DEF Next

----------------------------------------------------------------------------
(* The theorems.                                                            *)

IInv == /\ Typed /\ LockOK /\ BootOK /\ StoppedOK
        /\ LinkOK /\ ConnectingOK /\ QueueOK /\ CrashOK

LEMMA InitIInv == ASSUME Init PROVE IInv
<1>1. Typed
  BY InitTyped
<1>2. LockOK /\ BootOK /\ StoppedOK /\ LinkOK /\ ConnectingOK /\ QueueOK
  BY DEF Init, LockOK, Holding, BootOK, StoppedOK, LinkOK, ConnectingOK, QueueOK, Shown
<1>3. CrashOK
  BY NumbersAssumption DEF Init, CrashOK
<1>4. QED
  BY <1>1, <1>2, <1>3 DEF IInv

LEMMA StepIInv == ASSUME IInv, [Next]_vars PROVE IInv'
<1>1. PolicyOK /\ PlaceOK /\ StationOK
  BY DEF IInv, Typed
<1>2. QED
  BY <1>1, TypedStep, LockStep, BootStep, StoppedStep, LinkStep, ConnectingStep, QueueStep, CrashStep
     DEF IInv

\* What the user turned off stays off, whatever connect, retry or event was under
\* way: for any number of callers of the control operations, with the mutex, the
\* second look of a connect (Accept) and the leave of cancel and disable alone.
THEOREM TurnedOffStaysOff == Spec => []OffStaysOff
<1>1. IInv => OffStaysOff
  <2>1. ASSUME LinkOK, ConnectingOK, QueueOK, Quiet, Off, ~untold
        PROVE  link = "down" /\ ~connected /\ ~connecting
    <3>1. \A t \in Tasks : pc[t] \notin Leavers /\ pc[t] \notin Clearers
      BY <2>1 DEF Quiet, Leavers, Clearers
    <3>2. link = "down" /\ ~connecting
      BY <2>1, <3>1 DEF LinkOK, ConnectingOK, Shut
    <3>3. ~connected
      BY <2>1, <3>2 DEF QueueOK, Shown, Quiet
    <3>4. QED
      BY <3>2, <3>3
  <2>2. QED
    BY <2>1 DEF IInv, OffStaysOff
<1>2. QED
  BY <1>1, InitIInv, StepIInv, PTL DEF Spec

\* A crash loop is contained for every limit of the crashes: a boot that
\* connects by itself runs the driver only behind a durable marker, and the next
\* boot counts it before it may do so again.
THEOREM CrashLoopEnds == Spec => []CrashLoopContained
<1>1. IInv => CrashLoopContained
  BY DEF IInv, CrashOK, CrashLoopContained
<1>2. QED
  BY <1>1, InitIInv, StepIInv, PTL DEF Spec

\* The flag shown is behind no loss of the link that was handled: every step that
\* takes the link down queues a loss behind the GOT_IP that could set the flag.
THEOREM ShownLinkIsUp == Spec => []ShownIsUp
<1>1. IInv => ShownIsUp
  BY DEF IInv, QueueOK, Shown, Quiet, ShownIsUp
<1>2. QED
  BY <1>1, InitIInv, StepIInv, PTL DEF Spec
=============================================================================
