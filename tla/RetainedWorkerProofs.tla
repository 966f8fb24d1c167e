------------------------ MODULE RetainedWorkerProofs ------------------------
(***************************************************************************)
(* Proofs about RetainedWorker, for any number of tasks, stores, requests  *)
(* and mutations.                                                          *)
(***************************************************************************)
EXTENDS RetainedWorker, SequenceTheorems, TLAPS

requestVars == <<queue, nextId, result, lateIds>>

-----------------------------------------------------------------------------
(* Frames: what the steps of each party leave alone.                       *)

CallerStep(t) ==
  \/ \E o \in {"force", "preempt", "wait"} : Call(t, o)
  \/ Expire(t)
  \/ TaskStep(t)

StoreStep == \E s \in Stores : Mutate(s) \/ DirectCommit(s)

LEMMA NextByParty ==
  ASSUME [Next]_vars
  PROVE  \/ \E t \in Tasks : CallerStep(t)
         \/ WorkerStep
         \/ StoreStep
         \/ SdChange
         \/ UNCHANGED vars
BY DEF Next, CallerStep, StoreStep

LEMMA CallerFrame ==
  ASSUME NEW t \in Tasks, CallerStep(t)
  PROVE  UNCHANGED <<workVars, storeVars>>
BY DEF CallerStep, Call, Expire, TaskStep, FinishStart, ForceFlushStep, QuiesceStep,
       FfTakeRequest, FfRegister, FfEnqueue, FfPoll, FfPriorityEnd, FfGiveRequest,
       QRegister, QTakeRequest, QTakeFlush, QConfirm, QuiesceEnd, QGiveFlush,
       QGiveRequest

LEMMA CallerRequestFrame ==
  ASSUME NEW t \in Tasks, CallerStep(t), ~FfEnqueue(t)
  PROVE  UNCHANGED <<queue, nextId, result>> /\ (Expire(t) \/ UNCHANGED lateIds)
BY DEF CallerStep, Call, TaskStep, FinishStart, ForceFlushStep, QuiesceStep, Expire,
       FfTakeRequest, FfRegister, FfPoll, FfPriorityEnd, FfGiveRequest,
       QRegister, QTakeRequest, QTakeFlush, QConfirm, QuiesceEnd, QGiveFlush,
       QGiveRequest

LEMMA WorkerFrame ==
  ASSUME WorkerStep
  PROVE  UNCHANGED <<life, reqMutex, nextId, quiesceVars, forceReq, callVars, rev, sd>>
BY DEF WorkerStep, WReceive, WLock, WBeginStore, WEndStore, WGiveFlush, WPublish,
       callerUnchanged, storeVars

LEMMA StoreFrame ==
  ASSUME StoreStep
  PROVE  UNCHANGED <<life, lockVars, requestVars, quiesceVars, forceReq, callVars,
                     workVars, sd>>
BY DEF StoreStep, Mutate, DirectCommit, callerUnchanged, lockVars, requestVars

-----------------------------------------------------------------------------
(* Types.                                                                  *)

LEMMA CancelledResultType ==
  ASSUME NEW r \in Outcomes PROVE CancelledResult(r) \in Outcomes
BY DEF CancelledResult, Outcomes

(* Moving a call to a place, and ending it, keep the types of its locals.  *)
LEMMA GotoType ==
  ASSUME CallTypes, NEW t \in Tasks, NEW p \in Places, Goto(t, p) PROVE CallTypes'
BY DEF CallTypes, Goto

LEMMA GotoWithType ==
  ASSUME CallTypes, NEW t \in Tasks, NEW p \in Places, NEW r \in Outcomes,
         GotoWith(t, p, r)
  PROVE  CallTypes'
BY DEF CallTypes, GotoWith

LEMMA LeaveType ==
  ASSUME CallTypes, NEW t \in Tasks, Leave(t) PROVE CallTypes'
BY DEF CallTypes, Leave, Places, Outcomes, NoWant

LEMMA InitTypes == Init => TypeOK
<1> SUFFICES ASSUME Init PROVE TypeOK
  OBVIOUS
<1> USE DEF Init
<1>1. LockTypes    BY DEF LockTypes
<1>2. CallTypes    BY DEF CallTypes, Places, Outcomes, Stores
<1>3. RequestTypes BY DEF RequestTypes, Outcomes
<1>4. WorkTypes    BY DEF WorkTypes, NoJob, NoSnap, WorkerPlaces, Outcomes
<1>5. StoreTypes   BY DEF StoreTypes, Stores
<1> QED BY <1>1, <1>2, <1>3, <1>4, <1>5 DEF TypeOK

LEMMA LockTypesStep == ASSUME TypeOK, [Next]_vars PROVE LockTypes'
<1> USE DEF TypeOK, LockTypes
<1>1. ASSUME NEW t \in Tasks, CallerStep(t) PROVE LockTypes'
  <2> USE DEF lockVars, quiesceVars
  <2>1. CASE \E o \in {"force", "preempt", "wait"} : Call(t, o)
    BY <2>1 DEF Call
  <2>2. CASE Expire(t) BY <2>2 DEF Expire
  <2>3. CASE FinishStart(t) BY <2>3 DEF FinishStart
  <2>4. CASE ForceFlushStep(t)
    BY <2>4 DEF ForceFlushStep, FfTakeRequest, FfRegister, FfEnqueue, FfPoll,
                FfPriorityEnd, FfGiveRequest
  <2>5. CASE QuiesceStep(t)
    BY <2>5 DEF QuiesceStep, QRegister, QTakeRequest, QTakeFlush, QConfirm,
                QuiesceEnd, QGiveFlush, QGiveRequest, Withdraw
  <2> QED BY <1>1, <2>1, <2>2, <2>3, <2>4, <2>5 DEF CallerStep, TaskStep
<1>2. CASE WorkerStep
  <2>1. flushMutex' \in {flushMutex, Worker, NoTask}
    BY <1>2 DEF WorkerStep, WReceive, WLock, WBeginStore, WEndStore, WGiveFlush,
                WPublish
  <2> QED BY <1>2, <2>1, WorkerFrame DEF quiesceVars
<1>3. CASE StoreStep BY <1>3, StoreFrame DEF lockVars, quiesceVars
<1>4. CASE SdChange  BY <1>4 DEF SdChange, lockVars, quiesceVars
<1>5. CASE UNCHANGED vars BY <1>5 DEF vars
<1> QED BY <1>1, <1>2, <1>3, <1>4, <1>5, NextByParty

LEMMA CallTypesStep == ASSUME TypeOK, [Next]_vars PROVE CallTypes'
<1> USE DEF TypeOK
<1>1. ASSUME NEW t \in Tasks, CallerStep(t) PROVE CallTypes'
  <2>1. ASSUME NEW o \in {"force", "preempt", "wait"}, Call(t, o) PROVE CallTypes'
    <3>1. rev \in [Stores -> Nat] BY DEF StoreTypes
    <3>2. [s \in Stores |-> IF s \in SdOnly /\ ~sd THEN 0 ELSE rev[s]]
            \in [Stores -> Nat]
      BY <3>1
    <3>3. want' \in [Tasks -> [Stores -> Nat]]
      BY <2>1, <3>2 DEF Call, CallTypes
    <3>4. pc' \in [Tasks -> Places]
      BY <2>1 DEF Call, CallTypes, FirstPlace, Places
    <3> QED BY <2>1, <3>3, <3>4 DEF Call, CallTypes
  <2>2. CASE Expire(t) BY <2>2 DEF Expire, CallTypes
  <2>3. CASE FinishStart(t)
    BY <2>3, GotoType, LeaveType DEF FinishStart, FirstPlace, Places
  <2>4. CASE ForceFlushStep(t)
    <3> USE GotoType, GotoWithType, LeaveType DEF Places, FfHolding
    <3>1. CASE FfTakeRequest(t) BY <3>1 DEF FfTakeRequest
    <3>2. CASE FfRegister(t)    BY <3>2 DEF FfRegister, Outcomes
    <3>3. CASE FfEnqueue(t)
      <4>1. nextId + 1 \in Nat BY DEF RequestTypes
      <4>2. CASE GotoWith(t, "ffEnd", "timeout") BY <4>2 DEF Outcomes
      <4>3. CASE /\ id' = [id EXCEPT ![t] = nextId + 1]
                 /\ pc' = [pc EXCEPT ![t] = "ffPoll"]
                 /\ UNCHANGED <<op, late, res, want>>
        BY <4>1, <4>3 DEF CallTypes
      <4> QED BY <3>3, <4>2, <4>3 DEF FfEnqueue
    <3>4. CASE FfPoll(t)
      <4>1. result.value \in Outcomes BY DEF RequestTypes
      <4>2. "timeout" \in Outcomes BY DEF Outcomes
      <4> QED BY <3>4, <4>1, <4>2 DEF FfPoll
    <3>5. CASE FfPriorityEnd(t) BY <3>5 DEF FfPriorityEnd
    <3>6. CASE FfGiveRequest(t) BY <3>6 DEF FfGiveRequest
    <3> QED BY <2>4, <3>1, <3>2, <3>3, <3>4, <3>5, <3>6 DEF ForceFlushStep
  <2>5. CASE QuiesceStep(t)
    BY <2>5, GotoType, LeaveType
    DEF QuiesceStep, QRegister, QTakeRequest, QTakeFlush, QConfirm, QuiesceEnd,
        QGiveFlush, QGiveRequest, Places, QHolding, QFlushing
  <2> QED BY <1>1, <2>1, <2>2, <2>3, <2>4, <2>5 DEF CallerStep, TaskStep
<1>2. CASE WorkerStep BY <1>2, WorkerFrame DEF callVars, CallTypes
<1>3. CASE StoreStep  BY <1>3, StoreFrame DEF callVars, CallTypes
<1>4. CASE SdChange
  <2>1. want' \in [Tasks -> [Stores -> Nat]]
    BY <1>4 DEF SdChange, CallTypes
  <2> QED BY <1>4, <2>1 DEF SdChange, CallTypes
<1>5. CASE UNCHANGED vars BY <1>5 DEF vars, CallTypes
<1> QED BY <1>1, <1>2, <1>3, <1>4, <1>5, NextByParty

LEMMA QueuedTyped ==
  ASSUME NEW ids \in Seq(Nat), NEW n \in Nat PROVE Append(ids, n) \in Seq(Nat)
  BY AppendProperties

LEMMA RequestTypesStep == ASSUME TypeOK, [Next]_vars PROVE RequestTypes'
<1> USE DEF TypeOK, RequestTypes
<1>1. ASSUME NEW t \in Tasks, CallerStep(t) PROVE RequestTypes'
  <2>1. CASE FfEnqueue(t)
    <3>1. nextId' = nextId + 1 /\ result' = result
      BY <2>1 DEF FfEnqueue
    <3>2. queue' = queue \/ queue' = Append(queue, nextId + 1)
      BY <2>1 DEF FfEnqueue
    <3>3. lateIds' = lateIds \/ lateIds' = lateIds \cup {nextId + 1}
      BY <2>1 DEF FfEnqueue
    <3>4. nextId + 1 \in Nat /\ queue \in Seq(Nat)
      OBVIOUS
    <3>5. queue' \in Seq(Nat)
      BY <3>2, <3>4, QueuedTyped
    <3>6. lateIds' \subseteq Nat
      BY <3>3, <3>4
    <3> QED
      BY <3>1, <3>4, <3>5, <3>6
  <2>2. CASE Expire(t)
    <3>1. id[t] \in Nat BY DEF CallTypes
    <3>2. lateIds' = lateIds \/ lateIds' = lateIds \cup {id[t]}
      BY <2>2 DEF Expire
    <3>3. UNCHANGED <<queue, nextId, result>> BY <2>2 DEF Expire
    <3> QED BY <3>1, <3>2, <3>3
  <2>3. CASE ~FfEnqueue(t) /\ ~Expire(t)
    BY <1>1, <2>3, CallerRequestFrame
  <2> QED BY <2>1, <2>2, <2>3
<1>2. CASE WorkerStep
  <2>1. UNCHANGED nextId BY <1>2, WorkerFrame
  <2>2. CASE WReceive
    <3>1. queue' = queue \/ (queue # <<>> /\ queue' = Tail(queue))
      BY <2>2 DEF WReceive
    <3>2. UNCHANGED <<result, lateIds>> BY <2>2 DEF WReceive
    <3>3. queue' \in Seq(Nat) BY <3>1, HeadTailProperties
    <3> QED BY <2>1, <3>2, <3>3
  <2>3. CASE WPublish
    <3>1. job.id \in Nat /\ passRes \in Outcomes BY DEF WorkTypes
    <3>2. result' = result \/ result' = [id |-> job.id, value |-> passRes]
      BY <2>3 DEF WPublish
    <3>3. lateIds' = lateIds \ {job.id} /\ UNCHANGED queue
      BY <2>3 DEF WPublish
    <3>4. result' \in [id : Nat, value : Outcomes] BY <3>1, <3>2
    <3>5. lateIds' \subseteq Nat BY <3>3
    <3> QED BY <2>1, <3>3, <3>4, <3>5
  <2>4. CASE WLock \/ WBeginStore \/ WEndStore \/ WGiveFlush
    BY <2>1, <2>4 DEF WLock, WBeginStore, WEndStore, WGiveFlush
  <2> QED BY <1>2, <2>2, <2>3, <2>4 DEF WorkerStep
<1>3. CASE StoreStep BY <1>3, StoreFrame DEF requestVars
<1>4. CASE SdChange  BY <1>4 DEF SdChange
<1>5. CASE UNCHANGED vars BY <1>5 DEF vars
<1> QED BY <1>1, <1>2, <1>3, <1>4, <1>5, NextByParty

LEMMA WorkTypesStep == ASSUME TypeOK, [Next]_vars PROVE WorkTypes'
<1> USE DEF TypeOK, WorkTypes
<1>1. ASSUME NEW t \in Tasks, CallerStep(t) PROVE WorkTypes'
  BY <1>1, CallerFrame DEF workVars
<1>2. CASE WorkerStep
  <2> USE DEF WorkerPlaces, WorkerLocked
  <2>1. CASE WReceive
    <3>1. job' \in [force : BOOLEAN, id : Nat]
      <4>1. queue # <<>> => Head(queue) \in Nat
        BY HeadTailProperties DEF RequestTypes
      <4>2. job' = NoJob \/ (queue # <<>> /\ job' = [force |-> TRUE, id |-> Head(queue)])
        BY <2>1 DEF WReceive
      <4>3. ASSUME NEW n \in Nat, job' = [force |-> TRUE, id |-> n]
            PROVE  job' \in [force : BOOLEAN, id : Nat]
        BY <4>3
      <4>4. NoJob \in [force : BOOLEAN, id : Nat]
        BY DEF NoJob
      <4> QED BY <4>1, <4>2, <4>3, <4>4, Zenon
    <3> QED BY <2>1, <3>1 DEF WReceive
  <2>2. CASE WLock
    BY <2>2 DEF WLock, Outcomes
  <2>3. CASE WBeginStore
    <3>1. passRes' \in Outcomes
      BY <2>3, CancelledResultType DEF WBeginStore
    <3>2. snap' = snap \/ (~(at > NumStores) /\ snap' = [rev |-> rev[at], sd |-> sd])
      BY <2>3 DEF WBeginStore
    <3>3. ~(at > NumStores) => at \in Stores
      BY WorkerAssumption DEF Stores
    <3>3a. snap' \in [rev : Nat, sd : BOOLEAN]
      <4>1. at \in Stores => rev[at] \in Nat
        BY DEF StoreTypes
      <4>2. sd \in BOOLEAN BY DEF StoreTypes
      <4> QED BY <3>2, <3>3, <4>1, <4>2
    <3>4. at' = at \/ at' = at + 1
      BY <2>3 DEF WBeginStore
    <3>5. wpc' \in WorkerPlaces /\ job' = job
      BY <2>3 DEF WBeginStore
    <3> QED BY <3>1, <3>3a, <3>4, <3>5
  <2>4. CASE WEndStore
    <3>1. PICK r \in {"ok", "error"} :
            LET first == IF passRes = "ok" THEN r ELSE passRes IN
            passRes' = CancelledResult(first) \/ passRes' = first
      BY <2>4 DEF WEndStore
    <3>2. (IF passRes = "ok" THEN r ELSE passRes) \in Outcomes
      BY DEF Outcomes
    <3>3. passRes' \in Outcomes
      BY <3>1, <3>2, CancelledResultType
    <3>4. wpc' \in WorkerPlaces /\ job' = job /\ at' = at + 1 /\ snap' = NoSnap
      BY <2>4 DEF WEndStore
    <3> QED BY <3>3, <3>4 DEF NoSnap
  <2>5. CASE WGiveFlush BY <2>5 DEF WGiveFlush
  <2>6. CASE WPublish   BY <2>6 DEF WPublish, NoJob, Outcomes
  <2> QED BY <1>2, <2>1, <2>2, <2>3, <2>4, <2>5, <2>6 DEF WorkerStep
<1>3. CASE StoreStep BY <1>3, StoreFrame DEF workVars
<1>4. CASE SdChange  BY <1>4 DEF SdChange, workVars
<1>5. CASE UNCHANGED vars BY <1>5 DEF vars
<1> QED BY <1>1, <1>2, <1>3, <1>4, <1>5, NextByParty

LEMMA StoreTypesStep == ASSUME TypeOK, [Next]_vars PROVE StoreTypes'
<1> USE DEF TypeOK, StoreTypes
<1>1. ASSUME NEW t \in Tasks, CallerStep(t) PROVE StoreTypes'
  BY <1>1, CallerFrame DEF storeVars
<1>2. CASE WorkerStep
  <2>1. UNCHANGED <<rev, sd>> BY <1>2, WorkerFrame
  <2>2. CASE WEndStore
    <3>1. durable' = durable \/ durable' = [durable EXCEPT ![at] = snap.rev]
      BY <2>2 DEF WEndStore
    <3>2. snap.rev \in Nat BY DEF WorkTypes
    <3> QED BY <2>1, <3>1, <3>2
  <2>3. CASE WReceive \/ WLock \/ WBeginStore \/ WGiveFlush \/ WPublish
    BY <2>3 DEF WReceive, WLock, WBeginStore, WGiveFlush, WPublish, storeVars
  <2> QED BY <1>2, <2>2, <2>3 DEF WorkerStep
<1>3. CASE StoreStep
  BY <1>3 DEF StoreStep, Mutate, DirectCommit
<1>4. CASE SdChange  BY <1>4 DEF SdChange
<1>5. CASE UNCHANGED vars BY <1>5 DEF vars
<1> QED BY <1>1, <1>2, <1>3, <1>4, <1>5, NextByParty

LEMMA TypeStep == ASSUME TypeOK, [Next]_vars PROVE TypeOK'
BY LockTypesStep, CallTypesStep, RequestTypesStep, WorkTypesStep, StoreTypesStep
DEF TypeOK

(* Every variable keeps its type (RetainedWorker!TypeOK).                  *)
THEOREM TypeCorrect == Spec => []TypeOK
<1>1. TypeOK /\ [Next]_vars => TypeOK'
  BY TypeStep
<1> QED
  BY InitTypes, <1>1, PTL DEF Spec
-----------------------------------------------------------------------------
(* Custody: the program counters of the tasks and the worker say exactly   *)
(* who holds each mutex and each registration.                             *)

Custody ==
  /\ \A t \in Tasks : (reqMutex = t) <=> (pc[t] \in FfHolding \cup QHolding)
  /\ \A t \in Tasks : (flushMutex = t) <=> (pc[t] \in QFlushing)
  /\ (flushMutex = Worker) <=> (wpc \in WorkerLocked)
  /\ \A t \in Tasks : (owner = t) <=> (pc[t] = "quiesced")
  /\ \A t \in Tasks :
       (requester = t) <=> (pc[t] \in {"qTake", "qFlush", "qConfirm", "quiesced"})
  /\ \A t \in Tasks : (forceReq = t) <=> (pc[t] \in {"ffEnqueue", "ffPoll", "ffEnd"})
  /\ \A t \in Tasks : pc[t] \in {"qTake", "qFlush", "qConfirm"} =>
                        (preempt <=> op[t] = "preempt")

LEMMA CustodyInit == Init => Custody
BY WorkerAssumption
DEF Init, Custody, FfHolding, QHolding, QFlushing, WorkerLocked

LEMMA CustodyCaller ==
  ASSUME TypeOK, Custody, NEW t \in Tasks, CallerStep(t)
  PROVE  Custody'
<1> USE WorkerAssumption
    DEF TypeOK, LockTypes, CallTypes, Custody, FfHolding, QHolding, QFlushing,
        lockVars, quiesceVars, workVars
<1>1. ASSUME NEW o \in {"force", "preempt", "wait"}, Call(t, o) PROVE Custody'
  BY <1>1 DEF Call, FirstPlace
<1>2. CASE Expire(t)        BY <1>2 DEF Expire
<1>3. CASE FinishStart(t)   BY <1>3 DEF FinishStart, FirstPlace, Goto, Leave
<1>4. CASE FfTakeRequest(t)
  <2>1. CASE reqMutex = NoTask /\ reqMutex' = t /\ Goto(t, "ffRegister")
    BY <1>4, <2>1 DEF FfTakeRequest, Goto
  <2>2. CASE Leave(t) /\ UNCHANGED reqMutex
    BY <1>4, <2>2 DEF FfTakeRequest, Leave
  <2> QED BY <1>4, <2>1, <2>2 DEF FfTakeRequest
<1>5. CASE FfRegister(t)    BY <1>5 DEF FfRegister, Goto, GotoWith
<1>6. CASE FfEnqueue(t)     BY <1>6 DEF FfEnqueue, GotoWith
<1>7. CASE FfPoll(t)        BY <1>7 DEF FfPoll, GotoWith
<1>8. CASE FfPriorityEnd(t) BY <1>8 DEF FfPriorityEnd, Goto
<1>9. CASE FfGiveRequest(t) BY <1>9 DEF FfGiveRequest, Leave
<1>10. CASE QRegister(t)
  <2>1. CASE Leave(t) /\ UNCHANGED <<requester, preempt>>
    BY <1>10, <2>1 DEF QRegister, Leave
  <2>2. CASE requester = NoTask /\ requester' = t /\ Goto(t, "qTake")
    <3>1. (preempt' <=> op[t] = "preempt") /\ op' = op
      BY <1>10, <2>2 DEF QRegister, Goto
    <3> QED BY <1>10, <2>2, <3>1 DEF QRegister, Goto
  <2> QED BY <1>10, <2>1, <2>2 DEF QRegister
<1>11. CASE QTakeRequest(t)
  <2>1. CASE reqMutex = NoTask /\ reqMutex' = t /\ Goto(t, "qFlush") /\ UNCHANGED quiesceVars
    BY <1>11, <2>1 DEF QTakeRequest, Goto
  <2>2. CASE Withdraw(t) /\ Leave(t) /\ UNCHANGED reqMutex
    BY <1>11, <2>2 DEF QTakeRequest, Leave, Withdraw
  <2> QED BY <1>11, <2>1, <2>2 DEF QTakeRequest
<1>12. CASE QTakeFlush(t)
  <2>1. CASE flushMutex = NoTask /\ flushMutex' = t /\ Goto(t, "qConfirm") /\ UNCHANGED quiesceVars
    BY <1>12, <2>1 DEF QTakeFlush, Goto
  <2>2. CASE Withdraw(t) /\ Goto(t, "qGiveRequest") /\ UNCHANGED flushMutex
    BY <1>12, <2>2 DEF QTakeFlush, Goto, Withdraw
  <2> QED BY <1>12, <2>1, <2>2 DEF QTakeFlush
<1>13. CASE QConfirm(t)
  <2>1. CASE Withdraw(t) /\ Goto(t, "qGiveFlush")
    BY <1>13, <2>1 DEF QConfirm, Goto, Withdraw
  <2>2. CASE owner' = t /\ preempt' = TRUE /\ UNCHANGED requester /\ Goto(t, "quiesced")
    BY <1>13, <2>2 DEF QConfirm, Goto
  <2> QED BY <1>13, <2>1, <2>2 DEF QConfirm
<1>14. CASE QuiesceEnd(t)   BY <1>14 DEF QuiesceEnd, Goto
<1>15. CASE QGiveFlush(t)   BY <1>15 DEF QGiveFlush, Goto
<1>16. CASE QGiveRequest(t) BY <1>16 DEF QGiveRequest, Leave
<1> QED
  BY <1>1, <1>2, <1>3, <1>4, <1>5, <1>6, <1>7, <1>8, <1>9, <1>10, <1>11, <1>12,
     <1>13, <1>14, <1>15, <1>16
  DEF CallerStep, TaskStep, ForceFlushStep, QuiesceStep

LEMMA CustodyStep == ASSUME TypeOK, Custody, [Next]_vars PROVE Custody'
<1>1. ASSUME NEW t \in Tasks, CallerStep(t) PROVE Custody'
  BY <1>1, CustodyCaller
<1>2. CASE WorkerStep
  <2>1. UNCHANGED <<reqMutex, owner, requester, preempt, forceReq, pc, op>>
    BY <1>2, WorkerFrame DEF quiesceVars, callVars
  <2>2. /\ \A t \in Tasks : (flushMutex' = t) <=> (flushMutex = t)
        /\ (flushMutex' = Worker) <=> (wpc' \in WorkerLocked)
    BY <1>2, WorkerAssumption
    DEF WorkerStep, WReceive, WLock, WBeginStore, WEndStore, WGiveFlush, WPublish,
        Custody, WorkerLocked
  <2> QED BY <2>1, <2>2 DEF Custody
<1>3. CASE StoreStep
  BY <1>3, StoreFrame DEF Custody, lockVars, quiesceVars, callVars, workVars
<1>4. CASE SdChange  BY <1>4 DEF SdChange, Custody, lockVars, quiesceVars, workVars
<1>5. CASE UNCHANGED vars BY <1>5 DEF vars, Custody
<1> QED BY <1>1, <1>2, <1>3, <1>4, <1>5, NextByParty

LEMMA CustodyInvariant == Spec => []Custody
<1>1. Init => Custody
  BY CustodyInit
<1>2. TypeOK /\ Custody /\ [Next]_vars => Custody'
  BY CustodyStep
<1> QED
  BY <1>1, <1>2, TypeCorrect, PTL DEF Spec

(* While a task owns the quiesce the worker is outside every pass: owner   *)
(* and pass would both hold s_flush_mutex.                                 *)
THEOREM QuiesceExclusion == Spec => []QuiesceExcludesPass
<1>1. TypeOK /\ Custody => QuiesceExcludesPass
  BY WorkerAssumption
  DEF TypeOK, LockTypes, Custody, QuiesceExcludesPass, QFlushing
<1> QED
  BY <1>1, TypeCorrect, CustodyInvariant, PTL

(* The owner of the quiesce is never told to yield: it is the requester,   *)
(* and a registered force flush would hold the request mutex that is the   *)
(* owner's.                                                                *)
THEOREM OwnerMayPersist == Spec => []OwnerNeverYields
<1>1. TypeOK /\ Custody => OwnerNeverYields
  <2> SUFFICES ASSUME TypeOK, Custody, owner # NoTask PROVE ~ShouldYield(owner)
    BY DEF OwnerNeverYields
  <2> USE DEF TypeOK, LockTypes
  <2>1. owner \in Tasks /\ reqMutex = owner /\ requester = owner
    BY DEF Custody, QHolding, QFlushing
  <2>2. forceReq = NoTask
    <3> SUFFICES ASSUME forceReq # NoTask PROVE FALSE
      OBVIOUS
    <3>1. forceReq \in Tasks /\ reqMutex = forceReq
      BY DEF Custody, FfHolding
    <3> QED BY <2>1, <3>1 DEF Custody
  <2> QED BY <2>1, <2>2 DEF ShouldYield
<1> QED
  BY <1>1, TypeCorrect, CustodyInvariant, PTL

(* A quiesce in wait mode raises no preemption while the worker holds the  *)
(* flush mutex.                                                            *)
THEOREM WaitModeWaits == Spec => []WaitModeNeverCancels
<1>1. TypeOK /\ Custody => WaitModeNeverCancels
  BY WorkerAssumption
  DEF TypeOK, LockTypes, Custody, WaitModeNeverCancels, QFlushing
<1> QED
  BY <1>1, TypeCorrect, CustodyInvariant, PTL

(* A registration belongs to a call that is still under way.               *)
THEOREM NoStaleRegistration == Spec => []RegistrationsHaveCallers
<1>1. TypeOK /\ Custody => RegistrationsHaveCallers
  BY DEF TypeOK, LockTypes, Custody, RegistrationsHaveCallers
<1> QED
  BY <1>1, TypeCorrect, CustodyInvariant, PTL

-----------------------------------------------------------------------------
(* What a forced pass has made durable so far.                             *)

Durable(t) == \A s \in Stores : want[t][s] <= durable[s]

Revisions ==
  \A s \in Stores : /\ durable[s] <= rev[s]
                    /\ \A t \in Tasks : /\ want[t][s] <= rev[s]
                                        /\ s \in SdOnly /\ ~sd => want[t][s] = 0

RequestIds ==
  /\ \A t \in Tasks : /\ id[t] # 0 => pc[t] \in {"ffPoll", "ffEnd", "ffGive"}
                      /\ pc[t] = "ffPoll" => id[t] # 0
  /\ \A i \in DOMAIN queue : queue[i] <= nextId
  /\ job.id <= nextId
  /\ result.id <= nextId

Flushing ==
  /\ wpc \in {"receive", "lock"} => at = 1
  /\ wpc = "flushing" => /\ at \in Stores
                         /\ durable[at] <= snap.rev
                         /\ snap.rev <= rev[at]

Serves(t) == id[t] # 0 /\ job.force /\ job.id = id[t]

PassProgress ==
  \A t \in Tasks : Serves(t) =>
    /\ wpc = "flushing" => /\ want[t][at] <= snap.rev
                           /\ at \in SdOnly /\ ~snap.sd => want[t][at] = 0
    /\ passRes = "ok" => /\ \A s \in Stores : s < at => want[t][s] <= durable[s]
                         /\ wpc \in {"giveFlush", "publish"} => Durable(t)

Answers ==
  \A t \in Tasks :
    /\ id[t] # 0 /\ result.id = id[t] /\ result.value = "ok" => Durable(t)
    /\ pc[t] = "ffEnd" /\ res[t] = "ok" => Durable(t)

FlushInv == Revisions /\ RequestIds /\ Flushing /\ PassProgress /\ Answers

LEMMA StoresPositive == ASSUME NEW s \in Stores PROVE s \in Nat /\ s >= 1 /\ s <= NumStores
BY WorkerAssumption DEF Stores

LEMMA FlushInvInit == Init => FlushInv
BY WorkerAssumption
DEF Init, FlushInv, Revisions, RequestIds, Flushing, PassProgress, Answers, Serves,
    Durable, NoJob, NoSnap, Stores

(* The typed values a step of the proof compares.                          *)
LEMMA Values ==
  ASSUME TypeOK
  PROVE  /\ \A s \in Stores : rev[s] \in Nat /\ durable[s] \in Nat
         /\ \A t \in Tasks : id[t] \in Nat /\ \A s \in Stores : want[t][s] \in Nat
         /\ nextId \in Nat /\ job.id \in Nat /\ result.id \in Nat
         /\ at \in Nat /\ at >= 1 /\ snap.rev \in Nat
         /\ job.force \in BOOLEAN /\ snap.sd \in BOOLEAN /\ sd \in BOOLEAN
BY DEF TypeOK, CallTypes, RequestTypes, WorkTypes, StoreTypes

(* What is durable stays durable: a flush commits a snapshot no older than *)
(* what its medium holds.                                                  *)
LEMMA DurableGrows ==
  ASSUME TypeOK, Revisions, Flushing, [Next]_vars
  PROVE  \A s \in Stores : durable[s] <= durable'[s]
<1>0. \A s \in Stores : durable[s] \in Nat /\ rev[s] \in Nat /\ durable[s] <= rev[s]
  BY Values DEF Revisions
<1>1. ASSUME NEW t \in Tasks, CallerStep(t) PROVE durable' = durable
  BY <1>1, CallerFrame DEF storeVars
<1>2. CASE WorkerStep
  <2>1. durable' = durable \/ (WEndStore /\ durable' = [durable EXCEPT ![at] = snap.rev])
    BY <1>2 DEF WorkerStep, WReceive, WLock, WBeginStore, WEndStore, WGiveFlush,
                WPublish, storeVars
  <2>2. WEndStore => durable[at] <= snap.rev
    BY DEF WEndStore, Flushing
  <2> QED BY <1>0, <2>1, <2>2 DEF TypeOK, StoreTypes
<1>3. CASE StoreStep
  BY <1>0, <1>3 DEF StoreStep, Mutate, DirectCommit, TypeOK, StoreTypes
<1>4. CASE SdChange \/ UNCHANGED vars
  <2>1. durable' = durable BY <1>4 DEF SdChange, vars
  <2> QED BY <1>0, <2>1
<1> QED BY <1>0, <1>1, <1>2, <1>3, <1>4, NextByParty

(* Once a call is under way, what it has to make durable never grows.      *)
LEMMA WantShrinks ==
  ASSUME TypeOK, [Next]_vars, NEW t \in Tasks, pc[t] # "idle"
  PROVE  \A s \in Stores : want'[t][s] <= want[t][s]
<1>0. /\ \A s \in Stores : want[t][s] \in Nat
      /\ want \in [Tasks -> [Stores -> Nat]]
  BY Values DEF TypeOK, CallTypes
<1>1. ASSUME NEW u \in Tasks, CallerStep(u)
      PROVE  want'[t] = want[t] \/ want'[t] = NoWant
  <2>1. ASSUME NEW o \in {"force", "preempt", "wait"}, Call(u, o) PROVE want'[t] = want[t]
    BY <1>0, <2>1 DEF Call
  <2>2. CASE Expire(u) BY <2>2 DEF Expire
  <2>3. CASE TaskStep(u)
    <3>1. want' = want \/ Leave(u)
      BY <2>3 DEF TaskStep, FinishStart, ForceFlushStep, QuiesceStep, FfTakeRequest,
         FfRegister, FfEnqueue, FfPoll, FfPriorityEnd, FfGiveRequest, QRegister,
         QTakeRequest, QTakeFlush, QConfirm, QuiesceEnd, QGiveFlush, QGiveRequest,
         Goto, GotoWith
    <3> QED BY <1>0, <3>1 DEF Leave
  <2> QED BY <1>1, <2>1, <2>2, <2>3 DEF CallerStep
<1>2. CASE WorkerStep BY <1>0, <1>2, WorkerFrame DEF callVars
<1>3. CASE StoreStep  BY <1>0, <1>3, StoreFrame DEF callVars
<1>4. CASE SdChange
  <2>1. want' = want \/ want'[t] = [s \in Stores |-> IF s \in SdOnly THEN 0 ELSE want[t][s]]
    BY <1>4 DEF SdChange
  <2> QED BY <1>0, <2>1
<1>5. CASE UNCHANGED vars BY <1>0, <1>5 DEF vars
<1> QED BY <1>0, <1>1, <1>2, <1>3, <1>4, <1>5, NextByParty DEF NoWant

(* A request id is either the one the call already had or a fresh one.     *)
LEMMA IdOrigin ==
  ASSUME TypeOK, RequestIds, [Next]_vars, NEW t \in Tasks, id'[t] # 0
  PROVE  /\ pc[t] # "idle"
         /\ \/ id'[t] = id[t]
            \/ id'[t] = nextId + 1 /\ UNCHANGED <<job, result>>
<1>0. id \in [Tasks -> Nat] /\ (id[t] # 0 => pc[t] # "idle")
  BY DEF TypeOK, CallTypes, RequestIds
<1>1. ASSUME NEW u \in Tasks, CallerStep(u)
      PROVE  id'[t] = id[t] \/ (u = t /\ FfEnqueue(t) /\ id'[t] = nextId + 1)
  <2>1. CASE \E o \in {"force", "preempt", "wait"} : Call(u, o) BY <2>1 DEF Call
  <2>2. CASE Expire(u) BY <2>2 DEF Expire
  <2>3. CASE FfEnqueue(u) BY <1>0, <2>3 DEF FfEnqueue, GotoWith
  <2>4. CASE TaskStep(u) /\ ~FfEnqueue(u)
    <3>1. id' = id \/ Leave(u)
      BY <2>4 DEF TaskStep, FinishStart, ForceFlushStep, QuiesceStep, FfTakeRequest,
         FfRegister, FfPoll, FfPriorityEnd, FfGiveRequest, QRegister,
         QTakeRequest, QTakeFlush, QConfirm, QuiesceEnd, QGiveFlush, QGiveRequest,
         Goto, GotoWith
    <3> QED BY <1>0, <3>1 DEF Leave
  <2> QED BY <1>1, <2>1, <2>2, <2>3, <2>4 DEF CallerStep
<1>2. CASE WorkerStep BY <1>0, <1>2, WorkerFrame DEF callVars
<1>3. CASE StoreStep  BY <1>0, <1>3, StoreFrame DEF callVars
<1>4. CASE SdChange \/ UNCHANGED vars
  BY <1>0, <1>4 DEF SdChange, vars
<1>5. ASSUME NEW u \in Tasks, CallerStep(u), FfEnqueue(u)
      PROVE  pc[u] # "idle" /\ UNCHANGED <<job, result>>
  BY <1>5 DEF FfEnqueue, workVars
<1> QED BY <1>0, <1>1, <1>2, <1>3, <1>4, <1>5, NextByParty

LEMMA RevisionsStep ==
  ASSUME TypeOK, FlushInv, [Next]_vars PROVE Revisions'
<1> USE DEF FlushInv
<1>0. \A s \in Stores : /\ rev[s] \in Nat /\ durable[s] \in Nat /\ durable[s] <= rev[s]
                        /\ \A t \in Tasks : want[t][s] \in Nat /\ want[t][s] <= rev[s]
  BY Values DEF Revisions
<1>1. ASSUME NEW t \in Tasks, CallerStep(t) PROVE Revisions'
  <2>1. UNCHANGED <<rev, durable, sd>>
    BY <1>1, CallerFrame DEF storeVars
  <2>2. CASE \E o \in {"force", "preempt", "wait"} : Call(t, o)
    <3>1. \/ want' = want
          \/ want' = [want EXCEPT ![t] =
                       [s \in Stores |-> IF s \in SdOnly /\ ~sd THEN 0 ELSE rev[s]]]
      BY <2>2 DEF Call
    <3>2. want \in [Tasks -> [Stores -> Nat]] BY DEF TypeOK, CallTypes
    <3> QED BY <1>0, <2>1, <3>1, <3>2 DEF Revisions
  <2>3. CASE Expire(t) BY <2>1, <2>3 DEF Expire, Revisions
  <2>4. CASE TaskStep(t)
    <3>1. want' = want \/ want' = [want EXCEPT ![t] = NoWant]
      BY <2>4 DEF TaskStep, FinishStart, ForceFlushStep, QuiesceStep, FfTakeRequest,
         FfRegister, FfEnqueue, FfPoll, FfPriorityEnd, FfGiveRequest, QRegister,
         QTakeRequest, QTakeFlush, QConfirm, QuiesceEnd, QGiveFlush, QGiveRequest,
         Goto, GotoWith, Leave
    <3>2. want \in [Tasks -> [Stores -> Nat]] BY DEF TypeOK, CallTypes
    <3> QED BY <1>0, <2>1, <3>1, <3>2 DEF Revisions, NoWant
  <2> QED BY <1>1, <2>2, <2>3, <2>4 DEF CallerStep
<1>2. CASE WorkerStep
  <2>1. UNCHANGED <<want, rev, sd>> BY <1>2, WorkerFrame DEF callVars
  <2>2. durable' = durable \/ (WEndStore /\ durable' = [durable EXCEPT ![at] = snap.rev])
    BY <1>2 DEF WorkerStep, WReceive, WLock, WBeginStore, WEndStore, WGiveFlush,
                WPublish, storeVars
  <2>3. WEndStore => snap.rev <= rev[at]
    BY DEF WEndStore, Flushing
  <2>4. \A s \in Stores : durable'[s] <= rev[s]
    BY <1>0, <2>2, <2>3 DEF TypeOK, StoreTypes
  <2> QED BY <2>1, <2>4 DEF Revisions
<1>3. CASE StoreStep
  <2>1. UNCHANGED <<want, sd>> BY <1>3, StoreFrame DEF callVars
  <2>2. \A s \in Stores : rev[s] <= rev'[s] /\ rev'[s] \in Nat /\ durable'[s] <= rev'[s]
    BY <1>0, <1>3 DEF StoreStep, Mutate, DirectCommit, TypeOK, StoreTypes
  <2> QED BY <1>0, <2>1, <2>2 DEF Revisions
<1>4. CASE SdChange
  <2>1. UNCHANGED <<rev, durable>> BY <1>4 DEF SdChange
  <2>2. CASE sd
    <3>1. \A t \in Tasks, s \in Stores :
            want'[t][s] = IF s \in SdOnly THEN 0 ELSE want[t][s]
      BY <1>4, <2>2 DEF SdChange
    <3> QED BY <1>0, <2>1, <3>1 DEF Revisions
  <2>3. CASE ~sd
    <3>1. want' = want /\ sd' BY <1>4, <2>3 DEF SdChange, TypeOK, StoreTypes
    <3> QED BY <1>0, <2>1, <3>1 DEF Revisions
  <2> QED BY <2>2, <2>3 DEF TypeOK, StoreTypes
<1>5. CASE UNCHANGED vars BY <1>5 DEF vars, Revisions
<1> QED BY <1>1, <1>2, <1>3, <1>4, <1>5, NextByParty

LEMMA RequestIdsStep ==
  ASSUME TypeOK, FlushInv, [Next]_vars PROVE RequestIds'
<1> USE DEF FlushInv
<1>0. nextId \in Nat /\ job.id \in Nat /\ result.id \in Nat /\ queue \in Seq(Nat)
  BY Values DEF TypeOK, RequestTypes
<1>1. ASSUME NEW t \in Tasks, CallerStep(t) PROVE RequestIds'
  <2> USE DEF TypeOK, CallTypes, RequestIds
  <2>1. UNCHANGED job BY <1>1, CallerFrame DEF workVars
  <2>2. CASE FfEnqueue(t)
    <3>1. nextId' = nextId + 1 /\ UNCHANGED result
      BY <2>2 DEF FfEnqueue
    <3>2. \A i \in DOMAIN queue' : queue'[i] <= nextId'
      <4>1. queue' = queue \/ queue' = Append(queue, nextId + 1)
        BY <2>2 DEF FfEnqueue
      <4>2. CASE queue' = queue BY <1>0, <3>1, <4>2
      <4>3. CASE queue' = Append(queue, nextId + 1)
        <5>1. nextId + 1 \in Nat BY <1>0
        <5>2. /\ queue' \in Seq(Nat) /\ Len(queue') = Len(queue) + 1
              /\ \A i \in 1..Len(queue) : queue'[i] = queue[i]
              /\ queue'[Len(queue) + 1] = nextId + 1
          BY <1>0, <4>3, <5>1, AppendProperties
        <5>3. Len(queue) \in Nat /\ DOMAIN queue = 1..Len(queue)
              /\ DOMAIN queue' = 1..(Len(queue) + 1)
          BY <1>0, <5>2, LenProperties
        <5>4. \A i \in 1..Len(queue) : queue[i] \in Nat
          BY <1>0, <5>3, ElementOfSeq
        <5>5. \A i \in 1..Len(queue) : queue[i] <= nextId
          BY <5>3
        <5>6. ASSUME NEW i \in 1..(Len(queue) + 1) PROVE queue'[i] <= nextId + 1
          <6>1. i \in 1..Len(queue) \/ i = Len(queue) + 1
            BY <5>3, <5>6
          <6>2. i \in 1..Len(queue) => queue'[i] <= nextId
            BY <5>2, <5>5
          <6>3. i \in 1..Len(queue) => queue'[i] \in Nat
            BY <5>2, <5>4
          <6> QED BY <1>0, <5>2, <6>1, <6>2, <6>3
        <5> QED BY <3>1, <5>3, <5>6
      <4> QED BY <4>1, <4>2, <4>3
    <3>3. \A u \in Tasks : /\ id'[u] # 0 => pc'[u] \in {"ffPoll", "ffEnd", "ffGive"}
                           /\ pc'[u] = "ffPoll" => id'[u] # 0
      BY <1>0, <2>2 DEF FfEnqueue, GotoWith
    <3> QED BY <1>0, <2>1, <3>1, <3>2, <3>3
  <2>3. CASE ~FfEnqueue(t)
    <3>1. UNCHANGED <<queue, nextId, result>>
      BY <1>1, <2>3, CallerRequestFrame
    <3>2. \A u \in Tasks : /\ id'[u] # 0 => pc'[u] \in {"ffPoll", "ffEnd", "ffGive"}
                           /\ pc'[u] = "ffPoll" => id'[u] # 0
      <4>1. CASE \E o \in {"force", "preempt", "wait"} : Call(t, o)
        BY <4>1 DEF Call, FirstPlace
      <4>2. CASE Expire(t) \/ FinishStart(t)
        BY <4>2 DEF Expire, FinishStart, Goto, Leave, FirstPlace
      <4>3. CASE ForceFlushStep(t)
        <5>1. CASE FfTakeRequest(t) \/ FfRegister(t)
          BY <5>1 DEF FfTakeRequest, FfRegister, Goto, GotoWith, Leave
        <5>2. CASE FfPoll(t)
          BY <5>2 DEF FfPoll, Goto, GotoWith, Leave
        <5>3. CASE FfPriorityEnd(t) \/ FfGiveRequest(t)
          BY <5>3 DEF FfPriorityEnd, FfGiveRequest, Goto, GotoWith, Leave
        <5> QED
          BY <2>3, <4>3, <5>1, <5>2, <5>3 DEF ForceFlushStep
      <4>4. CASE QuiesceStep(t)
        <5>1. CASE QRegister(t) \/ QTakeRequest(t) \/ QTakeFlush(t) \/ QConfirm(t)
          BY <5>1 DEF QRegister, QTakeRequest, QTakeFlush, QConfirm, Goto, Leave
        <5>2. CASE QuiesceEnd(t) \/ QGiveFlush(t) \/ QGiveRequest(t)
          BY <5>2 DEF QuiesceEnd, QGiveFlush, QGiveRequest, Goto, Leave
        <5> QED
          BY <4>4, <5>1, <5>2 DEF QuiesceStep
      <4> QED BY <1>1, <2>3, <4>1, <4>2, <4>3, <4>4 DEF CallerStep, TaskStep
    <3> QED BY <2>1, <3>1, <3>2
  <2> QED BY <2>2, <2>3
<1>2. CASE WorkerStep
  <2>1. UNCHANGED <<nextId, id, pc>> BY <1>2, WorkerFrame DEF callVars
  <2>2. CASE WReceive
    <3>1. UNCHANGED result BY <2>2 DEF WReceive
    <3>2. CASE queue # <<>>
      <4>1. queue' = Tail(queue) /\ job'.id = Head(queue)
        BY <2>2, <3>2 DEF WReceive
      <4>2. Head(queue) <= nextId /\ \A i \in DOMAIN queue' : queue'[i] <= nextId
        BY <1>0, <3>2, <4>1 DEF RequestIds
      <4> QED BY <2>1, <3>1, <4>1, <4>2 DEF RequestIds
    <3>3. CASE queue = <<>>
      <4>1. UNCHANGED queue /\ job'.id = 0
        BY <2>2, <3>3 DEF WReceive, NoJob
      <4> QED BY <1>0, <2>1, <3>1, <4>1 DEF RequestIds
    <3> QED BY <3>2, <3>3
  <2>3. CASE WPublish
    <3>1. /\ UNCHANGED queue
          /\ job'.id = 0
          /\ result'.id = job.id \/ result' = result
      BY <2>3 DEF WPublish, NoJob
    <3> QED BY <1>0, <2>1, <3>1 DEF RequestIds
  <2>4. CASE WLock \/ WBeginStore \/ WEndStore \/ WGiveFlush
    <3>1. UNCHANGED <<queue, job, result>>
      BY <2>4 DEF WLock, WBeginStore, WEndStore, WGiveFlush
    <3> QED BY <2>1, <3>1 DEF RequestIds
  <2> QED BY <1>2, <2>2, <2>3, <2>4 DEF WorkerStep
<1>3. CASE StoreStep BY <1>3, StoreFrame DEF requestVars, callVars, workVars, RequestIds
<1>4. CASE SdChange  BY <1>4 DEF SdChange, workVars, RequestIds
<1>5. CASE UNCHANGED vars BY <1>5 DEF vars, RequestIds
<1> QED BY <1>1, <1>2, <1>3, <1>4, <1>5, NextByParty

LEMMA FlushingStep ==
  ASSUME TypeOK, FlushInv, [Next]_vars PROVE Flushing'
<1> USE DEF FlushInv, Flushing
<1>1. ASSUME NEW t \in Tasks, CallerStep(t) PROVE Flushing'
  BY <1>1, CallerFrame DEF workVars, storeVars
<1>2. CASE WorkerStep
  <2>1. UNCHANGED rev BY <1>2, WorkerFrame
  <2>2. CASE WReceive BY <2>2 DEF WReceive
  <2>3. CASE WLock BY <2>3 DEF WLock
  <2>4. CASE WBeginStore
    <3>1. wpc' = "flushing" => /\ ~(at > NumStores)
                               /\ at' = at /\ durable' = durable
                               /\ snap' = [rev |-> rev[at], sd |-> sd]
      BY <2>4 DEF WBeginStore, storeVars
    <3>2. ~(at > NumStores) => at \in Stores
      BY Values, WorkerAssumption DEF Stores
    <3>3. wpc' \notin {"receive", "lock"}
      BY <2>4 DEF WBeginStore
    <3> QED BY <2>1, <3>1, <3>2, <3>3, Values DEF Revisions
  <2>5. CASE WEndStore BY <2>5 DEF WEndStore
  <2>6. CASE WGiveFlush BY <2>6 DEF WGiveFlush
  <2>7. CASE WPublish BY <2>7 DEF WPublish
  <2> QED BY <1>2, <2>2, <2>3, <2>4, <2>5, <2>6, <2>7 DEF WorkerStep
<1>3. CASE StoreStep
  <2>1. UNCHANGED <<wpc, at, snap>> BY <1>3, StoreFrame DEF workVars
  <2>2. wpc = "flushing" => durable'[at] = durable[at] /\ rev[at] <= rev'[at]
                            /\ rev'[at] \in Nat
    BY <1>3, Values DEF StoreStep, Mutate, DirectCommit, TypeOK, StoreTypes
  <2> QED BY <2>1, <2>2, Values
<1>4. CASE SdChange  BY <1>4 DEF SdChange, workVars
<1>5. CASE UNCHANGED vars BY <1>5 DEF vars
<1> QED BY <1>1, <1>2, <1>3, <1>4, <1>5, NextByParty

(* A request served after the step was served before it.                   *)
LEMMA ServesOrigin ==
  ASSUME TypeOK, FlushInv, [Next]_vars, UNCHANGED job, NEW t \in Tasks, Serves(t)'
  PROVE  /\ Serves(t)
         /\ \A s \in Stores : /\ want'[t][s] \in Nat
                              /\ want'[t][s] <= want[t][s]
                              /\ want[t][s] <= durable[s] => want'[t][s] <= durable'[s]
<1>1. id'[t] # 0 BY DEF Serves
<1>2. pc[t] # "idle" /\ (id'[t] = id[t] \/ id'[t] = nextId + 1)
  BY <1>1, IdOrigin DEF FlushInv
<1>3. id'[t] # nextId + 1
  BY Values DEF FlushInv, RequestIds, Serves
<1>4. TypeOK' BY TypeStep
<1>5. \A s \in Stores : /\ want'[t][s] \in Nat /\ want'[t][s] <= want[t][s]
                        /\ want[t][s] \in Nat
                        /\ durable[s] \in Nat /\ durable'[s] \in Nat
                        /\ durable[s] <= durable'[s]
  BY <1>2, <1>4, Values, WantShrinks, DurableGrows
     DEF FlushInv, TypeOK, CallTypes, StoreTypes
<1>6. Serves(t) BY <1>1, <1>2, <1>3 DEF Serves
<1> QED BY <1>5, <1>6

(* What a pass owes a request that it serves: PassProgress, for one task.  *)
Progress(t) ==
  /\ wpc = "flushing" => /\ want[t][at] <= snap.rev
                         /\ at \in SdOnly /\ ~snap.sd => want[t][at] = 0
  /\ passRes = "ok" => /\ \A s \in Stores : s < at => want[t][s] <= durable[s]
                       /\ wpc \in {"giveFlush", "publish"} => Durable(t)

LEMMA PassProgressStep ==
  ASSUME TypeOK, FlushInv, [Next]_vars PROVE PassProgress'
<1> SUFFICES ASSUME NEW t \in Tasks, Serves(t)' PROVE Progress(t)'
  BY DEF PassProgress, Progress
<1> USE DEF FlushInv
<1>1. CASE UNCHANGED workVars
  <2>1. UNCHANGED <<wpc, job, at, snap, passRes>> BY <1>1 DEF workVars
  <2>2. Progress(t) BY <2>1, ServesOrigin DEF PassProgress, Progress
  <2>3. wpc = "flushing" => at \in Stores /\ snap.rev \in Nat
    BY Values DEF Flushing
  <2>4. wpc' = "flushing" => /\ want'[t][at'] <= snap'.rev
                             /\ at' \in SdOnly /\ ~snap'.sd => want'[t][at'] = 0
    <3> SUFFICES ASSUME wpc = "flushing"
                 PROVE  /\ want'[t][at] <= snap.rev
                        /\ at \in SdOnly /\ ~snap.sd => want'[t][at] = 0
      BY <2>1
    <3>1. want'[t][at] \in Nat /\ want'[t][at] <= want[t][at] /\ want[t][at] \in Nat
      BY <2>1, <2>3, ServesOrigin, Values
    <3> QED BY <2>2, <2>3, <3>1 DEF Progress
  <2>5. \A s \in Stores : want[t][s] <= durable[s] => want'[t][s] <= durable'[s]
    BY <2>1, ServesOrigin
  <2> QED BY <2>1, <2>2, <2>4, <2>5 DEF Progress, Durable
<1>2. CASE WorkerStep
  <2>0. /\ UNCHANGED <<want, rev, sd>>
        /\ \A s \in Stores : /\ want[t][s] \in Nat /\ rev[s] \in Nat
                             /\ durable[s] \in Nat /\ durable'[s] \in Nat
                             /\ durable[s] <= durable'[s] /\ want[t][s] <= rev[s]
                             /\ s \in SdOnly /\ ~sd => want[t][s] = 0
    <3>1. TypeOK' BY TypeStep
    <3> QED BY <1>2, <3>1, WorkerFrame, Values, DurableGrows DEF callVars, Revisions,
               TypeOK, StoreTypes
  <2>1. CASE WReceive
    <3>1. wpc' = "lock" /\ at' = 1 BY <2>1 DEF WReceive, Flushing
    <3> QED BY <3>1, StoresPositive DEF Progress
  <2>2. CASE WLock
    <3>1. /\ at' = 1 /\ wpc' # "flushing"
          /\ passRes' = "timeout" \/ wpc' = "pass"
      BY <2>2 DEF WLock, Flushing
    <3> QED BY <3>1, StoresPositive DEF Progress
  <2>3. CASE WBeginStore
    <3>0. UNCHANGED <<job, durable>> BY <2>3 DEF WBeginStore, storeVars
    <3>1. Serves(t) /\ Progress(t)
      BY <3>0, ServesOrigin DEF PassProgress, Progress
    <3>2. CASE at > NumStores
      <4>1. wpc' = "giveFlush" /\ UNCHANGED <<at, passRes>>
        BY <2>3, <3>2 DEF WBeginStore
      <4>2. \A s \in Stores : s < at
        BY <3>2, Values, StoresPositive, WorkerAssumption
      <4> QED BY <2>0, <3>0, <3>1, <4>1, <4>2 DEF Progress, Durable
    <3>3. CASE ~(at > NumStores) /\ (DeadlineExhausted \/ CancelRequested)
      <4>1. wpc' = "giveFlush" /\ UNCHANGED at /\ passRes' = CancelledResult(passRes)
        BY <2>3, <3>3 DEF WBeginStore
      <4>2. passRes' # "ok" BY <3>1, <4>1 DEF CancelledResult, Serves
      <4> QED BY <4>1, <4>2 DEF Progress
    <3>4. CASE ~(at > NumStores) /\ ~(DeadlineExhausted \/ CancelRequested) /\ ~Pending(at)
      <4>1. at' = at + 1 /\ UNCHANGED <<wpc, passRes>> /\ wpc = "pass"
        BY <2>3, <3>4 DEF WBeginStore
      <4>2. at \in Stores BY <3>4, Values, WorkerAssumption DEF Stores
      <4>3. want[t][at] <= durable[at] BY <2>0, <3>4, <4>2 DEF Pending
      <4>4. \A s \in Stores : s < at' => s < at \/ s = at
        BY <4>1, Values, StoresPositive
      <4> QED BY <2>0, <3>0, <3>1, <4>1, <4>3, <4>4 DEF Progress
    <3>5. CASE ~(at > NumStores) /\ ~(DeadlineExhausted \/ CancelRequested) /\ Pending(at)
      <4>1. /\ wpc' = "flushing" /\ UNCHANGED <<at, passRes>>
            /\ snap' = [rev |-> rev[at], sd |-> sd]
        BY <2>3, <3>5 DEF WBeginStore
      <4>2. at \in Stores BY <3>5, Values, WorkerAssumption DEF Stores
      <4>3. snap'.rev = rev[at] /\ snap'.sd = sd BY <4>1
      <4> QED BY <2>0, <3>0, <3>1, <4>1, <4>2, <4>3 DEF Progress
    <3> QED BY <3>2, <3>3, <3>4, <3>5
  <2>4. CASE WEndStore
    <3>0. UNCHANGED job /\ at' = at + 1 /\ wpc = "flushing" /\ wpc' # "flushing"
      BY <2>4 DEF WEndStore
    <3>1. Serves(t) /\ Progress(t)
      BY <3>0, ServesOrigin DEF PassProgress, Progress
    <3>2. at \in Stores /\ at \in Nat BY <3>0, StoresPositive DEF Flushing
    <3> SUFFICES ASSUME passRes' = "ok"
                 PROVE  /\ \A s \in Stores : s < at' => want[t][s] <= durable'[s]
                        /\ wpc' = "pass"
      BY <2>0, <3>0, <2>4 DEF Progress, WEndStore
    <3>3. PICK r \in {"ok", "error"}, commits \in BOOLEAN :
            /\ FlushResult(r, commits)
            /\ durable' = IF commits THEN [durable EXCEPT ![at] = snap.rev] ELSE durable
            /\ LET first == IF passRes = "ok" THEN r ELSE passRes IN
               IF DeadlineExhausted \/ CancelRequested
               THEN wpc' = "giveFlush" /\ passRes' = CancelledResult(first)
               ELSE wpc' = "pass" /\ passRes' = first
      BY <2>4 DEF WEndStore
    <3>4. \A x : CancelledResult(x) # "ok"
      BY <3>1 DEF CancelledResult, Serves
    <3>5. wpc' = "pass" /\ passRes = "ok" /\ r = "ok"
      BY <3>3, <3>4
    <3>6. want[t][at] <= durable'[at]
      <4>1. CASE commits
        <5>1. durable'[at] = snap.rev
          BY <3>2, <3>3, <4>1 DEF TypeOK, StoreTypes
        <5> QED BY <3>0, <3>1, <5>1 DEF Progress
      <4>2. CASE ~commits
        <5>1. at \in SdOnly /\ ~snap.sd
          BY <3>1, <3>3, <3>5, <4>2 DEF FlushResult, Serves
        <5> QED BY <2>0, <3>0, <3>1, <3>2, <5>1 DEF Progress
      <4> QED BY <4>1, <4>2
    <3>7. \A s \in Stores : s < at' => s < at \/ s = at
      BY <3>0, <3>2, StoresPositive
    <3> QED BY <2>0, <3>1, <3>5, <3>6, <3>7 DEF Progress
  <2>5. CASE WGiveFlush
    <3>1. /\ wpc = "giveFlush" /\ wpc' = "publish"
          /\ UNCHANGED <<job, at, snap, passRes, durable>>
      BY <2>5 DEF WGiveFlush, storeVars
    <3>2. Progress(t)
      BY <3>1, ServesOrigin DEF PassProgress, Progress
    <3> QED BY <2>0, <3>1, <3>2 DEF Progress, Durable
  <2>6. CASE WPublish
    BY <2>6 DEF WPublish, NoJob, Serves
  <2> QED BY <1>2, <2>1, <2>2, <2>3, <2>4, <2>5, <2>6 DEF WorkerStep
<1>3. ASSUME NEW u \in Tasks, CallerStep(u) PROVE UNCHANGED workVars
  BY <1>3, CallerFrame
<1>4. StoreStep => UNCHANGED workVars BY StoreFrame
<1>5. SdChange => UNCHANGED workVars BY DEF SdChange
<1>6. UNCHANGED vars => UNCHANGED workVars BY DEF vars, workVars
<1> QED BY <1>1, <1>2, <1>3, <1>4, <1>5, <1>6, NextByParty

(* What a call under way has been promised stays so.                       *)
LEMMA DurableKept ==
  ASSUME TypeOK, FlushInv, [Next]_vars, NEW t \in Tasks, pc[t] # "idle", Durable(t)
  PROVE  Durable(t)'
<1>1. TypeOK' BY TypeStep
<1>2. ASSUME NEW s \in Stores PROVE want'[t][s] <= durable'[s]
  <2>1. want[t][s] <= durable[s] BY DEF Durable
  <2>2. want'[t][s] <= want[t][s] BY WantShrinks
  <2>3. durable[s] <= durable'[s] BY DurableGrows DEF FlushInv
  <2>4. /\ want[t][s] \in Nat /\ want'[t][s] \in Nat
        /\ durable[s] \in Nat /\ durable'[s] \in Nat
    BY <1>1, Values DEF TypeOK, CallTypes, StoreTypes
  <2> QED BY <2>1, <2>2, <2>3, <2>4
<1> QED BY <1>2 DEF Durable

(* A call is at "ffEnd" with ESP_OK only if it polled its own result.      *)
LEMMA OkIsPolled ==
  ASSUME TypeOK, [Next]_vars, NEW t \in Tasks, pc'[t] = "ffEnd", res'[t] = "ok"
  PROVE  \/ pc[t] = "ffEnd" /\ res[t] = "ok"
         \/ pc[t] = "ffPoll" /\ result.id = id[t] /\ result.value = "ok"
<1>0. pc \in [Tasks -> Places] /\ res \in [Tasks -> Outcomes]
  BY DEF TypeOK, CallTypes
<1>1. ASSUME NEW u \in Tasks, CallerStep(u)
      PROVE  \/ pc'[t] = pc[t] /\ res'[t] = res[t]
             \/ u = t /\ FfPoll(t)
  <2>1. CASE \E o \in {"force", "preempt", "wait"} : Call(u, o)
    BY <1>0, <2>1 DEF Call, FirstPlace
  <2>2. CASE Expire(u) BY <2>2 DEF Expire
  <2>3. CASE FinishStart(u)
    BY <1>0, <2>3 DEF FinishStart, Goto, Leave, FirstPlace
  <2>4. CASE FfPoll(u) BY <1>0, <2>4 DEF FfPoll, GotoWith
  <2>5. CASE ForceFlushStep(u) /\ ~FfPoll(u)
    BY <1>0, <2>5 DEF ForceFlushStep, FfTakeRequest, FfRegister, FfEnqueue,
       FfPriorityEnd, FfGiveRequest, Goto, GotoWith, Leave
  <2>6. CASE QuiesceStep(u)
    BY <1>0, <2>6 DEF QuiesceStep, QRegister, QTakeRequest, QTakeFlush, QConfirm,
       QuiesceEnd, QGiveFlush, QGiveRequest, Goto, Leave
  <2> QED BY <1>1, <2>1, <2>2, <2>3, <2>4, <2>5, <2>6 DEF CallerStep, TaskStep
<1>2. FfPoll(t) => pc[t] = "ffPoll" /\ result.id = id[t] /\ result.value = "ok"
  BY <1>0 DEF FfPoll, GotoWith
<1>3. CASE WorkerStep BY <1>3, WorkerFrame DEF callVars
<1>4. CASE StoreStep BY <1>4, StoreFrame DEF callVars
<1>5. CASE SdChange \/ UNCHANGED vars BY <1>5 DEF SdChange, vars
<1> QED BY <1>1, <1>2, <1>3, <1>4, <1>5, NextByParty

LEMMA AnswersStep ==
  ASSUME TypeOK, FlushInv, [Next]_vars PROVE Answers'
<1> USE DEF FlushInv
<1>1. ASSUME NEW t \in Tasks, id'[t] # 0, result'.id = id'[t], result'.value = "ok"
      PROVE  Durable(t)'
  <2>1. CASE WPublish /\ job.force
    <3>1. /\ wpc = "publish" /\ UNCHANGED id
          /\ result'.id = job.id /\ result'.value = passRes
      BY <2>1 DEF WPublish, callerUnchanged, callVars
    <3>2. Serves(t) /\ passRes = "ok" BY <1>1, <2>1, <3>1 DEF Serves
    <3>3. Durable(t) BY <3>1, <3>2 DEF PassProgress
    <3>4. pc[t] # "idle" BY <1>1, <3>1 DEF RequestIds
    <3> QED BY <3>3, <3>4, DurableKept
  <2>2. CASE ~(WPublish /\ job.force)
    <3>1. UNCHANGED result
      <4>1. ASSUME NEW u \in Tasks, CallerStep(u) PROVE UNCHANGED result
        <5>1. FfEnqueue(u) => UNCHANGED result BY DEF FfEnqueue
        <5> QED BY <4>1, <5>1, CallerRequestFrame
      <4>2. WorkerStep => UNCHANGED result
        BY <2>2 DEF WorkerStep, WReceive, WLock, WBeginStore, WEndStore, WGiveFlush,
                    WPublish
      <4>3. StoreStep => UNCHANGED result BY StoreFrame DEF requestVars
      <4>4. SdChange \/ UNCHANGED vars => UNCHANGED result BY DEF SdChange, vars
      <4> QED BY <4>1, <4>2, <4>3, <4>4, NextByParty
    <3>2. pc[t] # "idle" /\ (id'[t] = id[t] \/ id'[t] = nextId + 1)
      BY <1>1, IdOrigin
    <3>3. id'[t] # nextId + 1
      BY <1>1, <3>1, Values DEF RequestIds
    <3>4. Durable(t) BY <1>1, <3>1, <3>2, <3>3 DEF Answers
    <3> QED BY <3>2, <3>4, DurableKept
  <2> QED BY <2>1, <2>2
<1>2. ASSUME NEW t \in Tasks, pc'[t] = "ffEnd", res'[t] = "ok" PROVE Durable(t)'
  <2>1. pc[t] # "idle" /\ Durable(t)
    BY <1>2, OkIsPolled DEF Answers, RequestIds
  <2> QED BY <2>1, DurableKept
<1> QED BY <1>1, <1>2 DEF Answers

LEMMA FlushInvariant == Spec => []FlushInv
<1>1. TypeOK /\ FlushInv /\ [Next]_vars => FlushInv'
  BY RevisionsStep, RequestIdsStep, FlushingStep, PassProgressStep, AnswersStep
  DEF FlushInv
<1> QED
  BY <1>1, FlushInvInit, TypeCorrect, PTL DEF Spec

(* A force flush that returns ESP_OK has made durable every revision the   *)
(* stores held when it was called: the pass published under its request id *)
(* went past every store.                                                  *)
THEOREM FlushIsDurable == Spec => []FlushOkMeansDurable
<1>1. TypeOK /\ FlushInv => FlushOkMeansDurable
  BY Values DEF FlushInv, Answers, Durable, FlushOkMeansDurable
<1> QED
  BY <1>1, TypeCorrect, FlushInvariant, PTL

=============================================================================
