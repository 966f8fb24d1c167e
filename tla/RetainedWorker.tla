--------------------------- MODULE RetainedWorker ---------------------------
(***************************************************************************)
(* The retained-store worker: one background task that flushes every       *)
(* retained store in descriptor order, the tasks that ask it for a forced  *)
(* flush with an absolute deadline, and the tasks that quiesce it before a *)
(* storage transition or a durable DM sequence.                            *)
(*                                                                         *)
(* Source: main/mesh/route_store_worker.c and                              *)
(* main/storage/retained_store_scheduler.c.                                *)
(*                                                                         *)
(* Time is abstracted to one bit per call, late[t]: the absolute deadline  *)
(* of the call has passed.  A queued request outlives its caller, so the   *)
(* deadlines of queued requests are kept as the set lateIds.               *)
(***************************************************************************)
EXTENDS Naturals, Sequences, FiniteSets

CONSTANTS
  Tasks,        \* tasks that call force_flush or quiesce_begin/quiesce_end
  Worker,       \* the route_persist task
  NoTask,       \* NULL
  NumStores,    \* descriptors in s_retained_stores, flushed in index order
  SdOnly,       \* stores whose flush defers, with ESP_OK, while SD is disabled
  Rechecks,     \* stores whose forced flush fails if mutated while writing
  QueueLength,  \* D1L_ROUTE_STORE_WORKER_QUEUE_LENGTH
  MaxRequests,  \* bound: force-flush requests that are given an id
  MaxRevision   \* bound: mutations of one store

ASSUME WorkerAssumption ==
  /\ Worker \notin Tasks
  /\ NoTask \notin Tasks \cup {Worker}
  /\ NumStores \in Nat \ {0}
  /\ SdOnly \subseteq 1..NumStores /\ Rechecks \subseteq 1..NumStores
  /\ QueueLength \in Nat \ {0}
  /\ MaxRequests \in Nat
  /\ MaxRevision \in Nat

VARIABLES
  life,       \* "off", "starting", "up": s_worker_task and s_worker_starting
  reqMutex,   \* holder of s_request_mutex
  flushMutex, \* holder of s_flush_mutex
  queue,      \* s_request_queue: the ids of the requests not received yet
  nextId,     \* s_next_request_id
  result,     \* s_result_request_id and s_result
  owner,      \* s_quiesce_owner
  requester,  \* s_quiesce_requester
  preempt,    \* s_quiesce_preempt_requested
  forceReq,   \* s_force_flush_requester
  pc,         \* where each calling task is
  op,         \* the call each task makes: "force", "preempt" or "wait"
  late,       \* the deadline of the task's call has passed
  id,         \* the request id of the task's force flush
  res,        \* what the task's last force flush returned
  want,       \* history: the revisions the force flush has to make durable
  lateIds,    \* request ids whose deadline has passed
  wpc,        \* where the worker task is
  job,        \* the pass the worker runs: forced or not, and its request id
  at,         \* index of the descriptor the pass has reached
  snap,       \* revision the flush in flight serialised, and whether SD was on
  passRes,    \* first_error of the pass
  rev,        \* revision of each store in RAM
  durable,    \* newest revision of each store on its medium
  sd          \* the SD backend is enabled

callVars   == <<pc, op, late, id, res, want>>
lockVars   == <<reqMutex, flushMutex>>
quiesceVars == <<owner, requester, preempt>>
workVars   == <<wpc, job, at, snap, passRes>>
storeVars  == <<rev, durable, sd>>
vars == <<life, reqMutex, flushMutex, queue, nextId, result, owner, requester,
          preempt, forceReq, pc, op, late, id, res, want, lateIds, wpc, job, at,
          snap, passRes, rev, durable, sd>>

Stores == 1..NumStores
NoJob  == [force |-> FALSE, id |-> 0]
NoSnap == [rev |-> 0, sd |-> FALSE]

(***************************************************************************)
(* The places of a calling task.  A task in FfHolding or QHolding holds    *)
(* the request mutex; one in QFlushing also holds the flush mutex.         *)
(***************************************************************************)
FfHolding == {"ffRegister", "ffEnqueue", "ffPoll", "ffEnd", "ffGive"}
QFlushing == {"qConfirm", "quiesced", "qGiveFlush"}
QHolding  == QFlushing \cup {"qFlush", "qGiveRequest"}
Places    == {"idle", "starting", "ffTake", "qRegister", "qTake"}
               \cup FfHolding \cup QHolding
WorkerLocked == {"pass", "flushing", "giveFlush"}
WorkerPlaces == {"receive", "lock", "publish"} \cup WorkerLocked
Outcomes     == {"none", "ok", "timeout", "error", "invalid_state"}

Init ==
  /\ life = "off"
  /\ reqMutex = NoTask /\ flushMutex = NoTask
  /\ queue = <<>> /\ nextId = 0 /\ result = [id |-> 0, value |-> "ok"]
  /\ owner = NoTask /\ requester = NoTask /\ preempt = FALSE
  /\ forceReq = NoTask
  /\ pc = [t \in Tasks |-> "idle"]
  /\ op = [t \in Tasks |-> "force"]
  /\ late = [t \in Tasks |-> FALSE]
  /\ id = [t \in Tasks |-> 0]
  /\ res = [t \in Tasks |-> "none"]
  /\ want = [t \in Tasks |-> [s \in Stores |-> 0]]
  /\ lateIds = {}
  /\ wpc = "receive" /\ job = NoJob /\ at = 1 /\ snap = NoSnap /\ passRes = "ok"
  /\ rev = [s \in Stores |-> 0]
  /\ durable = [s \in Stores |-> 0]
  /\ sd \in BOOLEAN

Goto(t, place) ==
  /\ pc' = [pc EXCEPT ![t] = place]
  /\ UNCHANGED <<op, late, id, res, want>>

GotoWith(t, place, r) ==
  /\ pc' = [pc EXCEPT ![t] = place]
  /\ res' = [res EXCEPT ![t] = r]
  /\ UNCHANGED <<op, late, id, want>>

(* The call returns and its locals die.                                    *)
NoWant == [s \in Stores |-> 0]
Leave(t) ==
  /\ pc' = [pc EXCEPT ![t] = "idle"]
  /\ op' = [op EXCEPT ![t] = "force"]
  /\ late' = [late EXCEPT ![t] = FALSE]
  /\ id' = [id EXCEPT ![t] = 0]
  /\ res' = [res EXCEPT ![t] = "none"]
  /\ want' = [want EXCEPT ![t] = NoWant]

-----------------------------------------------------------------------------
(* d1l_route_store_worker_start, called first by every entry point.        *)

FirstPlace(o) == IF o = "force" THEN "ffTake" ELSE "qRegister"

(* Force flushes that may still draw a request id: bounds nextId.          *)
DrawingId == {t \in Tasks : /\ op[t] = "force"
                            /\ pc[t] \in {"starting", "ffTake", "ffRegister", "ffEnqueue"}}

(* An entry point is called; a call that finds another task inside         *)
(* worker_start returns ESP_ERR_INVALID_STATE and changes nothing.         *)
Call(t, o) ==
  /\ pc[t] = "idle"
  /\ o = "force" => nextId + Cardinality(DrawingId) < MaxRequests
  /\ life # "starting"
  /\ life' = IF life = "up" THEN "up" ELSE "starting"
  /\ pc' = [pc EXCEPT ![t] = IF life = "up" THEN FirstPlace(o) ELSE "starting"]
  /\ op' = [op EXCEPT ![t] = o]
  /\ want' = IF o = "force"
             THEN [want EXCEPT ![t] =
                    [s \in Stores |-> IF s \in SdOnly /\ ~sd THEN 0 ELSE rev[s]]]
             ELSE want
  /\ UNCHANGED <<lockVars, queue, nextId, result, quiesceVars, forceReq, late,
                 id, res, lateIds, workVars, storeVars>>

(* The mutexes, the queue and the task are created, or an allocation fails *)
(* and the caller returns ESP_ERR_NO_MEM.                                  *)
FinishStart(t) ==
  /\ pc[t] = "starting"
  /\ \/ life' = "up" /\ Goto(t, FirstPlace(op[t]))
     \/ life' = "off" /\ Leave(t)
  /\ UNCHANGED <<lockVars, queue, nextId, result, quiesceVars, forceReq,
                 lateIds, workVars, storeVars>>

(* The deadline of a call passes, in a place from which it is still read.  *)
Expire(t) ==
  /\ pc[t] \in {"starting", "ffTake", "ffRegister", "ffEnqueue", "ffPoll",
                "qRegister", "qTake", "qFlush", "qConfirm"}
  /\ ~late[t]
  /\ late' = [late EXCEPT ![t] = TRUE]
  /\ lateIds' = IF id[t] = 0 THEN lateIds ELSE lateIds \cup {id[t]}
  /\ UNCHANGED <<life, lockVars, queue, nextId, result, quiesceVars, forceReq,
                 pc, op, id, res, want, workVars, storeVars>>

-----------------------------------------------------------------------------
(* d1l_route_store_worker_force_flush                                      *)

(* Faulty variant: the mutex is awaited with portMAX_DELAY.                *)
FfTakeRequestForever(t) ==
  /\ pc[t] = "ffTake"
  /\ reqMutex = NoTask /\ reqMutex' = t /\ Goto(t, "ffRegister")
  /\ UNCHANGED <<life, flushMutex, queue, nextId, result, quiesceVars, forceReq,
                 lateIds, workVars, storeVars>>

FfTakeRequest(t) ==
  /\ pc[t] = "ffTake"
  /\ \/ reqMutex = NoTask /\ reqMutex' = t /\ Goto(t, "ffRegister")
     \/ late[t] /\ Leave(t) /\ UNCHANGED reqMutex   \* ESP_ERR_TIMEOUT
  /\ UNCHANGED <<life, flushMutex, queue, nextId, result, quiesceVars, forceReq,
                 lateIds, workVars, storeVars>>

(* The deadline is checked again under the mutex, then the priority hint   *)
(* that makes other tasks' persistence yield is registered.                *)
FfRegister(t) ==
  /\ pc[t] = "ffRegister"
  /\ \/ /\ late[t]
        /\ GotoWith(t, "ffGive", "timeout") /\ UNCHANGED forceReq
     \/ /\ ~late[t] /\ forceReq # NoTask
        /\ GotoWith(t, "ffGive", "invalid_state") /\ UNCHANGED forceReq
     \/ /\ ~late[t] /\ forceReq = NoTask
        /\ forceReq' = t /\ Goto(t, "ffEnqueue")
  /\ UNCHANGED <<life, lockVars, queue, nextId, result, quiesceVars, lateIds,
                 workVars, storeVars>>

FfEnqueue(t) ==
  /\ pc[t] = "ffEnqueue"
  /\ nextId' = nextId + 1
  /\ \/ /\ Len(queue) < QueueLength
        /\ queue' = Append(queue, nextId + 1)
        /\ id' = [id EXCEPT ![t] = nextId + 1]
        /\ lateIds' = IF late[t] THEN lateIds \cup {nextId + 1} ELSE lateIds
        /\ pc' = [pc EXCEPT ![t] = "ffPoll"]
        /\ UNCHANGED <<op, late, res, want>>
     \/ /\ Len(queue) >= QueueLength
        /\ GotoWith(t, "ffEnd", "timeout")
        /\ UNCHANGED <<queue, lateIds>>
  /\ UNCHANGED <<life, lockVars, result, quiesceVars, forceReq, workVars,
                 storeVars>>

(* Faulty variant: any result counts as the answer, whichever request it   *)
(* was published for.                                                      *)
FfPollAny(t) ==
  /\ pc[t] = "ffPoll"
  /\ \/ result.id # 0 /\ GotoWith(t, "ffEnd", result.value)
     \/ result.id = 0 /\ late[t] /\ GotoWith(t, "ffEnd", "timeout")
  /\ UNCHANGED <<life, lockVars, queue, nextId, result, quiesceVars, forceReq,
                 lateIds, workVars, storeVars>>

(* The caller polls for the result published under its own id until the    *)
(* deadline passes.                                                        *)
FfPoll(t) ==
  /\ pc[t] = "ffPoll"
  /\ \/ result.id = id[t] /\ GotoWith(t, "ffEnd", result.value)
     \/ result.id # id[t] /\ late[t] /\ GotoWith(t, "ffEnd", "timeout")
  /\ UNCHANGED <<life, lockVars, queue, nextId, result, quiesceVars, forceReq,
                 lateIds, workVars, storeVars>>

FfPriorityEnd(t) ==
  /\ pc[t] = "ffEnd"
  /\ forceReq' = IF forceReq = t THEN NoTask ELSE forceReq
  /\ Goto(t, "ffGive")
  /\ UNCHANGED <<life, lockVars, queue, nextId, result, quiesceVars, lateIds,
                 workVars, storeVars>>

FfGiveRequest(t) ==
  /\ pc[t] = "ffGive"
  /\ reqMutex' = NoTask
  /\ Leave(t)
  /\ UNCHANGED <<life, flushMutex, queue, nextId, result, quiesceVars, forceReq,
                 lateIds, workVars, storeVars>>

-----------------------------------------------------------------------------
(* route_store_worker_quiesce_begin and d1l_route_store_worker_quiesce_end *)

(* One registration at a time; the loser returns ESP_ERR_INVALID_STATE.    *)
QRegister(t) ==
  /\ pc[t] = "qRegister"
  /\ \/ /\ owner = NoTask /\ requester = NoTask
        /\ requester' = t
        /\ preempt' = (op[t] = "preempt")
        /\ Goto(t, "qTake")
     \/ /\ owner # NoTask \/ requester # NoTask
        /\ Leave(t)
        /\ UNCHANGED <<requester, preempt>>
  /\ UNCHANGED <<life, lockVars, queue, nextId, result, owner, forceReq,
                 lateIds, workVars, storeVars>>

(* A quiesce that runs out of time withdraws its registration.             *)
Withdraw(t) ==
  /\ requester' = IF requester = t THEN NoTask ELSE requester
  /\ preempt' = IF requester = t THEN FALSE ELSE preempt
  /\ UNCHANGED owner

QTakeRequest(t) ==
  /\ pc[t] = "qTake"
  /\ \/ reqMutex = NoTask /\ reqMutex' = t /\ Goto(t, "qFlush") /\ UNCHANGED quiesceVars
     \/ late[t] /\ Withdraw(t) /\ Leave(t) /\ UNCHANGED reqMutex
  /\ UNCHANGED <<life, flushMutex, queue, nextId, result, forceReq, lateIds,
                 workVars, storeVars>>

QTakeFlush(t) ==
  /\ pc[t] = "qFlush"
  /\ \/ flushMutex = NoTask /\ flushMutex' = t /\ Goto(t, "qConfirm") /\ UNCHANGED quiesceVars
     \/ late[t] /\ Withdraw(t) /\ Goto(t, "qGiveRequest") /\ UNCHANGED flushMutex
  /\ UNCHANGED <<life, reqMutex, queue, nextId, result, forceReq, lateIds,
                 workVars, storeVars>>

(* Ownership is taken only before the deadline.  From here the preemption  *)
(* flag is raised in wait mode too: direct persistence does not hold the   *)
(* flush mutex and must yield to the owner.                                *)
QConfirm(t) ==
  /\ pc[t] = "qConfirm"
  /\ \/ late[t] /\ Withdraw(t) /\ Goto(t, "qGiveFlush")
     \/ /\ ~late[t]
        /\ owner' = t /\ preempt' = TRUE /\ UNCHANGED requester
        /\ Goto(t, "quiesced")
  /\ UNCHANGED <<life, lockVars, queue, nextId, result, forceReq, lateIds,
                 workVars, storeVars>>

QuiesceEnd(t) ==
  /\ pc[t] = "quiesced"
  /\ owner = t
  /\ owner' = NoTask /\ requester' = NoTask /\ preempt' = FALSE
  /\ Goto(t, "qGiveFlush")
  /\ UNCHANGED <<life, lockVars, queue, nextId, result, forceReq, lateIds,
                 workVars, storeVars>>

QGiveFlush(t) ==
  /\ pc[t] = "qGiveFlush"
  /\ flushMutex' = NoTask
  /\ Goto(t, "qGiveRequest")
  /\ UNCHANGED <<life, reqMutex, queue, nextId, result, quiesceVars, forceReq,
                 lateIds, workVars, storeVars>>

QGiveRequest(t) ==
  /\ pc[t] = "qGiveRequest"
  /\ reqMutex' = NoTask
  /\ Leave(t)
  /\ UNCHANGED <<life, flushMutex, queue, nextId, result, quiesceVars, forceReq,
                 lateIds, workVars, storeVars>>

-----------------------------------------------------------------------------
(* route_store_worker_task, flush_retained_stores_locked and               *)
(* d1l_retained_store_scheduler_run                                        *)

DeadlineExhausted == job.force /\ job.id \in lateIds
CancelRequested   == requester # NoTask /\ preempt   \* worker_quiesce_requested
Pending(s)        == durable[s] # rev[s]             \* observation_pending

callerUnchanged ==
  UNCHANGED <<life, reqMutex, nextId, quiesceVars, forceReq, callVars>>

(* A queued request starts a forced pass; an idle interval a background    *)
(* one.                                                                    *)
WReceive ==
  /\ wpc = "receive"
  /\ life = "up"
  /\ IF queue # <<>>
     THEN /\ job' = [force |-> TRUE, id |-> Head(queue)]
          /\ queue' = Tail(queue)
     ELSE job' = NoJob /\ UNCHANGED queue
  /\ wpc' = "lock"
  /\ callerUnchanged /\ UNCHANGED lateIds
  /\ UNCHANGED <<flushMutex, result, at, snap, passRes, storeVars>>

(* Faulty variant: a forced pass that could not take the mutex runs.       *)
WLockIgnored ==
  /\ wpc = "lock"
  /\ \/ flushMutex = NoTask /\ flushMutex' = Worker
     \/ DeadlineExhausted /\ UNCHANGED flushMutex
  /\ wpc' = "pass"
  /\ callerUnchanged /\ UNCHANGED lateIds
  /\ UNCHANGED <<queue, result, job, at, snap, passRes, storeVars>>

(* Faulty variant: every pass waits for the flush mutex for ever.          *)
WLockForever ==
  /\ wpc = "lock"
  /\ flushMutex = NoTask /\ flushMutex' = Worker
  /\ wpc' = "pass"
  /\ callerUnchanged /\ UNCHANGED lateIds
  /\ UNCHANGED <<queue, result, job, at, snap, passRes, storeVars>>

(* A background pass waits for the flush mutex for ever; a forced one no   *)
(* longer than its deadline.                                               *)
WLock ==
  /\ wpc = "lock"
  /\ \/ /\ flushMutex = NoTask
        /\ flushMutex' = Worker
        /\ wpc' = "pass" /\ UNCHANGED passRes
     \/ /\ DeadlineExhausted
        /\ wpc' = "publish" /\ passRes' = "timeout"
        /\ UNCHANGED flushMutex
  /\ callerUnchanged /\ UNCHANGED lateIds
  /\ UNCHANGED <<queue, result, job, at, snap, storeVars>>

(* Faulty variant: a forced pass cut short by a quiesce ends well.         *)
CancelledQuietly(r) == IF DeadlineExhausted THEN "timeout" ELSE r

(* What cancel_pass returns: a deadline overrides an earlier error, a      *)
(* quiesce cancellation does not, and it is an error only when forced.     *)
CancelledResult(r) ==
  IF DeadlineExhausted \/ (r = "ok" /\ job.force) THEN "timeout" ELSE r

(* The checks before descriptor `at`: cancel the rest of the pass, skip a  *)
(* clean store, or enter its flush callback.  The code checks three times  *)
(* on the way; the last check and the call are one step here, so a request *)
(* that lands between them counts as landing during the callback.          *)
WBeginStore ==
  /\ wpc = "pass"
  /\ IF at > NumStores
     THEN wpc' = "giveFlush" /\ UNCHANGED <<at, snap, passRes>>
     ELSE IF DeadlineExhausted \/ CancelRequested
     THEN /\ wpc' = "giveFlush"
          /\ passRes' = CancelledResult(passRes)
          /\ UNCHANGED <<at, snap>>
     ELSE IF ~Pending(at)
     THEN at' = at + 1 /\ UNCHANGED <<wpc, snap, passRes>>
     ELSE /\ wpc' = "flushing"
          /\ snap' = [rev |-> rev[at], sd |-> sd]
          /\ UNCHANGED <<at, passRes>>
  /\ callerUnchanged /\ UNCHANGED lateIds
  /\ UNCHANGED <<flushMutex, queue, result, job, storeVars>>

(* How a flush callback can end: it commits what it serialised (forced, it *)
(* may report that newer mutations are still dirty), it has nothing due in *)
(* a background pass, it defers while SD is disabled, or it fails, having  *)
(* written the snapshot to one of its media or not.                        *)
FlushResult(r, commits) ==
  \/ /\ r = "ok" /\ commits
     /\ at \in SdOnly => snap.sd
     /\ job.force /\ at \in Rechecks => snap.rev = rev[at]
  \/ /\ r = "ok" /\ ~commits
     /\ ~job.force \/ (at \in SdOnly /\ ~snap.sd)
  \/ r = "error" /\ (commits => (at \in SdOnly => snap.sd))

(* The callback in flight when the deadline passes or a quiesce is         *)
(* requested is the last of the pass.                                      *)
WEndStore ==
  /\ wpc = "flushing"
  /\ \E r \in {"ok", "error"}, commits \in BOOLEAN :
       LET first == IF passRes = "ok" THEN r ELSE passRes IN
       /\ FlushResult(r, commits)
       /\ durable' = IF commits THEN [durable EXCEPT ![at] = snap.rev] ELSE durable
       /\ IF DeadlineExhausted \/ CancelRequested
          THEN wpc' = "giveFlush" /\ passRes' = CancelledResult(first)
          ELSE wpc' = "pass" /\ passRes' = first
  /\ at' = at + 1 /\ snap' = NoSnap
  /\ callerUnchanged /\ UNCHANGED lateIds
  /\ UNCHANGED <<flushMutex, queue, result, job, rev, sd>>

WGiveFlush ==
  /\ wpc = "giveFlush"
  /\ flushMutex' = NoTask
  /\ wpc' = "publish"
  /\ callerUnchanged /\ UNCHANGED lateIds
  /\ UNCHANGED <<queue, result, job, at, snap, passRes, storeVars>>

(* publish_pass, and publish_result when the pass was requested.           *)
WPublish ==
  /\ wpc = "publish"
  /\ result' = IF job.force THEN [id |-> job.id, value |-> passRes] ELSE result
  /\ wpc' = "receive" /\ job' = NoJob /\ passRes' = "ok" /\ at' = 1
  /\ lateIds' = lateIds \ {job.id}
  /\ callerUnchanged
  /\ UNCHANGED <<flushMutex, queue, snap, storeVars>>

-----------------------------------------------------------------------------
(* The stores: other tasks mutate them in RAM, and some persist directly   *)
(* under the store's own persistence mutex, outside a worker pass.         *)

Mutate(s) ==
  /\ rev[s] < MaxRevision
  /\ rev' = [rev EXCEPT ![s] = @ + 1]
  /\ callerUnchanged /\ UNCHANGED lateIds
  /\ UNCHANGED <<flushMutex, queue, result, workVars, durable, sd>>

DirectCommit(s) ==
  /\ Pending(s)
  /\ s \in SdOnly => sd
  /\ ~(wpc = "flushing" /\ at = s)
  /\ durable' = [durable EXCEPT ![s] = rev[s]]
  /\ callerUnchanged /\ UNCHANGED lateIds
  /\ UNCHANGED <<flushMutex, queue, result, workVars, rev, sd>>

(* The storage manager enables or disables the SD backend.  A force flush  *)
(* that sees it disabled is not held to the stores that live only on SD.   *)
SdChange ==
  /\ sd' = ~sd
  /\ want' = IF sd THEN [t \in Tasks |-> [s \in Stores |->
                             IF s \in SdOnly THEN 0 ELSE want[t][s]]]
             ELSE want
  /\ UNCHANGED <<life, lockVars, queue, nextId, result, quiesceVars, forceReq,
                 pc, op, late, id, res, lateIds, workVars, rev, durable>>

-----------------------------------------------------------------------------
ForceFlushStep(t) ==
  \/ FfTakeRequest(t) \/ FfRegister(t) \/ FfEnqueue(t)
  \/ FfPoll(t) \/ FfPriorityEnd(t) \/ FfGiveRequest(t)

QuiesceStep(t) ==
  \/ QRegister(t) \/ QTakeRequest(t) \/ QTakeFlush(t) \/ QConfirm(t)
  \/ QuiesceEnd(t) \/ QGiveFlush(t) \/ QGiveRequest(t)

TaskStep(t) == FinishStart(t) \/ ForceFlushStep(t) \/ QuiesceStep(t)

WorkerStep ==
  \/ WReceive \/ WLock \/ WBeginStore \/ WEndStore \/ WGiveFlush \/ WPublish

Next ==
  \/ \E t \in Tasks, o \in {"force", "preempt", "wait"} : Call(t, o)
  \/ \E t \in Tasks : Expire(t) \/ TaskStep(t)
  \/ WorkerStep
  \/ \E s \in Stores : Mutate(s) \/ DirectCommit(s)
  \/ SdChange

Spec == Init /\ [][Next]_vars

(* Every task runs, every finite timeout runs out, a store callback        *)
(* returns, and an owner ends the quiesce it began.  Nothing is assumed of *)
(* who wins a contended mutex.                                             *)
Fairness ==
  /\ \A t \in Tasks : WF_vars(Expire(t)) /\ WF_vars(TaskStep(t))
  /\ WF_vars(WorkerStep)

FairSpec == Spec /\ Fairness
-----------------------------------------------------------------------------
(* d1l_route_store_persistence_should_yield, asked by task t before SD I/O *)
ShouldYield(t) ==
  \/ preempt /\ requester # NoTask /\ t # requester /\ t # owner
  \/ forceReq # NoTask /\ t # forceReq /\ t # Worker

(* Every variable keeps its type.                                          *)
LockTypes ==
  /\ life \in {"off", "starting", "up"}
  /\ reqMutex \in Tasks \cup {NoTask}
  /\ flushMutex \in Tasks \cup {NoTask, Worker}
  /\ owner \in Tasks \cup {NoTask}
  /\ requester \in Tasks \cup {NoTask}
  /\ preempt \in BOOLEAN
  /\ forceReq \in Tasks \cup {NoTask}
CallTypes ==
  /\ pc \in [Tasks -> Places]
  /\ op \in [Tasks -> {"force", "preempt", "wait"}]
  /\ late \in [Tasks -> BOOLEAN]
  /\ id \in [Tasks -> Nat]
  /\ res \in [Tasks -> Outcomes]
  /\ want \in [Tasks -> [Stores -> Nat]]
RequestTypes ==
  /\ queue \in Seq(Nat)
  /\ nextId \in Nat
  /\ lateIds \subseteq Nat
  /\ result \in [id : Nat, value : Outcomes]
WorkTypes ==
  /\ wpc \in WorkerPlaces
  /\ job \in [force : BOOLEAN, id : Nat]
  /\ at \in Nat \ {0}
  /\ snap \in [rev : Nat, sd : BOOLEAN]
  /\ passRes \in Outcomes
StoreTypes ==
  /\ rev \in [Stores -> Nat]
  /\ durable \in [Stores -> Nat]
  /\ sd \in BOOLEAN
TypeOK == LockTypes /\ CallTypes /\ RequestTypes /\ WorkTypes /\ StoreTypes

(***************************************************************************)
(* While a task owns the quiesce, the worker is not inside a pass: no      *)
(* store callback of the worker can overlap the owner's storage traffic.   *)
(* quiesce_begin and flush_retained_stores_locked share s_flush_mutex.     *)
(***************************************************************************)
QuiesceExcludesPass == owner # NoTask => wpc \notin WorkerLocked

(***************************************************************************)
(* A force flush that returned ESP_OK made durable everything the stores   *)
(* held when it was called, although the pass runs in another task, earlier*)
(* requests may have been abandoned, stores are mutated while the pass is  *)
(* under way, and its result is read from a mailbox shared by all calls.   *)
(***************************************************************************)
FlushOkMeansDurable ==
  \A t \in Tasks : (pc[t] = "ffEnd" /\ res[t] = "ok") =>
    \A s \in Stores : durable[s] >= want[t][s]

(***************************************************************************)
(* The quiesce owner is never told to yield its own persistence: it can    *)
(* write while it owns the quiesce, whatever forced flush was cut short by *)
(* its arrival (d1l_route_store_persistence_should_yield).                 *)
(***************************************************************************)
OwnerNeverYields == owner # NoTask => ~ShouldYield(owner)

(***************************************************************************)
(* A waiting quiesce (quiesce_wait_begin) never cancels the pass it waits  *)
(* for: the preemption flag is down until the flush mutex is its own.      *)
(***************************************************************************)
WaitModeNeverCancels ==
  (wpc \in WorkerLocked /\ requester # NoTask) =>
    (preempt => op[requester] = "preempt")

(***************************************************************************)
(* No call leaves a registration behind.  A stale s_quiesce_requester      *)
(* would fail every later quiesce and cancel every later pass; a stale     *)
(* s_force_flush_requester would make every other task yield for ever.     *)
(***************************************************************************)
RegistrationsHaveCallers ==
  /\ requester # NoTask => pc[requester] \in {"qTake", "qFlush", "qConfirm", "quiesced"}
  /\ forceReq # NoTask => pc[forceReq] \in {"ffEnqueue", "ffPoll", "ffEnd"}

(***************************************************************************)
(* Every call returns: whatever the other tasks and the worker do, a force *)
(* flush or a quiesce ends, and with it the locks it took.                 *)
(***************************************************************************)
CallsReturn == \A t \in Tasks : []<>(pc[t] = "idle")

(***************************************************************************)
(* A forced request never occupies the worker for ever: it is answered,    *)
(* although its caller may be gone and quiescing tasks may contend for the *)
(* flush mutex without end.                                                *)
(***************************************************************************)
RequestAnswered == []<>(job.force => wpc = "receive")
=============================================================================
