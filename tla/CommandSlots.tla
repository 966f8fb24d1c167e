---------------------------- MODULE CommandSlots ----------------------------
(***************************************************************************)
(* The synchronous command path of the MeshCore service: tasks (console,   *)
(* UI, BLE) claim one of a few request slots, queue a copy of the command  *)
(* and wait on the slot's semaphore; the owner task dequeues the copy,     *)
(* admits or expires the request, runs it and signals the slot.            *)
(*                                                                         *)
(*   mesh/meshcore_runtime_guard.h   the CAS word <<request id, state>>    *)
(*   mesh/meshcore_command_guard.h   operations on a slot                  *)
(*   mesh/meshcore_service.c         callers and the owner loop            *)
(*                                                                         *)
(* Every compare-and-swap, semaphore operation, queue operation and store  *)
(* to a slot that another task could see is a step of its own.  Time is    *)
(* one bit per request (late): its deadline has passed.  A command is the  *)
(* id of its request; id 0 is a command nobody waits for.                  *)
(***************************************************************************)
EXTENDS Naturals, Sequences

CONSTANTS
  Callers,          \* tasks that issue synchronous commands (not the owner)
  SlotCount,        \* D1L_MESHCORE_REQUEST_SLOT_COUNT
  QueueLength,      \* D1L_MESHCORE_SERVICE_QUEUE_LEN
  MaxId             \* D1L_MESH_REQUEST_ID_MAX: ids are never reused

ASSUME SlotAssumption == /\ SlotCount \in Nat \ {0}
                         /\ QueueLength \in Nat \ {0}
                         /\ MaxId \in Nat

VARIABLES
  nextId,           \* s_next_request_id
  word,             \* lifecycle word of each slot: request id and state
  given,            \* the slot's completion semaphore holds a give
  result,           \* the slot's result: 0 is ESP_ERR_TIMEOUT, n the reply to n
  secret,           \* the slot's admin password: whose it is, 0 when wiped
  queue,            \* s_service_queue
  pc, id, at, got,  \* per caller: next step, request, slot, result it read
  ownerPc, cmd,     \* the owner task's next step and the command it holds
  took,             \* the admin password the running command took, 0 if none
  late,             \* requests whose deadline has passed
  admin,            \* requests that carry an admin password
  ran,              \* history: requests whose command ran
  timedOut,         \* history: requests whose call returned ESP_ERR_TIMEOUT
  answer,           \* history: the result each call returned, 0 if none
  refused           \* callers turned away because the ids are used up

slotVars   == <<word, given, result, secret>>
callerVars == <<pc, id, at, got, admin, refused, nextId>>
ownerVars  == <<ownerPc, cmd, took>>
history    == <<ran, timedOut, answer>>
vars == <<slotVars, callerVars, ownerVars, history, queue, late>>

Slots  == 1 .. SlotCount
Ids    == 1 .. MaxId
States == {"FREE", "CLAIMED", "PENDING", "ADMITTED", "CALLER_CANCELLED",
           "OWNER_EXPIRED", "COMPLETED"}
W(n, state) == [id |-> n, state |-> state]
Free == W(0, "FREE")
Command(n, s) == [id |-> n, slot |-> s]
NoCommand == Command(0, 1)

Init == /\ nextId = 0
        /\ word = [s \in Slots |-> Free]
        /\ given = [s \in Slots |-> FALSE]
        /\ result = [s \in Slots |-> 0]
        /\ secret = [s \in Slots |-> 0]
        /\ queue = <<>>
        /\ pc = [c \in Callers |-> "idle"]
        /\ id = [c \in Callers |-> 0]
        /\ at = [c \in Callers |-> 1]
        /\ got = [c \in Callers |-> 0]
        /\ ownerPc = "idle"
        /\ cmd = NoCommand
        /\ took = 0
        /\ late = {}
        /\ admin = {}
        /\ ran = {}
        /\ timedOut = {}
        /\ answer = [n \in Ids |-> 0]
        /\ refused = {}

----------------------------------------------------------------------------
(* The lifecycle word.  CAS succeeds only on the exact id and state.       *)

\* Faulty variant: the swap compares the state alone (ABA).
HoldsState(s, n, state) == word[s].state = state

Holds(s, n, state) == word[s] = W(n, state)
SetWord(s, w) == word' = [word EXCEPT ![s] = w]
Signalled == {"COMPLETED", "OWNER_EXPIRED"}
Go(c, step) == pc' = [pc EXCEPT ![c] = step]
OwnerGo(step) == ownerPc' = step

(***************************************************************************)
(* A caller                                                                *)
(***************************************************************************)

\* meshcore_request_next_id, then the scan of the slots begins.
Call(c) ==
  /\ pc[c] = "idle"
  /\ nextId < MaxId
  /\ nextId' = nextId + 1
  /\ id' = [id EXCEPT ![c] = nextId + 1]
  /\ at' = [at EXCEPT ![c] = 1]
  /\ Go(c, "scan")
  /\ \/ UNCHANGED admin
     \/ admin' = admin \cup {nextId + 1}
  /\ UNCHANGED <<got, refused, slotVars, ownerVars, history, queue, late>>

\* Ids are never reused: the call after the last one is ESP_ERR_INVALID_STATE.
CallRefused(c) ==
  /\ pc[c] = "idle"
  /\ nextId = MaxId
  /\ refused' = refused \cup {c}
  /\ UNCHANGED <<pc, id, at, got, admin, nextId, slotVars, ownerVars, history,
                 queue, late>>

Claim(c) ==
  /\ pc[c] = "scan"
  /\ word[at[c]] = Free
  /\ SetWord(at[c], W(id[c], "CLAIMED"))
  /\ Go(c, "prepare")
  /\ UNCHANGED <<given, result, secret, id, at, got, admin, refused, nextId,
                 ownerVars, history, queue, late>>

SkipBusySlot(c) ==
  /\ pc[c] = "scan"
  /\ word[at[c]] # Free
  /\ at[c] < SlotCount
  /\ at' = [at EXCEPT ![c] = @ + 1]
  /\ UNCHANGED <<pc, id, got, admin, refused, nextId, slotVars, ownerVars,
                 history, queue, late>>

NoSlot(c) ==
  /\ pc[c] = "scan"
  /\ word[at[c]] # Free
  /\ at[c] = SlotCount
  /\ timedOut' = timedOut \cup {id[c]}
  /\ Go(c, "idle")
  /\ UNCHANGED <<ran, answer, id, at, got, admin, refused, nextId, slotVars,
                 ownerVars, queue, late>>

\* The claimed slot is wiped, its semaphore drained, its result preset.
Prepare(c) ==
  /\ pc[c] = "prepare"
  /\ secret' = [secret EXCEPT ![at[c]] = 0]
  /\ given' = [given EXCEPT ![at[c]] = FALSE]
  /\ result' = [result EXCEPT ![at[c]] = 0]
  /\ Go(c, "publish")
  /\ UNCHANGED <<word, id, at, got, admin, refused, nextId, ownerVars, history,
                 queue, late>>

Publish(c) ==
  /\ pc[c] = "publish"
  /\ Holds(at[c], id[c], "CLAIMED")
  /\ SetWord(at[c], W(id[c], "PENDING"))
  /\ Go(c, IF id[c] \in admin THEN "store" ELSE "send")
  /\ UNCHANGED <<given, result, secret, id, at, got, admin, refused, nextId,
                 ownerVars, history, queue, late>>

\* meshcore_request_store_admin_password / _cli
StoreSecret(c) ==
  /\ pc[c] = "store"
  /\ Holds(at[c], id[c], "PENDING")
  /\ secret' = [secret EXCEPT ![at[c]] = id[c]]
  /\ Go(c, "send")
  /\ UNCHANGED <<word, given, result, id, at, got, admin, refused, nextId,
                 ownerVars, history, queue, late>>

Send(c) ==
  /\ pc[c] = "send"
  /\ Len(queue) < QueueLength
  /\ queue' = Append(queue, Command(id[c], at[c]))
  /\ Go(c, "wait")
  /\ UNCHANGED <<id, at, got, admin, refused, nextId, slotVars, ownerVars,
                 history, late>>

\* Faulty variant: the caller leaves without giving the slot back.
SendTimeoutLeaks(c) ==
  /\ pc[c] = "send"
  /\ Len(queue) = QueueLength
  /\ id[c] \in late
  /\ timedOut' = timedOut \cup {id[c]}
  /\ Go(c, "idle")
  /\ UNCHANGED <<ran, answer, id, at, got, admin, refused, nextId, slotVars,
                 ownerVars, queue, late>>

\* xQueueSend gave up: the same cancel-and-release as a wait that timed out.
SendTimeout(c) ==
  /\ pc[c] = "send"
  /\ Len(queue) = QueueLength
  /\ id[c] \in late
  /\ Go(c, "cancel")
  /\ UNCHANGED <<id, at, got, admin, refused, nextId, slotVars, ownerVars,
                 history, queue, late>>

Take(c) ==
  /\ pc[c] = "wait"
  /\ given[at[c]]
  /\ given' = [given EXCEPT ![at[c]] = FALSE]
  /\ Go(c, "woken")
  /\ UNCHANGED <<word, result, secret, id, at, got, admin, refused, nextId,
                 ownerVars, history, queue, late>>

WaitTimeout(c) ==
  /\ pc[c] = "wait"
  /\ ~given[at[c]]
  /\ id[c] \in late
  /\ Go(c, "cancel")
  /\ UNCHANGED <<id, at, got, admin, refused, nextId, slotVars, ownerVars,
                 history, queue, late>>

\* A give that does not belong to this request is taken for a timeout.
Woken(c) ==
  /\ pc[c] = "woken"
  /\ Go(c, IF word[at[c]].state \in Signalled THEN "read" ELSE "cancel")
  /\ UNCHANGED <<id, at, got, admin, refused, nextId, slotVars, ownerVars,
                 history, queue, late>>

\* d1l_mesh_command_request_cancel_and_release: the CAS, the wipe, the release.
Cancel(c) ==
  /\ pc[c] = "cancel"
  /\ Holds(at[c], id[c], "PENDING")
  /\ SetWord(at[c], W(id[c], "CALLER_CANCELLED"))
  /\ Go(c, "wipe")
  /\ UNCHANGED <<given, result, secret, id, at, got, admin, refused, nextId,
                 ownerVars, history, queue, late>>

\* Faulty variant: a cancelled slot keeps its password.
WipeNothing(c) ==
  /\ pc[c] = "wipe"
  /\ Go(c, "release")
  /\ UNCHANGED <<id, at, got, admin, refused, nextId, slotVars, ownerVars,
                 history, queue, late>>

Wipe(c) ==
  /\ pc[c] = "wipe"
  /\ secret' = [secret EXCEPT ![at[c]] = 0]
  /\ Go(c, "release")
  /\ UNCHANGED <<word, given, result, id, at, got, admin, refused, nextId,
                 ownerVars, history, queue, late>>

ReleaseCancelled(c) ==
  /\ pc[c] = "release"
  /\ Holds(at[c], id[c], "CALLER_CANCELLED")
  /\ SetWord(at[c], Free)
  /\ timedOut' = timedOut \cup {id[c]}
  /\ Go(c, "idle")
  /\ UNCHANGED <<given, result, secret, ran, answer, id, at, got, admin,
                 refused, nextId, ownerVars, queue, late>>

\* Faulty variant: a result that is already there is read without its signal.
CancelLostNoWait(c) ==
  /\ pc[c] = "cancel"
  /\ ~Holds(at[c], id[c], "PENDING")
  /\ Go(c, IF word[at[c]].state \in Signalled THEN "read" ELSE "await")
  /\ UNCHANGED <<id, at, got, admin, refused, nextId, slotVars, ownerVars,
                 history, queue, late>>

\* The owner won the race: its signal must be taken before the slot goes back.
CancelLost(c) ==
  /\ pc[c] = "cancel"
  /\ ~Holds(at[c], id[c], "PENDING")
  /\ word[at[c]].state \in Signalled \cup {"ADMITTED"}
  /\ Go(c, "await")
  /\ UNCHANGED <<id, at, got, admin, refused, nextId, slotVars, ownerVars,
                 history, queue, late>>

Await(c) ==
  /\ pc[c] = "await"
  /\ given[at[c]]
  /\ given' = [given EXCEPT ![at[c]] = FALSE]
  /\ Go(c, "read")
  /\ UNCHANGED <<word, result, secret, id, at, got, admin, refused, nextId,
                 ownerVars, history, queue, late>>

\* meshcore_request_consume: read the result, drain, then wipe and release.
ReadResult(c) ==
  /\ pc[c] = "read"
  /\ got' = [got EXCEPT ![c] = result[at[c]]]
  /\ given' = [given EXCEPT ![at[c]] = FALSE]
  /\ Go(c, "return")
  /\ UNCHANGED <<word, result, secret, id, at, admin, refused, nextId,
                 ownerVars, history, queue, late>>

Return(c) ==
  /\ pc[c] = "return"
  /\ word[at[c]].id = id[c] /\ word[at[c]].state \in Signalled
  /\ secret' = [secret EXCEPT ![at[c]] = 0]
  /\ SetWord(at[c], Free)
  /\ IF got[c] = 0
     THEN timedOut' = timedOut \cup {id[c]} /\ UNCHANGED answer
     ELSE answer' = [answer EXCEPT ![id[c]] = got[c]] /\ UNCHANGED timedOut
  /\ Go(c, "idle")
  /\ UNCHANGED <<given, result, ran, id, at, got, admin, refused, nextId,
                 ownerVars, queue, late>>

(***************************************************************************)
(* The owner task                                                          *)
(***************************************************************************)

\* Other tasks also queue commands nobody waits for (request id 0).
PostAsync ==
  /\ Len(queue) < QueueLength
  /\ queue' = Append(queue, NoCommand)
  /\ UNCHANGED <<slotVars, callerVars, ownerVars, history, late>>

\* The command may stay in held_cmd as long as a transmission is on the air.
Dequeue ==
  /\ ownerPc = "idle"
  /\ queue # <<>>
  /\ cmd' = Head(queue)
  /\ queue' = Tail(queue)
  /\ OwnerGo("held")
  /\ UNCHANGED <<took, slotVars, callerVars, history, late>>

\* meshcore_request_admit looks the slot up by id, then at the deadline.
Match ==
  /\ ownerPc = "held"
  /\ OwnerGo(IF cmd.id = 0 THEN "run"
             ELSE IF word[cmd.slot].id # cmd.id THEN "idle"
             ELSE IF cmd.id \in late THEN "expire"
             ELSE "admit")
  /\ UNCHANGED <<cmd, took, slotVars, callerVars, history, queue, late>>

Expire ==
  /\ ownerPc = "expire"
  /\ IF Holds(cmd.slot, cmd.id, "PENDING")
     THEN SetWord(cmd.slot, W(cmd.id, "OWNER_EXPIRED")) /\ OwnerGo("expired")
     ELSE OwnerGo("admit") /\ UNCHANGED word
  /\ UNCHANGED <<given, result, secret, cmd, took, callerVars, history, queue,
                 late>>

\* Faulty variant: the caller of an expired request is not signalled.
ExpiredSilently ==
  /\ ownerPc = "expired"
  /\ secret' = [secret EXCEPT ![cmd.slot] = 0]
  /\ result' = [result EXCEPT ![cmd.slot] = 0]
  /\ OwnerGo("idle")
  /\ UNCHANGED <<word, given, cmd, took, callerVars, history, queue, late>>

Expired ==
  /\ ownerPc = "expired"
  /\ secret' = [secret EXCEPT ![cmd.slot] = 0]
  /\ result' = [result EXCEPT ![cmd.slot] = 0]
  /\ OwnerGo("give")
  /\ UNCHANGED <<word, given, cmd, took, callerVars, history, queue, late>>

Admit ==
  /\ ownerPc = "admit"
  /\ IF Holds(cmd.slot, cmd.id, "PENDING")
     THEN SetWord(cmd.slot, W(cmd.id, "ADMITTED")) /\ OwnerGo("run")
     ELSE OwnerGo("idle") /\ UNCHANGED word
  /\ UNCHANGED <<given, result, secret, cmd, took, callerVars, history, queue,
                 late>>

\* The handler; an admin command first takes its password out of the slot.
Run ==
  /\ ownerPc = "run"
  /\ cmd.id # 0
  /\ ran' = ran \cup {cmd.id}
  /\ IF cmd.id \in admin
     THEN /\ took' = secret[cmd.slot]
          /\ secret' = [secret EXCEPT ![cmd.slot] = 0]
     ELSE took' = 0 /\ UNCHANGED secret
  /\ OwnerGo("reply")
  /\ UNCHANGED <<word, given, result, cmd, timedOut, answer, callerVars, queue,
                 late>>

RunAsync ==
  /\ ownerPc = "run"
  /\ cmd.id = 0
  /\ OwnerGo("idle")
  /\ UNCHANGED <<cmd, took, slotVars, callerVars, history, queue, late>>

\* meshcore_request_complete: the result, the wipe and the CAS, the give.
Reply ==
  /\ ownerPc = "reply"
  /\ word[cmd.slot].id = cmd.id
  /\ result' = [result EXCEPT ![cmd.slot] = cmd.id]
  /\ OwnerGo("seal")
  /\ UNCHANGED <<word, given, secret, cmd, took, callerVars, history, queue,
                 late>>

Seal ==
  /\ ownerPc = "seal"
  /\ Holds(cmd.slot, cmd.id, "ADMITTED")
  /\ secret' = [secret EXCEPT ![cmd.slot] = 0]
  /\ SetWord(cmd.slot, W(cmd.id, "COMPLETED"))
  /\ OwnerGo("give")
  /\ UNCHANGED <<given, result, cmd, took, callerVars, history, queue, late>>

Give ==
  /\ ownerPc = "give"
  /\ given' = [given EXCEPT ![cmd.slot] = TRUE]
  /\ took' = 0
  /\ OwnerGo("idle")
  /\ UNCHANGED <<word, result, secret, cmd, callerVars, history, queue, late>>

DeadlinePasses(c) ==
  /\ pc[c] # "idle"
  /\ id[c] \notin late
  /\ late' = late \cup {id[c]}
  /\ UNCHANGED <<slotVars, callerVars, ownerVars, history, queue>>

----------------------------------------------------------------------------
CallerStep(c) ==
  \/ Claim(c) \/ SkipBusySlot(c) \/ NoSlot(c) \/ Prepare(c) \/ Publish(c)
  \/ StoreSecret(c) \/ Send(c) \/ SendTimeout(c) \/ Take(c) \/ WaitTimeout(c)
  \/ Woken(c) \/ Cancel(c) \/ Wipe(c) \/ ReleaseCancelled(c) \/ CancelLost(c)
  \/ Await(c) \/ ReadResult(c) \/ Return(c)

OwnerStep == \/ Dequeue \/ Match \/ Expire \/ Expired \/ Admit \/ Run
             \/ RunAsync \/ Reply \/ Seal \/ Give

Next == \/ \E c \in Callers : \/ Call(c) \/ CallRefused(c) \/ CallerStep(c)
                              \/ DeadlinePasses(c)
        \/ PostAsync
        \/ OwnerStep

Spec == Init /\ [][Next]_vars

(***************************************************************************)
(* FreeRTOS keeps scheduling every ready task, the owner loop never        *)
(* returns, a transmission that holds a command back ends (its terminal or *)
(* the watchdog), and time passes.  Nobody is obliged to call.             *)
(***************************************************************************)
Fairness == /\ WF_vars(OwnerStep)
            /\ \A c \in Callers : /\ WF_vars(CallerStep(c))
                                  /\ WF_vars(DeadlinePasses(c))

FairSpec == Spec /\ Fairness

----------------------------------------------------------------------------
CallerSteps == {"idle", "scan", "prepare", "publish", "store", "send", "wait",
                "woken", "cancel", "wipe", "release", "await", "read", "return"}
OwnerSteps  == {"idle", "held", "expire", "expired", "admit", "run", "reply",
                "seal", "give"}
Commands    == [id : 0 .. MaxId, slot : Slots]

TypeOK ==
  /\ nextId \in 0 .. MaxId
  /\ word \in [Slots -> [id : 0 .. MaxId, state : States]]
  /\ given \in [Slots -> BOOLEAN]
  /\ result \in [Slots -> 0 .. MaxId]
  /\ secret \in [Slots -> 0 .. MaxId]
  /\ queue \in Seq(Commands)
  /\ pc \in [Callers -> CallerSteps]
  /\ id \in [Callers -> 0 .. MaxId]
  /\ at \in [Callers -> Slots]
  /\ got \in [Callers -> 0 .. MaxId]
  /\ ownerPc \in OwnerSteps
  /\ cmd \in Commands
  /\ took \in 0 .. MaxId
  /\ late \subseteq 0 .. MaxId
  /\ admin \subseteq Ids
  /\ ran \subseteq Ids
  /\ timedOut \subseteq Ids
  /\ answer \in [Ids -> 0 .. MaxId]
  /\ refused \subseteq Callers

(* A call in progress; one past its scan owns the slot it claimed.         *)
Calling(c) == pc[c] # "idle"
Owns(c, s) == pc[c] \notin {"idle", "scan"} /\ at[c] = s

(* No slot leaks, and none has two owners: a slot that is not free carries *)
(* the request of exactly one call in progress, whatever the race between  *)
(* its timeout, the owner's admission and the owner's expiry; and a signal *)
(* is never left behind for the next request of its slot ("otherwise a late*)
(* semaphore give could leak into the next request that claims it").       *)
SlotsOwned ==
  \A s \in Slots :
    /\ word[s] # Free => \E c \in Callers : Owns(c, s) /\ id[c] = word[s].id
    /\ \A c, d \in Callers : Owns(c, s) /\ Owns(d, s) => c = d
    /\ given[s] => word[s].state \in Signalled

(* An admin password lies only in the slot of its own request, and only    *)
(* while that request is alive: not in a free slot, not after completion.  *)
SecretConfined ==
  \A s \in Slots : secret[s] # 0 =>
    /\ word[s].id = secret[s]
    /\ word[s].state \in {"PENDING", "ADMITTED", "CALLER_CANCELLED", "OWNER_EXPIRED"}

(* A running admin command has its own password: neither none, because a   *)
(* wipe came in between, nor that of another request.                      *)
RunsWithOwnSecret ==
  ownerPc \in {"reply", "seal"} =>
    took = IF cmd.id \in admin THEN cmd.id ELSE 0

(* What every caller is promised (SyncCall): a command whose call returned *)
(* ESP_ERR_TIMEOUT never runs, before or after, and one that ran returns   *)
(* its own result to its own caller.                                       *)
Status == [n \in Ids |-> IF n > nextId THEN "unused"
                         ELSE IF n \in timedOut \cap ran THEN "broken"
                         ELSE IF n \in timedOut THEN "timedout"
                         ELSE IF answer[n] # 0 THEN "answered"
                         ELSE IF n \in ran THEN "ran"
                         ELSE "open"]
Promise == INSTANCE SyncCall WITH status <- Status
PromiseKept == Promise!Spec

(* Every call returns: no race leaves a caller waiting for a signal that   *)
(* nobody will give (the wait after a lost cancel has no timeout).         *)
CallsReturn == \A c \in Callers : Calling(c) ~> ~Calling(c)
=============================================================================
