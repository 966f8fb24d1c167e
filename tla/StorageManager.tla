--------------------------- MODULE StorageManager ---------------------------
(***************************************************************************)
(* Who switches the SD backend of the retained stores on and off: the      *)
(* storage manager's task and the serial console, both of which talk to    *)
(* the RP2040 bridge and apply what it answers, and the operator's         *)
(* force-NVS, which has to win over an answer on its way.                  *)
(*                                                                         *)
(*   main/storage/storage_status.c        the manager and its control      *)
(*   main/hal/rp2040_bridge.c             one exchange over the UART       *)
(*   firmware/rp2040_sd_bridge/...ino     the cached card state            *)
(*                                                                         *)
(* The replies to ping, status and mount carry no request number: a reply  *)
(* to an exchange that was given up is read by a later one of its kind.    *)
(***************************************************************************)
EXTENDS Naturals, Sequences

CONSTANTS
  Manager, Console,
  Nobody,
  PingLimit,        \* D1L_STORAGE_MANAGER_INITIAL_PING_TIMEOUT_LIMIT
  FailureLimit,     \* D1L_STORAGE_STATUS_STALE_FAILURE_LIMIT
  Attempts,         \* status polls of a mount, pings after a console's reset
  Debounce,         \* SD_REMOVAL_DEBOUNCE_SAMPLES
  MaxSwaps,         \* bound: cards inserted or removed
  MaxFaults,        \* bound: hangs, failed exchanges and pulses of a live bridge
  MaxCommands       \* bound: console commands

Actors == {Manager, Console}

ASSUME SmAssumption ==
  /\ Manager # Console /\ Nobody \notin Actors
  /\ PingLimit \in Nat \ {0} /\ FailureLimit \in Nat \ {0}
  /\ Attempts \in Nat /\ Debounce \in Nat \ {0}
  /\ MaxSwaps \in Nat /\ MaxFaults \in Nat /\ MaxCommands \in Nat

VARIABLES
  force,            \* s_force_nvs
  ask,              \* what the console asked of the manager
  recovery,         \* s_manager_reset_recovery_active
  initial,          \* the control of the one automatic reset
  sequence,         \* the owner of s_manager_sequence_mutex
  backend,          \* is the retained stores' SD backend enabled
  sdState,          \* s_status.sd_state
  failures,         \* bridge_status_refresh_failures, up to FailureLimit
  pc, then,         \* where an actor is, and where it goes on after a call
  kind, result, reply,  \* its exchange: the command and how it ended
  job,              \* what the manager's pass is for
  cmd, late, tries, \* the console's command, in a blocking mount
  alive,            \* does the bridge answer
  inserted,         \* is a usable card in the slot
  cache,            \* s_cached_snapshot.state
  proven,           \* s_sd_detect_inserted_signature_proven
  samples,          \* s_sd_removal_samples or s_sd_reinsert_samples
  worker,           \* is a mount asked of the second core
  published,        \* the result it published, not yet cached
  asked, line,      \* commands the bridge has yet to answer, and its answers
  taken              \* what is taken up of each bound

control    == <<force, ask, recovery, initial>>
statusVars == <<backend, sdState, failures>>
callVars   == <<kind, reply>>
consoleVars == <<cmd, late, tries>>
cardVars   == <<inserted, cache, proven, samples, worker, published>>
bridgeVars == <<alive, cardVars, asked>>
locals     == <<job, consoleVars>>
vars == <<control, sequence, statusVars, pc, then, callVars, result, locals,
          bridgeVars, line, taken>>

None == "none"
CardStates == {"ready", "no_card", "mount_required", "mount_pending", "error"}

Init ==
  /\ force = FALSE
  /\ ask = {}
  /\ recovery = FALSE
  /\ initial = [timeouts |-> 0, seen |-> FALSE, pending |-> FALSE,
                attempted |-> FALSE, spent |-> FALSE]
  /\ sequence = Console           \* no manager task before boot is prepared
  /\ backend = FALSE /\ sdState = "protocol_pending" /\ failures = 0
  /\ pc = [a \in Actors |-> IF a = Console THEN "send" ELSE "idle"]
  /\ then = [a \in Actors |-> IF a = Console THEN "booted" ELSE "idle"]
  /\ kind = [a \in Actors |-> "status"]
  /\ result = [a \in Actors |-> None]
  /\ reply = [a \in Actors |-> None]
  /\ job = "routine"
  /\ cmd = "boot" /\ late = FALSE /\ tries = 0
  /\ alive \in BOOLEAN /\ inserted \in BOOLEAN
  /\ cache = "mount_required" /\ proven = FALSE /\ samples = 0
  /\ worker = FALSE /\ published = None
  /\ asked = <<>> /\ line = <<>>
  /\ taken = [swaps |-> 0, faults |-> 0, commands |-> 0]

Spend(budget, bound) == /\ taken[budget] < bound
                        /\ taken' = [taken EXCEPT ![budget] = @ + 1]

At(a, p) == pc[a] = p
Go(a, p) == pc' = [pc EXCEPT ![a] = p]
Return(a, r) == /\ result' = [result EXCEPT ![a] = r]
                /\ Go(a, then[a])

\* A call of storage_status_refresh, _mount or a ping; it returns to "next".
Call(a, p, k, next) == /\ Go(a, p)
                       /\ kind' = [kind EXCEPT ![a] = k]
                       /\ then' = [then EXCEPT ![a] = next]

\* apply_force_nvs_status, after which the actor goes on at "next".
PauseThen(a, next) == /\ Go(a, "pausing")
                      /\ then' = [then EXCEPT ![a] = next]

(* storage_sd_ready_for_files and remount_timeout_needs_bridge_reset: the  *)
(* fields these read are cleared where sdState leaves the card's states.   *)
ReadyForFiles == failures < FailureLimit /\ sdState = "ready"
NeedsReset == sdState \notin CardStates

-----------------------------------------------------------------------------
(* One exchange, as either actor does it (exchange_prefixed_line).         *)
Exchanging == \E a \in Actors : At(a, "wait")

Applied(a) == IF kind[a] = "ping" THEN "noted" ELSE "apply"
EndExchange(a, r) == /\ Go(a, Applied(a))
                     /\ result' = [result EXCEPT ![a] = r]

exchangeFrame == UNCHANGED <<control, sequence, statusVars, then, kind, locals>>

(* Under the bridge lock the input is flushed and the command written; a   *)
(* hung bridge loses it.                                                   *)
Send(a) ==
  /\ At(a, "send") /\ ~Exchanging
  /\ line' = <<>>
  /\ asked' = IF alive THEN Append(asked, kind[a]) ELSE asked
  /\ Go(a, "wait")
  /\ UNCHANGED <<reply, result, alive, cardVars, taken>> /\ exchangeFrame

(* Lines without the prefix are dropped.                                   *)
Receive(a) ==
  /\ At(a, "wait") /\ line # <<>>
  /\ line' = Tail(line)
  /\ IF Head(line).kind = kind[a]
     THEN /\ reply' = [reply EXCEPT ![a] = Head(line).state]
          /\ EndExchange(a, "ok")
     ELSE UNCHANGED <<reply, pc, result>>
  /\ UNCHANGED <<bridgeVars, taken>> /\ exchangeFrame

(* A reply that is late, lost or malformed, or a lock not had in time.     *)
GiveUp(a) ==
  /\ At(a, "wait") \/ (At(a, "send") /\ Exchanging)
  /\ \/ ~alive /\ At(a, "wait") /\ EndExchange(a, "timeout") /\ UNCHANGED taken
     \/ /\ Spend("faults", MaxFaults)
        /\ \E r \in {"timeout", "fail"} : EndExchange(a, r)
  /\ UNCHANGED <<reply, bridgeVars, line>> /\ exchangeFrame

-----------------------------------------------------------------------------
(* What a reply changes.                                                   *)
\* d1l_storage_status_note_valid_bridge_response
NoteResponse == initial' = [initial EXCEPT !.seen = TRUE, !.timeouts = 0,
                                           !.pending = FALSE]

applyFrame == UNCHANGED <<force, ask, recovery, sequence, then, kind, reply,
                          result, locals, bridgeVars, line, taken>>

Noted(a) ==
  /\ At(a, "noted")
  /\ IF result[a] = "ok" THEN NoteResponse ELSE UNCHANGED initial
  /\ Go(a, then[a])
  /\ UNCHANGED statusVars /\ applyFrame

(* note_rp2040_exchange_failure: the last confirmed state stays in use     *)
(* until FailureLimit failures in a row.                                   *)
NoteFailure ==
  LET n == IF failures < FailureLimit THEN failures + 1 ELSE failures
  IN  /\ failures' = n
      /\ IF n < FailureLimit THEN UNCHANGED <<backend, sdState>>
         ELSE /\ backend' = FALSE
              /\ sdState' = IF sdState = "rp2040_unavailable" THEN sdState
                            ELSE "protocol_pending"

(* apply_rp2040_sd_exchange_result, outside the bridge lock.               *)
Apply(a) ==
  /\ At(a, "apply")
  /\ IF result[a] = "ok"
     THEN /\ NoteResponse
          /\ sdState' = reply[a] /\ failures' = 0
          /\ Go(a, "enable")
          /\ UNCHANGED backend
     ELSE NoteFailure /\ Go(a, "recheck") /\ UNCHANGED initial
  /\ applyFrame

Enable(a) ==
  /\ At(a, "enable")
  /\ backend' = (reply[a] = "ready")
  /\ reply' = [reply EXCEPT ![a] = None]
  /\ Go(a, "recheck")
  /\ UNCHANGED <<force, ask, recovery, initial, sequence, sdState, failures, then,
                 kind, result, locals, bridgeVars, line, taken>>

\* Faulty variant: the answer that was applied stands.
RecheckSkipped(a) ==
  /\ At(a, "recheck")
  /\ Go(a, then[a])
  /\ UNCHANGED <<initial, statusVars>> /\ applyFrame

(* The check of force-NVS that follows every reply applied.                *)
Recheck(a) ==
  /\ At(a, "recheck")
  /\ Go(a, IF force THEN "pausing" ELSE then[a])
  /\ UNCHANGED <<initial, statusVars>> /\ applyFrame

Pause(a) ==
  /\ At(a, "pausing")
  /\ backend' = FALSE
  /\ Go(a, then[a])
  /\ UNCHANGED <<initial, sdState, failures>> /\ applyFrame

(* storage_status_mount without force_bridge_mount.                        *)
Mount(a) ==
  /\ At(a, "mount")
  /\ IF force THEN Go(a, "pausing") /\ result' = [result EXCEPT ![a] = "fail"]
     ELSE IF ReadyForFiles THEN Return(a, "ok")
     ELSE Go(a, "send") /\ UNCHANGED result
  /\ UNCHANGED <<control, sequence, statusVars, then, callVars, locals,
                 bridgeVars, line, taken>>

(* d1l_storage_status_note_rp2040 pauses the backend in any case.          *)
NoteRp2040(r) ==
  /\ backend' = FALSE
  /\ sdState' = IF force THEN sdState
                ELSE IF r = "ok" THEN "protocol_pending" ELSE "rp2040_unavailable"
  /\ UNCHANGED failures

(* d1l_rp2040_bridge_reset, by the pass or by the console's remount.       *)
SatisfyReset ==
  /\ initial' = [initial EXCEPT !.timeouts = 0, !.pending = FALSE, !.spent = TRUE]
  /\ ask' = {}

Pulse(a) ==
  /\ At(a, "pulse") /\ ~Exchanging
  /\ alive' = TRUE
  /\ cache' = "mount_required" /\ proven' = FALSE /\ samples' = 0
  /\ worker' = FALSE /\ published' = None
  /\ asked' = <<>> /\ line' = <<>>
  /\ NoteRp2040("ok") /\ SatisfyReset
  /\ IF a = Manager
     THEN /\ Go(a, "ping")
          /\ result' = [result EXCEPT ![a] = None]
          /\ UNCHANGED <<then, kind>>
     ELSE Call(a, "send", "ping", "repinged") /\ UNCHANGED result
  /\ UNCHANGED <<force, recovery, sequence, reply, locals, inserted, taken>>

PulseFails(a) ==
  /\ At(a, "pulse")
  /\ Spend("faults", MaxFaults)
  /\ NoteRp2040("fail")
  /\ IF force THEN PauseThen(a, "end") ELSE Go(a, "end") /\ UNCHANGED then
  /\ UNCHANGED <<control, sequence, callVars, result, locals, bridgeVars, line>>

(* manager_control_begin_manual_reset.                                     *)
BeginManualReset == /\ ~force /\ ~recovery
                    /\ recovery' = TRUE
                    /\ SatisfyReset

-----------------------------------------------------------------------------
(* The manager's pass (storage_manager_run_once_owned).                    *)
managerFrame == UNCHANGED <<force, reply, consoleVars, bridgeVars, line, taken>>

(* manager_control_take.                                                   *)
PassBegins ==
  /\ At(Manager, "idle") /\ sequence = Nobody
  /\ sequence' = Manager
  /\ ask' = {}
  /\ job' = IF "reset" \in ask THEN "reset"
            ELSE IF "remount" \in ask THEN "remount" ELSE "routine"
  /\ IF force THEN PauseThen(Manager, "end")
     ELSE Go(Manager, "final") /\ UNCHANGED then
  /\ UNCHANGED <<recovery, initial, statusVars, kind, result>> /\ managerFrame

(* One more ping before the queued automatic reset.                        *)
FinalPing ==
  /\ At(Manager, "final")
  /\ IF /\ job # "reset" /\ ~force
        /\ initial.pending /\ ~initial.seen /\ ~initial.attempted
     THEN Call(Manager, "send", "ping", "claim")
     ELSE Go(Manager, "claim") /\ UNCHANGED <<then, kind>>
  /\ UNCHANGED <<sequence, ask, recovery, initial, statusVars, result, job>>
  /\ managerFrame

(* claim_initial_bridge_reset, and the reset that was asked for.           *)
Claimable == /\ initial.pending /\ ~initial.seen /\ ~initial.attempted
             /\ ~initial.spent /\ ~recovery
Claim ==
  /\ At(Manager, "claim")
  /\ IF force THEN PauseThen(Manager, "end") /\ UNCHANGED <<recovery, initial, ask, job>>
     ELSE /\ UNCHANGED then
          /\ \/ /\ job = "reset"
                /\ IF recovery
                   THEN Go(Manager, "end") /\ UNCHANGED <<recovery, initial, ask>>
                   ELSE Go(Manager, "pulse") /\ BeginManualReset
                /\ UNCHANGED job
             \/ /\ job # "reset" /\ result[Manager] # "ok" /\ Claimable
                /\ initial' = [initial EXCEPT !.timeouts = 0, !.pending = FALSE,
                                              !.attempted = TRUE, !.spent = TRUE]
                /\ recovery' = TRUE
                /\ job' = "reset"
                /\ Go(Manager, "pulse")
                /\ UNCHANGED ask
             \/ /\ job # "reset" /\ (result[Manager] = "ok" \/ ~Claimable)
                /\ initial' = IF result[Manager] = "ok" THEN initial
                              ELSE [initial EXCEPT !.pending = FALSE]
                /\ Go(Manager, "ping")
                /\ UNCHANGED <<recovery, ask, job>>
  /\ UNCHANGED <<sequence, statusVars, kind, result>> /\ managerFrame

Ping ==
  /\ At(Manager, "ping")
  /\ IF force THEN PauseThen(Manager, "end") /\ UNCHANGED kind
     ELSE IF result[Manager] = "ok"
     THEN Go(Manager, "status") /\ UNCHANGED <<then, kind>>
     ELSE Call(Manager, "send", "ping", "pinged")
  /\ UNCHANGED <<sequence, ask, recovery, initial, statusVars, result, job>>
  /\ managerFrame

(* initial_ping_timeout_requires_reset.                                    *)
RequiresReset(r) == /\ ~initial.seen /\ ~initial.attempted /\ ~initial.spent
                    /\ r = "timeout"
                    /\ initial.timeouts + 1 >= PingLimit
CountTimeout(r) ==
  IF initial.seen \/ initial.attempted \/ initial.spent THEN initial
  ELSE IF r # "timeout" THEN [initial EXCEPT !.timeouts = 0]
  ELSE [initial EXCEPT !.timeouts = IF @ < PingLimit THEN @ + 1 ELSE @,
                       !.pending = @ \/ RequiresReset(r)]

PingFailed ==
  LET r == result[Manager]
  IN  /\ At(Manager, "pinged") /\ r # "ok"
      /\ initial' = CountTimeout(r)
      /\ IF RequiresReset(r)
         THEN NoteRp2040(r) /\ Go(Manager, "end") /\ UNCHANGED then
         ELSE /\ NoteFailure /\ PauseThen(Manager, "end")
      /\ UNCHANGED <<sequence, ask, recovery, kind, result, job>> /\ managerFrame

AskStatus ==
  /\ \/ At(Manager, "status")
     \/ At(Manager, "pinged") /\ result[Manager] = "ok"
  /\ IF force THEN PauseThen(Manager, "end") /\ UNCHANGED kind
     ELSE Call(Manager, "send", "status", "statused")
  /\ UNCHANGED <<sequence, ask, recovery, initial, statusVars, result, job>>
  /\ managerFrame

MountWanted == job # "routine" \/ sdState \in {"mount_required", "mount_pending"}

Statused ==
  /\ At(Manager, "statused")
  /\ IF force THEN PauseThen(Manager, "end") /\ UNCHANGED kind
     ELSE IF result[Manager] # "fail" /\ MountWanted
     THEN Call(Manager, "mount", "mount", "mounted")
     ELSE Go(Manager, "close") /\ UNCHANGED <<then, kind>>
  /\ UNCHANGED <<sequence, ask, recovery, initial, statusVars, result, job>>
  /\ managerFrame

(* request_bridge_reset_remount_recovery, after a remount without answer.  *)
Mounted ==
  /\ At(Manager, "mounted")
  /\ ask' = IF /\ result[Manager] = "timeout" /\ job = "remount" /\ NeedsReset
               /\ ~force /\ ~recovery
            THEN {"reset", "remount"} ELSE ask
  /\ Go(Manager, "close")
  /\ UNCHANGED <<sequence, recovery, initial, statusVars, then, kind, result, job>>
  /\ managerFrame

(* A pass that failed pauses the backend; classify_storage_manager_state.  *)
Close ==
  /\ At(Manager, "close")
  /\ backend' = IF result[Manager] = "ok" THEN backend ELSE FALSE
  /\ IF force THEN PauseThen(Manager, "end")
     ELSE Go(Manager, "end") /\ UNCHANGED then
  /\ UNCHANGED <<sequence, ask, recovery, initial, sdState, failures, kind,
                 result, job>>
  /\ managerFrame

(* Both the pass and the console's remount end the recovery of a reset;    *)
(* what was local to them is gone.                                         *)
End(a) ==
  /\ At(a, "end")
  /\ sequence' = Nobody
  /\ recovery' = FALSE
  /\ Call(a, "idle", "status", "idle")
  /\ result' = [result EXCEPT ![a] = None]
  /\ job' = "routine" /\ cmd' = None /\ late' = FALSE /\ tries' = 0
  /\ UNCHANGED <<force, ask, initial, statusVars, reply, bridgeVars, line, taken>>

-----------------------------------------------------------------------------
(* The serial console, and boot before the manager's task is started.      *)
consoleFrame == UNCHANGED <<recovery, job, result, reply, bridgeVars, line>>

Command(c) == /\ At(Console, "idle")
              /\ Spend("commands", MaxCommands)
              /\ cmd' = c

(* storage mount, and any command that begins with a refresh.              *)
ConsoleExchange ==
  /\ \/ /\ Command("refresh")
        /\ Call(Console, "send", "status", "idle")
     \/ /\ Command("mount")
        /\ Call(Console, "mount", "mount", "idle")
  /\ UNCHANGED <<force, ask, initial, sequence, statusVars, late, tries>>
  /\ consoleFrame

(* d1l_storage_manager_force_nvs.                                          *)
ForceNvs(on) ==
  /\ Command("force")
  /\ force' = on
  /\ IF on THEN /\ ask' = {}
                /\ initial' = [initial EXCEPT !.pending = FALSE]
                /\ PauseThen(Console, "idle")
     ELSE /\ ask' = IF recovery THEN ask ELSE ask \cup {"remount"}
          /\ UNCHANGED <<initial, pc, then>>
  /\ UNCHANGED <<sequence, statusVars, kind, late, tries>> /\ consoleFrame

(* d1l_storage_manager_reset_bridge.                                       *)
ResetBridge ==
  /\ Command("reset")
  /\ force' = FALSE
  /\ ask' = IF recovery THEN ask ELSE {"reset", "remount"}
  /\ UNCHANGED <<initial, sequence, statusVars, pc, then, kind, late, tries>>
  /\ consoleFrame

(* d1l_storage_status_remount_blocking: it waits for a pass to end.        *)
Remount ==
  /\ Command("remount")
  /\ sequence = Nobody /\ sequence' = Console
  /\ force' = FALSE /\ ask' = {}
  /\ backend' = FALSE /\ sdState' = "protocol_pending"
  /\ Call(Console, "send", "mount", "mounted")
  /\ UNCHANGED <<initial, failures, late, tries>> /\ consoleFrame

consoleStep == UNCHANGED <<force, ask, initial, sequence, failures, taken>>

(* d1l_storage_boot_prepare, after its refresh.                            *)
Booted ==
  /\ At(Console, "booted")
  /\ IF result[Console] = "fail" THEN Go(Console, "end") /\ UNCHANGED <<then, kind>>
     ELSE IF result[Console] = "ok" /\ sdState = "mount_pending"
     THEN Go(Console, "poll") /\ UNCHANGED <<then, kind>>
     ELSE IF result[Console] = "ok" /\ sdState \notin {"mount_required", "no_card"}
     THEN Go(Console, "end") /\ UNCHANGED <<then, kind>>
     ELSE Call(Console, "mount", "mount", "mounted")
  /\ UNCHANGED <<backend, sdState, consoleVars>> /\ consoleStep /\ consoleFrame

MountAnswered ==
  /\ At(Console, "mounted")
  /\ late' = (result[Console] = "timeout")
  /\ tries' = 0
  /\ Go(Console, IF result[Console] = "fail" THEN "end" ELSE "poll")
  /\ UNCHANGED <<backend, sdState, cmd, then, kind>> /\ consoleStep /\ consoleFrame

(* poll_mount_pending_until, and the reset of a bridge that did not answer *)
(* (reset_bridge_and_remount_blocking).                                    *)
PollAgain == sdState = "mount_pending" /\ tries < Attempts
Poll ==
  /\ At(Console, "poll") /\ PollAgain
  /\ tries' = tries + 1
  /\ Call(Console, "send", "status", "polled")
  /\ UNCHANGED <<backend, sdState, cmd, late>> /\ consoleStep /\ consoleFrame

Polled ==
  /\ \/ At(Console, "polled")
     \/ At(Console, "poll") /\ ~PollAgain
  /\ IF At(Console, "polled") /\ result[Console] # "fail" THEN Go(Console, "poll")
     ELSE Go(Console, IF cmd = "remount" /\ late /\ NeedsReset
                      THEN "manual" ELSE "end")
  /\ UNCHANGED <<backend, sdState, consoleVars, then, kind>>
  /\ consoleStep /\ consoleFrame

ConsoleReset ==
  /\ At(Console, "manual")
  /\ IF force \/ recovery
     THEN Go(Console, "end") /\ UNCHANGED <<ask, initial, recovery>>
     ELSE Go(Console, "pulse") /\ BeginManualReset
  /\ cmd' = "reset" /\ tries' = 0
  /\ UNCHANGED <<force, sequence, statusVars, then, kind, late, taken,
                 job, result, reply, bridgeVars, line>>

Repinged ==
  /\ At(Console, "repinged")
  /\ backend' = FALSE
  /\ tries' = tries + 1
  /\ IF result[Console] = "ok"
     THEN /\ sdState' = IF force THEN sdState ELSE "protocol_pending"
          /\ IF force THEN Go(Console, "end") /\ UNCHANGED <<then, kind>>
             ELSE Call(Console, "send", "mount", "mounted")
     ELSE /\ sdState' = IF force THEN sdState ELSE "rp2040_unavailable"
          /\ IF tries < Attempts
             THEN Call(Console, "send", "ping", "repinged")
             ELSE Go(Console, "end") /\ UNCHANGED <<then, kind>>
  /\ UNCHANGED <<cmd, late>> /\ consoleStep /\ consoleFrame

-----------------------------------------------------------------------------
(* The bridge.                                                             *)
Card(c, p, n) == /\ cache' = c /\ proven' = p /\ samples' = n
Refreshed == IF published = None THEN cache ELSE published

(* cache_status: a card seen ready proves which level of the detect line   *)
(* means inserted.                                                         *)
KnowsDetect == proven \/ published = "ready"

\* Faulty variant: the card that comes back is not looked for.
SensedRemovalOnly == IF Refreshed = "ready" /\ KnowsDetect /\ ~worker
                     THEN ~inserted ELSE FALSE

(* Does the detect line contradict the cached state?                       *)
Sensed == /\ KnowsDetect /\ ~worker
          /\ \/ Refreshed = "ready" /\ ~inserted
             \/ Refreshed = "no_card" /\ inserted

(* current_status, over the worker's last result: the state it returns and *)
(* the samples it leaves.                                                  *)
Samples == IF published = None THEN samples ELSE 0
Debounced == Sensed /\ Samples + 1 >= Debounce
Current == IF ~Debounced THEN Refreshed
           ELSE IF inserted THEN "mount_required" ELSE "no_card"
Sampled == IF Sensed /\ ~Debounced THEN Samples + 1 ELSE 0

Reply(k, s) == line' = Append(line, [kind |-> k, state |-> s])
Answers(k) == /\ alive /\ asked # <<>> /\ Head(asked) = k
              /\ asked' = Tail(asked)
              /\ UNCHANGED <<control, sequence, statusVars, pc, then, callVars,
                             result, locals, alive, inserted, taken>>

AnswerPing ==
  /\ Answers("ping")
  /\ Reply("ping", None)
  /\ UNCHANGED <<cache, proven, samples, worker, published>>

AnswerStatus ==
  /\ Answers("status")
  /\ Reply("status", Current)
  /\ Card(Current, KnowsDetect, Sampled)
  /\ published' = None
  /\ UNCHANGED worker

(* request_mount_status: a ready card is mounted anew, unless it may be    *)
(* going; no_card is cached until the detect line says otherwise; anything *)
(* else is given to the second core.                                       *)
AnswerMount ==
  /\ Answers("mount")
  /\ published' = None
  /\ CASE Current = "ready" /\ Sampled = 0 /\ ~worker ->
            \E good \in BOOLEAN :
              LET s == IF good /\ inserted THEN "ready" ELSE "error"
              IN  /\ Reply("mount", s)
                  /\ Card(s, KnowsDetect \/ s = "ready", 0)
                  /\ UNCHANGED worker
       [] Current = "ready" /\ Sampled = 0 /\ worker ->
            /\ Reply("mount", "mount_pending")
            /\ Card(Current, KnowsDetect, Sampled)
            /\ UNCHANGED worker
       [] Current = "no_card" \/ (Current = "ready" /\ Sampled > 0) ->
            /\ Reply("mount", Current)
            /\ Card(Current, KnowsDetect, Sampled)
            /\ UNCHANGED worker
       [] Current \notin {"ready", "no_card"} ->
            /\ Reply("mount", "mount_pending")
            /\ Card("mount_pending", KnowsDetect, 0)
            /\ worker' = TRUE

(* mount_status_blocking on the second core; a mount may fail on a card    *)
(* that is there.                                                          *)
WorkerMounts ==
  /\ worker /\ alive
  /\ worker' = FALSE
  /\ \E good \in BOOLEAN :
       published' = IF good /\ inserted THEN "ready" ELSE "error"
  /\ UNCHANGED <<control, sequence, statusVars, pc, then, callVars, result,
                 locals, alive, inserted, cache, proven, samples, asked, line,
                 taken>>

SwapCard ==
  /\ Spend("swaps", MaxSwaps)
  /\ inserted' = ~inserted
  /\ UNCHANGED <<control, sequence, statusVars, pc, then, callVars, result,
                 locals, alive, cache, proven, samples, worker, published,
                 asked, line>>

Hang ==
  /\ Spend("faults", MaxFaults)
  /\ alive /\ alive' = FALSE
  /\ UNCHANGED <<control, sequence, statusVars, pc, then, callVars, result,
                 locals, cardVars, asked, line>>

-----------------------------------------------------------------------------
ExchangeStep(a) == Send(a) \/ Receive(a) \/ GiveUp(a)
ApplyStep(a) == Noted(a) \/ Apply(a) \/ Enable(a) \/ Recheck(a) \/ Pause(a)
                \/ Mount(a) \/ Pulse(a) \/ PulseFails(a) \/ End(a)
PassStep == PassBegins \/ FinalPing \/ Claim \/ Ping \/ PingFailed \/ AskStatus
            \/ Statused \/ Mounted \/ Close
Commands == \/ ConsoleExchange \/ ResetBridge \/ Remount
            \/ \E on \in BOOLEAN : ForceNvs(on)
BlockingStep == Booted \/ MountAnswered \/ Poll \/ Polled \/ ConsoleReset
                \/ Repinged
BridgeStep == AnswerPing \/ AnswerStatus \/ AnswerMount

Next == \/ \E a \in Actors : ExchangeStep(a) \/ ApplyStep(a)
        \/ PassStep \/ Commands \/ BlockingStep
        \/ BridgeStep \/ WorkerMounts \/ SwapCard \/ Hang

Spec == Init /\ [][Next]_vars

(* Both tasks run on, the manager's every two seconds; a live bridge       *)
(* answers and its second core works.                                      *)
Fairness == /\ \A a \in Actors : WF_vars(ExchangeStep(a) \/ ApplyStep(a))
            /\ WF_vars(PassStep) /\ WF_vars(BlockingStep)
            /\ WF_vars(BridgeStep) /\ WF_vars(WorkerMounts)
FairSpec == Spec /\ Fairness

-----------------------------------------------------------------------------
Kinds == {"ping", "status", "mount"}

(* Where an actor is in a call of an exchange or of the mount, and where    *)
(* the holder of the manager's sequence may stand between two calls.        *)
CallPlaces == {"send", "wait", "noted", "apply", "enable", "recheck", "pausing", "mount"}
PassPlaces == {"final", "claim", "pulse", "ping", "pinged", "status", "statused",
               "mounted", "close", "end"}
BlockingPlaces == {"booted", "mounted", "poll", "polled", "manual", "pulse",
                   "repinged", "end"}
Places == {"idle"} \cup CallPlaces \cup PassPlaces \cup BlockingPlaces

(* The type invariant.  An answer of the bridge that is not a ping's says   *)
(* what state the card is in.                                               *)
SmTypeOK ==
  /\ force \in BOOLEAN /\ recovery \in BOOLEAN /\ backend \in BOOLEAN /\ late \in BOOLEAN
  /\ alive \in BOOLEAN /\ inserted \in BOOLEAN /\ proven \in BOOLEAN /\ worker \in BOOLEAN
  /\ ask \subseteq {"reset", "remount"}
  /\ initial \in [timeouts : 0..PingLimit, seen : BOOLEAN, pending : BOOLEAN,
                  attempted : BOOLEAN, spent : BOOLEAN]
  /\ sequence \in Actors \cup {Nobody}
  /\ sdState \in CardStates \cup {"protocol_pending", "rp2040_unavailable"}
  /\ failures \in 0..FailureLimit
  /\ pc \in [Actors -> Places] /\ then \in [Actors -> Places]
  /\ kind \in [Actors -> Kinds]
  /\ result \in [Actors -> {None, "ok", "timeout", "fail"}]
  /\ reply \in [Actors -> CardStates \cup {None}]
  /\ job \in {"routine", "remount", "reset"}
  /\ cmd \in {None, "boot", "refresh", "mount", "force", "reset", "remount"}
  /\ tries \in Nat /\ samples \in Nat
  /\ cache \in CardStates /\ published \in {None, "ready", "error"}
  /\ asked \in Seq(Kinds)
  /\ line \in Seq([kind : {"ping"}, state : {None}]
                    \cup [kind : {"status", "mount"}, state : CardStates])
  /\ taken \in [swaps : Nat, faults : Nat, commands : Nat]

(* A reset of the bridge is pulsed only in a recovery and by the task that  *)
(* holds the manager's sequence, and a recovery is never left behind with   *)
(* nobody to end it: every later reset would be refused                     *)
(* (manager_control_begin_manual_reset, s_manager_reset_recovery_active).   *)
RecoveryOwned ==
  /\ recovery => sequence # Nobody
  /\ \A a \in Actors : pc[a] = "pulse" => recovery /\ sequence = a

(* "storage force-nvs" is an operator override: SD writes are paused until *)
(* it is lifted.  Whatever reply is applied meanwhile, by whichever task,  *)
(* the backend is enabled under force-NVS only while that task is about to *)
(* check the flag, or to pause the backend                                 *)
(* (d1l_storage_status_refresh, storage_status_mount).                     *)
ForcedMeansPaused ==
  force /\ backend => \E a \in Actors : pc[a] \in {"recheck", "pausing"}

(* The backend ends up following the card: off with the card gone, the     *)
(* bridge silent or force-NVS on, and on with a card in the slot that the  *)
(* bridge could mount, after a reset of a bridge that hung at boot, too;   *)
(* no late, lost or overtaken reply leaves it the wrong way round.         *)
MayReset == ~initial.seen /\ ~initial.spent
Unusable == ~inserted \/ force \/ ~(alive \/ MayReset)
Usable == /\ inserted /\ ~force /\ (alive \/ MayReset)
          /\ "error" \notin {cache, published}
BackendFollowsCard == /\ <>[]Unusable => <>[]~backend
                      /\ <>[]Usable => <>[]backend
=============================================================================
