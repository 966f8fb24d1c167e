---------------------------- MODULE Connectivity ----------------------------
(* Wi-Fi: what the user asked for, what the driver does, and what is shown. *)
(*                                                                          *)
(* Callers (console, UI, the boot sequence) run the control operations of   *)
(* connectivity_manager.c, the event task handles the driver's events in    *)
(* order, and the retry worker takes up a lost link.  They share the retry  *)
(* policy (wifi_retry_policy.c), three flags and the control mutex.  The    *)
(* boot guard counts crashes in NVS and turns a crash loop into safe mode.  *)
(*                                                                          *)
(* Abstracted: times (a retry's due time and the stable window are bits, a  *)
(* retry window may expire at any retry), the scan's results, the profile   *)
(* (one is saved) and its edits, the network lease (its quiesce may time    *)
(* out), the other ways to disable (BLE, a failed start) that take the same *)
(* path, writes of the settings, which succeed.                             *)
EXTENDS Integers, Sequences, FiniteSets

CONSTANTS
  Users,         \* tasks that call control operations
  Main,          \* the task that runs d1l_connectivity_init
  Nobody,        \* no holder of the control mutex
  Worker,        \* the retry worker as a holder of the control mutex
  FailureLimit,  \* D1L_CONNECTIVITY_BOOT_GUARD_FAILURE_LIMIT
  MaxAttempts,   \* D1L_WIFI_RETRY_MAX_ATTEMPTS
  MaxSpent       \* bound on user operations, resets and faults together

ASSUME NamesAssumption ==
  /\ Main \notin Users /\ Worker \notin Users \cup {Main}
  /\ Nobody \notin Users \cup {Main, Worker}
ASSUME NumbersAssumption ==
  /\ FailureLimit \in Nat \ {0, 1} /\ MaxAttempts \in Nat \ {0}
  /\ MaxSpent \in Nat

VARIABLES
  phase,       \* "boot" until the guard was advanced, then "run"
  crashed,     \* the reset that is being handled was crash-like
  setting,     \* wifi_enabled in the settings
  saved,       \* the guard record in NVS
  guard,       \* s_boot_guard, s_boot_guard_ready
  policy,      \* s_wifi_policy
  started,     \* the driver runs and the event handlers are registered
  link,        \* the station as the driver has it
  events,      \* the default event loop's queue
  handling,    \* the second half of a GOT_IP event
  connected, connecting, \* s_wifi_connected, s_wifi_connecting
  token,       \* s_wifi_local_leave_token.pending
  ack,         \* the stable acknowledgement: armed, due; its record unchanged
  control,     \* holder of s_wifi_control_lock
  pc,          \* where each caller is in its operation
  worker,      \* where the retry worker is
  ackTaken,    \* the acknowledgement the worker took: its record unchanged
  notified,    \* the retry worker's task notification
  auto,        \* the link was started by this boot, no user took part
  loops,       \* history: crashes in a row of such boots
  untold,      \* history: the last cancel or disable did not reach the driver
  spent        \* the operations, resets, failed writes and starts, lock timeouts

guardVars == <<saved, guard>>
linkVars == <<started, link, events>>
flagVars == <<connected, connecting>>
history == <<auto, loops, untold>>
bootVars == <<phase, crashed, setting>>
workerVars == <<worker, ackTaken>>
vars == <<bootVars, guardVars, policy, linkVars, handling, flagVars, token, ack,
          control, pc, workerVars, notified, history, spent>>

Tasks == Users \cup {Main}
CountMax == FailureLimit + 1   \* UINT8_MAX made small
States == {"off", "starting", "scanning", "connecting", "connected",
           "auth_failed", "unavailable", "backoff", "safe"}
ConnectPlaces == {"mark", "start", "take", "connect", "accept", "clear"}
LeavePlaces == {"cancelTake", "leave", "flags"}
DisablePlaces == {"stopTake", "save", "stop"}
EnablePlaces == {"enableMark", "enableStart", "enable"}
ScanPlaces == {"scanMark", "scanStart", "scanBegin", "scanTake", "scan",
               "scanFinish"}
Records == [count : 0..CountMax, marker : {"none", "wifi"}]
Wiped == [count |-> 0, marker |-> "none"]

TypeOK ==
  /\ phase \in {"boot", "run"} /\ crashed \in BOOLEAN /\ setting \in BOOLEAN
  /\ saved \in [rec : Records, valid : BOOLEAN]
  /\ guard \in [rec : Records, ready : BOOLEAN]
  /\ policy \in [enabled : BOOLEAN, cancelled : BOOLEAN, safe : BOOLEAN,
                 state : States, sched : BOOLEAN, attempt : 0..MaxAttempts]
  /\ started \in BOOLEAN /\ link \in {"down", "joining", "joined", "up"}
  /\ events \in Seq({"start", "connected", "gotip", "lost", "auth", "leave"})
  /\ handling \in {"none", "accepted", "rejected"}
  /\ connected \in BOOLEAN /\ connecting \in BOOLEAN /\ token \in BOOLEAN
  /\ ack \in [when : {"off", "armed", "due"}, fresh : BOOLEAN]
  /\ control \in Tasks \cup {Nobody, Worker}
  /\ pc \in [Tasks -> {"idle"} \cup ConnectPlaces \cup LeavePlaces
                      \cup DisablePlaces \cup EnablePlaces \cup ScanPlaces]
  /\ worker \in {"look", "sleep", "wait", "take", "retry", "join", "failed", "ack"}
  /\ ackTaken \in BOOLEAN /\ notified \in BOOLEAN
  /\ auto \in BOOLEAN /\ loops \in 0..(MaxSpent + 1) /\ untold \in BOOLEAN
  /\ spent \in 0..MaxSpent

----------------------------------------------------------------------------
(* The retry policy.                                                        *)

Allowed(p) == p.enabled /\ ~p.cancelled /\ ~p.safe

\* select_idle_state.
Idle(p) == [p EXCEPT !.state = IF ~p.enabled \/ p.cancelled THEN "off"
                               ELSE IF p.safe THEN "safe" ELSE "starting"]

NoRetry(p) == [p EXCEPT !.sched = FALSE, !.attempt = 0]

\* d1l_wifi_retry_policy_begin_manual_connect.
BeginConnect(p) == Idle(NoRetry([p EXCEPT !.cancelled = FALSE, !.safe = FALSE]))

MarkStarting(p) == IF p.state = "scanning" /\ Allowed(p) THEN p ELSE Idle(p)

MarkConnecting(p) ==
  IF Allowed(p) THEN [p EXCEPT !.state = "connecting"] ELSE Idle(p)

\* d1l_wifi_retry_policy_on_disconnect: the results it may have, as the window
\* of retries, opened by the first of them, may have expired.
AfterLoss(p, auth) ==
  LET q == [p EXCEPT !.sched = FALSE] IN
  IF ~Allowed(p) THEN {Idle(q)}
  ELSE IF auth THEN {[NoRetry(q) EXCEPT !.state = "auth_failed"]}
  ELSE {r \in {[q EXCEPT !.state = "unavailable"],
               [q EXCEPT !.state = "backoff", !.sched = TRUE, !.attempt = @ + 1]} :
          IF r.sched THEN p.attempt < MaxAttempts ELSE p.attempt > 0}

\* d1l_wifi_retry_policy_connected.
Connected(p) == IF Allowed(p) THEN [NoRetry(p) EXCEPT !.state = "connected"]
                              ELSE Idle(NoRetry(p))

Cancel(p) == [NoRetry(p) EXCEPT !.cancelled = TRUE, !.state = "off"]
Disable(p) == [NoRetry(p) EXCEPT !.enabled = FALSE, !.cancelled = FALSE,
                                 !.safe = FALSE, !.state = "off"]
SafeMode(p) == [NoRetry(p) EXCEPT !.safe = TRUE, !.cancelled = FALSE,
                                  !.state = "safe"]
\* d1l_wifi_retry_policy_configure, for a device that has a profile.
Configure(p, on) ==
  Idle(NoRetry([p EXCEPT !.enabled = on, !.cancelled = FALSE, !.safe = FALSE]))

\* d1l_wifi_retry_policy_finish_scan.
FinishScan(p) ==
  IF ~Allowed(p) THEN Idle(p)
  ELSE [p EXCEPT !.state = IF connected THEN "connected"
                           ELSE IF p.sched THEN "backoff"
                           ELSE IF connecting THEN "connecting" ELSE "starting"]

----------------------------------------------------------------------------
(* The boot guard.                                                          *)

NoAck == [when |-> "off", fresh |-> FALSE]

Spend == spent < MaxSpent /\ spent' = spent + 1

\* persist_boot_guard_record and the copy in RAM.  A write may fail, and may
\* then have been applied or not.  A new generation voids an acknowledgement.
Persisted(rec) ==
  /\ saved' = [rec |-> rec, valid |-> TRUE]
  /\ guard' = [rec |-> rec, ready |-> TRUE]
  /\ ackTaken' = FALSE
  /\ UNCHANGED spent
PersistFails(rec) ==
  /\ Spend
  /\ saved' \in {saved, [rec |-> rec, valid |-> TRUE]}
  /\ guard' = [guard EXCEPT !.ready = FALSE]
  /\ ackTaken' = FALSE

\* Faulty variant: a guard that was read once is taken to be marked.
ArmedOnce == guard.ready

Armed == guard.ready /\ guard.rec.marker = "wifi"
\* mark_boot_guard_active: it returns ESP_OK, or an error.
MarkOk == IF Armed THEN UNCHANGED <<guardVars, ackTaken, ack, spent>>
          ELSE /\ Persisted([guard.rec EXCEPT !.marker = "wifi"])
               /\ ack' = [ack EXCEPT !.fresh = FALSE]
MarkFails == ~Armed /\ PersistFails([guard.rec EXCEPT !.marker = "wifi"]) /\ UNCHANGED ack

\* clear_boot_guard: its failure is only reported.
ClearGuard ==
  /\ ack' = NoAck
  /\ IF guard = [rec |-> Wiped, ready |-> TRUE]
     THEN UNCHANGED <<guardVars, ackTaken, spent>>
     ELSE Persisted(Wiped) \/ PersistFails(Wiped)

\* d1l_connectivity_boot_guard_note_boot.
Attributed == crashed /\ saved.valid /\ saved.rec.marker = "wifi"
Noted == [count  |-> IF ~Attributed THEN 0
                     ELSE IF saved.rec.count < CountMax THEN saved.rec.count + 1
                                                        ELSE saved.rec.count,
          marker |-> "none"]

----------------------------------------------------------------------------
(* Reset and boot.                                                          *)

FreshPolicy(on) == Idle([enabled |-> on, cancelled |-> FALSE, safe |-> FALSE,
                         state |-> "off", sched |-> FALSE, attempt |-> 0])
\* Power on of a fresh device, or the reset after one crash of a boot that had
\* connected by itself.
Init ==
  /\ phase = "boot" /\ auto = FALSE /\ untold = FALSE /\ spent = 0
  /\ \/ /\ crashed \in BOOLEAN /\ setting \in BOOLEAN /\ loops = 0
        /\ saved = [rec |-> Wiped, valid |-> FALSE]
     \/ /\ crashed = TRUE /\ setting = TRUE /\ loops = 1
        /\ saved = [rec |-> [count |-> 0, marker |-> "wifi"], valid |-> TRUE]
  /\ guard = [rec |-> Wiped, ready |-> FALSE]
  /\ policy = FreshPolicy(FALSE)
  /\ started = FALSE /\ link = "down" /\ events = <<>> /\ handling = "none"
  /\ connected = FALSE /\ connecting = FALSE /\ token = FALSE /\ ack = NoAck
  /\ control = Nobody /\ pc = [t \in Tasks |-> "idle"]
  /\ worker = "look" /\ ackTaken = FALSE /\ notified = FALSE

\* A reset at any step: everything but NVS is as after power on.
Reset(crash) ==
  /\ Spend
  /\ phase' = "boot" /\ crashed' = crash
  /\ guard' = [rec |-> Wiped, ready |-> FALSE]
  /\ policy' = FreshPolicy(FALSE)
  /\ started' = FALSE /\ link' = "down" /\ events' = <<>> /\ handling' = "none"
  /\ connected' = FALSE /\ connecting' = FALSE /\ token' = FALSE /\ ack' = NoAck
  /\ control' = Nobody /\ pc' = [t \in Tasks |-> "idle"]
  /\ worker' = "look" /\ ackTaken' = FALSE /\ notified' = FALSE
  /\ auto' = FALSE /\ untold' = FALSE
  /\ loops' = IF crash /\ phase = "boot" THEN loops
              ELSE IF crash /\ auto /\ started THEN loops + 1 ELSE 0
  /\ UNCHANGED <<setting, saved>>

\* d1l_connectivity_init: the guard is advanced first; then safe mode, an
\* automatic connect, or with Wi-Fi turned off a cleared guard.
BootCounted ==
  /\ phase = "boot" /\ phase' = "run" /\ crashed' = FALSE
  /\ LET looped == Attributed /\ Noted.count >= FailureLimit
         distrust == crashed /\ ~saved.valid
     IN \/ /\ setting /\ (looped \/ distrust)
           /\ policy' = SafeMode(FreshPolicy(TRUE))
           /\ Persisted(Noted)
           /\ UNCHANGED <<pc, auto>>
        \/ /\ setting /\ ~looped /\ ~distrust
           /\ policy' = BeginConnect(FreshPolicy(TRUE))
           /\ Persisted(Noted)
           /\ pc' = [pc EXCEPT ![Main] = "mark"]
           /\ auto' = TRUE
        \/ /\ ~setting
           /\ policy' = FreshPolicy(FALSE)
           /\ \/ Persisted(Wiped)
              \/ /\ Noted # Wiped /\ Spend
                 /\ saved' \in [rec : {Noted, Wiped}, valid : {TRUE}]
                 /\ guard' = [rec |-> Noted, ready |-> FALSE]
                 /\ UNCHANGED ackTaken
           /\ UNCHANGED <<pc, auto>>
  /\ UNCHANGED <<setting, linkVars, handling, flagVars, token, ack,
                 control, worker, notified, loops, untold>>

BootGuardFails ==
  /\ phase = "boot" /\ phase' = "run" /\ crashed' = FALSE
  /\ PersistFails(Noted)
  /\ policy' = IF setting THEN SafeMode(FreshPolicy(TRUE)) ELSE FreshPolicy(FALSE)
  /\ UNCHANGED <<setting, linkVars, handling, flagVars, token, ack,
                 control, pc, worker, notified, history>>

----------------------------------------------------------------------------
(* The control operations, one step between two points where others may run.*)

Goto(t, place) == pc' = [pc EXCEPT ![t] = place]
At(t, place) == phase = "run" /\ pc[t] = place
LinkFrame == UNCHANGED <<linkVars, handling, flagVars, token>>
GuardFrame == UNCHANGED <<guardVars, ackTaken, ack, spent>>
CallerFrame == UNCHANGED <<bootVars, worker, auto, loops>>

\* A user calls one of the operations; the boot sequence has returned.
Call(u) ==
  /\ At(u, "idle") /\ pc[Main] = "idle"
  /\ Spend
  /\ auto' = FALSE /\ loops' = 0
  /\ \/ \* d1l_connectivity_wifi_connect
        /\ setting
        /\ policy' = BeginConnect(policy)
        /\ ack' = NoAck
        /\ Goto(u, IF policy.enabled THEN "mark" ELSE "idle")
        /\ untold' = (untold /\ ~policy.enabled) /\ UNCHANGED notified
     \/ \* d1l_connectivity_wifi_disconnect
        /\ policy' = Cancel(policy) /\ notified' = TRUE
        /\ Goto(u, IF started THEN "cancelTake" ELSE "flags")
        /\ untold' = (untold \/ ~started) /\ UNCHANGED ack
     \/ \* d1l_connectivity_set_wifi_enabled(false)
        /\ Goto(u, "stopTake") /\ UNCHANGED <<policy, ack, untold, notified>>
     \/ \* d1l_connectivity_set_wifi_enabled(true)
        /\ Goto(u, "enableMark") /\ UNCHANGED <<policy, ack, untold, notified>>
     \/ \* d1l_connectivity_wifi_scan
        /\ setting /\ Allowed(policy)
        /\ Goto(u, "scanMark") /\ UNCHANGED <<policy, ack, untold, notified>>
  /\ LinkFrame
  /\ UNCHANGED <<bootVars, guardVars, ackTaken, worker, control>>

\* The marker must be durable before Wi-Fi starts.
Mark(t) ==
  /\ \/ At(t, "mark") /\ MarkOk /\ Goto(t, "start") /\ UNCHANGED policy
     \/ At(t, "mark") /\ MarkFails /\ policy' = SafeMode(policy) /\ Goto(t, "idle")
     \/ /\ pc[t] \in {"enableMark", "scanMark"} /\ phase = "run" /\ UNCHANGED policy
        /\ \/ MarkOk /\ Goto(t, IF pc[t] = "scanMark" THEN "scanStart" ELSE "enableStart")
           \/ MarkFails /\ Goto(t, "idle")
  /\ LinkFrame /\ CallerFrame
  /\ UNCHANGED <<control, notified, untold>>

\* ensure_wifi_started, without the control mutex.  A start that fails disables
\* Wi-Fi (fail_closed_wifi_runtime).
Start(t) ==
  /\ phase = "run" /\ pc[t] \in {"start", "enableStart", "scanStart"}
  /\ \/ /\ started' = TRUE
        /\ events' = IF started THEN events ELSE Append(events, "start")
        /\ Goto(t, CASE pc[t] = "start" -> "take"
                      [] pc[t] = "enableStart" -> "enable"
                      [] pc[t] = "scanStart" -> "scanBegin")
        /\ notified' = (notified \/ pc[t] = "start")
        /\ UNCHANGED <<policy, spent>>
     \/ /\ ~started /\ Spend
        /\ policy' = Disable(policy) /\ notified' = TRUE /\ Goto(t, "stopTake")
        /\ UNCHANGED <<started, events>>
  /\ UNCHANGED <<link, handling, flagVars, token, guardVars, ackTaken, ack,
                 control, untold>>
  /\ CallerFrame

\* take_wifi_control: granted, or given up when another keeps it too long.
Take(t) ==
  /\ phase = "run" /\ pc[t] \in {"take", "cancelTake", "stopTake", "scanTake"}
  /\ \/ /\ control = Nobody
        /\ control' = t
        /\ Goto(t, CASE pc[t] = "take" -> "connect"
                      [] pc[t] = "cancelTake" -> "leave"
                      [] pc[t] = "stopTake" -> "save"
                      [] pc[t] = "scanTake" -> "scan")
        /\ UNCHANGED <<untold, spent>>
     \/ /\ control # Nobody /\ Spend
        /\ Goto(t, IF pc[t] = "scanTake" THEN "scanFinish" ELSE "idle")
        /\ untold' = (untold \/ pc[t] \in {"cancelTake", "stopTake"})
        /\ UNCHANGED control
  /\ LinkFrame /\ CallerFrame
  /\ UNCHANGED <<guardVars, ackTaken, ack, policy, notified>>

\* esp_wifi_disconnect: a link that is not down is left, and says so later.
Leave(queue) == /\ link' = "down"
                /\ events' = IF link = "down" THEN queue ELSE Append(queue, "leave")

\* The rest of d1l_connectivity_wifi_connect: an existing link is left first,
\* with a token so that its event starts no retry.
Again == connected \/ connecting
Connect(t) ==
  /\ At(t, "connect") /\ started
  /\ events' = IF Again /\ link # "down" THEN Append(events, "leave") ELSE events
  /\ link' = IF Again \/ link = "down" THEN "joining" ELSE link
  /\ token' = (token \/ Again)
  /\ connected' = FALSE /\ connecting' = FALSE
  /\ Goto(t, "accept")
  /\ UNCHANGED <<started, handling, policy, control, notified, untold>>
  /\ GuardFrame /\ CallerFrame

\* esp_wifi_connect refuses, as it may while a join is under way.
ConnectRefused(t) ==
  /\ At(t, "connect") /\ started /\ ~Again /\ link # "down"
  /\ token' = FALSE
  /\ policy' \in AfterLoss(policy, FALSE)
  /\ notified' = (notified \/ policy'.sched)
  /\ control' = Nobody /\ Goto(t, "idle")
  /\ connecting' = FALSE
  /\ UNCHANGED <<linkVars, handling, connected, untold>>
  /\ GuardFrame /\ CallerFrame

\* The driver was stopped meanwhile: its configuration fails, and Wi-Fi is
\* disabled.
ConnectFails(t) ==
  /\ At(t, "connect") /\ ~started
  /\ token' = FALSE
  /\ policy' = Disable(policy) /\ notified' = TRUE
  /\ control' = Nobody /\ Goto(t, "stopTake")
  /\ UNCHANGED <<linkVars, handling, flagVars, untold>>
  /\ GuardFrame /\ CallerFrame

\* Faulty variant: an operation that was overtaken by a cancel is not noticed.
AcceptAlways(t) ==
  /\ At(t, "accept")
  /\ policy' = MarkConnecting(policy)
  /\ control' = Nobody /\ connecting' = TRUE /\ Goto(t, "idle")
  /\ UNCHANGED <<connected, linkVars, handling, token, notified, untold>>
  /\ GuardFrame /\ CallerFrame

\* The policy is asked once more: a cancel may have come in between.
Accept(t) ==
  /\ At(t, "accept")
  /\ policy' = MarkConnecting(policy)
  /\ control' = Nobody
  /\ IF Allowed(policy)
     THEN /\ connecting' = TRUE /\ Goto(t, "idle")
          /\ UNCHANGED <<connected, link, events>>
     ELSE /\ Leave(events) /\ connected' = FALSE /\ connecting' = FALSE
          /\ Goto(t, "clear")
  /\ UNCHANGED <<started, handling, token, notified, untold>>
  /\ GuardFrame /\ CallerFrame

\* An operation that was overtaken by a cancel clears the guard and returns.
Clear(t) ==
  /\ At(t, "clear") /\ ClearGuard /\ Goto(t, "idle")
  /\ LinkFrame /\ CallerFrame
  /\ UNCHANGED <<policy, control, notified, untold>>

\* d1l_connectivity_wifi_disconnect with the control mutex.
CancelLeave(t) ==
  /\ At(t, "leave")
  /\ IF started THEN Leave(events) ELSE UNCHANGED <<link, events>>
  /\ control' = Nobody /\ Goto(t, "flags")
  /\ untold' = FALSE
  /\ UNCHANGED <<started, handling, flagVars, token, policy, notified>>
  /\ GuardFrame /\ CallerFrame

CancelFlags(t) ==
  /\ At(t, "flags")
  /\ connected' = FALSE /\ connecting' = FALSE
  /\ ClearGuard /\ Goto(t, "idle")
  /\ UNCHANGED <<linkVars, handling, token, policy, control, notified, untold>>
  /\ CallerFrame

\* d1l_connectivity_set_wifi_enabled(false) with the control mutex: the setting
\* and the policy first, then stop_wifi_runtime.
Save(t) ==
  /\ At(t, "save")
  /\ setting' = FALSE /\ policy' = Disable(policy) /\ notified' = TRUE
  /\ Goto(t, "stop")
  /\ LinkFrame /\ GuardFrame
  /\ UNCHANGED <<phase, crashed, worker, auto, loops, control, untold>>

\* Faulty variant: a handler may still run when its registration is gone.
Undrained == TRUE

\* Unregistering the handlers waits for the one that runs.
Drained == handling = "none"

Stop(t) ==
  /\ At(t, "stop") /\ Drained
  /\ token' = FALSE /\ ack' = NoAck
  /\ started' = FALSE
  /\ Leave(events)
  /\ connected' = FALSE /\ connecting' = FALSE
  /\ control' = Nobody /\ Goto(t, "clear")
  /\ untold' = FALSE
  /\ UNCHANGED <<handling, policy, notified, guardVars, ackTaken, spent>>
  /\ CallerFrame

\* d1l_connectivity_set_wifi_enabled(true), then a connect.
Enable(t) ==
  /\ At(t, "enable")
  /\ setting' = TRUE
  /\ policy' = BeginConnect(Configure(policy, TRUE))
  /\ ack' = NoAck
  /\ Goto(t, "mark")
  /\ untold' = FALSE
  /\ LinkFrame
  /\ UNCHANGED <<phase, crashed, worker, auto, loops, guardVars, ackTaken, spent,
                 control, notified>>

\* d1l_connectivity_wifi_scan.
ScanBegin(t) ==
  /\ At(t, "scanBegin")
  /\ IF Allowed(policy)
     THEN policy' = [policy EXCEPT !.state = "scanning"] /\ Goto(t, "scanTake")
     ELSE /\ Goto(t, IF policy.cancelled \/ ~policy.enabled THEN "clear" ELSE "idle")
          /\ UNCHANGED policy
  /\ LinkFrame /\ GuardFrame /\ CallerFrame
  /\ UNCHANGED <<control, notified, untold>>

\* With the mutex: a cancelled scan is given up, another one runs.
Scan(t) ==
  /\ At(t, "scan")
  /\ control' = Nobody
  /\ Goto(t, IF policy.state = "scanning" THEN "scanFinish"
             ELSE IF policy.cancelled \/ ~policy.enabled THEN "clear" ELSE "idle")
  /\ LinkFrame /\ GuardFrame /\ CallerFrame
  /\ UNCHANGED <<policy, notified, untold>>

\* Faulty variant: the worker is not told that the scan is over.
ScanFinishSilent(t) ==
  /\ At(t, "scanFinish")
  /\ policy' = FinishScan(policy) /\ Goto(t, "idle")
  /\ LinkFrame /\ GuardFrame /\ CallerFrame
  /\ UNCHANGED <<control, notified, untold>>

ScanFinish(t) ==
  /\ At(t, "scanFinish")
  /\ policy' = FinishScan(policy) /\ notified' = TRUE /\ Goto(t, "idle")
  /\ LinkFrame /\ GuardFrame /\ CallerFrame
  /\ UNCHANGED <<control, untold>>

----------------------------------------------------------------------------
(* The event task.                                                          *)

EventFrame == UNCHANGED <<bootVars, guardVars, started, link, control, pc, workerVars,
                          history, spent>>
Handles(e) == /\ handling = "none" /\ events # <<>> /\ Head(events) = e
              /\ started /\ events' = Tail(events)

\* An event that finds no handler registered.
Unhandled ==
  /\ handling = "none" /\ events # <<>> /\ ~started
  /\ events' = Tail(events)
  /\ UNCHANGED <<handling, flagVars, token, ack, policy, notified>>
  /\ EventFrame

OnStart ==
  /\ Handles("start")
  /\ policy' = MarkStarting(policy)
  /\ UNCHANGED <<handling, flagVars, token, ack, notified>>
  /\ EventFrame

OnConnected ==
  /\ Handles("connected")
  /\ policy' = MarkConnecting(policy)
  /\ connecting' = Allowed(policy)
  /\ UNCHANGED <<handling, connected, token, ack, notified>>
  /\ EventFrame

\* A loss: the token is spent, and a local leave with a token starts no retry.
OnLoss(reason) ==
  /\ Handles(reason)
  /\ ack' = NoAck
  /\ connected' = FALSE /\ connecting' = FALSE
  /\ token' = FALSE
  /\ IF token /\ reason = "leave"
     THEN UNCHANGED <<policy, notified>>
     ELSE /\ policy' \in AfterLoss(policy, reason = "auth")
          /\ notified' = (notified \/ policy'.sched)
  /\ UNCHANGED handling
  /\ EventFrame

\* GOT_IP in two halves: the policy decides, then the flags follow.
OnGotIp ==
  /\ Handles("gotip")
  /\ token' = FALSE
  /\ policy' = Connected(policy)
  /\ IF Allowed(policy)
     THEN handling' = "accepted" /\ ack' = [when |-> "armed", fresh |-> TRUE]
     ELSE handling' = "rejected" /\ UNCHANGED ack
  /\ UNCHANGED <<flagVars, notified>>
  /\ EventFrame

GotIpFlags ==
  /\ handling # "none" /\ handling' = "none"
  /\ connected' = (handling = "accepted")
  /\ connecting' = FALSE
  /\ notified' = (notified \/ handling = "accepted")
  /\ UNCHANGED <<events, token, ack, policy>>
  /\ EventFrame

----------------------------------------------------------------------------
(* The retry worker.                                                        *)

WorkerFrame == UNCHANGED <<bootVars, started, events, handling, connected, token, pc,
                           auto, untold>>

\* One look: an acknowledgement that is due first, then the retry.
Look ==
  /\ phase = "run" /\ worker = "look"
  /\ LET held == policy.state \in {"connected", "scanning"} IN
     /\ ack' = IF ack.when = "due" \/ ~held THEN NoAck ELSE ack
     /\ worker' = IF ack.when = "due" /\ held THEN "ack"
                  ELSE IF ~policy.sched \/ policy.state = "scanning" THEN "sleep"
                  ELSE "wait"
     /\ ackTaken' = (ack.when = "due" /\ held /\ ack.fresh)
  /\ UNCHANGED <<guardVars, policy, link, connecting, control, notified, loops, spent>>
  /\ WorkerFrame

\* ulTaskNotifyTake: notified, or the due time of an armed acknowledgement.
Sleep ==
  /\ worker = "sleep" /\ (notified \/ ack.when = "due")
  /\ notified' = FALSE /\ worker' = "look"
  /\ UNCHANGED <<guardVars, ackTaken, ack, policy, link, connecting, control, loops,
                 spent>>
  /\ WorkerFrame

\* The wait for the retry's due time, cut short by a notification.
Wait ==
  /\ worker = "wait"
  /\ \/ notified /\ notified' = FALSE /\ worker' = "look"
     \/ worker' = "take" /\ UNCHANGED notified
  /\ UNCHANGED <<guardVars, ackTaken, ack, policy, link, connecting, control, loops,
                 spent>>
  /\ WorkerFrame

WorkerTake ==
  /\ worker = "take"
  /\ \/ control = Nobody /\ control' = Worker /\ worker' = "retry" /\ UNCHANGED spent
     \/ control # Nobody /\ Spend /\ worker' = "look" /\ UNCHANGED control
  /\ UNCHANGED <<guardVars, ackTaken, ack, policy, link, connecting, notified, loops>>
  /\ WorkerFrame

\* d1l_wifi_retry_policy_begin_due_retry with the control mutex.
Retry ==
  /\ worker = "retry"
  /\ \/ /\ Allowed(policy) /\ policy.sched /\ policy.state = "backoff"
        /\ \/ /\ policy' = [policy EXCEPT !.sched = FALSE, !.state = "connecting"]
              /\ connecting' = TRUE /\ worker' = "join" /\ UNCHANGED control
           \/ /\ policy' = [policy EXCEPT !.sched = FALSE, !.state = "unavailable"]
              /\ control' = Nobody /\ worker' = "look" /\ UNCHANGED connecting
     \/ /\ ~(Allowed(policy) /\ policy.sched /\ policy.state = "backoff")
        /\ control' = Nobody /\ worker' = "look"
        /\ UNCHANGED <<policy, connecting>>
  /\ UNCHANGED <<guardVars, ackTaken, ack, link, notified, loops, spent>>
  /\ WorkerFrame

\* esp_wifi_connect; it may refuse unless the link is down.
Join ==
  /\ worker = "join"
  /\ \/ started /\ link' = (IF link = "down" THEN "joining" ELSE link) /\ worker' = "look"
     \/ (~started \/ link # "down") /\ worker' = "failed" /\ UNCHANGED link
  /\ control' = Nobody
  /\ UNCHANGED <<guardVars, ackTaken, ack, policy, connecting, notified, loops, spent>>
  /\ WorkerFrame

JoinFailed ==
  /\ worker = "failed"
  /\ connecting' = FALSE
  /\ policy' \in AfterLoss(policy, FALSE)
  /\ notified' = (notified \/ policy'.sched)
  /\ worker' = "look"
  /\ UNCHANGED <<guardVars, ackTaken, ack, link, control, loops, spent>>
  /\ WorkerFrame

\* acknowledge_boot_guard_stable: only for the record the link came up under.
Acknowledge ==
  /\ worker = "ack" /\ worker' = "look"
  /\ IF ackTaken /\ guard.ready /\ guard.rec.marker = "wifi" /\ guard.rec.count > 0
     THEN \/ Persisted([guard.rec EXCEPT !.count = 0])
          \/ PersistFails([guard.rec EXCEPT !.count = 0])
     ELSE UNCHANGED <<guardVars, spent>> /\ ackTaken' = FALSE
  /\ ack' = [ack EXCEPT !.fresh = FALSE]
  /\ loops' = 0
  /\ UNCHANGED <<policy, link, connecting, control, notified>>
  /\ WorkerFrame

----------------------------------------------------------------------------
(* The access point, the driver and time.                                   *)

\* Timing: an attempt to join takes longer than its caller needs to note it.
JoinIsSlow == \A t \in Tasks : pc[t] # "accept"

\* What the driver reports of its own.
Link(new, event) ==
  /\ JoinIsSlow
  /\ link' = new /\ events' = Append(events, event)
  /\ UNCHANGED <<bootVars, guardVars, policy, started, handling, flagVars, token,
                 ack, control, pc, workerVars, notified, history, spent>>
Associates == link = "joining" /\ Link("joined", "connected")
GetsIp     == link = "joined" /\ Link("up", "gotip")
JoinLost   == link = "joining" /\ \E e \in {"lost", "auth"} : Link("down", e)
LinkLost   == link \in {"joined", "up"} /\ Link("down", "lost")

\* The stable window has passed.
WindowPasses ==
  /\ ack.when = "armed" /\ ack' = [ack EXCEPT !.when = "due"]
  /\ UNCHANGED <<bootVars, guardVars, policy, linkVars, handling, flagVars, token,
                 control, pc, workerVars, notified, history, spent>>

----------------------------------------------------------------------------

CallerStep(t) ==
  \/ Mark(t) \/ Start(t) \/ Take(t) \/ Connect(t) \/ ConnectRefused(t)
  \/ ConnectFails(t) \/ Accept(t) \/ Clear(t) \/ CancelLeave(t) \/ CancelFlags(t)
  \/ Save(t) \/ Stop(t) \/ Enable(t) \/ ScanBegin(t) \/ Scan(t) \/ ScanFinish(t)
EventStep ==
  \/ Unhandled \/ OnStart \/ OnConnected \/ OnGotIp \/ GotIpFlags
  \/ \E reason \in {"lost", "auth", "leave"} : OnLoss(reason)
WorkerStep == \/ Look \/ Sleep \/ Wait \/ WorkerTake \/ Retry \/ Join \/ JoinFailed
              \/ Acknowledge
Driver == Associates \/ GetsIp \/ JoinLost \/ LinkLost

Next ==
  \/ \E crash \in BOOLEAN : Reset(crash)
  \/ BootCounted \/ BootGuardFails
  \/ \E u \in Users : Call(u)
  \/ \E t \in Tasks : CallerStep(t)
  \/ EventStep \/ WorkerStep \/ Driver \/ WindowPasses

Spec == Init /\ [][Next]_vars

\* The tasks run; nothing is asked of users, the access point or time.
Fairness == /\ \A t \in Tasks : WF_vars(CallerStep(t))
            /\ WF_vars(BootCounted) /\ WF_vars(EventStep) /\ WF_vars(WorkerStep)
FairSpec == Spec /\ Fairness

----------------------------------------------------------------------------
(* Properties.                                                              *)

Quiet == /\ \A t \in Tasks : pc[t] = "idle"
         /\ events = <<>> /\ handling = "none"
         /\ worker \notin {"retry", "join", "failed"}
Off == ~policy.enabled \/ policy.cancelled

\* What the user turned off stays off: whatever connect, retry or event was
\* under way, once all is quiet no link is up, coming up, or shown as up.
OffStaysOff == Quiet /\ Off /\ ~untold => link = "down" /\ ~connected /\ ~connecting

\* The boot sequence never connects by itself after as many crashes in a row as
\* the limit, of boots that did so and were not stable.
CrashLoopContained == loops <= FailureLimit

\* The flag every reader of the status trusts is never left set on a link that
\* is gone: not by a half-handled GOT_IP, a retry or a leave in between.
ShownIsUp == Quiet /\ connected => link = "up"

\* A retry that waits in backoff is begun, replaced or dropped: no wakeup of the
\* worker is lost between the tasks that schedule, scan, cancel and connect.
Waiting == policy.sched /\ policy.state = "backoff"
RetryTaken == Waiting ~> ~Waiting
=============================================================================
