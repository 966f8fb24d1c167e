# DeskOS: specifications, checks and proofs

DeskOS (SIGUI) is the firmware of a desk-top MeshCore terminal: an ESP32-S3
that runs FreeRTOS tasks for a LoRa mesh, a touch UI, Wi-Fi, BLE and a USB
console, with an RP2040 on a serial link that owns the SD card. This directory
holds TLA+ models of the parts of it where tasks, power loss and slow media
meet, the TLC runs that check them, and the theorems TLAPS proves about them.
Line numbers below are those of `src/main/...` unless another path is given.

    tlasany M.tla                       parse
    tlc -workers 2 -config X.cfg M      model-check
    tlapm M.tla                         check the proofs

## 1. The system

| Component | State it keeps | Operations | Talks to |
|---|---|---|---|
| Mesh owner task (`mesh/meshcore_service.c`) | the DM session, ACK bindings, radio operation, admin runtime, two command queues and a radio-event queue, request slots | one loop: terminal recovery, then radio events, priority and ordinary commands in bounded bursts, then maintenance | radio driver (callbacks), stores, time service, retained worker |
| Remote administration (`meshcore_admin_dispatch.c`, `meshcore_admin_runtime.c`) | one session with a generation, a replay cache and its NVS records, slots of received responses | log in, request, log out, fail; hand over, admit and dispatch a response; poll deadlines | owner task, callers, NVS |
| Command slots (`meshcore_command_guard.h`, `meshcore_runtime_guard.h`) | one atomic word per slot (id, state), a result, an admin password, a binary semaphore | claim, publish, enqueue, wait, cancel; match, admit, run, complete, signal | every task that calls a `d1l_meshcore_service_*` operation |
| Radio terminals (`meshcore_runtime_guard.h`, `meshcore_service.c:712-1038`) | history of TX operations, pending-slot word, watchdog, RX recovery bit | publish from callback, reserve, take, watchdog | radio driver, owner task |
| DM store and delivery (`dm_store.c`, `dm_delivery_state.c`) | ring of rows, revision, dirty flags, ACK receipts | append, compare-and-swap transition, flush, clear, merge | owner task, retained worker, console, blob store |
| Other retained stores (`message_store`, `channel_store`, `contact_store`, `node_store`, `route_store`, `packet_log`, `read_state`) | a ring or table, revision, dirty flags, SD generation | append/update, flush, clear, merge, reconcile | retained worker, blob store |
| Retained worker (`route_store_worker.c`, `retained_store_scheduler.c`) | request queue, two mutexes, quiesce owner and requester, results by id | background pass, forced flush with a deadline, quiesce | all retained stores, tasks that reboot, remount or write a DM durably |
| Blob store (`storage/retained_blob_store.c`) | NVS partition markers, SD backend generation, media lineage fences | read, write, erase, migrate, note backend | stores, factory reset, storage manager, bridge |
| Factory reset (`storage/factory_reset.c`, `app_main.c`) | NVS journal, SD lineage generations | inspect, resume, request, repair | boot sequence, console |
| Storage manager (`storage/storage_status.c`) | manager state, sequence mutex, force-NVS, reset/remount requests | manager pass, quiesce, remount, format | bridge, blob store, worker |
| RP2040 bridge (`hal/rp2040_bridge.c`) and its firmware (`firmware/rp2040_sd_bridge`) | bridge lock, quiesce requester and owner; mounted card, files | line exchange with timeout, verified write, rename | storage manager, blob, map and export stores, update manager |
| Update manager (`update/update_manager.c`) | state, pending and highest security sequence, cancel flags | install, confirm or roll back at boot, prepare reboot | bridge, ESP OTA, worker, storage manager, connectivity |
| Wi-Fi (`comms/connectivity_manager.c`, `wifi_retry_policy.c`, `connectivity_boot_guard.c`) | retry policy, control mutex, network lease, crash-boot record | connect, disconnect, scan, event handler, retry worker, boot guard | ESP Wi-Fi events, observer, map prefetch, updates |
| BLE companion (`comms/ble_companion*.c`) | one session, two queues, one notification in flight | GAP events, pump, receive | NimBLE host task, owner task |
| Observer (`comms/observer_manager.c`) | payload ring, MQTT client, back-off | task loop, MQTT callbacks | Wi-Fi |
| Time (`platform/time_service*.c`, `settings_time_checkpoint.c`, `settings_protocol_migration.c`) | wall anchor, protocol range, dirty checkpoint | adopt, reserve timestamps, checkpoint, migrate | owner task, BLE, SNTP, worker |
| Settings and onboarding (`app/*`) | NVS envelopes | update fields, complete onboarding | all |
| Map (`map/*`, `storage/map_tile_store.c`) | tile files with a journal, prefetch plan | fetch, cache, recover, evict | bridge, Wi-Fi, UI |
| Console (`comms/usb_console.c`), UI (`ui/*`), diagnostics | command in hand, views, rings | parse and call, draw, append | all |

What is hard here:

* **One owner, many callers.** Mesh state belongs to one task; everything else
  reaches it through queues and slots with deadlines, so a caller may give up
  while its command is being run. Radio callbacks run on a driver task and
  share only atomic words with the owner.
* **A shared writer.** Seven stores and the time checkpoint are written by one
  background task, and callers that need durability or silence (reboot,
  remount, update, each durable DM step) contend for it with deadlines.
* **Power loss anywhere.** Rows, journals and markers are written in several
  steps to two media (NVS and an SD card behind a serial link); the card may be
  taken out and another one put in.
* **Slow and failing media.** A write may fail, or fail and have been applied.

### What makes each component correct

* Retained worker: a quiesced worker does not touch the stores; a forced flush
  that reports success has made durable what its caller had written; every call
  returns; no mutex or registration leaks.
* Command slots: a call gets its own answer, or a timeout of a command that
  never runs; no slot, semaphore give or password passes to another request.
* DM delivery: the retained row and the session in RAM stay consistent; nothing
  is sent or finalised on the strength of a row that is not durable; a path is
  judged once per attempt; every session ends.
* Radio terminals: every operation ends exactly once, by its own callback or by
  its watchdog, and a late callback never ends another.
* Factory reset and lineage: once a reset is durably requested, no producer ever
  reads a key of the reset's inventory, or a file of a card, from before it. (The
  read cursors' journal is outside the inventory and survives: section 6.)
* Blob store: a blank, an owned and a foreign NVS partition are never confused.
* Storage manager and bridge: force-NVS sticks; a quiesced bridge is silent.
* Updates: the recorded highest sequence is that of the newest confirmed image.
* Wi-Fi: what the user turned off stays off; a lost link is retried; a crash
  loop ends in safe mode.
* Time: no protocol timestamp is used twice, across reboots and migration.
* Read cursors: a reported mark is recoverable, a card's cursors never move backwards.
* Remote administration: a response or a transmission's outcome strikes only the
  exchange it is of; a login response gives authority at most once.
* BLE: a notification's completion removes the frame that was notified.

The list of hazards, with the line where each bites and the properties that
cover it, is in `PROJECT.json`.

## 2. Plan

Modules are parameterised by CONSTANTS with named assumptions, have one action
per handler or step, and avoid RECURSIVE operators so that they can be proved
about.

| # | Module | Composes | Status |
|---|---|---|---|
| 1 | `RetainedWorker` | the worker, its scheduler and its callers | done, proved |
| 2 | `DmDelivery` | owner session + DM store + worker writes + reboot | done, safety proved |
| 3 | `SyncCall`, `CommandSlots` | abstract call, detailed slots | done, refinement proved |
| 4 | `FactoryReset`, `SdLineage` | reset journal and boot sequence; on top of it the cards and the blob store's lineage fence | done, proved |
| 5 | `Transmission`, `RadioOwner` | abstract operation; driver interrupts, callback history, terminal lane, watchdog, owner lanes | done, refinement proved |
| 6 | `ProtocolTime` | timestamp reservation, wall clock, migration | done, proved |
| 7 | `Connectivity` | retry policy, events, retry worker, boot guard | done, safety proved |
| 8 | `ReadState` | journal then card, merge, the projection of the cursors | done, proved |
| 9 | `TwoMediaStore` | SD merge and channel reconciliation; a durability specification that the stores implement | planned |
| 10 | `UpdateManager` | install, confirm, roll back; the quiesce chain | planned |
| 11 | `StorageManager` | manager, console, one exchange of the bridge, the bridge's card state | done, safety proved |
| 12 | `AdminSession` | the session, its callers, the owner's handlers, response slots, replay records | done, proved |
| 13 | `BleTx`, `BlobOwnership`, `TileCache` | as named | planned |

Abstract specifications worth stating: `SyncCall` and `Transmission` (done); "a retained row is
lost only by clear or eviction" for the stores.

Every safety property of a passing run is a theorem. Theorems worth proving next:
those of the modules left in the plan.

## 3. The modules

### RetainedWorker

Tasks call `force_flush` or `quiesce_begin`/`quiesce_end`; `pc[t]` is where a
task stands in the function, one step per blocking call or critical section.
`reqMutex` and `flushMutex` are `s_request_mutex` and `s_flush_mutex`, `owner`,
`requester` and `preempt` the quiesce globals, `queue` the FreeRTOS queue,
`result` the last published completion. The worker (`wpc`) receives a job or a
period tick, takes the flush lock, walks the stores in descriptor order,
yielding between stores when somebody wants it to, and publishes the result.
A store is its revision and the revision that is durable; `Mutate`, `DirectCommit`
and `SdChange` are what the rest of the firmware does to it.

Time is one bit per call (`late`: its deadline has passed) and the set of queued
ids whose deadline has passed. The tick counter, its wrap and the retry period
are left out; that a background pass is never starved is not claimed.

Two points where the code is worth knowing: `route_store_worker.h:25-29` speaks
of six stores, `s_retained_stores` has eight descriptors; and an SD-only store
reports success to a forced flush while SD is disabled, which is why
`FlushOkMeansDurable` speaks of the stores that do not defer. A store that does
not recheck its revision after the write (the node store, the time checkpoint)
may report success with a newer mutation still dirty; `Rechecks` names the others.

### DmDelivery

The owner task, one step per handler or per segment between two store calls
(`pc`, `call`, `ret`); the RAM owner (`own`) is `s_pending_dm_tx` with its
session; `ram` and `disk` are rows before and after persistence; `receipts`
marks ACKs admitted to RAM whose row is not durable; `radio` is the operation in
flight and its terminal; `sent`, `acked`, `verdict` and `effects` are history
for the properties. A write to the media is two steps, snapshot and completion,
with every outcome the code can see: written and reported, written and reported
failed, not written. The worker and the console write concurrently; a yield of
the owner's durable write is `OwnerFlushYield`. `Reboot` reloads the disk image
and marks rows interrupted as `d1l_dm_delivery_interrupted_by_reboot` does.

Left out: the second medium, rows merged from another card and evictions done
by such a merge, threads and unread counts. After a remount `BeginWrite` sets
the store dirty again whether or not the merge changed a row.

### CommandSlots and SyncCall

`SyncCall` is the promise a synchronous call makes: it is open, then either ran
and was answered with its own answer, or timed out without ever running.
`CommandSlots` is the code: the slot word with its compare-and-swap transitions
(every read and every swap is a step), the caller's scan, claim, publish,
enqueue, wait, cancel and release, the owner's dequeue, match, admit, run,
reply, seal and give, and the secrets stored in a slot and wiped by whoever
comes first. Items without a request (`PostAsync`) share the queue. The owner
is not a caller (`meshcore_service_called_from_owner`). `held` is a command
the owner keeps back while a transmission occupies the radio. A deadline is one
bit of the request, set at any time after the claim. Ids are never reused;
`MaxId` is `D1L_MESH_REQUEST_ID_MAX` made small, and a call after the last id is
refused, as in the code. `Status` and `answer` map the slots to
`SyncCall`.

### FactoryReset and SdLineage

`FactoryReset` is `factory_reset.c` at the place where `app_main` calls it. NVS
is `journal` (one record), `fence` (the lineage record of each SD store) and
`domain` (each key of the inventory); every write of it is a step that ends well,
fails with nothing written or fails although written, and power may fail between
any two. `phase` and `at` are the device's place: before boot ("off"), opening
the stores' NVS ("stores"), in resume, arming a store, erasing a domain, writing
progress, running, restarting, or in the recovery console. What a key holds is
only its epoch, the number of resets scheduled before it was written, because
that is all a reset has to tell apart. `Written` are the keys that producers still
write (the settings, the channels, the crash guard); the other keys of the
inventory are old histories, which only disappear (`RetireLegacy`).

The one thing still written to the retained NVS partition is the journal of the
read cursors, `d1l_read`/`state`. The inventory has that key in the default
partition only; this copy is `CursorsKey`, and `readState` is the rest: whether
the retained partition is open, the journal in it, the cursors in RAM
(`LoadCursors`, `MarkRead`, `RetireCursors`). The boot migration of
`retained_blob_store.c` is not there because it moves nothing: all five keys it
lists belong to stores that may not fall back to NVS, and it skips those
(`retained_blob_store.c:1408`). With it gone nothing writes a key between two runs
of an interrupted reset, so that starting over at domain zero (`StartOver`) is a
precaution, as the comment at `factory_reset.c:1023` says: a run that went on where
the last one stopped would pass the same checks.

A record becomes
unreadable by `JournalUnreadable` and `LineageUnreadable`: damage, or a schema
of a newer firmware that was installed in between.

Left out: the counters of the journal that only telemetry reads; the RAM cache
of the lineage records, which every entry point resets and a failed write
invalidates, so that no reader sees it differ from NVS; the two-step token of the
repair; and the end of the generation range at 2^32 - 1, where a request is
refused.

`SdLineage` extends it with cards (`card`, the epoch in each file and in its
backup), the slot, the operation the storage worker is in (`op`, the bridge
commands still to give) and the oldest entry each store has in RAM. `Ready`,
`Purge` and `Finalize` are the blob store's functions of similar name;
`Replaced` and `Interrupted` are the bridge's replacing rename and the places
where it may stop. `ClearFence` is the only step that changes NVS and it is
`LineageClear` of FactoryReset. `packetLog`, chosen once, says which store is
the packet log, if any: that store's second key
is its segments, which are written in place and purged by `packet_log.c`.
`SilentSwap` and `DeleteMayFail` add two behaviours of the bridge that break
the fence (section 6). The lineage run leaves the producers' side of the cursors
out: `OldHistoryFenced` speaks of what stores take from cards.

### RadioOwner and Transmission

`opc` is the place of the owner task in its loop: recovery of a lost interrupt,
the scan of the callback history (`hist`), the handling of a terminal, the
choice among the three queues by bounded bursts, the dispatch, maintenance. The
history is a ring of `SlotCount` slots that operation ids index modulo its size,
so `SlotCount = 1` makes two operations share one. The callback writes a slot in
two steps (`OwnSlot`, `WriteSlot`) after it set the pending bit (`Latch`), as
`meshcore_service_latch_radio_recovery` does. The driver is the patched one: a
GPIO edge is stamped with the origin on the air (`edges`), the interrupt task
claims the operation before it reads the chip (`IrqClaim`, `IrqCheck`,
`IrqProcess`), and the watchdog takes the same claim (`Quiesce`).

`AirIsSlow` is an assumption on time: an interrupt-task run that found no origin
just before a transmission started does not find that transmission finished.
Without it the driver's check accepts a `txDoneOrigin` of 0, the report is
dropped, and the watchdog's recovery is refused for ever. `NormalServed` is
conditional on the urgent ACK pausing, because an ACK that overrides the lanes
resets the count of radio events. `MaxOp` is UINT32_MAX made small: at its end no
operation begins.

`Transmission` is the promise: operations are begun one at a time, and each is
either reported by the driver and then handled by the owner, or taken back by the
watchdog unreported. `Stage` maps the device to it; the slot of the latest
operation says how it ended. A report that is neither with the callback, in the
lane, in the owner's scan nor in its hand maps to no stage of Transmission.

Left out: a radio profile that cannot be configured, task notifications (every
wait ends by its own period), admin responses, and the difference between DONE
and TIMEOUT. What a terminal does to a delivery is in DmDelivery.

### Connectivity

Two users and the boot sequence (`Main`) run the control operations, each at its
place `pc[t]` under or waiting for the control mutex; the event task handles
`events` in order (a GOT_IP in two halves, because it takes the mutex in
between); the worker sleeps, takes a due retry and joins. `policy` is the retry
policy's record, `guard` and `saved` the crash-loop guard in RAM and in NVS.
`JoinIsSlow` says that an association takes longer than the step from
`esp_wifi_connect` to the mutex. The unregistering of the event handlers waits
for a handler that is running, as ESP-IDF's does.

Two weaknesses of the code shape the properties. A cancel that reads
`s_wifi_started` between a stop and a start does not tell the driver to
disconnect while the worker stands between `begin_due_retry` and
`esp_wifi_connect`; `untold` marks it and `OffStaysOff` speaks of the other
operations. And a retry that stays scheduled while the policy has left back-off
keeps the worker looking without a wait (`connectivity_manager.c:720`), which
costs time only. The start at boot, which runs without the control mutex, is
modelled so. Left out: edits of the saved profile, BLE's way to disable Wi-Fi,
the network lease beyond its timeout, and failing writes of the settings;
`fail_closed` saves the setting after the stop, the model takes the order of a
disable.

### ProtocolTime

NVS holds the end of the reserved range (`water`), the predecessor's key
(`legacy`) and the migration's receipt; `core` is the service's RAM. Timestamps
are handed out of the range and a new range is written before its first use;
`Top` stands for UINT32_MAX and `Top + 1` for `protocol_exhausted`. The wall clock
may push the sequence forward as far as its source is trusted (`Anchor`,
`Ceiling`). `Confirmed` is what the operator states in a migration: an upper
bound of what the predecessor used. The predecessor may run again (a downgrade),
but not in the middle of a migration. Left out: the wall checkpoint, which
yields an approximate clock only, and damaged receipts, which block as a
downgrade does.

### ReadState

`s_persist_io_lock` is held for a whole operation, so there is one `op` at a
time, with a step per access to NVS or to the card: `Load`, `Flush`, `Read`,
`WriteCard`, `Retire`, `Apply`, and `Mark` for the four marks. The accepted
backend generation is only ever compared with the current one, so it is one bit
(`fresh`), and a second (`op.fence`) for the generation an operation started
with; `Swap` clears both. A write may fail and have been applied. `Receive` and
`ClearDm` are the DM store as far as numbering goes. `promised` is a history
variable: what was reported as marked, minus what a later mark gave up (an
eviction from the full table).

Left out: `d1l_read_state_clear` and its tombstone, which nothing under
`src/main` calls; `persistence_revision`, which cannot change while the lock is
held; the counters; and the lineage of the cards, which is SdLineage's.

Worth knowing: `merge_monotonic` refuses a union of cursors that does not fit
the table of 16 (`read_state.c:209`), and with it every later load and mark
while that card is in. A mark that evicts a cursor and is interrupted after the
journal and before the card is enough to get there.

### StorageManager

Two actors, the manager's task and the console, each at a place `pc[a]` of its
pass or command, call the same pieces of code: an exchange over the bridge
(`Send`, `Receive`, `GiveUp`), what its reply changes (`Apply`, then `Enable`,
then `Recheck`, as `d1l_storage_status_refresh` and `_mount` do outside the
bridge lock), a reset. `then[a]` is where the caller goes on. Boot
(`d1l_storage_boot_prepare`) runs before the manager's task exists, so the
console starts as owner of `sequence`. A reset of the bridge
that a pass has claimed before force-NVS was set may still be pulsed after it;
`ForcedMeansPaused` is about the SD backend only. The bridge is a second program that
answers the commands it has (`asked`) in order, keeps a cached card state and
mounts on its second core (`worker`, `published`). Replies carry no number, so a
reply to an exchange that was given up may be taken by a later one of its kind.
What is in the slot is one bit; the detect line follows it, and is believed only
after a card was seen ready (`proven`) and for `Debounce` samples.

Left out: the manager's pauses and the quiesce by updates and reboots,
`request_remount`, which nothing calls, and file commands. An `error` is kept by
the bridge until the next mount command, which a routine pass does not send, so
`BackendFollowsCard` asks for the backend only if no error stands.

### AdminSession

One session (`session`) administers one peer; every transition of it gives a new
generation, which is how whoever looked at it earlier notices. A step is what
runs between two takings of the session's lock that another task could come
between: the owner's handler of a request captures the session ("bind"), begins
the exchange, transmits and notes the outcome ("send"); the handler of a response
is admitted and then dispatches ("reply"). In between a client on its own task may
end the session (`CallFails`). A response waits in a slot (`inbox`) from the radio
event to its dispatch. The NVS records bear a key of seven bytes of the peer's
(`Twins` share one), and the replay cache evicts the peer that entered first.

What was sent last is a number, and a tag is that number: timestamps never repeat
(ProtocolTime). In a response, `exchange` and `peer` are history for
`GenerationNamesExchange`; the code keeps the generation. The order of commands
is left to CommandSlots: any call may be served or fail. A slot is freed when its
response is admitted, the code frees it when the handler ends; the owner does
nothing else meanwhile. The clock is read once per dispatch, so a deadline passes
only between two.

Left out: permissions and codecs, the hash of the response in a replay record
(the timestamp alone decides), the factory reset of the records' namespace, the
kinds of an ended session, and the end of the generations at UINT32_MAX.

Proof modules: `RetainedWorkerProofs`, `DmDeliveryProofs`, `CommandSlotsProofs`,
`FactoryResetProofs`, `RadioOwnerProofs`, `ServiceProofs`, `ReadStateProofs`,
`ConnectivityProofs`.

## 4. The runs

Deadlock is checked in every run but `wifi`, where the system stops once the
bounded user operations are over.

| Run | Bounds | Distinct states | Shows |
|---|---|---|---|
| `worker` | 2 tasks, 2 stores (one SD-only), 1 queue place, 1 mutation per store, 1 request; or 2 requests, no quiesce and one store mutated | 1.4 M | mutual exclusion with a quiesce, truth of a flush result, with passes cut short and with the late answer of an abandoned flush in the mailbox; every call returns, every received request is answered |
| `dm_live` | 2 rows in a ring of 2; or 1 row and a crash, a clear or a remount | 91 k | every session whose row stays in the ring ends |
| `slots` | 3 callers that arrive in a crowd, 2 slots, 1 queue place, 3 ids | 540 k | slots, gives and secrets stay with their request; `SyncCall` is implemented; every call returns |
| `radio` | 1 history slot, 2 operations, queues of 1, bursts of 1 | 364 k | a terminal is of the operation on the air; `Transmission` is implemented; the radio listens again; ACKs end and ordinary commands are served |
| `read` | 2 threads and a table of 1, 2 cards, 2 messages, 1 clear, 1 failure | 4.4 M | marks are recoverable; a restart shows nothing again; cards never go backwards |
| `wifi` | 2 users, 2 operations, resets or faults, 2 crashes to safe mode | 800 k | off stays off; the flag shown is true; a crash loop is contained; a retry is taken |
| `reset` | 3 keys, 3 stores, 3 resets, 4 failures, 1 unreadable lineage record | 321 k | no old key of the inventory once producers run; the journal is given up only when done; a reset is carried out or the device waits for repair |
| `lineage` | 2 cards, 2 resets, 1 failed rename; 1 store with two keys and 1 failure, or 2 stores (one the packet log), 1 card with files and 1 unreadable lineage record | 2.6 M | old history stays fenced, with segments and through a repair; a write is readable; ResetSpec is kept |
| `storage` | up to 2 card swaps, 1 fault of the bridge and 1 command, 2 timeouts to a reset, 2 failures to a pause, 2 samples | 1.8 M | force-NVS is not undone by an answer on its way; the SD backend ends up following the card |
| `services` | messages: 2 rows in a ring of 1, two of a crash, a clear and a remount; time: 9 timestamps in ranges of 2; administration: 3 peers, 2 of which share a record, 2 clients, 2 response slots, a cache of 1, 2 timestamps of a peer, 3 calls, 1 restart | 3.5 M | owner and row, path verdicts, RF only after a durable row; an ACK acts only once durable and a durable ACK stays true; no timestamp repeats, a cut migration can be resumed; no late response or outcome strikes another exchange, no login response is accepted twice |
| `read_clear` | as `read` | stops early | section 6 |
| `reset_cursors` | 3 keys, 1 store, 1 reset, no failure needed | stops early | section 6 |

Why these bounds suffice to reach the interesting cases: two contenders are
enough for every race over a mutex, slot or quiesce, because the code keeps no
list of waiters; a ring of one row with two messages makes each append evict, and
a table of one cursor with two threads each mark; one history slot makes every
operation reuse the slot of the one before; one crash after any step meets every
intermediate disk image (and, with `TwoOfThree`, one clear or remount before or
after it); two resets and two cards give a card that missed one
reset and carries the marker of the other; three calls of two clients log in, end
that session and log in again while a response to the first is still in a slot,
and a cache of one forgets the first of two peers. `services` runs three modules
that share no state one at a time, the others in their first state, which loses no
state of any. In `slots` the
action constraint `Crowded` lets a caller begin only when the slots the earlier
calls can take are taken, so that one skips a busy slot and one may find none
free, and a slot is reused while a stale copy of its first request may still be
queued or held (the constraint speaks only of calls that begin and commands that
are posted, which fairness demands of nobody); in `worker` the action constraint `Few` lets a second
request be drawn only by tasks that do not quiesce and before the second store is
mutated, which again withholds only calls and mutations; one request is contended by
quiesces, two share the result mailbox; longer histories of both are covered by the
proofs, which hold for any number of ids. In `dm_live` the action constraint
`LoneFault` keeps a crash, clear or remount to behaviours with one message; those
with two messages and up to two such events are in `services`. The bounds are guards on
counters (ids, rows, faults) and named as such where they are declared. Symmetry
is used over cards (`lineage`), over cards and threads (`read`) and over clients
and response slots (`services`); these runs check safety properties only.

Each property of a passing run has been seen to fail: `PROJECT.json` lists for each a plausible
mistake (a dropped check, a late or missing reset, a swapped order) that breaks it.
The mistaken variants stand in the modules beside the action they replace.

### Fairness

* Worker: weak fairness of every task's steps, of time and of the worker, no
  assumption on who gets a contended mutex.
* Slots: weak fairness of the owner loop, of each caller and of time. An owner
  step that waits for a transmission is assumed to go on: the radio's terminal or
  its watchdog ends it.
* DM delivery: weak fairness of the owner, the radio (bounded by the watchdog)
  and time; strong fairness of maintenance, which the loop runs after each
  dispatch and when idle, but which is put off while the radio is busy; strong
  fairness of a successful write, that is, media failures are transient.
* Radio: weak fairness of the owner loop, of the interrupt task and of the
  watchdog's deadline. Nothing is assumed of the chip: a transmission may hang
  and an interrupt may be lost.
* Wi-Fi: weak fairness of the callers, the event task and the worker; the driver
  need not associate.
* Storage: weak fairness of the manager's and the console's steps, of the
  bridge's answers and of its second core, as long as the bridge is alive.
* Factory reset: weak fairness of the boot steps, which `app_main` runs one after
  another, and of a restart that was asked for. Power failures are bounded.
  Nobody is assumed to use the recovery console.

## 5. What is proved

Each theorem holds for every value of the constants that satisfies the module's
named assumption. What is assumed besides is said.

* `RetainedWorkerProofs`: the type invariant; `QuiesceExcludesPass`,
  `OwnerNeverYields`, `WaitModeNeverCancels`, `RegistrationsHaveCallers`,
  `FlushOkMeansDurable`.
  The mutual-exclusion part rests on "who holds a mutex is at a place that holds
  it"; `FlushOkMeansDurable` on an invariant that follows a request from its
  enqueueing, through the stores the pass has already done, to its result:
  each store done is durable at least up to the revision its caller wanted.
* `DmDeliveryProofs`: the type invariant, and the action properties
  `EffectsAreDurable` and `AckTruthSurvives`, which speak of the time until a card
  is mounted again (section 6 says why). The
  invariant ties the receipt mask to the disk: a row acknowledged in RAM and not
  on disk has a receipt, or a write in flight that will publish it only if it
  reached the disk, so that an unmasked ACK is a durable one.

  Then the session itself: `OwnerMatchesRow`, `OpenRowsDriven`, `PathJudgedOnce` and the action property `RfOnlyAfterDurable`. None is
  inductive, because what holds between two dispatches is suspended while the
  owner task persists a transition. The invariant `SInv` is a table: for every
  place a transition returns to, the states it may lead from (`From`) and to
  (`To`); a session at that place has made the step, or has not because its row
  left the ring, which is the only reason a compare-and-swap of the session can
  fail. Every action is then one of four: it moves the session to the next place
  (`MoveStep`), lands what was flushed (`LandStep`), settles (`SettleKeeps`) or
  drops the session (`SettleDrops`). `PathJudgedOnce` adds that a session that has
  used up its retry and still has a direct route is giving up, so that no ACK can
  credit the path it blamed; `RfOnlyAfterDurable` that rows no flag calls dirty are
  on the medium and in any snapshot being written.
* `CommandSlotsProofs`: the type invariant; `SlotsOwned` (slots and
  semaphores), `SecretConfined`, `RunsWithOwnSecret`; and `Implements`, that
  CommandSlots implements SyncCall. The invariant gives, for every place of a caller and of
  the owner, the states its slot's word may be in and who may change it; ids that
  are drawn once and never again make a comparison of the whole word immune to
  reuse of the slot. The refinement proof has one step per action: those that draw an id, run a
  command, time out and return are steps of SyncCall, the others stutter.

* `FactoryResetProofs`: the type invariant; `InventoryErased`,
  `CompleteOnlyWhenClean` and `QuarantineKept`; and `CardsKeepReset`, that
  SdLineage implements the factory reset's specification. `InventoryErased` speaks
  of the keys of the inventory, whichever of them are still written, and of no other
  key: `CursorsCleared`, of the cursors' journal, is false. It is not inductive: whether
  the keys are clean when the device runs follows from what the journal says at
  boot. The invariant is that a journal absent or complete means every key
  is clean, that in the erase loop the journal is active, all stores are
  armed and all keys before the current one are gone, and in the arming loop all
  stores before the current one are armed. For the refinement, every step on a
  card leaves the reset's variables alone except `ClearFence`, which is a
  `LineageClear` of the operation's own store.
  Of the cards it proves `OldHistoryFenced` and `WriteReadable`. The first rests on
  `CardInv`. No marker on any card is newer than any lineage record, and all are
  older than the generation of a reset under way (`FenceOK`), so a reset fences
  every card, the absent ones too. A card that carries its store's marker holds
  nothing old (`AdoptedOK`), which a marker could only break: so whatever is left of
  a plan that puts one still drops each file that is old, and drops nothing after it
  (`PlanOK`, `Purged`, `Ordered`). Its three hypotheses exclude the three weaknesses
  of section 6 and nothing else: `~DeleteMayFail`, `~SilentSwap`, and
  `MaxUnreadable < Stores`, by which a new generation is newer than some record.
  The second needs `~SilentSwap` only. `WriteInv` lists the stages of a write: to an
  adopted card the one command left; else what is left to drop, then the key, the
  marker, its reading back and the fence, with the key on the card from then on.

* `RadioOwnerProofs`: the type invariant and `TerminalsAreCurrent`. The invariant
  `OwnerInv` says of each place a report can be in (an edge, the claim, the
  interrupt task, a history slot, a pending bit, the terminal being handled) that
  it is of the operation on the air, and of the watchdog that it is armed for it:
  a report is the current one because whoever ends an operation first takes the
  claim, and nothing that lost it writes. `TransmissionsImplemented` adds the other
  half, that no report is lost (`ReportKept`): the driver clears an origin only when
  the history knows it, the slot bit is set before the slot is claimed, and a scan
  that finds an unfinished slot puts its bits back. Four actions are steps of
  Transmission, the others stutter.
* `ServiceProofs`, for three modules that share no state. Of ProtocolTime: the type
  invariant, `TimestampsFresh` and `CutResumes`.
  The invariant `TimeInv` says that what was used lies below what NVS holds
  reserved, that a seeded range lies within it, and that a migration's receipt
  already binds the range it is going to write.
  Of StorageManager: the type invariant, `ForcedMeansPaused` and `RecoveryOwned`.
  `ForcedMeansPaused` is inductive once every actor is known to have a place. Only `Enable` turns the backend on, and it leaves its actor
  before `Recheck`, which with force-NVS leads to `Pause`; the command itself pauses.
  `RecoveryOwned` (a reset of the bridge is pulsed only by the holder of the sequence, and
  no recovery outlives its pass or remount) rests on `SmHeld`, which says for every
  place of an actor, and for the place its call returns to, whether it holds the
  sequence. The type invariant needs that an answer applied as the card's state is one
  (`SmCallsOK`), although late answers to other exchanges are read.
  Of AdminSession: `GenerationNamesExchange`, `LoginAcceptedOnce` and
  `AuthorityIsDurable`. The first rests on generations that only grow: every change of
  the session but a deadline's passing takes a new one, so that what is held from
  an earlier generation is never current again (`AdminHeld`; most steps drop or
  keep what is held, lemma `HeldKept`). For the other two, what was accepted from a
  peer is at most what its record in NVS says (`AdminRecorded`), which a twin's login
  cannot replace and a failed write can only raise, and a session gets its authority
  in the step that writes its record.
* `ReadStateProofs`: the type invariant, `Recoverable`, `RebootKeeps` and the action
  property `CardsMonotone`. The
  invariant `ReadInv` adds what each erasure and overwrite relies on: a reported
  mark that no card holds is in RAM under the journal's authority (`RamHolds`), so
  that a journal may always be written again from RAM; the accepted card, once
  reconciled, has nothing that RAM has not (`CardCovered`), so that a mark may
  overwrite it; and the value on its way to the card covers RAM and every
  promise that card held (`WriteSafe`, `Written`), so that the journal may go.

  For `CardsMonotone`, `ValueKeeps` says of the value about to be written that it
  lowers a cursor of the card only by leaving a full table, and `CursorsBounded` of
  every blob that its cursors are of messages there were and its table no larger
  than the capacity: without the first a mark could lower a cursor that lies
  beyond the newest message, without the second an eviction need not leave a table
  that is full.
* `ConnectivityProofs`: the type invariant, `OffStaysOff`, `CrashLoopContained` and
  `ShownIsUp`. All three speak of moments at rest, or count over many boots, so the
  invariant `IInv` says what holds on the way there. `LinkOK` and `ConnectingOK`: while
  Wi-Fi is off and the link or its flag is not, some caller stands where it will take
  it down (`Leavers`, `Clearers`); a caller leaves those places only by doing so, by
  giving up the mutex (`untold`), or in a connect that the policy still allowed, and
  the mutex (`LockOK`) keeps the worker's join out of the way. `QueueOK`: while the
  link is not up, a loss is queued behind a flag that shows it, and behind every GOT_IP.
  `CrashOK`: before the driver of an automatic boot runs, NVS holds a marker whose
  count reaches every crash of the row but the last, so that the next boot finds it
  whatever writes failed in between.

Only model-checked: all liveness (`CallsReturn`, `RequestAnswered`, `SessionEnds`,
`ResetSettles`, `ListensAgain`, `AckEnds`, `NormalServed`, `RetryTaken`), which the
prover cannot do, `BackendFollowsCard` of StorageManager included.

## 6. Where code and documents disagree

Two disagreements are runs of their own, with the counterexample as the result:

* **Cleared messages leave cursors that hide new ones** (`read_clear`).
  `d1l_dm_store_clear` restarts the numbering at 1 (`dm_store.c:1326`) and the read
  cursors survive it. A cursor is ignored only while it lies beyond the newest
  number (`read_state.c:749`), so a thread read up to message 5 shows messages 1
  to 5 of the new numbering as read once the fifth has arrived, contrary to the
  comment at `read_state.c:747`. The mark that follows the clear finds no rows and
  changes nothing. `message_store.c:1473` keeps its numbers for this reason.
* **The read cursors survive a factory reset** (`reset_cursors`). The inventory
  clears `d1l_read`/`state` in the default partition (`factory_reset.c:107`); the
  cursors are journalled under that key in the retained partition
  (`read_state.c:351`, `retained_blob_store.c:757`, which drops the default copy)
  and read from there at the next boot (`read_state.c:292`). The inventory calls its
  entry "message read cursors tied to cleared histories", and the evidence record
  `docs/completion/evidence/wp11/factory_reset_9686c3d7fa52bb1b3c236b930a8c7383527125ac.json:93`
  says that the read state is cleared. The histories are, and number from 1 again, so
  that new messages may show as read. A cursor that a card holds and the journal no
  longer is not concerned: the card's lineage fences it.

Others appear when a bound or a condition is changed as said:

* **An ACK taken for durable** (DmDelivery, with the condition that `spent` counts
  no remount taken out of `EffectsAreDurable` and `AckTruthSurvives`). A merge after
  a card change clears the receipts (`dm_store.c:1326`), contrary to the comment at
  `meshcore_service.c:1833`.
* **A caller ends the owner's session** (`MCServices.cfg` with `PROPERTY OwnerOnly`
  and no symmetry). A client whose login or request did not succeed, be it for want
  of a slot or of time, calls `report_failure` on its own task
  (`meshcore_service.c:8134`), which ends whatever session there is by then, that of
  another client included; the comment at `meshcore_service.c:7078` speaks of "the
  same task that owns every later Admin transition". The session's lock keeps each
  transition whole, and its generation keeps the handlers from acting on the next
  session (`GenerationNamesExchange`).
* **A failed delete taken for done** (`MCSdLineage.cfg` with `DeleteMayFail = TRUE`).
  The bridge answers not_found to every delete that fails
  (`deskos_sd_bridge.ino:3070`), and the fence comes down over the old files,
  contrary to `factory_reset.h:140`. The lineage run therefore shows what the
  fence is worth with a bridge whose deletes succeed.
* **A cleared session never ends** (`MCDmDeliveryLive.cfg`, with `SessionEnds`
  less its second disjunct).
  `messages dm clear` (`usb_console.c:5960`) empties the ring without asking the
  owner; the owner's later transitions find no row, and its maintenance tries
  for ever. `SessionEnds` therefore speaks of rows that stay in the ring, and the
  hazard has no property.
* **An evicted session never ends** (the same, with `Capacity = 1`).
  After the worker made the ACK durable and before the owner's maintenance looks,
  the row is an ordinary acknowledged one: an inbound DM may evict it
  (`dm_store.c:2512`).
* **A generation used twice** (`MCSdLineage.cfg` with `Stores = 1`,
  `PacketLogs = {0}` and no `CONSTRAINT`, so that the only lineage record is
  unreadable). A repair then starts again at
  generation 1 (`factory_reset.c:600`), which an old card may carry; see
  `factory_reset.h:138`.
* **A purge on one card, its marker on another** (`MCSdLineage.cfg` with
  `Stores = 1`, `PacketLogs = {1}`, `SilentSwap = TRUE` and no `CONSTRAINT`). A card replaced between two file
  commands is noticed only by the next status poll
  (`retained_blob_store.c:2013`), while the bridge mounts the new one at once;
  see the comment at `retained_blob_store.c:1836`.

And one was only read: a row in RETRY_WAIT survives a reboot with no session
behind it (`dm_delivery_state.c:88`) while the UI says that a retry is active
(`ui_messages.c:1343`).

## 7. Not modelled

`PROJECT.json` lists every component with its status. Outside the plan: the
pixel and packet formats, cryptography, command-line parsing, the UI's layout,
drivers, build and test tooling, and vendored code. They are sequential and pure
or have no state that another component relies on.
