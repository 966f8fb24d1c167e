---------------------------- MODULE FactoryReset ----------------------------
(***************************************************************************)
(* The factory reset: a journal in NVS schedules it, the next boot runs it *)
(* before any producer starts, and a lineage record per removable-SD store *)
(* fences off the history written before it.                               *)
(*                                                                         *)
(*   main/storage/factory_reset.c       journal, lineage, erase loop       *)
(*   main/app_main.c                    order of the boot steps            *)
(*   main/storage/retained_blob_store.c the NVS side of the stores         *)
(*   main/mesh/read_state.c             the cursors' journal in NVS        *)
(*   main/comms/usb_console.c           request and recovery console       *)
(*                                                                         *)
(* Each write to NVS is a step and ends in one of three ways: "ok"; "lost",*)
(* an error and nothing written; "applied", an error although the new      *)
(* value is there (a set that could not remove the old entry, a commit     *)
(* error).  Power may fail between any two steps.  User data is only its   *)
(* epoch: how many resets were scheduled before it was written.            *)
(***************************************************************************)
EXTENDS Integers, FiniteSets

CONSTANTS
  Domains,          \* D1L_FACTORY_RESET_CLEAR_DOMAIN_COUNT
  Written,          \* those that a producer still writes
  CursorsKey,       \* the default-NVS copy of the read cursors
  Stores,           \* D1L_FACTORY_RESET_SD_STORE_COUNT
  MaxResets,        \* bound: resets scheduled
  MaxFaults,        \* bound: failures of boot and the reset, and power failures
  MaxUnreadable     \* bound: lineage records unreadable at one time

ASSUME ResetAssumption ==
  /\ Domains \in Nat \ {0} /\ Stores \in Nat \ {0}
  /\ Written \subseteq 1 .. Domains
  /\ CursorsKey \in (1 .. Domains) \ Written
  /\ MaxResets \in Nat /\ MaxFaults \in Nat /\ MaxUnreadable \in Nat

VARIABLES
  phase,            \* what the device does
  at,               \* the store being armed, or the domain being erased
  journal,          \* the reset journal in NVS
  fence,            \* the SD lineage record of each store in NVS
  domain,           \* the epoch of the data under each key, or Absent
  readState,        \* the read cursors, and the NVS partition they need
  resets,           \* history: resets durably scheduled so far
  faults            \* failures so far

bootVars == <<phase, at>>
vars == <<bootVars, journal, fence, domain, readState, resets, faults>>

Absent    == -1
NotLoaded == -2
Epochs   == 0 .. MaxResets
DomainId == 1 .. Domains
StoreId  == 1 .. Stores
Outcomes == {"ok", "lost", "applied"}
Phases   == {"off", "stores", "resume", "arm", "erase", "progress",
             "running", "restarting", "recovery"}
Booting  == {"stores", "resume", "arm", "erase", "progress"}

Journal(state, gen, next) == [state |-> state, gen |-> gen, next |-> next]
Lineage(gen, active) == [gen |-> gen, active |-> active, ok |-> TRUE]
NoLineage == Lineage(0, FALSE)

(* s_retained_nvs_ready, and the oldest epoch among the cursors in the     *)
(* retained partition's d1l_read/state and among those in s_state.         *)
Cursors(ready, nvs, ram) == [ready |-> ready, nvs |-> nvs, ram |-> ram]
ColdCursors == Cursors(FALSE, readState.nvs, NotLoaded)

TypeOK ==
  /\ phase \in Phases
  /\ at \in 1 .. (Domains + Stores)
  /\ journal \in [state : {"absent", "active", "complete", "bad"},
                  gen : Nat, next : 0 .. Domains]
  /\ fence \in [StoreId -> [gen : Nat, active : BOOLEAN, ok : BOOLEAN]]
  /\ domain \in [DomainId -> Epochs \cup {Absent}]
  /\ readState \in [ready : BOOLEAN, nvs : Epochs \cup {Absent},
                    ram : Epochs \cup {Absent, NotLoaded}]
  /\ resets \in Epochs
  /\ faults \in 0 .. MaxFaults

Init ==
  /\ phase = "off" /\ at = 1
  /\ journal = Journal("absent", 0, 0)
  /\ fence = [s \in StoreId |-> NoLineage]
  /\ domain \in [DomainId -> {0, Absent}]
  /\ \E old \in {0, Absent} : readState = Cursors(FALSE, old, NotLoaded)
  /\ resets = 0 /\ faults = 0

-----------------------------------------------------------------------------
(* NVS.  Count charges a failure to the bound; a failed write that was     *)
(* "applied" is in NVS all the same.                                       *)
Count(failed) == /\ failed => faults < MaxFaults
                 /\ faults' = IF failed THEN faults + 1 ELSE faults
Reaches(o) == o # "lost"

StoreJournal(j, o) == journal' = IF Reaches(o) THEN j ELSE journal
StoreLineage(s, l, o) ==
  fence' = IF Reaches(o) THEN [fence EXCEPT ![s] = l] ELSE fence
EraseKey(d, o) ==
  domain' = IF Reaches(o) THEN [domain EXCEPT ![d] = Absent] ELSE domain

(* journal_load fails: the journal is damaged or of a newer schema, or the *)
(* read itself fails (failed).                                             *)
LoadFails(failed) == failed \/ journal.state = "bad"

Readable == {s \in StoreId : fence[s].ok}

(* next_sd_lineage_generation: one more than the largest generation that   *)
(* can be read, as a set of one.                                           *)
NextGeneration ==
  {g \in {1} \cup {fence[s].gen + 1 : s \in Readable} :
     \A s \in Readable : fence[s].gen < g}

Enter(p) == phase' = p /\ at' = 1

-----------------------------------------------------------------------------
(* Boot.                                                                   *)
Inspect ==
  /\ phase = "off"
  /\ \E failed \in BOOLEAN :
       /\ Count(failed)
       /\ Enter(IF LoadFails(failed) THEN "recovery" ELSE "stores")
  /\ UNCHANGED <<journal, fence, domain, readState, resets>>

(* d1l_retained_blob_store_init.  No key moves here: the keys its migration*)
(* lists are all of stores that may not fall back to NVS.                  *)
RetainedInit ==
  /\ phase = "stores"
  /\ \E failed \in BOOLEAN :
       /\ Count(failed)
       /\ readState' = [readState EXCEPT !.ready = ~failed]
  /\ Enter("resume")
  /\ UNCHANGED <<journal, fence, domain, resets>>

ResumeRefused ==
  /\ phase = "resume"
  /\ \E failed \in BOOLEAN : LoadFails(failed) /\ Count(failed)
  /\ Enter("recovery")
  /\ UNCHANGED <<journal, fence, domain, readState, resets>>

ResumeAbsent ==
  /\ phase = "resume" /\ journal.state = "absent"
  /\ Enter("running")
  /\ UNCHANGED <<journal, fence, domain, readState, resets, faults>>

ResumeComplete ==
  /\ phase = "resume" /\ journal.state = "complete"
  /\ \E o \in Outcomes :
       /\ Count(o # "ok")
       /\ StoreJournal(Journal("absent", 0, 0), o)
       /\ Enter(IF o = "ok" THEN "running" ELSE "recovery")
  /\ UNCHANGED <<fence, domain, readState, resets>>

(* prepare_retry: every run starts from the first domain, however far the  *)
(* last one noted that it got.                                             *)
StartOver == 0

ResumeActive ==
  /\ phase = "resume" /\ journal.state = "active"
  /\ \E o \in Outcomes :
       /\ Count(o # "ok")
       /\ StoreJournal(Journal("active", journal.gen, StartOver), o)
       /\ Enter(IF o = "ok" THEN "arm" ELSE "recovery")
  /\ UNCHANGED <<fence, domain, readState, resets>>

-----------------------------------------------------------------------------
(* process_active_journal.                                                 *)
Armed(s) == fence[s] = Lineage(journal.gen, TRUE)

NextStore ==
  IF at < Stores THEN phase' = "arm" /\ at' = at + 1
                 ELSE phase' = "erase" /\ at' = StartOver + 1

\* Faulty variant: an armed store is looked at again and again.
ArmSkipStuck ==
  /\ phase = "arm" /\ Armed(at)
  /\ UNCHANGED vars

ArmSkip ==
  /\ phase = "arm" /\ Armed(at)
  /\ NextStore
  /\ UNCHANGED <<journal, fence, domain, readState, resets, faults>>

ArmStore ==
  /\ phase = "arm" /\ ~Armed(at)
  /\ \E o \in Outcomes :
       /\ Count(o # "ok")
       /\ StoreLineage(at, Lineage(journal.gen, TRUE), o)
       /\ IF o = "ok" THEN NextStore ELSE Enter("recovery")
  /\ UNCHANGED <<journal, domain, readState, resets>>

EraseDomain ==
  /\ phase = "erase"
  /\ EraseKey(at, "ok")
  /\ phase' = "progress"
  /\ UNCHANGED <<at, journal, fence, readState, resets, faults>>

\* Faulty variant: a key that could not be erased is passed over.
EraseFailsUnseen ==
  /\ phase = "erase"
  /\ Count(TRUE)
  /\ phase' = "progress"
  /\ UNCHANGED <<at, journal, fence, domain, readState, resets>>

(* The erase fails; a note of the failure is written to the journal if it  *)
(* can be.                                                                 *)
EraseFails ==
  /\ phase = "erase"
  /\ Count(TRUE)
  /\ \E o \in {"lost", "applied"} : EraseKey(at, o)
  /\ \E o \in Outcomes : StoreJournal(Journal("active", journal.gen, at - 1), o)
  /\ Enter("recovery")
  /\ UNCHANGED <<fence, readState, resets>>

Progress ==
  /\ phase = "progress"
  /\ \E o \in Outcomes :
       /\ Count(o # "ok")
       /\ StoreJournal(Journal(IF at = Domains THEN "complete" ELSE "active",
                               journal.gen, at), o)
       /\ \/ o = "ok" /\ at < Domains /\ phase' = "erase" /\ at' = at + 1
          \/ o = "ok" /\ at = Domains /\ Enter("running")
          \/ o # "ok" /\ Enter("recovery")
  /\ UNCHANGED <<fence, domain, readState, resets>>

Boot == Inspect \/ RetainedInit \/ ResumeRefused \/ ResumeAbsent \/ ResumeComplete \/ ResumeActive
        \/ ArmSkip \/ ArmStore \/ EraseDomain \/ EraseFails \/ Progress

-----------------------------------------------------------------------------
(* The running device.                                                     *)
(* A producer writes one of the keys that are still in use.                *)
WriteDomain(d) ==
  /\ phase = "running" /\ d \in Written
  /\ domain' = [domain EXCEPT ![d] = resets]
  /\ UNCHANGED <<bootVars, journal, fence, readState, resets, faults>>

(* The rest is old histories, dropped once their data is on a card.        *)
RetireLegacy(d) ==
  /\ phase = "running" /\ d \notin Written \cup {CursorsKey}
  /\ domain' = [domain EXCEPT ![d] = Absent]
  /\ UNCHANGED <<bootVars, journal, fence, readState, resets, faults>>

(* The read cursors journal to the retained partition.  Their default copy *)
(* is read where that journal is missing, and is dropped, if it can be,    *)
(* after each write of the journal.  What a card holds of them is in       *)
(* ReadState.                                                              *)
DropCopy(may) ==
  \E dropped \in BOOLEAN :
    /\ dropped => may
    /\ domain' = IF dropped THEN [domain EXCEPT ![CursorsKey] = Absent] ELSE domain

LoadCursors ==
  /\ phase = "running" /\ readState.ready /\ readState.ram = NotLoaded
  /\ \/ /\ readState.nvs # Absent
        /\ readState' = [readState EXCEPT !.ram = readState.nvs]
        /\ UNCHANGED domain
     \/ /\ readState.nvs = Absent
        /\ \E o \in Outcomes :
             /\ readState' = Cursors(TRUE,
                                     IF Reaches(o) THEN domain[CursorsKey] ELSE Absent,
                                     domain[CursorsKey])
             /\ DropCopy(o = "ok")
  /\ UNCHANGED <<bootVars, journal, fence, resets, faults>>

(* A cursor moves or all are cleared; a write that fails leaves RAM as it  *)
(* was (persist_mutation_or_rollback).                                     *)
MarkRead ==
  /\ phase = "running" /\ readState.ready /\ readState.ram # NotLoaded
  /\ \E oldest \in {resets, readState.ram} \ {Absent}, o \in {"ok", "applied"} :
       /\ readState' = Cursors(TRUE, oldest, IF o = "ok" THEN oldest ELSE readState.ram)
       /\ DropCopy(o = "ok")
  /\ UNCHANGED <<bootVars, journal, fence, resets, faults>>

(* The cursors are on a card: both copies go, the default one first.       *)
RetireCursors ==
  /\ phase = "running" /\ readState.ready /\ readState.ram # NotLoaded
  /\ domain' = [domain EXCEPT ![CursorsKey] = Absent]
  /\ \E o \in Outcomes :
       readState' = IF Reaches(o) THEN [readState EXCEPT !.nvs = Absent] ELSE readState
  /\ UNCHANGED <<bootVars, journal, fence, resets, faults>>

Produce == \/ \E d \in DomainId : WriteDomain(d) \/ RetireLegacy(d)
           \/ LoadCursors \/ MarkRead \/ RetireCursors

(* sd_lineage_clear: the store's media now carries the marker of gen.      *)
LineageClear(s, gen, o) ==
  /\ phase = "running"
  /\ fence[s] = Lineage(gen, TRUE)
  /\ Count(o # "ok")
  /\ StoreLineage(s, Lineage(gen, FALSE), o)
  /\ UNCHANGED <<bootVars, journal, domain, readState, resets>>

(* A reset is scheduled: what was written so far is now of an old epoch.   *)
Schedule(gen, o) ==
  /\ resets < MaxResets
  /\ StoreJournal(Journal("active", gen, 0), o)
  /\ resets' = IF Reaches(o) THEN resets + 1 ELSE resets

(* A journal still active would keep its generation.                       *)
Requested(failed, o) ==
  /\ Count(failed \/ o # "ok")
  /\ \/ /\ ~LoadFails(failed)
        /\ journal.state # "active" => Readable = StoreId
        /\ \E gen \in IF journal.state = "active" THEN {journal.gen}
                     ELSE NextGeneration : Schedule(gen, o)
     \/ /\ \/ LoadFails(failed)
           \/ journal.state # "active" /\ Readable # StoreId
        /\ o = "ok"
        /\ UNCHANGED <<journal, resets>>

\* Faulty variant: producers are released after a write that failed.
RequestReleases ==
  /\ phase = "running"
  /\ \E failed \in BOOLEAN, o \in Outcomes :
       /\ Requested(failed, o)
       /\ Enter(IF o = "ok" THEN "restarting" ELSE "running")
  /\ UNCHANGED <<fence, domain, readState>>

(* The console's factory-reset-confirm holds every producer and always     *)
(* restarts, even where the journal's write reported an error: the journal *)
(* may be in NVS all the same.                                             *)
Request ==
  /\ phase = "running"
  /\ \E failed \in BOOLEAN, o \in Outcomes : Requested(failed, o)
  /\ Enter("restarting")
  /\ UNCHANGED <<fence, domain, readState>>

(* factory-reset-repair-confirm in the recovery console: only where the    *)
(* journal cannot be read.  Lineage records that cannot be read are passed *)
(* over.  It restarts once it has read the new journal back.               *)
Repair ==
  /\ phase = "recovery"
  /\ \E failed, readBack \in BOOLEAN, o \in Outcomes :
       /\ LoadFails(failed)
       /\ Count(failed \/ o # "ok" \/ ~readBack)
       /\ \E gen \in NextGeneration : Schedule(gen, o)
       /\ Enter(IF Reaches(o) /\ readBack THEN "restarting" ELSE "recovery")
  /\ UNCHANGED <<fence, domain, readState>>

Restart ==
  /\ phase \in {"restarting", "recovery"}
  /\ Enter("off")
  /\ readState' = ColdCursors
  /\ UNCHANGED <<journal, fence, domain, resets, faults>>

PowerFails ==
  /\ phase \in Booting \cup {"running", "restarting"}
  /\ Count(TRUE)
  /\ Enter("off")
  /\ readState' = ColdCursors
  /\ UNCHANGED <<journal, fence, domain, resets>>

(* A record in NVS becomes unreadable: damage, or a newer schema left by a *)
(* newer firmware.                                                         *)
JournalUnreadable ==
  /\ phase \in {"off", "running"}
  /\ journal.state \in {"active", "complete"}
  /\ journal' = [journal EXCEPT !.state = "bad"]
  /\ UNCHANGED <<bootVars, fence, domain, readState, resets, faults>>

LineageUnreadable(s) ==
  /\ phase = "off"
  /\ fence[s].ok /\ fence[s].gen > 0
  /\ Cardinality(StoreId \ Readable) < MaxUnreadable
  /\ fence' = [fence EXCEPT ![s].ok = FALSE]
  /\ UNCHANGED <<bootVars, journal, domain, readState, resets, faults>>

Next ==
  \/ Boot \/ Request \/ Repair \/ Restart \/ PowerFails \/ JournalUnreadable
  \/ Produce
  \/ \E s \in StoreId, o \in Outcomes : LineageClear(s, fence[s].gen, o)
  \/ \E s \in StoreId : LineageUnreadable(s)

(* app_main runs to its end, and esp_restart restarts.                     *)
Fairness == /\ WF_vars(Boot)
            /\ WF_vars(phase = "restarting" /\ Restart)

Spec     == Init /\ [][Next]_vars
LiveSpec == Spec /\ Fairness
-----------------------------------------------------------------------------
(* Properties.                                                             *)

(* Once producers run, no key of the reset's inventory (s_inventory) holds *)
(* data written before the last scheduled reset, whatever failed or was    *)
(* interrupted on the way (d1l_factory_reset_resume, "before               *)
(* time/settings/store producers can recreate a key", app_main.c).  It     *)
(* says nothing of a key that is not in the inventory: see CursorsCleared. *)
InventoryErased ==
  phase = "running" => \A d \in DomainId : domain[d] \in {Absent, resets}

(* The inventory clears the "message read cursors tied to cleared          *)
(* histories": on a device that runs, no cursor in use was set before the  *)
(* last reset (read_state.c, init_locked).                                 *)
CursorsCleared ==
  phase = "running" => readState.ram \in {NotLoaded, Absent, resets}

(* A scheduled reset leaves the journal only after every key is gone and   *)
(* every store is fenced at the reset's own generation: losing power at    *)
(* any step repeats the work and never skips it (process_active_journal).  *)
CompleteOnlyWhenClean ==
  [][/\ journal.state = "active"
     /\ journal'.state \in {"complete", "absent"}
     => /\ \A d \in DomainId : domain[d] = Absent
        /\ \A s \in StoreId : Armed(s)]_vars

(* "A malformed or future journal is quarantined and is never overwritten  *)
(* by inspection, resume, or a new reset request" (factory_reset.h): only  *)
(* the recovery console's repair replaces it, by a reset from the start.   *)
QuarantineKept ==
  [][journal.state = "bad" /\ journal' # journal
     => phase = "recovery" /\ journal'.state = "active"]_vars

(* A scheduled reset is carried out, or the device waits in the recovery   *)
(* console: boot ends, however often power failed before.                  *)
ResetSettles ==
  journal.state = "active" ~> \/ phase = "recovery"
                              \/ phase = "running" /\ journal.state # "active"
=============================================================================
