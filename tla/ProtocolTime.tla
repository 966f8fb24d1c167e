---------------------------- MODULE ProtocolTime ----------------------------
(* The timestamps of mesh packets never repeat.                             *)
(*                                                                          *)
(* A peer drops a packet whose timestamp it has seen.  time_service.c hands *)
(* timestamps out of a range that it reserves in NVS first, and takes up    *)
(* behind the range after a restart; the wall clock may push them forward   *)
(* (time_service_core.c).  A device that ran the predecessor firmware holds *)
(* only a lower bound of what that one used, and hands out nothing before   *)
(* the operator has confirmed an upper bound: a migration in four writes    *)
(* (settings_protocol_migration.c), any of which may fail or be cut off.    *)
(*                                                                          *)
(* Abstracted: the wall checkpoint, which sets an approximate clock only;   *)
(* damaged and newer receipts, which block as a downgrade does.  Every call *)
(* runs under one lock, so that only a power loss cuts one.                 *)
EXTENDS Integers

CONSTANTS
  Base,     \* D1L_TIME_PROTOCOL_TIMESTAMP_BASE
  Build,    \* D1L_BUILD_EPOCH_SEC
  Top,      \* UINT32_MAX
  Range,    \* D1L_TIME_PROTOCOL_RESERVATION_SIZE
  Horizon,  \* D1L_TIME_SNTP_MAX_FORWARD_SEC
  SntpTop   \* D1L_TIME_SNTP_MAX_PROTOCOL_EPOCH

ASSUME TimeAssumption ==
  /\ Base \in Nat \ {0} /\ Range \in Nat \ {0} /\ Top \in Nat /\ Base + Range < Top
  /\ Build \in Base..SntpTop /\ SntpTop \in Nat /\ SntpTop < Top /\ Horizon \in Nat

VARIABLES
  legacy,   \* the predecessor's key in NVS, 0 for none
  water,    \* the reserved range's end in NVS, 0 for none
  receipt,  \* the migration's receipt in NVS
  core,     \* s_time_core and s_protocol_seed_ready; Top + 1 is next once
            \* protocol_exhausted is set
  wall,     \* the wall clock: why it may move the sequence, and its time
  at,       \* where a migration is
  highest   \* history: the highest timestamp that was ever used

timeVars == <<legacy, water, receipt, core, wall, at, highest>>

Stamps == 0..Top
NoWall == [how |-> "none", time |-> 0]
NoReceipt == [phase |-> "none", legacy |-> 0, upper |-> 0]
Larger(a, b) == IF a > b THEN a ELSE b
Smaller(a, b) == IF a < b THEN a ELSE b

TimeTypeOK ==
  /\ legacy \in Stamps /\ water \in Stamps
  /\ receipt \in [phase : {"none", "intent", "complete"}, legacy : Stamps, upper : Stamps]
  /\ core \in [ready : BOOLEAN, next : 0..(Top + 1), through : Stamps]
  /\ wall \in [how : {"none", "sntp", "companion", "unfit"}, time : 0..(Top + 1)]
  /\ at \in {"idle", "water", "erase", "complete"}
  /\ highest \in Stamps

\* inspect_locked; what is none of these is quarantined.
MigrationAbsent == receipt.phase = "none" /\ legacy = 0
MigrationRequired == receipt.phase = "none" /\ legacy >= Base /\ water = 0
MigrationPending ==
  /\ receipt.phase = "intent"
  /\ legacy \in {0, receipt.legacy} /\ water \in {0, receipt.upper}
  /\ legacy # 0 \/ water # 0
MigrationComplete == receipt.phase = "complete" /\ legacy = 0 /\ water >= receipt.upper

\* Faulty variant: the range in NVS is taken up at its end.
SeededAtEnd ==
  [ready |-> TRUE, through |-> Larger(water, Base),
   next |-> Larger(Build, IF water = 0 THEN Base + 1 ELSE water)]

\* d1l_time_core_seed_protocol: behind everything that was reserved.
Seeded ==
  [ready |-> TRUE, through |-> Larger(water, Base),
   next |-> Larger(Build, IF water = 0 THEN Base + 1 ELSE water + 1)]
Unseeded == [ready |-> FALSE, through |-> Base, next |-> Larger(Build, Base + 1)]

\* Only an absent legacy key or a completed receipt may seed.
MaySeed ==
  /\ MigrationAbsent \/ MigrationComplete
  /\ water = 0 \/ water >= Base

\* A device that ran the predecessor, or is new.
TimeInit ==
  /\ \/ legacy = 0 /\ highest = 0
     \/ legacy \in Base..Top /\ highest \in legacy..(Top - Range)
  /\ water = 0 /\ receipt = NoReceipt
  /\ core = Unseeded /\ wall = NoWall /\ at = "idle"

----------------------------------------------------------------------------
(* Timestamps.                                                              *)

\* load_protocol_seed_locked, tried at init and with every call until it worked.
Seed ==
  /\ at = "idle" /\ ~core.ready /\ MaySeed
  /\ core' = Seeded
  /\ UNCHANGED <<legacy, water, receipt, wall, at, highest>>

\* protocol_candidate_at.
Blocked == wall.time > core.next /\ (wall.how = "unfit" \/ wall.time > Top)
MayHand == at = "idle" /\ core.ready /\ core.next <= Top /\ ~Blocked
Candidate == IF wall.how \in {"sntp", "companion"} THEN Larger(wall.time, core.next)
                                                   ELSE core.next
Reservation == Smaller(Candidate + (Range - 1), Top)

\* d1l_time_core_next_protocol_timestamp: out of the range, or of a new one that
\* is written first.
HandOut(through) ==
  /\ core' = [ready |-> TRUE, through |-> through, next |-> Candidate + 1]
  /\ highest' = Candidate
  /\ UNCHANGED <<legacy, receipt, wall, at>>
Hand ==
  /\ MayHand
  /\ \/ Candidate <= core.through /\ HandOut(core.through) /\ UNCHANGED water
     \/ Candidate > core.through /\ HandOut(Reservation) /\ water' = Reservation

\* The reservation fails; it may have been written all the same.
ReserveFails ==
  /\ MayHand /\ Candidate > core.through
  /\ water' \in {water, Reservation}
  /\ UNCHANGED <<legacy, receipt, core, wall, at, highest>>

----------------------------------------------------------------------------
(* The wall clock.                                                          *)

\* d1l_time_core_set_wall: SNTP may move the sequence forward only so far from
\* what it trusts; a companion is believed.
Anchor == Larger(Larger(Build, core.through),
                 IF wall.how \in {"sntp", "companion"} THEN Smaller(wall.time, Top) ELSE 0)
Ceiling == Smaller(Anchor + Horizon, SntpTop)
SetWall ==
  /\ at = "idle"
  /\ \E time \in 1..(Top + 1) :
       \/ wall' = [how |-> IF time <= Ceiling THEN "sntp" ELSE "unfit", time |-> time]
       \/ wall' = [how |-> IF time <= Top THEN "companion" ELSE "unfit", time |-> time]
  /\ UNCHANGED <<legacy, water, receipt, core, at, highest>>

TimePasses ==
  /\ wall.how # "none" /\ wall.time <= Top
  /\ wall' = [how |-> wall.how, time |-> wall.time + 1]
  /\ UNCHANGED <<legacy, water, receipt, core, at, highest>>

----------------------------------------------------------------------------
(* The migration: d1l_time_protocol_migration_run, one step for each write. *)

\* The operator knows an upper bound of what the predecessor used.
Confirmed(upper) == upper >= highest

\* A migration begins with the intent; one that was cut off is taken up again by
\* the same confirmation where it stopped.
Migrate(upper) ==
  /\ at = "idle" /\ upper \in legacy..(Top - Range)
  /\ \/ /\ MigrationRequired /\ Confirmed(upper)
        /\ at' = "water"
        /\ receipt' = [phase |-> "intent", legacy |-> legacy, upper |-> upper]
     \/ /\ MigrationPending /\ receipt.upper = upper
        /\ at' = "water" /\ UNCHANGED receipt
  /\ UNCHANGED <<legacy, water, core, wall, highest>>

\* Faulty variant: the legacy key is erased before the high water is written.
MigrateWaterLate ==
  /\ at = "water" /\ at' = "erase"
  /\ legacy' = 0
  /\ UNCHANGED <<water, receipt, core, wall, highest>>

MigrateWater ==
  /\ at = "water" /\ at' = "erase"
  /\ water' = receipt.upper
  /\ UNCHANGED <<legacy, receipt, core, wall, highest>>

MigrateErase ==
  /\ at = "erase" /\ at' = "complete"
  /\ legacy' = 0
  /\ UNCHANGED <<water, receipt, core, wall, highest>>

Completed == [phase |-> "complete", legacy |-> receipt.legacy, upper |-> receipt.upper]

\* The receipt is completed, and the sequence seeded from it.
MigrateComplete ==
  /\ at = "complete" /\ at' = "idle"
  /\ receipt' = Completed
  /\ UNCHANGED <<legacy, water, wall, highest>>
  /\ core' = IF MaySeed' /\ ~core.ready THEN Seeded ELSE core

\* A write fails, after it was done or before.
MigrateFails ==
  /\ at # "idle" /\ at' = "idle"
  /\ \/ UNCHANGED <<legacy, water, receipt>>
     \/ at = "water" /\ water' = receipt.upper /\ UNCHANGED <<legacy, receipt>>
     \/ at = "erase" /\ legacy' = 0 /\ UNCHANGED <<water, receipt>>
     \/ /\ at = "complete" /\ receipt' = Completed
        /\ UNCHANGED <<legacy, water>>
  /\ UNCHANGED <<core, wall, highest>>

----------------------------------------------------------------------------

\* Power loss at any step.
Restart ==
  /\ core' = Unseeded /\ wall' = NoWall /\ at' = "idle"
  /\ UNCHANGED <<legacy, water, receipt, highest>>

\* The predecessor firmware is flashed back and used, though not in the middle
\* of a migration: the operator's bound would no longer be one.  It leaves its key.
Predecessor ==
  /\ receipt.phase # "intent" /\ at = "idle"
  /\ legacy' \in Larger(legacy, Base)..(Top - Range)
  /\ highest' \in Larger(legacy', highest)..Larger(Top - Range, highest)
  /\ core' = Unseeded /\ wall' = NoWall
  /\ UNCHANGED <<water, receipt, at>>

TimeNext ==
  \/ Seed \/ Hand \/ ReserveFails \/ SetWall \/ TimePasses
  \/ \E upper \in Stamps : Migrate(upper)
  \/ MigrateWater \/ MigrateErase \/ MigrateComplete \/ MigrateFails
  \/ Restart \/ Predecessor

TimeSpec == TimeInit /\ [][TimeNext]_timeVars

----------------------------------------------------------------------------

(* No timestamp is handed out twice, or one that the predecessor used:      *)
(* whatever the next call hands out is above everything that was ever used, *)
(* through failed reservations, power losses and a cut migration, and with  *)
(* any wall clock.                                                          *)
TimestampsFresh == core.ready => core.next > highest

(* Wherever a migration is cut off or fails, the same confirmation can take *)
(* it up again: no combination of its writes reads as a downgrade.          *)
CutResumes == receipt.phase = "intent" => MigrationPending
=============================================================================
