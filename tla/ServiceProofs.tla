---------------------------- MODULE ServiceProofs ----------------------------
(* Proofs about three services that share no state: ProtocolTime, for any     *)
(* size of the sequence and of its ranges (no timestamp repeats and a cut     *)
(* migration can always be resumed); StorageManager, for any limits and any   *)
(* faults (force-NVS wins over an answer on its way, and a recovery of the    *)
(* bridge has an owner until it ends); and AdminSession, for                  *)
(* any number of peers, clients and slots (no response strikes another        *)
(* exchange, and no login response is accepted twice).                        *)
EXTENDS ProtocolTime, StorageManager, AdminSession, TLAPS

(* Once the predecessor's key is gone and no migration is under way, the    *)
(* range in NVS covers everything that was used: what Seed relies on.       *)
RangeCovers == legacy = 0 /\ receipt.phase # "intent" => highest <= water

(* A seeded sequence is never under a migration; its range is in NVS, but   *)
(* for a new device's, out of which nothing can be handed.                  *)
SeedLasts ==
  core.ready =>
    /\ legacy = 0 /\ receipt.phase # "intent"
    /\ core.through <= water \/ (water = 0 /\ core.through < core.next)
    /\ receipt.phase = "complete" =>
         receipt.upper <= core.through /\ receipt.upper <= water

(* What the receipt of a migration under way promises, and the order of its *)
(* writes.                                                                  *)
IntentHolds ==
  /\ receipt.phase = "intent" =>
       /\ receipt.legacy > 0 /\ receipt.upper > 0 /\ highest <= receipt.upper
       /\ legacy \in {0, receipt.legacy} /\ water \in {0, receipt.upper}
       /\ legacy = 0 => water = receipt.upper
  /\ at # "idle" => receipt.phase = "intent"
  /\ at \in {"erase", "complete"} => water = receipt.upper
  /\ at = "complete" => legacy = 0

(* The inductive invariant. *)
TimeInv ==
  TimeTypeOK /\ TimestampsFresh /\ RangeCovers /\ SeedLasts /\ IntentHolds

(* What may be handed out is a timestamp at or behind the next one, and a   *)
(* reservation reaches it.                                                  *)
LEMMA CandidateRange ==
  ASSUME TimeTypeOK, MayHand
  PROVE  /\ Candidate \in core.next..Top
         /\ Reservation \in Candidate..Top
BY TimeAssumption DEF TimeTypeOK, MayHand, Blocked, Candidate, Reservation,
   Stamps, Larger, Smaller

(* A device starts with the invariant.                                      *)
LEMMA TimeInvInit == TimeInit => TimeInv
<1>1. TimeInit => TimeTypeOK
  BY TimeAssumption DEF TimeInit, TimeTypeOK, NoReceipt, NoWall, Unseeded, Stamps, Larger
<1> QED
  BY <1>1, TimeAssumption DEF TimeInit, TimeInv, TimestampsFresh, RangeCovers, SeedLasts,
     IntentHolds, NoReceipt, Unseeded

(* Seeding takes up behind what the range in NVS covers.                    *)
LEMMA SeededFresh ==
  ASSUME TimeTypeOK, highest <= water, water = 0 \/ water >= Base
  PROVE  /\ Seeded \in [ready : BOOLEAN, next : 0..(Top + 1), through : Stamps]
         /\ Seeded.next > highest /\ Seeded.next > 0
         /\ water = 0 => Seeded.through < Seeded.next
         /\ water <= Seeded.through
         /\ water # 0 => Seeded.through = water
BY TimeAssumption DEF TimeTypeOK, Seeded, Stamps, Larger

(* The invariant is kept by every step of the time service.                 *)
LEMMA TimeInvStep == TimeInv /\ [TimeNext]_timeVars => TimeInv'
<1> SUFFICES ASSUME TimeInv, [TimeNext]_timeVars PROVE TimeInv'
  OBVIOUS
<1> USE DEF TimeInv
<1>0. /\ legacy \in Nat /\ water \in Nat /\ highest \in Nat
      /\ core.next \in Nat /\ core.through \in Nat
      /\ receipt.legacy \in Nat /\ receipt.upper \in Nat
  BY TimeAssumption DEF TimeTypeOK, Stamps
<1>t. /\ receipt.legacy \in Stamps /\ receipt.upper \in Stamps /\ 0 \in Stamps
      /\ Completed \in [phase : {"none", "intent", "complete"}, legacy : Stamps, upper : Stamps]
  BY TimeAssumption DEF TimeTypeOK, Completed, Stamps
<1>u. /\ Unseeded \in [ready : BOOLEAN, next : 0..(Top + 1), through : Stamps]
      /\ ~Unseeded.ready
      /\ NoWall \in [how : {"none", "sntp", "companion", "unfit"}, time : 0..(Top + 1)]
  BY TimeAssumption DEF Unseeded, NoWall, Stamps, Larger
<1>1. CASE Seed
  <2>1. highest <= water /\ (water = 0 \/ water >= Base)
    BY <1>0, <1>1 DEF Seed, MaySeed, MigrationAbsent, MigrationComplete, RangeCovers
  <2>2. /\ legacy = 0 /\ receipt.phase # "intent"
        /\ (receipt.phase = "complete" => receipt.upper <= water)
    BY <1>0, <1>1 DEF Seed, MaySeed, MigrationAbsent, MigrationComplete
  <2>3. /\ core' = Seeded /\ UNCHANGED <<legacy, water, receipt, wall, at, highest>>
    BY <1>1 DEF Seed
  <2>4. TimeTypeOK'
    BY <2>1, <2>3, SeededFresh DEF TimeTypeOK
  <2>5. TimestampsFresh'
    BY <2>1, <2>3, SeededFresh DEF TimestampsFresh
  <2>6. SeedLasts'
    <3>1. core'.through \in Nat /\ core'.next \in Nat
      BY <2>4, TimeAssumption DEF TimeTypeOK, Stamps
    <3> QED
      BY <1>0, <2>1, <2>2, <2>3, <3>1, SeededFresh DEF SeedLasts
  <2> QED
    BY <2>3, <2>4, <2>5, <2>6 DEF RangeCovers, IntentHolds
<1>2. CASE Hand
  <2>1. PICK through \in Stamps :
          /\ HandOut(through) /\ Candidate <= through
          /\ core.through <= through
          /\ through = water' \/ (through <= water /\ water' = water)
          /\ water' \in Stamps
    BY <1>0, <1>2, CandidateRange, TimeAssumption
    DEF Hand, MayHand, TimeTypeOK, SeedLasts, Stamps
  <2>2. /\ core.ready /\ legacy = 0 /\ receipt.phase # "intent" /\ at = "idle"
        /\ Candidate \in 0..Top /\ through \in Nat /\ water' \in Nat
        /\ through <= water'
    BY <1>0, <1>2, <2>1, CandidateRange, TimeAssumption
    DEF Hand, MayHand, SeedLasts, Stamps
  <2>3. /\ core' = [ready |-> TRUE, through |-> through, next |-> Candidate + 1]
        /\ highest' = Candidate /\ UNCHANGED <<legacy, receipt, wall, at>>
    BY <2>1 DEF HandOut
  <2>4. TimeTypeOK'
    BY <2>1, <2>2, <2>3, TimeAssumption DEF TimeTypeOK, Stamps
  <2>5. TimestampsFresh' /\ RangeCovers'
    BY <1>0, <2>1, <2>2, <2>3 DEF TimestampsFresh, RangeCovers
  <2>6. receipt.phase = "complete" =>
          receipt.upper <= core.through /\ receipt.upper <= water /\ core.through \in Nat
    BY <1>0, <2>2 DEF SeedLasts
  <2>7. SeedLasts'
    BY <1>0, <2>1, <2>2, <2>3, <2>6 DEF SeedLasts
  <2> QED
    BY <2>2, <2>3, <2>4, <2>5, <2>7 DEF IntentHolds
<1>3. CASE ReserveFails
  <2>1. /\ core.ready /\ legacy = 0 /\ receipt.phase # "intent" /\ at = "idle"
        /\ UNCHANGED <<legacy, receipt, core, wall, at, highest>>
    BY <1>3 DEF ReserveFails, MayHand, SeedLasts
  <2>2. /\ water' \in Stamps /\ water' \in Nat
        /\ \/ water' = water
           \/ water' > core.through /\ core.next <= water'
    BY <1>0, <1>3, CandidateRange, TimeAssumption DEF ReserveFails, TimeTypeOK, Stamps
  <2>3. TimeTypeOK'
    BY <2>1, <2>2 DEF TimeTypeOK
  <2>4. RangeCovers'
    BY <1>0, <2>1, <2>2 DEF RangeCovers, TimestampsFresh
  <2>5. SeedLasts'
    BY <1>0, <2>1, <2>2 DEF SeedLasts
  <2> QED
    BY <2>1, <2>3, <2>4, <2>5 DEF TimestampsFresh, IntentHolds
<1>4. CASE SetWall
  <2>1. wall' \in [how : {"none", "sntp", "companion", "unfit"}, time : 0..(Top + 1)]
    BY <1>4, TimeAssumption DEF SetWall
  <2> QED
    BY <1>4, <2>1 DEF SetWall, TimeTypeOK, TimestampsFresh, RangeCovers, SeedLasts, IntentHolds
<1>5. CASE TimePasses
  <2>1. wall' \in [how : {"none", "sntp", "companion", "unfit"}, time : 0..(Top + 1)]
    BY <1>5, TimeAssumption DEF TimePasses, TimeTypeOK
  <2> QED
    BY <1>5, <2>1 DEF TimePasses, TimeTypeOK, TimestampsFresh, RangeCovers, SeedLasts, IntentHolds
<1>6. ASSUME NEW upper \in Stamps, Migrate(upper) PROVE TimeInv'
  <2>1. /\ upper \in Nat /\ legacy <= upper /\ at' = "water"
        /\ UNCHANGED <<legacy, water, core, wall, highest>>
    BY <1>0, <1>6, TimeAssumption DEF Migrate, Stamps
  <2>2. \/ /\ receipt' = [phase |-> "intent", legacy |-> legacy, upper |-> upper]
           /\ legacy >= Base /\ water = 0 /\ highest <= upper
        \/ receipt' = receipt /\ receipt.phase = "intent"
    BY <1>0, <1>6, <2>1 DEF Migrate, MigrationRequired, MigrationPending, Confirmed
  <2>3. TimeTypeOK'
    BY <1>6, <2>1, <2>2 DEF TimeTypeOK
  <2>4. ~core.ready
    BY <1>0, <2>2, TimeAssumption DEF SeedLasts
  <2>5. IntentHolds'
    BY <1>0, <2>1, <2>2, TimeAssumption DEF IntentHolds
  <2>6. RangeCovers'
    BY <2>1, <2>2 DEF RangeCovers
  <2> QED
    BY <2>1, <2>3, <2>4, <2>5, <2>6 DEF TimestampsFresh, SeedLasts
<1>7. CASE MigrateWater
  <2>1. /\ at = "water" /\ at' = "erase" /\ receipt.phase = "intent" /\ ~core.ready
        /\ water' = receipt.upper /\ UNCHANGED <<legacy, receipt, core, wall, highest>>
    BY <1>7 DEF MigrateWater, IntentHolds, SeedLasts
  <2>2. TimeTypeOK'
    BY <1>t, <2>1 DEF TimeTypeOK
  <2>3. IntentHolds'
    BY <2>1 DEF IntentHolds
  <2> QED
    BY <2>1, <2>2, <2>3 DEF TimestampsFresh, RangeCovers, SeedLasts
<1>8. CASE MigrateErase
  <2>1. /\ at = "erase" /\ at' = "complete" /\ receipt.phase = "intent" /\ ~core.ready
        /\ legacy' = 0 /\ UNCHANGED <<water, receipt, core, wall, highest>>
    BY <1>8 DEF MigrateErase, IntentHolds, SeedLasts
  <2>2. TimeTypeOK'
    BY <1>t, <2>1 DEF TimeTypeOK
  <2>3. IntentHolds'
    BY <2>1 DEF IntentHolds
  <2> QED
    BY <2>1, <2>2, <2>3 DEF TimestampsFresh, RangeCovers, SeedLasts
<1>9. CASE MigrateComplete
  <2>1. /\ receipt.phase = "intent" /\ ~core.ready /\ legacy = 0 /\ water = receipt.upper
        /\ highest <= water /\ water > 0
    BY <1>9 DEF MigrateComplete, IntentHolds, SeedLasts
  <2>2. /\ receipt' = Completed /\ at' = "idle" /\ UNCHANGED <<legacy, water, wall, highest>>
        /\ core' = core \/ (core' = Seeded /\ water >= Base)
    BY <1>9, <2>1 DEF MigrateComplete, MaySeed
  <2>3. receipt'.phase = "complete" /\ receipt'.upper = receipt.upper
    BY <2>2 DEF Completed
  <2>4. RangeCovers' /\ IntentHolds'
    BY <2>1, <2>2, <2>3 DEF RangeCovers, IntentHolds
  <2>5. CASE core' = core
    BY <1>t, <2>1, <2>2, <2>4, <2>5 DEF TimeTypeOK, TimestampsFresh, SeedLasts
  <2>6. CASE core' = Seeded /\ water >= Base
    <3>1. TimeTypeOK' /\ TimestampsFresh'
      BY <1>t, <2>1, <2>2, <2>6, SeededFresh DEF TimeTypeOK, TimestampsFresh
    <3>2. core'.through = water
      BY <2>1, <2>6, SeededFresh
    <3>3. SeedLasts'
      BY <1>0, <2>1, <2>2, <2>3, <3>2 DEF SeedLasts
    <3> QED
      BY <2>4, <3>1, <3>3
  <2> QED
    BY <2>2, <2>5, <2>6
<1>10. CASE MigrateFails
  <2>1. receipt.phase = "intent" /\ ~core.ready
    BY <1>10 DEF MigrateFails, SeedLasts, IntentHolds
  <2>2. /\ at' = "idle" /\ UNCHANGED <<core, wall, highest>>
        /\ \/ UNCHANGED <<legacy, water, receipt>>
           \/ water' = receipt.upper /\ UNCHANGED <<legacy, receipt>>
           \/ /\ legacy' = 0 /\ water = receipt.upper
              /\ UNCHANGED <<water, receipt>>
           \/ /\ receipt' = Completed /\ legacy = 0 /\ water = receipt.upper
              /\ UNCHANGED <<legacy, water>>
    BY <1>10 DEF MigrateFails, IntentHolds
  <2>3. TimeTypeOK'
    BY <1>t, <2>2 DEF TimeTypeOK
  <2>4. receipt' = receipt \/ receipt'.phase = "complete"
    BY <2>2 DEF Completed
  <2>5. IntentHolds'
    BY <2>1, <2>2, <2>4 DEF IntentHolds
  <2>6. RangeCovers'
    BY <2>1, <2>2, <2>4 DEF RangeCovers, IntentHolds
  <2> QED
    BY <2>1, <2>2, <2>3, <2>5, <2>6 DEF TimestampsFresh, SeedLasts
<1>11. CASE Restart
  <2>1. /\ core' = Unseeded /\ wall' = NoWall /\ at' = "idle"
        /\ UNCHANGED <<legacy, water, receipt, highest>>
    BY <1>11 DEF Restart
  <2>2. TimeTypeOK'
    BY <1>u, <2>1 DEF TimeTypeOK
  <2> QED
    BY <1>u, <2>1, <2>2 DEF TimestampsFresh, RangeCovers, SeedLasts, IntentHolds
<1>12. CASE Predecessor
  <2>1. /\ core' = Unseeded /\ wall' = NoWall /\ receipt.phase # "intent" /\ at = "idle"
        /\ UNCHANGED <<water, receipt, at>>
    BY <1>12 DEF Predecessor
  <2>2. legacy' \in Stamps /\ highest' \in Stamps /\ legacy' # 0
    BY <1>0, <1>12, TimeAssumption DEF Predecessor, TimeTypeOK, Stamps, Larger
  <2>3. TimeTypeOK'
    BY <1>u, <2>1, <2>2 DEF TimeTypeOK
  <2> QED
    BY <1>u, <2>1, <2>2, <2>3 DEF TimestampsFresh, RangeCovers, SeedLasts, IntentHolds
<1>13. CASE UNCHANGED timeVars
  BY <1>13 DEF timeVars, TimeTypeOK, TimestampsFresh, RangeCovers, SeedLasts, IntentHolds
<1> QED
  BY <1>1, <1>2, <1>3, <1>4, <1>5, <1>6, <1>7, <1>8, <1>9, <1>10, <1>11, <1>12, <1>13
  DEF TimeNext

(* The invariant holds in every state that can be reached.                  *)
LEMMA TimeInvariance == TimeSpec => []TimeInv
BY TimeInvInit, TimeInvStep, PTL DEF TimeSpec

(* Every variable of the time service keeps its type: no timestamp, range   *)
(* or wall time leaves 32 bits.                                             *)
THEOREM TimeTypeCorrect == TimeSpec => []TimeTypeOK
<1>1. TimeInv => TimeTypeOK
  BY DEF TimeInv
<1> QED
  BY <1>1, TimeInvariance, PTL

(* No timestamp is handed out twice (d1l_time_core_next_protocol_timestamp),*)
(* or one that the predecessor firmware has used.                           *)
THEOREM TimestampsNeverRepeat == TimeSpec => []TimestampsFresh
<1>1. TimeInv => TimestampsFresh
  BY DEF TimeInv
<1> QED
  BY <1>1, TimeInvariance, PTL

(* A migration that was cut off between any two of its writes can be taken  *)
(* up again (d1l_time_protocol_migration_run).                              *)
THEOREM MigrationResumes == TimeSpec => []CutResumes
<1>1. TimeInv => CutResumes
  BY TimeAssumption DEF TimeInv, TimeTypeOK, Stamps, IntentHolds, CutResumes, MigrationPending
<1> QED
  BY <1>1, TimeInvariance, PTL

-----------------------------------------------------------------------------
(* StorageManager: who switches the backend of the retained stores.           *)

(* A task that has enabled the backend has the check of force-NVS before it.  *)
Watching == \E a \in Actors : pc[a] \in {"recheck", "pausing"}
Placed   == pc = [a \in Actors |-> pc[a]]
ForceInv == Placed /\ ForcedMeansPaused

(* One actor's step from a place at which it owes no check.                   *)
LEMMA StepElsewhere ==
  ASSUME ForceInv, NEW a \in Actors, NEW p, pc' = [pc EXCEPT ![a] = p],
         pc[a] \notin {"recheck", "pausing"}, force' => force, backend' => backend
  PROVE  ForceInv'
<1>1. Placed'
  BY DEF ForceInv, Placed
<1>2. ASSUME force', backend' PROVE Watching'
  <2>1. PICK b \in Actors : pc[b] \in {"recheck", "pausing"}
    BY <1>2 DEF ForceInv, ForcedMeansPaused
  <2>2. pc'[b] = pc[b]
    BY <2>1 DEF ForceInv, Placed
  <2> QED
    BY <2>1, <2>2 DEF Watching
<1> QED
  BY <1>1, <1>2 DEF ForceInv, ForcedMeansPaused, Watching

(* One actor's step to a place at which it owes the check, or that turns the  *)
(* backend off.                                                               *)
LEMMA StepWatched ==
  ASSUME ForceInv, NEW a \in Actors, NEW p, pc' = [pc EXCEPT ![a] = p],
         p \in {"recheck", "pausing"} \/ ~backend' \/ ~force'
  PROVE  ForceInv'
<1>1. Placed' /\ pc'[a] = p
  BY DEF ForceInv, Placed
<1> QED
  BY <1>1 DEF ForceInv, ForcedMeansPaused

(* A step of the bridge or of the operator that moves no actor.               *)
LEMMA StepApart ==
  ASSUME ForceInv, UNCHANGED pc, force' => force, backend' => backend
  PROVE  ForceInv'
BY DEF ForceInv, Placed, ForcedMeansPaused

LEMMA ForceStep == ForceInv /\ [Next]_vars => ForceInv'
<1> SUFFICES ASSUME ForceInv, [Next]_vars PROVE ForceInv'
  OBVIOUS
<1> USE DEF At
<1>0. Manager \in Actors /\ Console \in Actors
  BY DEF Actors
<1>1. ASSUME NEW a \in Actors, ExchangeStep(a) PROVE ForceInv'
  <2>1. UNCHANGED <<force, backend>>
    BY <1>1 DEF ExchangeStep, Send, Receive, GiveUp, exchangeFrame,
                control, statusVars
  <2>2. /\ pc[a] \in {"send", "wait"}
        /\ UNCHANGED pc \/ \E p : pc' = [pc EXCEPT ![a] = p]
    BY <1>1 DEF ExchangeStep, Send, Receive, GiveUp, EndExchange, Go
  <2> QED
    BY <2>1, <2>2, StepElsewhere, StepApart
<1>2. ASSUME NEW a \in Actors, ApplyStep(a) PROVE ForceInv'
  <2>1. UNCHANGED force
    BY <1>2 DEF ApplyStep, Noted, Apply, Enable, Recheck, Pause, Mount,
                Pulse, PulseFails, End, applyFrame, control
  <2>2. CASE Noted(a)
    BY <2>1, <2>2, StepElsewhere DEF Noted, Go, statusVars
  <2>3. CASE Apply(a)
    <3>1. backend' => backend
      BY <2>3, Zenon DEF Apply, NoteFailure
    <3>2. pc[a] = "apply" /\ \E p : pc' = [pc EXCEPT ![a] = p]
      BY <2>3, Zenon DEF Apply, Go
    <3> QED
      BY <2>1, <3>1, <3>2, StepElsewhere
  <2>4. CASE Enable(a)
    BY <2>4, StepWatched DEF Enable, Go
  <2>5. CASE Recheck(a)
    <3>1. CASE force
      BY <2>5, <3>1, StepWatched DEF Recheck, Go
    <3>2. CASE ~force
      BY <2>1, <2>5, <3>2, StepWatched DEF Recheck, Go
    <3> QED
      BY <3>1, <3>2
  <2>6. CASE Pause(a)
    BY <2>6, StepWatched DEF Pause, Go
  <2>7. CASE Mount(a)
    <3>1. UNCHANGED backend /\ pc[a] = "mount"
      BY <2>7 DEF Mount, statusVars
    <3>2. \E p : pc' = [pc EXCEPT ![a] = p]
      BY <2>7, Zenon DEF Mount, Go, Return
    <3> QED
      BY <2>1, <3>1, <3>2, StepElsewhere
  <2>8. CASE Pulse(a) \/ PulseFails(a)
    <3>1. backend' = FALSE
      BY <2>8, Zenon DEF Pulse, PulseFails, NoteRp2040
    <3>2. \E p : pc' = [pc EXCEPT ![a] = p]
      BY <2>8, Zenon DEF Pulse, PulseFails, Go, Call, PauseThen
    <3> QED
      BY <3>1, <3>2, StepWatched
  <2>9. CASE End(a)
    <3>1. pc[a] = "end" /\ pc' = [pc EXCEPT ![a] = "idle"]
      BY <2>9, Zenon DEF End, Call, Go
    <3>2. UNCHANGED backend
      BY <2>9 DEF End, statusVars
    <3> QED
      BY <2>1, <3>1, <3>2, StepElsewhere
  <2> QED
    BY <1>2, <2>2, <2>3, <2>4, <2>5, <2>6, <2>7, <2>8, <2>9 DEF ApplyStep
<1>3. CASE PassStep
  <2>1. UNCHANGED force /\ (backend' => backend)
    BY <1>3, Zenon DEF PassStep, PassBegins, FinalPing, Claim, Ping, PingFailed,
       AskStatus, Statused, Mounted, Close, managerFrame, statusVars,
       NoteRp2040, NoteFailure
  <2>2. pc[Manager] \notin {"recheck", "pausing"}
    BY <1>3 DEF PassStep, PassBegins, FinalPing, Claim, Ping, PingFailed,
       AskStatus, Statused, Mounted, Close
  <2>3. \E p : pc' = [pc EXCEPT ![Manager] = p]
    BY <1>3, Zenon DEF PassStep, PassBegins, FinalPing, Claim, Ping, PingFailed,
       AskStatus, Statused, Mounted, Close, Go, Call, PauseThen
  <2> QED
    BY <1>0, <2>1, <2>2, <2>3, StepElsewhere
<1>4. CASE ConsoleExchange \/ ResetBridge \/ Remount
  <2>1. (force' => force) /\ (backend' => backend)
    <3>1. CASE ConsoleExchange
      BY <3>1 DEF ConsoleExchange, statusVars
    <3>2. CASE ResetBridge
      BY <3>2 DEF ResetBridge, statusVars
    <3>3. CASE Remount
      BY <3>3, Zenon DEF Remount
    <3> QED
      BY <1>4, <3>1, <3>2, <3>3
  <2>2. pc[Console] = "idle"
    BY <1>4, Zenon DEF ConsoleExchange, ResetBridge, Remount, Command
  <2>3. UNCHANGED pc \/ \E p : pc' = [pc EXCEPT ![Console] = p]
    BY <1>4, Zenon DEF ConsoleExchange, ResetBridge, Remount, Call, Go
  <2> QED
    BY <1>0, <2>1, <2>2, <2>3, StepElsewhere, StepApart
<1>5. ASSUME NEW on \in BOOLEAN, ForceNvs(on) PROVE ForceInv'
  <2>1. force' = on /\ UNCHANGED backend
    BY <1>5 DEF ForceNvs, statusVars
  <2>2. CASE on
    BY <1>0, <1>5, <2>2, StepWatched DEF ForceNvs, PauseThen, Go
  <2>3. CASE ~on
    <3>1. UNCHANGED <<initial, pc, then>>
      BY <1>5, <2>3, Zenon DEF ForceNvs
    <3> QED
      BY <2>1, <2>3, <3>1, StepApart
  <2> QED
    BY <2>2, <2>3
<1>6. CASE BlockingStep
  <2>1. UNCHANGED force /\ (backend' => backend)
    <3>1. CASE Repinged
      <4>1. backend' = FALSE
        BY <3>1, Zenon DEF Repinged
      <4>2. consoleStep
        BY <3>1, Zenon DEF Repinged
      <4> QED
        BY <4>1, <4>2 DEF consoleStep
    <3>2. CASE ConsoleReset
      BY <3>2 DEF ConsoleReset, statusVars
    <3>3. CASE BlockingStep /\ ~Repinged /\ ~ConsoleReset
      <4>1. UNCHANGED backend
        BY <3>3 DEF BlockingStep, Booted, MountAnswered, Poll, Polled
      <4>2. consoleStep
        BY <3>3, Zenon DEF BlockingStep, Booted, MountAnswered, Poll, Polled
      <4> QED
        BY <4>1, <4>2 DEF consoleStep
    <3> QED
      BY <1>6, <3>1, <3>2, <3>3
  <2>2. pc[Console] \notin {"recheck", "pausing"}
    BY <1>6 DEF BlockingStep, Booted, MountAnswered, Poll, Polled,
       ConsoleReset, Repinged
  <2>3. \E p : pc' = [pc EXCEPT ![Console] = p]
    BY <1>6, Zenon DEF BlockingStep, Booted, MountAnswered, Poll, Polled,
       ConsoleReset, Repinged, Go, Call
  <2> QED
    BY <1>0, <2>1, <2>2, <2>3, StepElsewhere
<1>7. CASE BridgeStep \/ WorkerMounts \/ SwapCard \/ Hang
  <2>1. UNCHANGED <<force, backend, pc>>
    BY <1>7 DEF BridgeStep, AnswerPing, AnswerStatus, AnswerMount, Answers,
       WorkerMounts, SwapCard, Hang, control, statusVars
  <2> QED
    BY <2>1, StepApart
<1>8. CASE UNCHANGED vars
  <2>1. UNCHANGED <<force, backend, pc>>
    BY <1>8 DEF vars, control, statusVars
  <2> QED
    BY <2>1, StepApart
<1> QED
  BY <1>1, <1>2, <1>3, <1>4, <1>5, <1>6, <1>7, <1>8 DEF Next, Commands

(* The operator's force-NVS wins: whichever replies, late ones included, the  *)
(* manager and the console apply meanwhile (d1l_storage_status_refresh,       *)
(* storage_status_mount), the backend is on under it only while one of them   *)
(* has the check of the flag, or the pause, before it.                        *)
THEOREM ForceNvsWins == Spec => []ForcedMeansPaused
<1>1. Init => ForceInv
  BY DEF Init, ForceInv, Placed, ForcedMeansPaused
<1>2. ForceInv /\ [Next]_vars => ForceInv'
  BY ForceStep
<1>3. ForceInv => ForcedMeansPaused
  BY DEF ForceInv
<1> QED
  BY <1>1, <1>2, <1>3, PTL DEF Spec

(* Who holds the manager's sequence, and what is left of a recovery.           *)

(* Where the holder of the sequence may stand.                                *)
SmOwn(a) == IF a = Manager THEN PassPlaces ELSE BlockingPlaces

(* The manager's task holds the sequence whenever it is under way; the        *)
(* console only in what blocks, not in a short command that returns to idle.  *)
SmHolds(a) == \/ pc[a] \in SmOwn(a)
              \/ pc[a] \in CallPlaces /\ then[a] # "idle"
SmHeld ==
  /\ pc \in [Actors -> Places] /\ then \in [Actors -> Places]
  /\ \A a \in Actors :
       /\ pc[a] \in {"idle"} \cup CallPlaces \cup SmOwn(a)
       /\ then[a] \in ({"idle"} \cup SmOwn(a)) \ {"pulse"}
       /\ sequence = a <=> SmHolds(a)
  /\ sequence \in Actors \cup {Nobody}
  /\ pc[Manager] \in CallPlaces => then[Manager] # "idle"
  /\ RecoveryOwned

(* The two actors.                                                            *)
LEMMA SmActors ==
  /\ Manager \in Actors /\ Console \in Actors /\ Manager # Console
  /\ Nobody \notin Actors
  /\ \A a \in Actors : a = Manager \/ a = Console
BY SmAssumption DEF Actors

(* A step within a call leaves the sequence with who holds it.                *)
LEMMA SmCallStep ==
  ASSUME SmHeld, NEW a \in Actors, pc[a] \in CallPlaces,
         NEW p \in CallPlaces \cup {then[a]}, pc' = [pc EXCEPT ![a] = p],
         UNCHANGED <<then, sequence, recovery>>
  PROVE  SmHeld'
BY SmActors DEF SmHeld, SmHolds, SmOwn, RecoveryOwned, CallPlaces, PassPlaces,
                BlockingPlaces, Places

(* So does a step of the holder between two calls, into one or not.           *)
LEMMA SmHolderStep ==
  ASSUME SmHeld, NEW a \in Actors, pc[a] \in SmOwn(a), sequence' = sequence,
         NEW p, NEW n \in (SmOwn(a) \ {"pulse"}) \cup {then[a]},
         p \in SmOwn(a) \/ (p \in CallPlaces /\ n \in SmOwn(a)),
         pc' = [pc EXCEPT ![a] = p], then' = [then EXCEPT ![a] = n],
         p = "pulse" => recovery', p = "pulse" \/ recovery' = recovery
  PROVE  SmHeld'
<1>1. sequence = a
  BY DEF SmHeld, SmHolds
<1>2. \A b \in Actors : b # a => pc[b] # "pulse"
  BY <1>1, SmActors DEF SmHeld, RecoveryOwned
<1>3. pc' \in [Actors -> Places] /\ then' \in [Actors -> Places]
  BY SmActors DEF SmHeld, SmOwn, Places
<1>4. /\ pc'[a] = p /\ then'[a] = n
      /\ \A b \in Actors : b # a => pc'[b] = pc[b] /\ then'[b] = then[b]
  BY DEF SmHeld
<1>5. \A b \in Actors :
        /\ pc'[b] \in {"idle"} \cup CallPlaces \cup SmOwn(b)
        /\ then'[b] \in ({"idle"} \cup SmOwn(b)) \ {"pulse"}
  BY <1>4 DEF SmHeld
<1>6. SmHolds(a)' /\ \A b \in Actors : b # a => SmHolds(b)' = SmHolds(b)
  BY <1>4, SmActors DEF SmHolds, SmOwn, PassPlaces, BlockingPlaces
<1>7. pc'[Manager] \in CallPlaces => then'[Manager] # "idle"
  BY <1>4, SmActors DEF SmHeld, SmOwn, CallPlaces, PassPlaces
<1>8. RecoveryOwned'
  BY <1>1, <1>2, <1>4, SmActors DEF RecoveryOwned, SmHeld
<1> QED
  BY <1>1, <1>3, <1>5, <1>6, <1>7, <1>8 DEF SmHeld

(* Who begins takes the sequence from nobody, and there is no recovery then.  *)
LEMMA SmBeginStep ==
  ASSUME SmHeld, NEW a \in Actors, sequence = Nobody, sequence' = a,
         UNCHANGED recovery,
         NEW p, NEW n \in (SmOwn(a) \ {"pulse"}) \cup {then[a]},
         p \in SmOwn(a) \ {"pulse"} \/ (p \in CallPlaces /\ n \in SmOwn(a)),
         pc' = [pc EXCEPT ![a] = p], then' = [then EXCEPT ![a] = n]
  PROVE  SmHeld'
<1>1. /\ ~recovery
      /\ \A b \in Actors : ~SmHolds(b) /\ pc[b] # "pulse"
  BY SmActors DEF SmHeld, RecoveryOwned
<1>2. pc' \in [Actors -> Places] /\ then' \in [Actors -> Places]
  BY SmActors DEF SmHeld, SmOwn, Places
<1>3. /\ pc'[a] = p /\ then'[a] = n
      /\ \A b \in Actors : b # a => pc'[b] = pc[b] /\ then'[b] = then[b]
  BY DEF SmHeld
<1>4. \A b \in Actors :
        /\ pc'[b] \in {"idle"} \cup CallPlaces \cup SmOwn(b)
        /\ then'[b] \in ({"idle"} \cup SmOwn(b)) \ {"pulse"}
  BY <1>3 DEF SmHeld
<1>5. SmHolds(a)' /\ \A b \in Actors : b # a => ~SmHolds(b)'
  BY <1>1, <1>3, SmActors DEF SmHolds, SmOwn, PassPlaces, BlockingPlaces
<1>6. pc'[Manager] \in CallPlaces => then'[Manager] # "idle"
  BY <1>3, SmActors DEF SmHeld, SmOwn, CallPlaces, PassPlaces
<1>7. p # "pulse" /\ RecoveryOwned'
  BY <1>1, <1>3 DEF RecoveryOwned, CallPlaces
<1> QED
  BY <1>2, <1>4, <1>5, <1>6, <1>7 DEF SmHeld

(* A short command of the console calls and comes back to idle.               *)
LEMMA SmShortStep ==
  ASSUME SmHeld, pc[Console] = "idle", NEW p \in CallPlaces,
         pc' = [pc EXCEPT ![Console] = p], then' = [then EXCEPT ![Console] = "idle"],
         UNCHANGED <<sequence, recovery>>
  PROVE  SmHeld'
BY SmActors DEF SmHeld, SmHolds, SmOwn, RecoveryOwned, CallPlaces, PassPlaces,
                BlockingPlaces, Places

(* Who ends gives the sequence back, and with it the recovery.                *)
LEMMA SmEndStep ==
  ASSUME SmHeld, NEW a \in Actors, End(a)
  PROVE  SmHeld'
BY SmActors DEF End, At, Call, Go, SmHeld, SmHolds, SmOwn, RecoveryOwned, CallPlaces,
                PassPlaces, BlockingPlaces, Places

(* A step that moves nobody.                                                  *)
LEMMA SmApart ==
  ASSUME SmHeld, UNCHANGED <<pc, then, sequence, recovery>>
  PROVE  SmHeld'
BY DEF SmHeld, SmHolds, RecoveryOwned

(* The steps of an exchange are steps within a call.                          *)
LEMMA SmExchanges ==
  ASSUME SmHeld, NEW a \in Actors, ExchangeStep(a)
  PROVE  SmHeld'
<1>1. UNCHANGED <<then, sequence, recovery>>
  BY DEF ExchangeStep, Send, Receive, GiveUp, exchangeFrame, control
<1>2. CASE UNCHANGED pc
  BY <1>1, <1>2, SmApart
<1>3. CASE ~UNCHANGED pc
  <2>1. pc[a] \in CallPlaces
    BY DEF ExchangeStep, Send, Receive, GiveUp, At, CallPlaces
  <2>2. \E p \in CallPlaces : pc' = [pc EXCEPT ![a] = p]
    BY <1>3 DEF ExchangeStep, Send, Receive, GiveUp, EndExchange, Applied, Go, CallPlaces
  <2> QED
    BY <1>1, <2>1, <2>2, SmCallStep
<1> QED
  BY <1>2, <1>3

(* So are those that apply its answer.                                        *)
LEMMA SmApplies ==
  ASSUME SmHeld, NEW a \in Actors,
         Noted(a) \/ Apply(a) \/ Enable(a) \/ Recheck(a) \/ Pause(a) \/ Mount(a)
  PROVE  SmHeld'
<1>1. UNCHANGED <<then, sequence, recovery>>
  BY DEF Noted, Apply, Enable, Recheck, Pause, Mount, applyFrame, control
<1>2. pc[a] \in CallPlaces
  BY DEF Noted, Apply, Enable, Recheck, Pause, Mount, At, CallPlaces
<1>3. \E p \in CallPlaces \cup {then[a]} : pc' = [pc EXCEPT ![a] = p]
  BY DEF Noted, Apply, Enable, Recheck, Pause, Mount, Go, Return, CallPlaces
<1> QED
  BY <1>1, <1>2, <1>3, SmCallStep

(* The steps of the holder, as SmHolderStep wants them.                       *)
SmStays(a) == pc[a] \in SmOwn(a) /\ sequence' = sequence
SmGoes(a, p) ==
  /\ p \in SmOwn(a)
  /\ pc' = [pc EXCEPT ![a] = p] /\ UNCHANGED then
  /\ p = "pulse" => recovery' = TRUE
  /\ p = "pulse" \/ recovery' = recovery
SmCalls(a, p, n) ==
  /\ p \in CallPlaces /\ n \in SmOwn(a) \ {"pulse"}
  /\ pc' = [pc EXCEPT ![a] = p] /\ then' = [then EXCEPT ![a] = n]
  /\ UNCHANGED recovery
SmHolderMoves(a) ==
  SmStays(a) /\ ((\E p : SmGoes(a, p)) \/ (\E p, n : SmCalls(a, p, n)))

(* Such a step keeps who holds what.                                          *)
LEMMA SmMoved ==
  ASSUME SmHeld, NEW a \in Actors, SmHolderMoves(a)
  PROVE  SmHeld'
<1>1. CASE \E p : SmGoes(a, p)
  <2>1. PICK p : SmGoes(a, p)
    BY <1>1
  <2>2. then' = [then EXCEPT ![a] = then[a]]
    BY <2>1 DEF SmGoes, SmHeld
  <2> QED
    BY <2>1, <2>2, SmHolderStep DEF SmHolderMoves, SmStays, SmGoes
<1>2. CASE \E p, n : SmCalls(a, p, n)
  <2>1. PICK p, n : SmCalls(a, p, n)
    BY <1>2
  <2>2. p # "pulse"
    BY <2>1 DEF SmCalls, CallPlaces
  <2> QED
    BY <2>1, <2>2, SmHolderStep DEF SmHolderMoves, SmStays, SmCalls
<1> QED
  BY <1>1, <1>2 DEF SmHolderMoves

(* A reset of the bridge is a step of the holder, well done or not.           *)
LEMMA SmPulses ==
  ASSUME SmHeld, NEW a \in Actors, Pulse(a) \/ PulseFails(a)
  PROVE  SmHeld'
<1>1. SmStays(a) /\ UNCHANGED recovery
  BY SmActors, Zenon DEF Pulse, PulseFails, At, SmStays, SmOwn, PassPlaces,
     BlockingPlaces, control
<1>2. CASE Pulse(a) /\ a = Manager
  <2>1. SmGoes(a, "ping")
    BY <1>1, <1>2 DEF Pulse, Go, SmGoes, SmOwn, PassPlaces
  <2> QED
    BY <1>1, <2>1, SmMoved DEF SmHolderMoves
<1>3. CASE Pulse(a) /\ a # Manager
  <2>1. SmCalls(a, "send", "repinged")
    BY <1>1, <1>3 DEF Pulse, Go, Call, SmCalls, SmOwn, CallPlaces, BlockingPlaces
  <2> QED
    BY <1>1, <2>1, SmMoved DEF SmHolderMoves
<1>4. CASE PulseFails(a)
  <2>1. CASE force
    <3>1. SmCalls(a, "pausing", "end")
      BY <1>1, <1>4, <2>1 DEF PulseFails, PauseThen, Go, SmCalls, SmOwn, CallPlaces,
         BlockingPlaces, PassPlaces
    <3> QED
      BY <1>1, <3>1, SmMoved DEF SmHolderMoves
  <2>2. CASE ~force
    <3>1. SmGoes(a, "end")
      BY <1>1, <1>4, <2>2 DEF PulseFails, Go, SmGoes, SmOwn, BlockingPlaces, PassPlaces
    <3> QED
      BY <1>1, <3>1, SmMoved DEF SmHolderMoves
  <2> QED
    BY <2>1, <2>2
<1> QED
  BY <1>2, <1>3, <1>4

(* What the two actors own.                                                   *)
LEMMA SmOwns == SmOwn(Manager) = PassPlaces /\ SmOwn(Console) = BlockingPlaces
BY SmActors DEF SmOwn

(* A pass takes the sequence.                                                 *)
LEMMA SmPassBegins ==
  ASSUME SmHeld, PassBegins
  PROVE  SmHeld'
<1>1. sequence = Nobody /\ sequence' = Manager /\ UNCHANGED recovery
  BY DEF PassBegins
<1>2. CASE force
  BY <1>1, <1>2, SmActors, SmOwns, SmBeginStep DEF PassBegins, PauseThen, Go, CallPlaces, PassPlaces
<1>3. CASE ~force
  <2>1. pc' = [pc EXCEPT ![Manager] = "final"] /\ then' = [then EXCEPT ![Manager] = then[Manager]]
    BY <1>3 DEF PassBegins, Go, SmHeld
  <2> QED
    BY <1>1, <2>1, SmActors, SmOwns, SmBeginStep DEF PassPlaces
<1> QED
  BY <1>2, <1>3

(* Every other step of a pass is one of its holder.                           *)
LEMMA SmPass ==
  ASSUME SmHeld, PassStep, ~PassBegins
  PROVE  SmHeld'
<1>1. SmStays(Manager)
  BY SmOwns DEF PassStep, FinalPing, Claim, Ping, PingFailed, AskStatus, Statused,
     Mounted, Close, At, SmStays, PassPlaces
<1>2. (\E p : SmGoes(Manager, p)) \/ (\E p, n : SmCalls(Manager, p, n))
  <2> USE SmOwns DEF SmGoes, SmCalls, PauseThen, Call, Go, CallPlaces, PassPlaces
  <2>1. CASE FinalPing
    BY <2>1 DEF FinalPing
  <2>2. CASE Claim
    <3>1. CASE force
      BY <2>2, <3>1 DEF Claim
    <3>2. CASE ~force
      BY <2>2, <3>2 DEF Claim, BeginManualReset
    <3> QED
      BY <3>1, <3>2
  <2>3. CASE Ping
    BY <2>3 DEF Ping
  <2>4. CASE PingFailed
    BY <2>4 DEF PingFailed
  <2>5. CASE AskStatus
    BY <2>5 DEF AskStatus
  <2>6. CASE Statused
    BY <2>6 DEF Statused
  <2>7. CASE Mounted
    BY <2>7 DEF Mounted
  <2>8. CASE Close
    BY <2>8 DEF Close
  <2> QED
    BY <2>1, <2>2, <2>3, <2>4, <2>5, <2>6, <2>7, <2>8 DEF PassStep
<1> QED
  BY <1>1, <1>2, SmActors, SmMoved DEF SmHolderMoves

(* A command of the console is short, or takes the sequence.                  *)
LEMMA SmCommands ==
  ASSUME SmHeld, Commands
  PROVE  SmHeld'
<1> USE SmActors
<1>1. UNCHANGED recovery /\ pc[Console] = "idle"
  BY DEF Commands, ConsoleExchange, ResetBridge, Remount, ForceNvs, Command, At, consoleFrame
<1>2. CASE Remount
  BY <1>1, <1>2, SmOwns, SmBeginStep DEF Remount, Call, Go, CallPlaces, BlockingPlaces
<1>3. CASE ConsoleExchange
  BY <1>1, <1>3, SmShortStep DEF ConsoleExchange, Call, Go, CallPlaces
<1>4. CASE ResetBridge
  BY <1>1, <1>4, SmApart DEF ResetBridge
<1>5. ASSUME NEW on \in BOOLEAN, ForceNvs(on) PROVE SmHeld'
  <2>1. CASE on
    BY <1>1, <1>5, <2>1, SmShortStep DEF ForceNvs, PauseThen, Go, CallPlaces
  <2>2. CASE ~on
    BY <1>1, <1>5, <2>2, SmApart DEF ForceNvs
  <2> QED
    BY <2>1, <2>2
<1> QED
  BY <1>2, <1>3, <1>4, <1>5 DEF Commands

(* What blocks the console holds the sequence.                                *)
LEMMA SmBlocking ==
  ASSUME SmHeld, BlockingStep
  PROVE  SmHeld'
<1>1. SmStays(Console)
  BY SmOwns DEF BlockingStep, Booted, MountAnswered, Poll, Polled, ConsoleReset,
     Repinged, At, SmStays, BlockingPlaces, consoleStep
<1>2. (\E p : SmGoes(Console, p)) \/ (\E p, n : SmCalls(Console, p, n))
  <2> USE SmOwns DEF SmGoes, SmCalls, Call, Go, CallPlaces, BlockingPlaces, consoleFrame
  <2>1. CASE Booted
    BY <2>1 DEF Booted
  <2>2. CASE MountAnswered
    BY <2>2 DEF MountAnswered
  <2>3. CASE Poll
    BY <2>3 DEF Poll
  <2>4. CASE Polled
    BY <2>4 DEF Polled
  <2>5. CASE ConsoleReset
    BY <2>5 DEF ConsoleReset, BeginManualReset
  <2>6. CASE Repinged
    BY <2>6 DEF Repinged
  <2> QED
    BY <2>1, <2>2, <2>3, <2>4, <2>5, <2>6 DEF BlockingStep
<1> QED
  BY <1>1, <1>2, SmActors, SmMoved DEF SmHolderMoves

(* So the sequence is held by whoever is under way, at every step.            *)
LEMMA SmHeldStep == SmHeld /\ [Next]_vars => SmHeld'
<1> SUFFICES ASSUME SmHeld, [Next]_vars PROVE SmHeld'
  OBVIOUS
<1>1. ASSUME NEW a \in Actors, ApplyStep(a) PROVE SmHeld'
  BY <1>1, SmApplies, SmPulses, SmEndStep DEF ApplyStep
<1>2. CASE BridgeStep \/ WorkerMounts \/ SwapCard \/ Hang
  BY <1>2, SmApart DEF BridgeStep, AnswerPing, AnswerStatus, AnswerMount, Answers,
     WorkerMounts, SwapCard, Hang, control
<1>3. CASE UNCHANGED vars
  BY <1>3, SmApart DEF vars, control
<1> QED
  BY <1>1, <1>2, <1>3, SmExchanges, SmPassBegins, SmPass, SmCommands, SmBlocking DEF Next

(* A reset of the bridge is pulsed only in a recovery and by the task that    *)
(* holds the sequence, and no recovery is left behind when the pass or the    *)
(* remount that began it is over, whatever failed in it                       *)
(* (manager_control_begin_manual_reset, claim_initial_bridge_reset).          *)
THEOREM RecoveriesOwned == Spec => []RecoveryOwned
<1>1. Init => SmHeld
  BY SmActors DEF Init, SmHeld, SmHolds, SmOwn, RecoveryOwned, CallPlaces, PassPlaces,
     BlockingPlaces, Places
<1>2. SmHeld /\ [Next]_vars => SmHeld'
  BY SmHeldStep
<1>3. SmHeld => RecoveryOwned
  BY DEF SmHeld
<1> QED
  BY <1>1, <1>2, <1>3, PTL DEF Spec

(* The type invariant in parts: what is asked and decided, what is shown of   *)
(* the card, the exchanges, and the bridge.                                   *)
Initials == [timeouts : 0..PingLimit, seen : BOOLEAN, pending : BOOLEAN,
             attempted : BOOLEAN, spent : BOOLEAN]
SmControlOK ==
  /\ force \in BOOLEAN /\ recovery \in BOOLEAN /\ ask \subseteq {"reset", "remount"}
  /\ initial \in Initials
  /\ job \in {"routine", "remount", "reset"}
  /\ cmd \in {None, "boot", "refresh", "mount", "force", "reset", "remount"}
  /\ late \in BOOLEAN /\ tries \in Nat

(* The control of the automatic reset stays well-formed.                      *)
LEMMA SmInitials ==
  ASSUME NEW i \in Initials, NEW r
  PROVE  /\ [i EXCEPT !.seen = TRUE, !.timeouts = 0, !.pending = FALSE] \in Initials
         /\ [i EXCEPT !.timeouts = 0, !.pending = FALSE, !.spent = TRUE] \in Initials
         /\ [i EXCEPT !.timeouts = 0, !.pending = FALSE, !.attempted = TRUE, !.spent = TRUE]
              \in Initials
         /\ [i EXCEPT !.pending = FALSE] \in Initials
         /\ initial = i => CountTimeout(r) \in Initials
<1>1. /\ \A b \in BOOLEAN : /\ [i EXCEPT !.seen = b] \in Initials
                           /\ [i EXCEPT !.pending = b] \in Initials
                           /\ [i EXCEPT !.attempted = b] \in Initials
                           /\ [i EXCEPT !.spent = b] \in Initials
      /\ \A n \in 0..PingLimit : [i EXCEPT !.timeouts = n] \in Initials
  BY DEF Initials
<1>2. 0 \in 0..PingLimit /\ i.timeouts \in 0..PingLimit /\ i.pending \in BOOLEAN
  BY SmAssumption DEF Initials
<1>3. \A n \in 0..PingLimit, b \in BOOLEAN :
        [i EXCEPT !.timeouts = n, !.pending = b] \in Initials
  BY DEF Initials
<1>4. [i EXCEPT !.seen = TRUE, !.timeouts = 0, !.pending = FALSE] \in Initials
  BY <1>2 DEF Initials
<1>5. [i EXCEPT !.timeouts = 0, !.pending = FALSE, !.spent = TRUE] \in Initials
  BY <1>2 DEF Initials
<1>6. [i EXCEPT !.timeouts = 0, !.pending = FALSE, !.attempted = TRUE, !.spent = TRUE]
        \in Initials
  BY <1>2 DEF Initials
<1>7. ASSUME initial = i PROVE CountTimeout(r) \in Initials
  <2>1. (IF i.timeouts < PingLimit THEN i.timeouts + 1 ELSE i.timeouts) \in 0..PingLimit
    BY <1>2, SmAssumption
  <2>2. (i.pending \/ RequiresReset(r)) \in BOOLEAN
    BY <1>2 DEF RequiresReset
  <2> QED
    BY <1>1, <1>2, <1>3, <1>7, <2>1, <2>2 DEF CountTimeout
<1> QED
  BY <1>1, <1>4, <1>5, <1>6, <1>7

(* What is asked and decided stays well-formed.                               *)
LEMMA SmControlStep == SmControlOK /\ [Next]_vars => SmControlOK'
<1> SUFFICES ASSUME SmControlOK, [Next]_vars PROVE SmControlOK'
  OBVIOUS
<1> USE DEF SmControlOK
<1>1. ASSUME NEW a \in Actors, ExchangeStep(a) PROVE SmControlOK'
  BY <1>1 DEF ExchangeStep, Send, Receive, GiveUp, exchangeFrame, control, locals, consoleVars
<1>2. ASSUME NEW a \in Actors, ApplyStep(a) PROVE SmControlOK'
  <2> USE DEF applyFrame, control, locals, consoleVars
  <2>1. CASE Noted(a) \/ Apply(a)
    BY <2>1, SmInitials DEF Noted, Apply, NoteResponse
  <2>2. CASE Enable(a) \/ Recheck(a) \/ Pause(a) \/ Mount(a)
    BY <2>2 DEF Enable, Recheck, Pause, Mount
  <2>3. CASE Pulse(a) \/ PulseFails(a)
    BY <2>3, SmInitials DEF Pulse, PulseFails, SatisfyReset
  <2>4. CASE End(a)
    BY <2>4 DEF End, None
  <2> QED
    BY <1>2, <2>1, <2>2, <2>3, <2>4 DEF ApplyStep
<1>3. CASE PassStep
  <2> USE DEF managerFrame, control, locals, consoleVars
  <2>1. CASE PassBegins \/ FinalPing \/ Ping \/ AskStatus \/ Statused \/ Mounted \/ Close
    <3>1. CASE PassBegins
      BY <3>1 DEF PassBegins
    <3>2. CASE FinalPing \/ Ping
      BY <3>2 DEF FinalPing, Ping
    <3>3. CASE AskStatus \/ Statused
      BY <3>3 DEF AskStatus, Statused
    <3>4. CASE Mounted \/ Close
      BY <3>4 DEF Mounted, Close
    <3> QED
      BY <2>1, <3>1, <3>2, <3>3, <3>4
  <2>2. CASE Claim
    BY <2>2, SmInitials DEF Claim, BeginManualReset, SatisfyReset
  <2>3. CASE PingFailed
    BY <2>3, SmInitials DEF PingFailed
  <2> QED
    BY <1>3, <2>1, <2>2, <2>3 DEF PassStep
<1>4. CASE Commands
  <2> USE DEF consoleFrame, Command
  <2>1. CASE ConsoleExchange \/ ResetBridge \/ Remount
    BY <2>1 DEF ConsoleExchange, ResetBridge, Remount
  <2>2. ASSUME NEW on \in BOOLEAN, ForceNvs(on) PROVE SmControlOK'
    BY <2>2, SmInitials DEF ForceNvs
  <2> QED
    BY <1>4, <2>1, <2>2 DEF Commands
<1>5. CASE BlockingStep
  <2> USE DEF consoleStep, consoleFrame, consoleVars
  <2>1. CASE Booted \/ Polled
    <3>1. UNCHANGED <<cmd, late, tries, force, ask, initial, recovery, job>>
      BY <2>1 DEF Booted, Polled
    <3> QED
      BY <3>1
  <2>4. CASE Poll \/ Repinged
    <3>1. tries' = tries + 1 /\ UNCHANGED <<cmd, late, force, ask, initial, recovery, job>>
      BY <2>4, Zenon DEF Poll, Repinged
    <3> QED
      BY <3>1
  <2>3. CASE MountAnswered
    <3>1. late' \in BOOLEAN
      BY <2>3, Zenon DEF MountAnswered
    <3>2. tries' = 0 /\ UNCHANGED <<force, recovery, ask, initial, job, cmd>>
      BY <2>3, Zenon DEF MountAnswered
    <3> QED
      BY <3>1, <3>2
  <2>2. CASE ConsoleReset
    BY <2>2, SmInitials DEF ConsoleReset, BeginManualReset, SatisfyReset
  <2> QED
    BY <1>5, <2>1, <2>2, <2>3, <2>4 DEF BlockingStep
<1>6. CASE BridgeStep \/ WorkerMounts \/ SwapCard \/ Hang
  <2>1. CASE BridgeStep
    <3>1. Answers("ping") \/ Answers("status") \/ Answers("mount")
      BY <2>1, Zenon DEF BridgeStep, AnswerPing, AnswerStatus, AnswerMount
    <3> QED
      BY <3>1 DEF Answers, control, locals, consoleVars
  <2>2. CASE WorkerMounts
    BY <2>2 DEF WorkerMounts, control, locals, consoleVars
  <2>3. CASE SwapCard
    BY <2>3 DEF SwapCard, control, locals, consoleVars
  <2>4. CASE Hang
    BY <2>4 DEF Hang, control, locals, consoleVars
  <2> QED
    BY <1>6, <2>1, <2>2, <2>3, <2>4
<1>7. CASE UNCHANGED vars
  BY <1>7 DEF vars, control, locals, consoleVars
<1> QED
  BY <1>1, <1>2, <1>3, <1>4, <1>5, <1>6, <1>7 DEF Next

(* The exchanges.  An actor that is told "ok" by a status or a mount has an   *)
(* answer that says what state the card is in.                                *)
SmResults == {None, "ok", "timeout", "fail"}
SmLines == [kind : {"ping"}, state : {None}]
             \cup [kind : {"status", "mount"}, state : CardStates]
SmCallsOK ==
  /\ kind \in [Actors -> Kinds] /\ result \in [Actors -> SmResults]
  /\ reply \in [Actors -> CardStates \cup {None}]
  /\ asked \in Seq(Kinds) /\ line \in Seq(SmLines)
  /\ \A a \in Actors : pc[a] = "apply" /\ result[a] = "ok" => reply[a] # None
SmCardOK ==
  /\ alive \in BOOLEAN /\ inserted \in BOOLEAN /\ proven \in BOOLEAN /\ worker \in BOOLEAN
  /\ cache \in CardStates /\ published \in {None, "ready", "error"} /\ samples \in Nat
SmStatusOK ==
  /\ backend \in BOOLEAN /\ failures \in 0..FailureLimit
  /\ sdState \in CardStates \cup {"protocol_pending", "rp2040_unavailable"}
SmTakenOK == taken \in [swaps : Nat, faults : Nat, commands : Nat]

(* What the bridge answers of the card is a state of the card.                *)
LEMMA SmCurrent ==
  ASSUME SmCardOK
  PROVE  Current \in CardStates /\ Sampled \in Nat /\ KnowsDetect \in BOOLEAN
<1>1. Refreshed \in CardStates /\ Samples \in Nat
  BY DEF SmCardOK, Refreshed, Samples, CardStates, None
<1>2. Current \in CardStates /\ Sampled \in Nat
  BY <1>1 DEF Current, Sampled, CardStates
<1>3. KnowsDetect \in BOOLEAN
  BY Zenon DEF SmCardOK, KnowsDetect
<1> QED
  BY <1>2, <1>3

(* What the bridge knows of the card stays well-formed.                       *)
LEMMA SmCardStep == SmCardOK /\ [Next]_vars => SmCardOK'
<1> SUFFICES ASSUME SmCardOK, [Next]_vars PROVE SmCardOK'
  OBVIOUS
<1>1. ASSUME UNCHANGED <<alive, cardVars>> PROVE SmCardOK'
  BY <1>1 DEF SmCardOK, cardVars
<1>2. ASSUME NEW a \in Actors, ExchangeStep(a) \/ ApplyStep(a) PROVE SmCardOK'
  <2>1. CASE Pulse(a)
    BY <2>1 DEF Pulse, SmCardOK, CardStates
  <2>2. CASE ~Pulse(a)
    BY <1>1, <1>2, <2>2 DEF ExchangeStep, ApplyStep, Send, Receive, GiveUp, Noted, Apply,
       Enable, Recheck, Pause, Mount, PulseFails, End, applyFrame, bridgeVars
  <2> QED
    BY <2>1, <2>2
<1>3. CASE PassStep
  BY <1>1, <1>3 DEF PassStep, PassBegins, FinalPing, Claim, Ping, PingFailed, AskStatus,
     Statused, Mounted, Close, managerFrame, bridgeVars
<1>4. CASE Commands
  BY <1>1, <1>4 DEF Commands, ConsoleExchange, ResetBridge, Remount, ForceNvs,
     consoleFrame, bridgeVars
<1>5. CASE BlockingStep
  BY <1>1, <1>5 DEF BlockingStep, Booted, MountAnswered, Poll, Polled, ConsoleReset,
     Repinged, consoleFrame, bridgeVars
<1>6. CASE AnswerPing \/ WorkerMounts \/ SwapCard \/ Hang
  BY <1>6 DEF AnswerPing, WorkerMounts, SwapCard, Hang, Answers, SmCardOK, cardVars
<1>7. CASE AnswerStatus
  <2>1. /\ cache' = Current /\ samples' = Sampled /\ published' = None
        /\ UNCHANGED <<alive, inserted, worker>>
    BY <1>7 DEF AnswerStatus, Answers, Card
  <2>2. proven' = KnowsDetect
    BY <1>7, Zenon DEF AnswerStatus, Card
  <2> QED
    BY <2>1, <2>2, SmCurrent DEF SmCardOK
<1>8. CASE AnswerMount
  <2>1. UNCHANGED <<alive, inserted>> /\ published' = None
    BY <1>8 DEF AnswerMount, Answers
  <2>2. (worker' = worker \/ worker' = TRUE)
        /\ \E c \in CardStates, p \in BOOLEAN, n \in Nat : Card(c, p, n)
    <3>0. Current \in CardStates /\ (Sampled = 0 \/ Sampled > 0)
      BY SmCurrent
    <3> USE SmCurrent DEF AnswerMount, CardStates
    <3>1. CASE Current = "ready" /\ Sampled = 0 /\ ~worker
      BY <1>8, <3>1
    <3>2. CASE Current = "ready" /\ Sampled = 0 /\ worker
      BY <1>8, <3>2
    <3>3. CASE Current = "no_card" \/ (Current = "ready" /\ Sampled > 0)
      BY <1>8, <3>3
    <3>4. CASE Current \notin {"ready", "no_card"}
      BY <1>8, <3>4
    <3> QED
      BY <3>0, <3>1, <3>2, <3>3, <3>4, Zenon
  <2> QED
    BY <2>1, <2>2 DEF SmCardOK, Card
<1>9. CASE UNCHANGED vars
  BY <1>1, <1>9 DEF vars, bridgeVars
<1> QED
  BY <1>2, <1>3, <1>4, <1>5, <1>6, <1>7, <1>8, <1>9 DEF Next, BridgeStep

(* What is taken up of the bounds stays well-formed.                          *)
LEMMA SmTakenStep == SmTakenOK /\ [Next]_vars => SmTakenOK'
<1> SUFFICES ASSUME SmTakenOK, [Next]_vars PROVE SmTakenOK'
  OBVIOUS
<1>1. ASSUME UNCHANGED taken PROVE SmTakenOK'
  BY <1>1 DEF SmTakenOK
<1>2. ASSUME NEW b \in {"swaps", "faults", "commands"}, NEW n, Spend(b, n) PROVE SmTakenOK'
  BY <1>2 DEF Spend, SmTakenOK
<1>3. ASSUME NEW a \in Actors, ExchangeStep(a) \/ ApplyStep(a) PROVE SmTakenOK'
  <2>1. CASE GiveUp(a)
    BY <1>1, <1>2, <2>1 DEF GiveUp
  <2>2. CASE PulseFails(a)
    BY <1>2, <2>2 DEF PulseFails
  <2>3. CASE ~GiveUp(a) /\ ~PulseFails(a)
    BY <1>1, <1>3, <2>3 DEF ExchangeStep, ApplyStep, Send, Receive, Noted, Apply,
       Enable, Recheck, Pause, Mount, Pulse, End, applyFrame
  <2> QED
    BY <2>1, <2>2, <2>3
<1>4. CASE PassStep
  BY <1>1, <1>4 DEF PassStep, PassBegins, FinalPing, Claim, Ping, PingFailed, AskStatus,
     Statused, Mounted, Close, managerFrame
<1>5. CASE Commands
  <2>1. Spend("commands", MaxCommands)
    BY <1>5, Zenon DEF Commands, ConsoleExchange, ResetBridge, Remount, ForceNvs, Command
  <2> QED
    BY <1>2, <2>1
<1>6. CASE BlockingStep
  BY <1>1, <1>6 DEF BlockingStep, Booted, MountAnswered, Poll, Polled, ConsoleReset,
     Repinged, consoleStep
<1>7. CASE BridgeStep \/ WorkerMounts
  BY <1>1, <1>7 DEF BridgeStep, AnswerPing, AnswerStatus, AnswerMount, Answers, WorkerMounts
<1>8. CASE SwapCard \/ Hang
  BY <1>2, <1>8 DEF SwapCard, Hang
<1>9. CASE UNCHANGED vars
  BY <1>1, <1>9 DEF vars
<1> QED
  BY <1>3, <1>4, <1>5, <1>6, <1>7, <1>8, <1>9 DEF Next

(* What is shown of the card is a state of the card: no empty answer is       *)
(* applied.                                                                   *)
LEMMA SmStatusStep == SmCallsOK /\ SmStatusOK /\ [Next]_vars => SmStatusOK'
<1> SUFFICES ASSUME SmCallsOK, SmStatusOK, [Next]_vars PROVE SmStatusOK'
  OBVIOUS
<1>1. ASSUME UNCHANGED statusVars PROVE SmStatusOK'
  BY <1>1 DEF SmStatusOK, statusVars
<1>2. ASSUME NEW r, NoteRp2040(r) PROVE SmStatusOK'
  BY <1>2 DEF NoteRp2040, SmStatusOK
<1>3. ASSUME NoteFailure PROVE SmStatusOK'
  <2>1. failures' \in 0..FailureLimit
    BY <1>3, SmAssumption DEF NoteFailure, SmStatusOK
  <2>2. \/ UNCHANGED <<backend, sdState>>
        \/ backend' = FALSE /\ sdState' \in {sdState, "protocol_pending"}
    BY <1>3, Zenon DEF NoteFailure
  <2> QED
    BY <2>1, <2>2 DEF SmStatusOK
<1>4. ASSUME NEW a \in Actors, ExchangeStep(a) \/ ApplyStep(a) PROVE SmStatusOK'
  <2>1. CASE Apply(a)
    <3>1. CASE result[a] = "ok"
      <4>1. reply[a] \in CardStates
        BY <2>1, <3>1 DEF Apply, At, SmCallsOK
      <4>2. sdState' = reply[a] /\ failures' = 0 /\ UNCHANGED backend
        BY <2>1, <3>1 DEF Apply
      <4> QED
        BY <4>1, <4>2, SmAssumption DEF SmStatusOK
    <3>2. CASE result[a] # "ok"
      BY <1>3, <2>1, <3>2 DEF Apply
    <3> QED
      BY <3>1, <3>2
  <2>2. CASE Enable(a)
    <3>1. backend' \in BOOLEAN
      BY <2>2, Zenon DEF Enable
    <3>2. UNCHANGED <<sdState, failures>>
      BY <2>2 DEF Enable
    <3> QED
      BY <3>1, <3>2 DEF SmStatusOK
  <2>3. CASE Pause(a)
    BY <2>3 DEF Pause, SmStatusOK
  <2>4. CASE Pulse(a) \/ PulseFails(a)
    BY <1>2, <2>4 DEF Pulse, PulseFails
  <2>5. CASE ExchangeStep(a) \/ Noted(a) \/ Recheck(a) \/ Mount(a) \/ End(a)
    BY <1>1, <2>5 DEF ExchangeStep, Send, Receive, GiveUp, exchangeFrame, Noted, Recheck,
       Mount, End
  <2> QED
    BY <1>4, <2>1, <2>2, <2>3, <2>4, <2>5 DEF ApplyStep
<1>5. CASE PassStep
  <2>1. CASE PingFailed
    BY <1>2, <1>3, <2>1 DEF PingFailed
  <2>2. CASE Close
    BY <2>2 DEF Close, SmStatusOK
  <2>3. CASE ~PingFailed /\ ~Close
    BY <1>1, <1>5, <2>3 DEF PassStep, PassBegins, FinalPing, Claim, Ping, AskStatus,
       Statused, Mounted
  <2> QED
    BY <2>1, <2>2, <2>3
<1>6. CASE Commands
  <2>1. CASE Remount
    BY <2>1 DEF Remount, SmStatusOK
  <2>2. CASE ~Remount
    BY <1>1, <1>6, <2>2 DEF Commands, ConsoleExchange, ResetBridge, ForceNvs
  <2> QED
    BY <2>1, <2>2
<1>7. CASE BlockingStep
  <2>1. CASE Repinged
    BY <2>1 DEF Repinged, consoleStep, SmStatusOK
  <2>2. CASE ~Repinged
    BY <1>1, <1>7, <2>2 DEF BlockingStep, Booted, MountAnswered, Poll, Polled, ConsoleReset,
       consoleStep, statusVars
  <2> QED
    BY <2>1, <2>2
<1>8. CASE BridgeStep \/ WorkerMounts \/ SwapCard \/ Hang
  BY <1>1, <1>8 DEF BridgeStep, AnswerPing, AnswerStatus, AnswerMount, Answers,
     WorkerMounts, SwapCard, Hang
<1>9. CASE UNCHANGED vars
  BY <1>1, <1>9 DEF vars
<1> QED
  BY <1>4, <1>5, <1>6, <1>7, <1>8, <1>9 DEF Next

(* A step that goes elsewhere than to the place where an answer is applied.   *)
SmAside(a) ==
  /\ \E p : p # "apply" /\ pc' = [pc EXCEPT ![a] = p]
  /\ UNCHANGED reply \/ reply' = [reply EXCEPT ![a] = None]
  /\ UNCHANGED result \/ \E r \in SmResults : result' = [result EXCEPT ![a] = r]
  /\ UNCHANGED kind \/ \E k \in Kinds : kind' = [kind EXCEPT ![a] = k]

(* It keeps them well-formed, and no empty answer is taken for one.           *)
LEMMA SmAsideKeeps ==
  ASSUME SmHeld, SmCallsOK, NEW a \in Actors, SmAside(a),
         asked' \in Seq(Kinds), line' \in Seq(SmLines)
  PROVE  SmCallsOK'
<1>1. /\ pc'[a] # "apply"
      /\ \A b \in Actors : b # a =>
           pc'[b] = pc[b] /\ result'[b] = result[b] /\ reply'[b] = reply[b]
  BY DEF SmHeld, SmCallsOK, SmAside
<1>2. reply' \in [Actors -> CardStates \cup {None}] /\ result' \in [Actors -> SmResults]
      /\ kind' \in [Actors -> Kinds]
  BY DEF SmCallsOK, SmAside
<1> QED
  BY <1>1, <1>2 DEF SmCallsOK

(* The exchanges stay well-formed: each answer taken is one of its own kind.  *)
LEMMA SmCallsStep ==
  SmHeld /\ SmCardOK /\ SmCallsOK /\ [Next]_vars => SmCallsOK'
<1> SUFFICES ASSUME SmHeld, SmCardOK, SmCallsOK, [Next]_vars PROVE SmCallsOK'
  OBVIOUS
<1> DEFINE BridgeKept == asked' \in Seq(Kinds) /\ line' \in Seq(SmLines)
<1>0. /\ asked \in Seq(Kinds) /\ line \in Seq(SmLines)
      /\ {"ok", "timeout", "fail", None} = SmResults
      /\ {"ping", "status", "mount"} = Kinds
  BY DEF SmCallsOK, SmResults, Kinds
<1>1. ASSUME UNCHANGED <<asked, line>> PROVE BridgeKept
  BY <1>0, <1>1
<1>2. ASSUME NEW a \in Actors, Send(a) PROVE SmCallsOK'
  <2>1. kind[a] \in Kinds
    BY DEF SmCallsOK
  <2>2. BridgeKept
    BY <1>0, <1>2, <2>1 DEF Send
  <2>3. SmAside(a)
    BY <1>2 DEF Send, Go, exchangeFrame, SmAside
  <2> QED
    BY <2>2, <2>3, SmAsideKeeps
<1>3. ASSUME NEW a \in Actors, Receive(a) PROVE SmCallsOK'
  <2>1. Head(line) \in SmLines /\ line' \in Seq(SmLines) /\ UNCHANGED asked
    BY <1>0, <1>3 DEF Receive, bridgeVars
  <2>2. CASE Head(line).kind = kind[a]
    <3>1. /\ reply' = [reply EXCEPT ![a] = Head(line).state]
          /\ result' = [result EXCEPT ![a] = "ok"] /\ UNCHANGED kind
          /\ pc' = [pc EXCEPT ![a] = Applied(a)]
      BY <1>3, <2>2 DEF Receive, EndExchange, Go, exchangeFrame
    <3>2. Applied(a) = "apply" => Head(line).state \in CardStates
      BY <2>1, <2>2 DEF Applied, SmLines
    <3>3. Head(line).state \in CardStates \cup {None} /\ None \notin CardStates
      BY <2>1 DEF SmLines, CardStates, None
    <3>4. pc'[a] = Applied(a) /\ \A b \in Actors : b # a => pc'[b] = pc[b]
      BY <3>1 DEF SmHeld
    <3> QED
      BY <1>0, <2>1, <3>1, <3>2, <3>3, <3>4 DEF SmCallsOK
  <2>3. CASE Head(line).kind # kind[a]
    BY <1>0, <1>3, <2>1, <2>3 DEF Receive, exchangeFrame, SmCallsOK
  <2> QED
    BY <2>2, <2>3
<1>4. ASSUME NEW a \in Actors, GiveUp(a) PROVE SmCallsOK'
  <2>1. UNCHANGED <<reply, asked, line, kind>>
    BY <1>4 DEF GiveUp, bridgeVars, exchangeFrame
  <2>2. \E r \in {"timeout", "fail"} : EndExchange(a, r)
    BY <1>4, Zenon DEF GiveUp
  <2>3. /\ \E r \in {"timeout", "fail"} : result' = [result EXCEPT ![a] = r]
        /\ pc' = [pc EXCEPT ![a] = Applied(a)]
    BY <2>2 DEF EndExchange, Go
  <2>4. /\ result'[a] # "ok"
        /\ \A b \in Actors : b # a => pc'[b] = pc[b] /\ result'[b] = result[b]
    BY <2>3 DEF SmHeld, SmCallsOK
  <2> QED
    BY <1>0, <2>1, <2>3, <2>4 DEF SmCallsOK
<1>5. ASSUME NEW a \in Actors, Noted(a) \/ Apply(a) \/ Enable(a) \/ Recheck(a)
                               \/ Pause(a) \/ Mount(a)
      PROVE SmCallsOK'
  <2>1. BridgeKept
    BY <1>1, <1>5 DEF Noted, Apply, Enable, Recheck, Pause, Mount, applyFrame, bridgeVars
  <2>2. then[a] # "apply"
    BY SmActors DEF SmHeld, SmOwn, PassPlaces, BlockingPlaces
  <2>3. SmAside(a)
    BY <1>0, <1>5, <2>2 DEF Noted, Apply, Enable, Recheck, Pause, Mount, Return, Go, applyFrame,
       callVars, SmAside
  <2> QED
    BY <2>1, <2>3, SmAsideKeeps
<1>6. ASSUME NEW a \in Actors, Pulse(a) PROVE SmCallsOK'
  <2>1. BridgeKept
    BY <1>6 DEF Pulse
  <2>2. SmAside(a)
    BY <1>0, <1>6 DEF Pulse, Call, Go, SmAside
  <2> QED
    BY <2>1, <2>2, SmAsideKeeps
<1>7. ASSUME NEW a \in Actors, PulseFails(a) \/ End(a) PROVE SmCallsOK'
  <2>1. BridgeKept
    BY <1>1, <1>7 DEF PulseFails, End, bridgeVars
  <2>2. SmAside(a)
    BY <1>0, <1>7 DEF PulseFails, End, PauseThen, Call, Go, callVars, SmAside
  <2> QED
    BY <2>1, <2>2, SmAsideKeeps
<1>8. CASE PassStep
  <2>1. BridgeKept
    BY <1>1, <1>8 DEF PassStep, PassBegins, FinalPing, Claim, Ping, PingFailed, AskStatus,
       Statused, Mounted, Close, managerFrame, bridgeVars
  <2>2. SmAside(Manager)
    <3> USE <1>0 DEF SmAside, managerFrame, Call, PauseThen, Go
    <3>1. CASE PassBegins \/ FinalPing
      BY <3>1 DEF PassBegins, FinalPing
    <3>2. CASE Claim
      BY <3>2 DEF Claim
    <3>3. CASE Ping \/ PingFailed
      BY <3>3 DEF Ping, PingFailed
    <3>4. CASE AskStatus \/ Statused
      BY <3>4 DEF AskStatus, Statused
    <3>5. CASE Mounted \/ Close
      BY <3>5 DEF Mounted, Close
    <3> QED
      BY <1>8, <3>1, <3>2, <3>3, <3>4, <3>5 DEF PassStep
  <2> QED
    BY <2>1, <2>2, SmActors, SmAsideKeeps
<1>9. CASE Commands
  <2>1. BridgeKept /\ UNCHANGED <<reply, result>>
    BY <1>1, <1>9 DEF Commands, ConsoleExchange, ResetBridge, Remount, ForceNvs,
       consoleFrame, bridgeVars
  <2>2. SmAside(Console) \/ UNCHANGED <<pc, kind>>
    BY <1>0, <1>9, <2>1 DEF Commands, ConsoleExchange, ResetBridge, Remount, ForceNvs,
       Call, PauseThen, Go, SmAside
  <2> QED
    BY <2>1, <2>2, SmActors, SmAsideKeeps DEF SmCallsOK
<1>10. CASE BlockingStep
  <2>1. BridgeKept /\ UNCHANGED <<reply, result>>
    BY <1>1, <1>10 DEF BlockingStep, Booted, MountAnswered, Poll, Polled, ConsoleReset,
       Repinged, consoleFrame, bridgeVars
  <2>2. SmAside(Console)
    <3> USE <1>0, <2>1 DEF SmAside, Call, Go
    <3>1. CASE Booted \/ MountAnswered
      BY <3>1 DEF Booted, MountAnswered
    <3>2. CASE Poll \/ Polled
      BY <3>2 DEF Poll, Polled
    <3>3. CASE ConsoleReset \/ Repinged
      BY <3>3 DEF ConsoleReset, Repinged
    <3> QED
      BY <1>10, <3>1, <3>2, <3>3 DEF BlockingStep
  <2> QED
    BY <2>1, <2>2, SmActors, SmAsideKeeps
<1>11. CASE BridgeStep
  <2>1. UNCHANGED <<pc, kind, reply, result>> /\ asked' \in Seq(Kinds)
    <3>1. \E k \in Kinds : Answers(k)
      BY <1>11, Zenon DEF BridgeStep, AnswerPing, AnswerStatus, AnswerMount, Kinds
    <3> QED
      BY <1>0, <3>1 DEF Answers, callVars
  <2>2. \E r \in SmLines : line' = Append(line, r)
    <3>1. /\ [kind |-> "ping", state |-> None] \in SmLines
          /\ \A c \in CardStates : /\ [kind |-> "status", state |-> c] \in SmLines
                                  /\ [kind |-> "mount", state |-> c] \in SmLines
      BY DEF SmLines
    <3>2. CASE AnswerPing \/ AnswerStatus
      BY <3>1, <3>2, SmCurrent DEF AnswerPing, AnswerStatus, Reply
    <3>3. CASE AnswerMount
      <4>0. Current \in CardStates /\ (Sampled = 0 \/ Sampled > 0)
            /\ {"ready", "error", "mount_pending"} \subseteq CardStates
        BY SmCurrent DEF CardStates
      <4>1. \E c \in CardStates : Reply("mount", c)
        <5>1. CASE Current = "ready" /\ Sampled = 0 /\ ~worker
          BY <3>3, <4>0, <5>1, Zenon DEF AnswerMount
        <5>2. CASE Current = "ready" /\ Sampled = 0 /\ worker
          BY <3>3, <4>0, <5>2, Zenon DEF AnswerMount
        <5>3. CASE Current = "no_card" \/ (Current = "ready" /\ Sampled > 0)
          BY <3>3, <4>0, <5>3, Zenon DEF AnswerMount
        <5>4. CASE Current \notin {"ready", "no_card"}
          BY <3>3, <4>0, <5>4, Zenon DEF AnswerMount
        <5> QED
          BY <4>0, <5>1, <5>2, <5>3, <5>4, Zenon
      <4> QED
        BY <3>1, <4>1 DEF Reply
    <3> QED
      BY <1>11, <3>2, <3>3 DEF BridgeStep
  <2>3. line' \in Seq(SmLines)
    BY <1>0, <2>2
  <2> QED
    BY <2>1, <2>3 DEF SmCallsOK
<1>12. CASE WorkerMounts \/ SwapCard \/ Hang \/ UNCHANGED vars
  BY <1>12 DEF WorkerMounts, SwapCard, Hang, vars, callVars, bridgeVars, SmCallsOK
<1> QED
  BY <1>2, <1>3, <1>4, <1>5, <1>6, <1>7, <1>8, <1>9, <1>10, <1>11, <1>12
  DEF Next, ExchangeStep, ApplyStep

(* The type invariant is the sum of these parts.                              *)
LEMMA SmTypes ==
  SmTypeOK <=> /\ SmControlOK /\ SmStatusOK /\ SmCardOK /\ SmTakenOK
               /\ sequence \in Actors \cup {Nobody}
               /\ pc \in [Actors -> Places] /\ then \in [Actors -> Places]
               /\ kind \in [Actors -> Kinds] /\ result \in [Actors -> SmResults]
               /\ reply \in [Actors -> CardStates \cup {None}]
               /\ asked \in Seq(Kinds) /\ line \in Seq(SmLines)
BY DEF SmTypeOK, SmControlOK, SmStatusOK, SmCardOK, SmTakenOK, Initials, SmResults, SmLines

(* The type invariant of StorageManager; with it, that an answer applied as a *)
(* state of the card is one, and never that of a ping.                        *)
THEOREM StorageTypeCorrect == Spec => []SmTypeOK
<1> DEFINE Inv == SmHeld /\ SmControlOK /\ SmStatusOK /\ SmCardOK /\ SmTakenOK /\ SmCallsOK
<1>1. Init => Inv
  <2> SUFFICES ASSUME Init PROVE Inv
    OBVIOUS
  <2>1. SmHeld
    BY SmActors DEF Init, SmHeld, SmHolds, SmOwn, RecoveryOwned, CallPlaces, PassPlaces,
       BlockingPlaces, Places
  <2>2. initial \in Initials /\ SmTakenOK
    BY SmAssumption DEF Init, SmTakenOK, Initials
  <2>3. SmControlOK
    BY <2>2 DEF Init, SmControlOK
  <2>4. SmStatusOK
    <3>1. backend = FALSE /\ sdState = "protocol_pending" /\ failures = 0
      BY DEF Init
    <3>2. 0 \in 0..FailureLimit
      BY SmAssumption
    <3> QED
      BY <3>1, <3>2 DEF SmStatusOK
  <2>5. SmCardOK
    <3>1. alive \in BOOLEAN /\ inserted \in BOOLEAN
      BY Zenon DEF Init
    <3>2. proven = FALSE /\ worker = FALSE /\ cache = "mount_required" /\ published = None /\ samples = 0
      BY DEF Init
    <3> QED
      BY <3>1, <3>2 DEF SmCardOK, CardStates
  <2>6. SmCallsOK
    BY DEF Init, SmCallsOK, SmResults, Kinds
  <2> QED
    BY <2>1, <2>2, <2>3, <2>4, <2>5, <2>6
<1>2. Inv /\ [Next]_vars => Inv'
  BY SmHeldStep, SmControlStep, SmStatusStep, SmCardStep, SmTakenStep, SmCallsStep
<1>3. Inv => SmTypeOK
  BY SmTypes DEF SmHeld, SmCallsOK
<1> QED
  BY <1>1, <1>2, <1>3, PTL DEF Spec

-----------------------------------------------------------------------------
(* The administration session.                                              *)

(* Who holds a generation holds one that is not ahead of the session's, and *)
(* if it is the session's, what it was taken for is still under way.        *)
AdminHeld ==
  /\ step.generation <= session.generation
  /\ \A s \in ResponseSlots : inbox[s].generation <= session.generation
  /\ step.at = "bind" /\ step.generation = session.generation =>
       session.state = "authenticated"
  /\ GenerationNamesExchange

(* A request whose session was captured is a request that is being served.  *)
AdminServed ==
  step.at = "bind" =>
    /\ clients[step.client].at = "served"
    /\ clients[step.client].kind \in {"query", "text"}

(* What was ever accepted of a peer is at most what its record in NVS says. *)
AdminRecorded ==
  \A p \in Peers : accepted[p] > 0 =>
    durable[Key(p)].peer = p /\ accepted[p] <= durable[Key(p)].stamp

(* The inductive invariant. *)
AdminInv ==
  AdminTypeOK /\ AdminServed /\ AdminHeld /\ AdminRecorded /\ AuthorityIsDurable

(* A peer's replay record is among the records.                             *)
LEMMA KeyIn == \A p \in Peers : Key(p) \in {Key(q) : q \in Peers}
OBVIOUS

(* Wiping a session ends it and gives it the next generation.               *)
LEMMA WipedType ==
  ASSUME AdminTypeOK
  PROVE  /\ Wiped \in Sessions /\ Wiped.state = "ended"
         /\ Wiped.generation = session.generation + 1
BY DEF AdminTypeOK, Wiped, Sessions

(* An empty slot holds a response of no generation.                         *)
LEMMA EmptyType == Empty \in Responses /\ Empty.generation = 0
BY DEF Empty, Handed, Body, Responses

(* A handler that ends leaves nothing in the owner's hands.                 *)
LEMMA RestsType ==
  ASSUME AdminTypeOK, Rests
  PROVE  step' \in Stages /\ step'.at = "idle" /\ step'.generation = 0
BY EmptyType DEF AdminTypeOK, Rests, Stage, Stages

(* Where the clients' calls are stays well-formed when a call ends.         *)
ClientsOK ==
  /\ clients \in [Clients -> CallStates]
  /\ \A c \in Clients : clients[c].kind = "login" => clients[c].peer \in Peers
LEMMA FinishedType ==
  ASSUME AdminTypeOK, NEW c \in Clients, NEW ok \in BOOLEAN, Finished(c, ok)
  PROVE  ClientsOK' /\ \A d \in Clients \ {c} : clients'[d] = clients[d]
<1>1. NoRequest \in CallStates /\ NoRequest.kind # "login"
  BY DEF NoRequest, CallStates
<1>2. clients[c] \in CallStates
  BY DEF AdminTypeOK
<1>3. [clients[c] EXCEPT !.at = "failed"] \in CallStates
  BY <1>2 DEF CallStates
<1>4. /\ [clients[c] EXCEPT !.at = "failed"].kind = clients[c].kind
      /\ [clients[c] EXCEPT !.at = "failed"].peer = clients[c].peer
  BY <1>2 DEF CallStates
<1> QED
  BY <1>1, <1>3, <1>4 DEF AdminTypeOK, Finished, ClientsOK

(* The owner keeps what it holds or drops it; a slot, its response.         *)
Settles == step' = step \/ Rests
Drains ==
  /\ inbox' = [s \in ResponseSlots |-> inbox'[s]]
  /\ \A s \in ResponseSlots : inbox'[s] = inbox[s] \/ inbox'[s] = Empty

(* The session stays what it is, but for its deadlines.                     *)
SessionStays ==
  /\ session'.state = session.state /\ session'.generation = session.generation
  /\ session'.exchange = session.exchange /\ session'.peer = session.peer

(* Slots that are untouched drain.                                          *)
LEMMA UntouchedDrains ==
  ASSUME AdminTypeOK, UNCHANGED inbox
  PROVE  Drains
BY DEF AdminTypeOK, Drains

(* Then what is held still names the exchange it was taken for, if the      *)
(* session stays what it is or moves on.                                    *)
LEMMA HeldKept ==
  ASSUME AdminInv, Settles, Drains,
         SessionStays \/ session'.generation = session.generation + 1
  PROVE  AdminHeld'
<1>1. /\ session.generation \in Nat \ {0} /\ step.generation \in Nat
      /\ \A s \in ResponseSlots : inbox[s].generation \in Nat
  BY DEF AdminInv, AdminTypeOK, Sessions, Stages, Responses
<1>2. CASE session'.generation = session.generation + 1
  <2>1. step'.generation < session'.generation
    BY <1>1, <1>2, RestsType DEF AdminInv, AdminHeld, Settles
  <2>2. \A s \in ResponseSlots : inbox'[s].generation < session'.generation
    BY <1>1, <1>2, EmptyType DEF AdminInv, AdminHeld, Drains
  <2>3. /\ step'.generation \in Nat /\ session'.generation \in Nat
        /\ \A s \in ResponseSlots : inbox'[s].generation \in Nat
    BY <1>1, <1>2, RestsType, EmptyType DEF AdminInv, Settles, Drains
  <2>4. /\ step'.generation # session'.generation
        /\ step'.generation <= session'.generation
        /\ \A s \in ResponseSlots : /\ inbox'[s].generation # session'.generation
                                    /\ inbox'[s].generation <= session'.generation
    BY <2>1, <2>2, <2>3
  <2> QED
    BY <2>4 DEF AdminHeld, GenerationNamesExchange
<1>3. CASE SessionStays
  <2>1. \A s \in ResponseSlots :
          /\ inbox'[s].generation <= session'.generation
          /\ inbox'[s].generation = session'.generation =>
               /\ (Pending)'
               /\ session'.exchange = inbox'[s].exchange /\ session'.peer = inbox'[s].peer
    BY <1>1, <1>3, EmptyType
       DEF AdminInv, AdminHeld, GenerationNamesExchange, Drains, SessionStays, Pending
  <2>2. CASE step' = step
    BY <1>3, <2>1, <2>2
       DEF AdminInv, AdminHeld, GenerationNamesExchange, SessionStays, Pending
  <2>3. CASE Rests
    <3>1. step'.at = "idle" /\ step'.generation = 0
      BY <2>3, RestsType DEF AdminInv
    <3> QED
      BY <1>1, <1>3, <2>1, <3>1 DEF AdminHeld, GenerationNamesExchange, SessionStays
  <2> QED
    BY <2>2, <2>3 DEF Settles
<1> QED
  BY <1>2, <1>3

(* What most steps do: nothing is sent, recorded or accepted, and the       *)
(* session stays, comes due or is wiped.                                    *)
Quiet ==
  /\ Drains /\ ClientsOK'
  /\ UNCHANGED <<exchanges, durable, accepted>>
  /\ \/ UNCHANGED session
     \/ session' = Wiped
     \/ \E d \in SUBSET {"request", "session"} : session' = [session EXCEPT !.due = d]
  /\ \/ Rests
     \/ step' = step /\ (step.at = "bind" => clients'[step.client] = clients[step.client])

(* Such a step keeps the inductive invariant.                               *)
LEMMA QuietKeeps ==
  ASSUME AdminInv, Quiet
  PROVE  AdminInv'
<1>1. Drains /\ Settles /\ ClientsOK'
  BY DEF Quiet, Settles
<1>2. /\ session' \in Sessions
      /\ session'.state # "ended" => session'.peer \in Peers
      /\ SessionStays \/ (session' = Wiped /\ session'.state = "ended"
                           /\ session'.generation = session.generation + 1)
  <2>1. CASE session' = Wiped
    BY <2>1, WipedType DEF AdminInv
  <2>2. CASE UNCHANGED session
    BY <2>2 DEF AdminInv, AdminTypeOK, SessionStays
  <2>3. ASSUME NEW d \in SUBSET {"request", "session"}, session' = [session EXCEPT !.due = d]
        PROVE  session' \in Sessions /\ SessionStays
    BY <2>3 DEF AdminInv, AdminTypeOK, SessionStays, Sessions
  <2>4. ASSUME SessionStays
        PROVE  session'.state # "ended" => session'.peer \in Peers
    BY <2>4 DEF AdminInv, AdminTypeOK, SessionStays
  <2> QED
    BY <2>1, <2>2, <2>3, <2>4 DEF Quiet
<1>3. AdminHeld'
  BY <1>1, <1>2, HeldKept
<1>4. inbox' \in [ResponseSlots -> Responses]
  <2>1. \A s \in ResponseSlots : inbox'[s] \in Responses
    BY <1>1, EmptyType DEF AdminInv, AdminTypeOK, Drains
  <2> QED
    BY <1>1, <2>1 DEF Drains
<1>5. step' \in Stages
  BY <1>1, RestsType DEF AdminInv, AdminTypeOK, Settles
<1>6. AdminTypeOK'
  BY <1>1, <1>2, <1>4, <1>5 DEF AdminInv, AdminTypeOK, ClientsOK, Quiet
<1>7. AdminServed'
  <2>1. CASE Rests
    BY <2>1, RestsType DEF AdminInv, AdminServed
  <2>2. CASE step' = step /\ (step.at = "bind" => clients'[step.client] = clients[step.client])
    BY <2>2 DEF AdminInv, AdminServed
  <2> QED
    BY <2>1, <2>2 DEF Quiet
<1>8. AdminRecorded'
  BY DEF AdminInv, AdminRecorded, Quiet
<1>9. AuthorityIsDurable'
  BY <1>2 DEF AdminInv, AuthorityIsDurable, Active, SessionStays, Quiet
<1> QED
  BY <1>3, <1>6, <1>7, <1>8, <1>9 DEF AdminInv

-----------------------------------------------------------------------------
(* The callers' steps.                                                      *)
LEMMA AskKeeps ==
  ASSUME AdminInv, NEW c \in Clients, NEW call \in Calls, Ask(c, call)
  PROVE  AdminInv'
<1> DEFINE new == [at |-> "asked", kind |-> call.kind, peer |-> call.peer]
<1>1. new \in CallStates /\ (new.kind = "login" => new.peer \in Peers)
  BY DEF Calls, CallStates
<1> HIDE DEF new
<1>2. clients' = [clients EXCEPT ![c] = new]
  BY DEF Ask, new
<1>3. ClientsOK'
  BY <1>1, <1>2 DEF AdminInv, AdminTypeOK, ClientsOK
<1>4. step.at = "bind" => clients'[step.client] = clients[step.client]
  BY <1>2 DEF AdminInv, AdminServed, AdminTypeOK, Stages, Ask
<1> QED
  BY <1>3, <1>4, UntouchedDrains, QuietKeeps DEF Quiet, AdminInv, Ask

LEMMA NotServedKeeps ==
  ASSUME AdminInv, NEW c \in Clients, NotServed(c)
  PROVE  AdminInv'
<1>1. ClientsOK' /\ (step.client # c => clients'[step.client] = clients[step.client])
  BY FinishedType DEF AdminInv, AdminTypeOK, Stages, NotServed
<1>2. step.at = "bind" => step.client # c
  BY DEF AdminInv, AdminServed, NotServed
<1> QED
  BY <1>1, <1>2, UntouchedDrains, QuietKeeps DEF Quiet, AdminInv, NotServed

LEMMA CallFailsKeeps ==
  ASSUME AdminInv, NEW c \in Clients, CallFails(c)
  PROVE  AdminInv'
<1>1. NoRequest \in CallStates /\ NoRequest.kind # "login"
  BY DEF NoRequest, CallStates
<1>2. ClientsOK' /\ (step.client # c => clients'[step.client] = clients[step.client])
  BY <1>1 DEF AdminInv, AdminTypeOK, Stages, ClientsOK, CallFails
<1>3. step.at = "bind" => step.client # c
  BY DEF AdminInv, AdminServed, CallFails
<1>4. session' = Wiped \/ UNCHANGED session
  BY DEF CallFails, ReportFailure, Fail
<1> QED
  BY <1>2, <1>3, <1>4, UntouchedDrains, QuietKeeps DEF Quiet, AdminInv, CallFails

(* The owner's commands.                                                    *)
LEMMA RefuseKeeps ==
  ASSUME AdminInv, NEW c \in Clients, Refuse(c) \/ Post(c) \/ Logout(c)
  PROVE  AdminInv'
<1>1. ClientsOK'
  BY FinishedType DEF AdminInv, Refuse, Post, Logout
<1>2. step' = step /\ step.at = "idle" /\ (UNCHANGED session \/ session' = Wiped)
  BY DEF Refuse, Post, Logout, Takes, Idle, Fail
<1> QED
  BY <1>1, <1>2, UntouchedDrains, QuietKeeps DEF Quiet, AdminInv, Refuse, Post, Logout

(* A client that is served keeps its kind and its peer.                     *)
LEMMA ServingType ==
  ASSUME AdminTypeOK, NEW c \in Clients, Serving(c)
  PROVE  /\ ClientsOK' /\ clients'[c].at = "served" /\ clients'[c].kind = clients[c].kind
<1> DEFINE new == [clients[c] EXCEPT !.at = "served"]
<1>1. /\ new \in CallStates /\ new.at = "served"
      /\ new.kind = clients[c].kind /\ new.peer = clients[c].peer
  BY DEF AdminTypeOK, CallStates
<1>2. clients' = [clients EXCEPT ![c] = new]
  BY DEF Serving
<1> HIDE DEF new
<1> QED
  BY <1>1, <1>2 DEF AdminTypeOK, ClientsOK

(* An exchange that begins is the session's, and the owner's to send.       *)
LEMMA BegunHeld ==
  ASSUME AdminInv, UNCHANGED inbox, NEW c \in Clients,
         session'.generation = session.generation + 1,
         session'.exchange = exchanges + 1,
         step' = Stage("send", c, session.generation + 1, exchanges + 1, Empty)
  PROVE  AdminHeld' /\ AdminServed' /\ step' \in Stages
<1>1. /\ step'.at = "send" /\ step'.generation = session'.generation
      /\ step'.exchange = session'.exchange
  BY DEF Stage
<1>2. /\ session.generation \in Nat \ {0} /\ exchanges \in Nat
      /\ \A s \in ResponseSlots : inbox[s].generation \in Nat
  BY DEF AdminInv, AdminTypeOK, Sessions, Responses
<1>3. \A s \in ResponseSlots : /\ inbox'[s].generation <= session'.generation
                               /\ inbox'[s].generation # session'.generation
  BY <1>2 DEF AdminInv, AdminHeld
<1>4. step' \in Stages
  BY <1>2, EmptyType DEF Stage, Stages
<1>5. step'.generation <= session'.generation
  BY <1>1, <1>2
<1> QED
  BY <1>1, <1>3, <1>4, <1>5 DEF AdminHeld, AdminServed, GenerationNamesExchange

LEMMA LoginKeeps ==
  ASSUME AdminInv, NEW c \in Clients, Login(c)
  PROVE  AdminInv'
<1>1. clients[c].peer \in Peers
  BY DEF AdminInv, AdminTypeOK, Login, Takes
<1>2. session.generation \in Nat \ {0} /\ exchanges \in Nat
  BY DEF AdminInv, AdminTypeOK, Sessions
<1>3. /\ session' \in Sessions /\ session'.state = "login" /\ session'.peer \in Peers
      /\ session'.generation = session.generation + 1 /\ session'.exchange = exchanges + 1
  BY <1>1, <1>2 DEF Login, LoginBegun, Sessions
<1>4. ClientsOK'
  BY ServingType DEF AdminInv, Login
<1>5. AdminHeld' /\ AdminServed' /\ step' \in Stages
  BY <1>3, BegunHeld DEF Login
<1>6. AdminTypeOK'
  BY <1>2, <1>3, <1>4, <1>5 DEF AdminInv, AdminTypeOK, ClientsOK, Login
<1>7. AuthorityIsDurable' /\ AdminRecorded'
  BY <1>3 DEF AuthorityIsDurable, Active, AdminInv, AdminRecorded, Login
<1> QED
  BY <1>5, <1>6, <1>7 DEF AdminInv

LEMMA CaptureKeeps ==
  ASSUME AdminInv, NEW c \in Clients, Capture(c)
  PROVE  AdminInv'
<1>1. session.generation \in Nat \ {0}
  BY DEF AdminInv, AdminTypeOK, Sessions
<1>2. /\ step' \in Stages /\ step'.at = "bind" /\ step'.client = c
      /\ step'.generation = session.generation
  BY <1>1, EmptyType DEF Capture, Stage, Stages
<1>3. /\ ClientsOK' /\ clients'[c].at = "served" /\ clients'[c].kind \in {"query", "text"}
  BY ServingType DEF AdminInv, Capture, Takes
<1>4. AdminTypeOK'
  BY <1>2, <1>3 DEF AdminInv, AdminTypeOK, ClientsOK, Capture
<1>5. AdminServed'
  BY <1>2, <1>3 DEF AdminServed
<1>6. AdminHeld'
  BY <1>1, <1>2 DEF AdminInv, AdminHeld, GenerationNamesExchange, Pending, Capture
<1>7. AuthorityIsDurable' /\ AdminRecorded'
  BY DEF AdminInv, AuthorityIsDurable, Active, AdminRecorded, Capture
<1> QED
  BY <1>4, <1>5, <1>6, <1>7 DEF AdminInv

-----------------------------------------------------------------------------
(* A request's session is the one that rested, in a new exchange.           *)
LEMMA RequestBegunType ==
  ASSUME AdminTypeOK, NEW what \in {"query", "text"}
  PROVE  /\ RequestBegun(what) \in Sessions /\ RequestBegun(what).state = what
         /\ RequestBegun(what).generation = session.generation + 1
         /\ RequestBegun(what).exchange = exchanges + 1
         /\ RequestBegun(what).peer = session.peer
<1>1. /\ session \in Sessions /\ session.generation + 1 \in Nat \ {0}
      /\ exchanges + 1 \in Nat
  BY DEF AdminTypeOK, Sessions
<1>2. PICK g \in Nat \ {0} : g = session.generation + 1
  BY <1>1
<1>3. PICK n \in Nat : n = exchanges + 1
  BY <1>1
<1>4. RequestBegun(what) = [session EXCEPT !.state = what, !.generation = g, !.exchange = n]
  BY <1>2, <1>3, Zenon DEF RequestBegun
<1>5. /\ RequestBegun(what) \in Sessions /\ RequestBegun(what).state = what
      /\ RequestBegun(what).generation = g /\ RequestBegun(what).exchange = n
      /\ RequestBegun(what).peer = session.peer
  BY <1>1, <1>4 DEF Sessions
<1> QED
  BY <1>2, <1>3, <1>5

(* The rest of a handler.                                                   *)
LEMMA AbandonKeeps ==
  ASSUME AdminInv, Unbound \/ Unbuilt \/ (\E ok \in BOOLEAN : NoteTx(ok))
  PROVE  AdminInv'
<1>1. step.client \in Clients
  BY DEF AdminInv, AdminTypeOK, Stages
<1>2. \E ok \in BOOLEAN : Finished(step.client, ok)
  BY DEF Unbound, Unbuilt, NoteTx
<1>3. ClientsOK'
  BY <1>1, <1>2, FinishedType DEF AdminInv
<1>4. /\ UNCHANGED session \/ session' = Wiped
      /\ Rests /\ UNCHANGED <<exchanges, inbox, durable, accepted>>
  BY DEF Unbound, Unbuilt, NoteTx, ReportFailure, Fail
<1> QED
  BY <1>3, <1>4, UntouchedDrains, QuietKeeps DEF Quiet, AdminInv

LEMMA BeginRequestKeeps ==
  ASSUME AdminInv, BeginRequest
  PROVE  AdminInv'
<1> DEFINE c == step.client
           what == clients[c].kind
<1>1. c \in Clients /\ what \in {"query", "text"}
  BY DEF AdminInv, AdminTypeOK, AdminServed, Stages, BeginRequest
<1>2. CASE session.due # {}
  <2>1. ClientsOK'
    BY <1>1, <1>2, FinishedType DEF AdminInv, BeginRequest
  <2> QED
    BY <1>2, <2>1, UntouchedDrains, QuietKeeps DEF Quiet, AdminInv, BeginRequest, Fail
<1>3. CASE session.due = {}
  <2>1. /\ session' = RequestBegun(what) /\ exchanges' = exchanges + 1
        /\ step' = Stage("send", c, session.generation + 1, exchanges + 1, Empty)
        /\ UNCHANGED <<clients, inbox, durable, accepted>>
    BY <1>3 DEF BeginRequest
  <2>2. session.generation \in Nat \ {0} /\ exchanges \in Nat
    BY DEF AdminInv, AdminTypeOK, Sessions
  <2>3. session.state = "authenticated" /\ session.peer \in Peers
    BY DEF AdminInv, AdminHeld, AdminTypeOK, BeginRequest
  <2> HIDE DEF what
  <2>4. /\ session' \in Sessions /\ session'.state = what
        /\ session'.generation = session.generation + 1
        /\ session'.exchange = exchanges + 1 /\ session'.peer = session.peer
    BY <1>1, <2>1, <2>2, RequestBegunType DEF AdminInv
  <2>5. AdminHeld' /\ AdminServed' /\ step' \in Stages
    BY <1>1, <2>1, <2>4, BegunHeld
  <2>6. AdminTypeOK'
    BY <2>1, <2>2, <2>3, <2>4, <2>5 DEF AdminInv, AdminTypeOK
  <2>7. AuthorityIsDurable' /\ AdminRecorded'
    BY <2>1, <2>3, <2>4 DEF AdminInv, AuthorityIsDurable, Active, AdminRecorded
  <2> QED
    BY <2>5, <2>6, <2>7 DEF AdminInv
<1> QED
  BY <1>2, <1>3

-----------------------------------------------------------------------------
(* What is received.                                                        *)
LEMMA SessionLostKeeps ==
  ASSUME AdminInv, SessionLost \/ (\E d \in {"request", "session"} : Due(d))
  PROVE  AdminInv'
<1>1. \/ session' = Wiped
      \/ \E d \in SUBSET {"request", "session"} : session' = [session EXCEPT !.due = d]
  <2>1. session.due \subseteq {"request", "session"}
    BY DEF AdminInv, AdminTypeOK, Sessions
  <2>2. ASSUME NEW d \in {"request", "session"}, Due(d)
        PROVE  session' = [session EXCEPT !.due = session.due \cup {d}]
    BY <2>2 DEF Due
  <2> QED
    BY <2>1, <2>2 DEF SessionLost, Fail
<1>2. UNCHANGED <<exchanges, inbox, durable, accepted, clients, step>>
  BY DEF SessionLost, Due
<1>3. ClientsOK'
  BY <1>2 DEF AdminInv, AdminTypeOK, ClientsOK
<1> QED
  BY <1>1, <1>2, <1>3, UntouchedDrains, QuietKeeps DEF Quiet, AdminInv

(* What a response may say.                                                 *)
LEMMA BodiesType ==
  ASSUME AdminTypeOK, NEW b \in Bodies, NEW g \in Nat, NEW n \in Nat, NEW p \in Peers
  PROVE  /\ Handed(g, n, p, b) \in Responses
         /\ Handed(g, n, p, b).generation = g /\ Handed(g, n, p, b).exchange = n
         /\ Handed(g, n, p, b).peer = p
<1>1. b \in [kind : {"login"}, number : Nat \ {0}] \cup [kind : {"tagged", "other"}, number : Nat]
  BY AdminAssumption DEF AdminTypeOK, Bodies, Body, ServerStamps
<1> QED
  BY <1>1 DEF Handed, Responses

LEMMA HandOverKeeps ==
  ASSUME AdminInv, NEW s \in ResponseSlots, NEW b \in Bodies, HandOver(s, b)
  PROVE  AdminInv'
<1> DEFINE r == Handed(session.generation, session.exchange, session.peer, b)
<1>1. /\ session.generation \in Nat \ {0} /\ session.exchange \in Nat
      /\ session.peer \in Peers /\ Pending
  BY DEF AdminInv, AdminTypeOK, Sessions, HandOver, Pending
<1>2. /\ r \in Responses /\ r.generation = session.generation
      /\ r.exchange = session.exchange /\ r.peer = session.peer
  BY <1>1, BodiesType DEF AdminInv
<1>3. inbox' = [inbox EXCEPT ![s] = r] /\ UNCHANGED <<session, step, clients>>
  BY DEF HandOver
<1> HIDE DEF r
<1>4. inbox' \in [ResponseSlots -> Responses]
  BY <1>2, <1>3 DEF AdminInv, AdminTypeOK
<1>5. AdminTypeOK'
  BY <1>4 DEF AdminInv, AdminTypeOK, HandOver
<1>6. AdminHeld'
  <2>1. \A t \in ResponseSlots : inbox'[t] = inbox[t] \/ inbox'[t] = r
    BY <1>3 DEF AdminInv, AdminTypeOK
  <2> QED
    BY <1>1, <1>2, <1>3, <2>1 DEF AdminInv, AdminHeld, GenerationNamesExchange, Pending
<1>7. AdminServed' /\ AuthorityIsDurable' /\ AdminRecorded'
  BY DEF AdminInv, AdminServed, AuthorityIsDurable, Active, AdminRecorded, HandOver
<1> QED
  BY <1>5, <1>6, <1>7 DEF AdminInv

LEMMA AdmitKeeps ==
  ASSUME AdminInv, NEW s \in ResponseSlots, Admit(s)
  PROVE  AdminInv'
<1>1. Drains
  BY DEF AdminInv, AdminTypeOK, Drains, Admit
<1>2. UNCHANGED <<session, exchanges, durable, clients, accepted>>
  BY DEF Admit
<1>3. CASE step' = step
  <2>1. ClientsOK'
    BY <1>2 DEF AdminInv, AdminTypeOK, ClientsOK
  <2> QED
    BY <1>1, <1>2, <1>3, <2>1, QuietKeeps DEF Quiet
<1>4. CASE step' # step
  <2>1. /\ Admissible(inbox[s])
        /\ step' = [step EXCEPT !.at = "reply", !.generation = session.generation,
                                !.reply = inbox[s]]
    BY <1>4 DEF Admit
  <2>2. step \in Stages /\ inbox[s] \in Responses /\ session.generation \in Nat \ {0}
    BY DEF AdminInv, AdminTypeOK, Sessions
  <2>3. /\ step' \in Stages /\ step'.at = "reply" /\ step'.reply = inbox[s]
        /\ step'.generation = session.generation
    BY <2>1, <2>2 DEF Stages
  <2>4. /\ Pending /\ session.exchange = inbox[s].exchange /\ session.peer = inbox[s].peer
    BY <2>1 DEF Admissible, AdminInv, AdminHeld, GenerationNamesExchange
  <2>5. inbox' \in [ResponseSlots -> Responses]
    BY <1>1, EmptyType DEF AdminInv, AdminTypeOK, Drains
  <2>6. AdminTypeOK'
    BY <1>2, <2>3, <2>5 DEF AdminInv, AdminTypeOK
  <2>7. AdminHeld'
    BY <1>1, <1>2, <2>2, <2>3, <2>4, EmptyType
       DEF AdminInv, AdminHeld, GenerationNamesExchange, Pending, Drains
  <2>8. AdminServed' /\ AuthorityIsDurable' /\ AdminRecorded'
    BY <1>2, <2>3 DEF AdminInv, AdminServed, AuthorityIsDurable, Active, AdminRecorded
  <2> QED
    BY <2>6, <2>7, <2>8 DEF AdminInv
<1> QED
  BY <1>3, <1>4

(* A session that rests after an exchange.                                  *)
LEMMA RestedType ==
  ASSUME AdminTypeOK, NEW stamp \in Nat
  PROVE  /\ Rested(stamp) \in Sessions
         /\ Rested(stamp).state = "authenticated" /\ Rested(stamp).stamp = stamp
         /\ Rested(stamp).peer = session.peer
         /\ Rested(stamp).generation = session.generation + 1
<1>1. session \in Sessions /\ session.generation + 1 \in Nat \ {0}
  BY DEF AdminTypeOK, Sessions
<1>2. PICK g \in Nat \ {0} : g = session.generation + 1
  BY <1>1
<1>3. PICK s \in Sessions :
         s = [session EXCEPT !.state = "authenticated", !.generation = g, !.stamp = stamp]
  BY <1>1 DEF Sessions
<1>4. s.state = "authenticated" /\ s.generation = g /\ s.stamp = stamp /\ s.peer = session.peer
  BY <1>1, <1>3 DEF Sessions
<1>5. Rested(stamp) = [s EXCEPT !.exchange = 0, !.due = {}]
  BY <1>1, <1>2, <1>3 DEF Rested, Sessions
<1>6. Rested(stamp) \in Sessions
  <2>1. PICK r : r = Rested(stamp)
    OBVIOUS
  <2>2. r = [s EXCEPT !.exchange = 0, !.due = {}]
    BY <1>5, <2>1
  <2>3. s \in Sessions
    BY <1>3
  <2>4. r \in Sessions
    BY <2>2, <2>3 DEF Sessions
  <2> QED
    BY <2>1, <2>4
<1>7. /\ Rested(stamp).state = s.state /\ Rested(stamp).generation = s.generation
      /\ Rested(stamp).stamp = s.stamp /\ Rested(stamp).peer = s.peer
  BY <1>5 DEF Sessions
<1> QED
  BY <1>2, <1>4, <1>6, <1>7

LEMMA TextReplyKeeps ==
  ASSUME AdminInv, NEW stamp \in ServerStamps, TextReply(stamp)
  PROVE  AdminInv'
<1>1. stamp \in Nat
  BY AdminAssumption DEF ServerStamps
<1>2. UNCHANGED <<exchanges, inbox, durable, accepted, clients, step>>
  BY DEF TextReply
<1>3. CASE session' = Wiped
  <2>1. ClientsOK'
    BY <1>2 DEF AdminInv, AdminTypeOK, ClientsOK
  <2> QED
    BY <1>2, <1>3, <2>1, UntouchedDrains, QuietKeeps DEF Quiet, AdminInv
<1>4. CASE session' = Rested(stamp)
  <2>1. Active /\ session.peer \in Peers
    BY DEF AdminInv, AdminTypeOK, Active, TextReply
  <2>2. /\ session' \in Sessions /\ session'.state = "authenticated"
        /\ session'.peer = session.peer /\ session'.generation = session.generation + 1
    BY <1>1, <1>4, RestedType DEF AdminInv
  <2>3. AdminHeld'
    BY <1>2, <2>2, UntouchedDrains, HeldKept DEF AdminInv, Settles
  <2>4. AdminTypeOK'
    BY <1>2, <2>1, <2>2 DEF AdminInv, AdminTypeOK
  <2>5. AdminServed' /\ AuthorityIsDurable' /\ AdminRecorded'
    BY <1>2, <2>1, <2>2 DEF AdminInv, AdminServed, AuthorityIsDurable, AdminRecorded
  <2> QED
    BY <2>3, <2>4, <2>5 DEF AdminInv
<1> QED
  BY <1>3, <1>4 DEF TextReply, Fail

(* A login's record in NVS is its peer's, and keeps what was accepted.      *)
LEMMA RecordedKept ==
  ASSUME AdminInv, NEW p \in Peers, NEW stamp \in Nat,
         Newer(p, stamp), Record(p, stamp),
         \/ UNCHANGED accepted
         \/ accepted' = [accepted EXCEPT ![p] = stamp]
  PROVE  /\ durable' \in [{Key(q) : q \in Peers} -> [peer : Peers \cup {NoPeer}, stamp : Nat]]
         /\ durable'[Key(p)] = [peer |-> p, stamp |-> stamp]
         /\ AdminRecorded' /\ stamp >= accepted[p]
         /\ stamp > 0 => stamp > accepted[p]
<1> DEFINE new == [peer |-> p, stamp |-> stamp]
<1>1. Key(p) \in {Key(q) : q \in Peers} /\ new \in [peer : Peers \cup {NoPeer}, stamp : Nat]
      /\ new.peer = p /\ new.stamp = stamp
  OBVIOUS
<1> HIDE DEF new
<1>2. durable' = [durable EXCEPT ![Key(p)] = new]
  BY DEF Record, new
<1>3. /\ durable' \in [{Key(q) : q \in Peers} -> [peer : Peers \cup {NoPeer}, stamp : Nat]]
      /\ durable'[Key(p)] = new
      /\ \A q \in Peers : Key(q) # Key(p) => durable'[Key(q)] = durable[Key(q)]
  BY <1>1, <1>2 DEF AdminInv, AdminTypeOK
<1>4. accepted \in [Peers -> Nat]
  BY DEF AdminInv, AdminTypeOK
<1>5. NoRecord.peer \notin Peers
  BY AdminAssumption DEF NoRecord
<1>6. accepted[p] > 0 => durable[Key(p)].peer = p /\ stamp > durable[Key(p)].stamp
  BY <1>5 DEF AdminInv, AdminRecorded, Newer
<1>7. durable[Key(p)].stamp \in Nat
  BY <1>1 DEF AdminInv, AdminTypeOK
<1>8. stamp >= accepted[p] /\ (stamp > 0 => stamp > accepted[p])
  BY <1>4, <1>6, <1>7 DEF AdminInv, AdminRecorded
<1>9. ASSUME NEW q \in Peers, accepted'[q] > 0
      PROVE  durable'[Key(q)].peer = q /\ accepted'[q] <= durable'[Key(q)].stamp
  <2>1. CASE q = p
    <3>1. accepted'[p] \in {accepted[p], stamp}
      BY <1>4
    <3> QED
      BY <1>1, <1>3, <1>4, <1>8, <2>1, <3>1
  <2>2. CASE q # p
    <3>1. accepted'[q] = accepted[q]
      BY <1>4, <2>2
    <3>2. durable[Key(q)].peer = q /\ accepted[q] <= durable[Key(q)].stamp
      BY <1>9, <3>1 DEF AdminInv, AdminRecorded
    <3>3. Key(q) # Key(p)
      BY <1>5, <2>2, <3>2 DEF Newer
    <3> QED
      BY <1>3, <3>1, <3>2, <3>3
  <2> QED
    BY <2>1, <2>2
<1> QED
  BY <1>3, <1>8, <1>9 DEF AdminRecorded, new

(* What is dispatched is wiped, taken to be the answer, or nothing.         *)
LEMMA DispatchKeeps ==
  ASSUME AdminInv, Dispatch
  PROVE  AdminInv'
<1> DEFINE b == step.reply.body
<1>1. UNCHANGED <<exchanges, inbox, clients>> /\ Rests /\ step' \in Stages /\ step'.at = "idle"
  BY RestsType DEF Dispatch, AdminInv
<1>2. ClientsOK' /\ Drains /\ Settles /\ AdminServed'
  BY <1>1, UntouchedDrains DEF AdminInv, AdminTypeOK, ClientsOK, Settles, AdminServed
<1>3. CASE UNCHANGED <<durable, accepted>> /\ (UNCHANGED session \/ session' = Wiped)
  BY <1>1, <1>2, <1>3, QuietKeeps DEF Quiet
<1>4. ASSUME session.state = "query", session' = Rested(session.stamp),
             UNCHANGED <<durable, accepted>>
      PROVE  AdminInv'
  <2>1. session.stamp \in Nat /\ session.peer \in Peers
    BY <1>4 DEF AdminInv, AdminTypeOK, Sessions
  <2>2. /\ session' \in Sessions /\ session'.state = "authenticated"
        /\ session'.peer = session.peer /\ session'.generation = session.generation + 1
    BY <1>4, <2>1, RestedType DEF AdminInv
  <2>3. AdminHeld'
    BY <1>2, <2>2, HeldKept
  <2>4. AdminTypeOK'
    BY <1>1, <1>4, <2>1, <2>2 DEF AdminInv, AdminTypeOK
  <2>5. AuthorityIsDurable' /\ AdminRecorded'
    BY <1>4, <2>2 DEF AdminInv, AuthorityIsDurable, Active, AdminRecorded
  <2> QED
    BY <1>2, <2>3, <2>4, <2>5 DEF AdminInv
<1>5. ASSUME session.state = "login", b.kind = "login"
      PROVE  session.peer \in Peers /\ b.number \in Nat
  BY <1>5 DEF AdminInv, AdminTypeOK, Stages, Responses
<1>6. ASSUME session.state = "login", b.kind = "login", AcceptLogin(b.number)
      PROVE  AdminInv'
  <2> DEFINE p == session.peer
             stamp == b.number
  <2>1. p \in Peers /\ stamp \in Nat
    BY <1>5, <1>6
  <2>2. /\ session' \in Sessions /\ session'.peer = p
        /\ session'.generation = session.generation + 1
    BY <1>6, <2>1, RestedType DEF AdminInv, AcceptLogin
  <2>3. AdminHeld'
    BY <1>2, <2>2, HeldKept
  <2>4. Newer(p, stamp) /\ Record(p, stamp) /\ accepted' = [accepted EXCEPT ![p] = stamp]
    BY <1>6 DEF AcceptLogin
  <2> HIDE DEF p, stamp
  <2>5. /\ durable' \in [{Key(q) : q \in Peers} -> [peer : Peers \cup {NoPeer}, stamp : Nat]]
        /\ durable'[Key(p)] = [peer |-> p, stamp |-> stamp] /\ AdminRecorded'
    BY <2>1, <2>4, RecordedKept
  <2>6. accepted' \in [Peers -> Nat] /\ accepted'[p] = stamp
    BY <2>1, <2>4 DEF AdminInv, AdminTypeOK
  <2>7. AdminTypeOK'
    BY <1>1, <2>1, <2>2, <2>5, <2>6 DEF AdminInv, AdminTypeOK
  <2>8. AuthorityIsDurable'
    BY <2>2, <2>5, <2>6 DEF AuthorityIsDurable
  <2> QED
    BY <1>2, <2>3, <2>5, <2>7, <2>8 DEF AdminInv
<1>7. ASSUME session.state = "login", b.kind = "login", LoginNotStored(b.number)
      PROVE  AdminInv'
  <2> DEFINE p == session.peer
             stamp == b.number
  <2>1. session' = Wiped /\ UNCHANGED accepted
    BY <1>7 DEF LoginNotStored, Fail
  <2>2. CASE UNCHANGED durable
    BY <1>3, <2>1, <2>2
  <2>3. CASE Newer(p, stamp) /\ Record(p, stamp)
    <3>1. p \in Peers /\ stamp \in Nat
      BY <1>5, <1>7
    <3> HIDE DEF p, stamp
    <3>2. /\ durable' \in [{Key(q) : q \in Peers} -> [peer : Peers \cup {NoPeer}, stamp : Nat]]
          /\ AdminRecorded'
      BY <2>1, <2>3, <3>1, RecordedKept
    <3>3. /\ session' \in Sessions /\ session'.state = "ended"
          /\ session'.generation = session.generation + 1
      BY <2>1, WipedType DEF AdminInv
    <3>4. AdminHeld'
      BY <1>2, <3>3, HeldKept
    <3>5. AdminTypeOK'
      BY <1>1, <2>1, <3>2, <3>3 DEF AdminInv, AdminTypeOK
    <3>6. AuthorityIsDurable'
      BY <3>3 DEF AuthorityIsDurable, Active
    <3> QED
      BY <1>2, <3>2, <3>4, <3>5, <3>6 DEF AdminInv
  <2> QED
    BY <1>7, <2>2, <2>3 DEF LoginNotStored
<1>8. CASE session.generation = step.generation
  <2>1. Interpret(b)
    BY <1>8 DEF Dispatch
  <2> QED
    BY <1>3, <1>4, <1>6, <1>7, <2>1 DEF Interpret, ResponseFails, Fail
<1>9. CASE session.generation # step.generation
  BY <1>3, <1>9 DEF Dispatch, ReportFailure, Fail
<1> QED
  BY <1>8, <1>9

-----------------------------------------------------------------------------
(* Time and restarts.                                                       *)
LEMMA MaintainKeeps ==
  ASSUME AdminInv, AdminMaintain
  PROVE  AdminInv'
<1>1. Drains
  BY DEF AdminInv, AdminTypeOK, Drains, AdminMaintain
<1>2. /\ UNCHANGED <<exchanges, durable, accepted, clients, step>>
      /\ UNCHANGED session \/ session' = Wiped
  BY DEF AdminMaintain, Fail
<1>3. ClientsOK'
  BY <1>2 DEF AdminInv, AdminTypeOK, ClientsOK
<1> QED
  BY <1>1, <1>2, <1>3, QuietKeeps DEF Quiet

(* A device that has just started.                                          *)
LEMMA FreshType ==
  [state |-> "ended", generation |-> 1, peer |-> NoPeer, stamp |-> 0,
   exchange |-> 0, due |-> {}] \in Sessions
BY DEF Sessions

LEMMA RebootKeeps ==
  ASSUME AdminInv, AdminReboot
  PROVE  AdminInv'
<1>1. /\ session' \in Sessions /\ session'.state = "ended" /\ session'.generation = 1
  BY FreshType DEF AdminReboot
<1>2. step' \in Stages /\ step'.at = "idle" /\ step'.generation = 0
  BY RestsType DEF AdminReboot, AdminInv
<1>3. inbox' \in [ResponseSlots -> Responses] /\ \A s \in ResponseSlots : inbox'[s].generation = 0
  BY EmptyType DEF AdminReboot
<1>4. ClientsOK'
  BY DEF AdminReboot, ClientsOK, NoRequest, CallStates
<1>5. AdminTypeOK'
  BY <1>1, <1>2, <1>3, <1>4 DEF AdminInv, AdminTypeOK, ClientsOK, AdminReboot
<1>6. AdminHeld' /\ AdminServed'
  BY <1>1, <1>2, <1>3 DEF AdminHeld, AdminServed, GenerationNamesExchange
<1>7. AuthorityIsDurable' /\ AdminRecorded'
  BY <1>1 DEF AuthorityIsDurable, Active, AdminInv, AdminRecorded, AdminReboot
<1> QED
  BY <1>5, <1>6, <1>7 DEF AdminInv

LEMMA AdminStarts == AdminInit => AdminInv
<1> SUFFICES ASSUME AdminInit PROVE AdminInv
  OBVIOUS
<1>1. session \in Sessions /\ session.state = "ended" /\ session.generation = 1
  BY FreshType DEF AdminInit
<1>2. step \in Stages /\ step.at = "idle" /\ step.generation = 0
  BY EmptyType DEF AdminInit, Stage, Stages
<1>3. inbox \in [ResponseSlots -> Responses] /\ \A s \in ResponseSlots : inbox[s].generation = 0
  BY EmptyType DEF AdminInit
<1>4. /\ clients \in [Clients -> CallStates]
      /\ \A c \in Clients : clients[c].kind = "login" => clients[c].peer \in Peers
  BY DEF AdminInit, NoRequest, CallStates
<1>5. durable \in [{Key(p) : p \in Peers} -> [peer : Peers \cup {NoPeer}, stamp : Nat]]
  BY DEF AdminInit, NoRecord
<1>6. accepted \in [Peers -> Nat] /\ \A p \in Peers : accepted[p] = 0
  BY DEF AdminInit
<1>7. AdminTypeOK
  BY <1>1, <1>2, <1>3, <1>4, <1>5, <1>6 DEF AdminTypeOK, AdminInit
<1>8. AdminHeld /\ AdminServed
  BY <1>1, <1>2, <1>3 DEF AdminHeld, AdminServed, GenerationNamesExchange
<1>9. AuthorityIsDurable /\ AdminRecorded
  BY <1>1, <1>6 DEF AuthorityIsDurable, Active, AdminRecorded
<1> QED
  BY <1>7, <1>8, <1>9 DEF AdminInv

(* Every step keeps the inductive invariant.                                *)
LEMMA AdminStepKeeps == AdminInv /\ [AdminNext]_adminVars => AdminInv'
<1> SUFFICES ASSUME AdminInv, [AdminNext]_adminVars
             PROVE  AdminInv'
  OBVIOUS
<1>1. ASSUME NEW c \in Clients, ClientStep(c) \/ CommandStep(c)
      PROVE  AdminInv'
  BY <1>1, AskKeeps, NotServedKeeps, CallFailsKeeps, RefuseKeeps, LoginKeeps, CaptureKeeps
     DEF ClientStep, CommandStep
<1>2. CASE HandlerStep
  BY <1>2, AbandonKeeps, BeginRequestKeeps, DispatchKeeps DEF HandlerStep
<1>3. CASE ReceiveStep
  BY <1>3, SessionLostKeeps, AdmitKeeps, HandOverKeeps, TextReplyKeeps DEF ReceiveStep
<1>4. CASE \E d \in {"request", "session"} : Due(d)
  BY <1>4, SessionLostKeeps
<1>5. CASE UNCHANGED adminVars
  BY <1>5 DEF adminVars, AdminInv, AdminTypeOK, AdminServed, AdminHeld, AdminRecorded,
     AuthorityIsDurable, GenerationNamesExchange, Active, Pending
<1> QED
  BY <1>1, <1>2, <1>3, <1>4, <1>5, MaintainKeeps, RebootKeeps DEF AdminNext

(* The inductive invariant holds of every state.                            *)
THEOREM AdminInvariant == AdminSpec => []AdminInv
<1>1. AdminInit => AdminInv
  BY AdminStarts
<1>2. AdminInv /\ [AdminNext]_adminVars => AdminInv'
  BY AdminStepKeeps
<1> QED
  BY <1>1, <1>2, PTL DEF AdminSpec

(* GenerationNamesExchange, for any number of peers, clients and slots: no  *)
(* late outcome of a transmission and no waiting response strikes another   *)
(* exchange than the one it was kept for (dispatch_response).               *)
THEOREM ExchangesNamed == AdminSpec => []GenerationNamesExchange
<1>1. AdminInv => GenerationNamesExchange
  BY DEF AdminInv, AdminHeld
<1> QED
  BY <1>1, AdminInvariant, PTL

(* AuthorityIsDurable: while the session may act on its peer, the record in *)
(* NVS is that peer's and holds the login it rests on, whatever was evicted *)
(* from the cache, restarted or failed (durable_replay_commit).             *)
THEOREM AuthorityDurable == AdminSpec => []AuthorityIsDurable
<1>1. AdminInv => AuthorityIsDurable
  BY DEF AdminInv
<1> QED
  BY <1>1, AdminInvariant, PTL

(* Only a response that is recorded takes a session out of its login.       *)
LEMMA LoginLeft ==
  ASSUME AdminInv, AdminNext, session.state = "login", session'.state = "authenticated"
  PROVE  Dispatch /\ step.reply.body.kind = "login" /\ AcceptLogin(step.reply.body.number)
<1>1. \/ UNCHANGED session
      \/ session' = Wiped
      \/ \E d \in SUBSET {"request", "session"} : session' = [session EXCEPT !.due = d]
      => session'.state # "authenticated"
  BY WipedType DEF AdminInv, AdminTypeOK, Sessions
<1>2. ASSUME NEW c \in Clients, ClientStep(c) \/ CommandStep(c)
      PROVE  FALSE
  BY <1>1, <1>2 DEF ClientStep, Ask, NotServed, CallFails, ReportFailure, Fail,
     CommandStep, Refuse, Post, Logout, Login, Capture
<1>3. ~ReceiveStep
  BY <1>1 DEF ReceiveStep, SessionLost, Admit, HandOver, TextReply, Fail
<1>4. ~AdminMaintain
  BY <1>1 DEF AdminMaintain, Fail
<1>5. ~AdminReboot
  BY DEF AdminReboot
<1>6. ASSUME NEW d \in {"request", "session"}
      PROVE  ~Due(d)
  BY <1>1 DEF Due, AdminInv, AdminTypeOK, Sessions
<1>7. ~Unbound /\ ~Unbuilt /\ \A ok \in BOOLEAN : ~NoteTx(ok)
  BY <1>1 DEF Unbound, Unbuilt, NoteTx, ReportFailure, Fail
<1>8. ~BeginRequest
  BY DEF BeginRequest, AdminInv, AdminHeld
<1>9. Dispatch
  BY <1>2, <1>3, <1>4, <1>5, <1>6, <1>7, <1>8 DEF AdminNext, HandlerStep
<1>10. session.generation = step.generation
  BY <1>1, <1>9 DEF Dispatch, ReportFailure, Fail
<1>11. Interpret(step.reply.body)
  BY <1>9, <1>10 DEF Dispatch
<1> QED
  BY <1>1, <1>9, <1>11 DEF Interpret, ResponseFails, LoginNotStored, Fail

(* LoginAcceptedOnce, for any cache and any bounds: a login response whose  *)
(* timestamp is not beyond all that were accepted of its peer is never      *)
(* accepted, neither after an eviction nor after a restart                  *)
(* (accept_login_response with durable_replay_commit).                      *)
THEOREM LoginsAcceptedOnce == AdminSpec => LoginAcceptedOnce
<1> DEFINE Later == session.state = "login" /\ session'.state = "authenticated" =>
                      session'.stamp > accepted[session.peer]
<1>1. ASSUME AdminInv, AdminNext, session.state = "login", session'.state = "authenticated"
      PROVE  session'.stamp > accepted[session.peer]
  <2> DEFINE p == session.peer
             stamp == step.reply.body.number
  <2>1. step.reply.body.kind = "login" /\ AcceptLogin(stamp)
    BY <1>1, LoginLeft
  <2>2. p \in Peers /\ stamp \in Nat /\ stamp > 0
    BY <1>1, <2>1 DEF AdminInv, AdminTypeOK, Stages, Responses
  <2>3. session'.stamp = stamp
    BY <1>1, <2>1, <2>2, RestedType DEF AcceptLogin, AdminInv
  <2>4. Newer(p, stamp) /\ Record(p, stamp) /\ accepted' = [accepted EXCEPT ![p] = stamp]
    BY <2>1 DEF AcceptLogin
  <2> HIDE DEF p, stamp
  <2>5. stamp > 0 => stamp > accepted[p]
    BY <1>1, <2>2, <2>4, RecordedKept
  <2> QED
    BY <2>2, <2>3, <2>5 DEF p
<1>2. AdminInv /\ [AdminNext]_adminVars => [Later]_adminVars
  BY <1>1
<1> QED
  BY <1>2, AdminInvariant, PTL DEF AdminSpec, LoginAcceptedOnce

=============================================================================
