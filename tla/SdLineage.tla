----------------------------- MODULE SdLineage -----------------------------
(***************************************************************************)
(* History on removable SD cards under the factory reset: a store reads    *)
(* and writes a card only if the card carries the marker of the store's    *)
(* own lineage generation, and adopts any other card by purging it first.  *)
(*                                                                         *)
(*   main/storage/retained_blob_store.c   lineage, purge, finalize         *)
(*   main/mesh/packet_log.c               packet segments                  *)
(*   firmware/rp2040_sd_bridge/...ino     the replacing rename             *)
(*                                                                         *)
(* An operation on a card is a plan: the bridge commands it still has to   *)
(* give, one per step.  It ends early at any command that fails, that      *)
(* yields to the foreground, or after the backend generation has moved.    *)
(* Temporary files, which no read looks at, are left out.                  *)
(***************************************************************************)
EXTENDS FactoryReset, Sequences

CONSTANTS
  Cards,            \* the cards that are ever inserted
  NoCard,
  PacketLogs,       \* which store may be the packet log; 0: none of them
  SilentSwap,       \* may a card be replaced without the backend noticing
  DeleteMayFail,    \* may a delete fail and be taken for "no such file"
  MaxSdFaults       \* bound: replacing renames that fail

ASSUME SdAssumption == /\ NoCard \notin Cards
                       /\ PacketLogs \subseteq StoreId \cup {0}
                       /\ SilentSwap \in BOOLEAN /\ DeleteMayFail \in BOOLEAN
                       /\ MaxSdFaults \in Nat

VARIABLES
  packetLog,        \* D1L_RETAINED_BLOB_STORE_PACKET_LOG; it never changes
  card,             \* the files of each card
  slot,             \* the card in the slot
  op,               \* the operation the storage worker is in
  ram,              \* the oldest epoch among the entries each store holds
  sdFaults          \* failed renames so far

sdVars  == <<card, slot, op, ram, sdFaults>>
allVars == <<vars, sdVars, packetLog>>

(* "blob" is a store's key; "alias" a second one: the old routes key, or   *)
(* the segments of the packet log.  "marker" holds a lineage generation.   *)
Keys  == {"blob", "alias"}
Files == Keys \cup {"marker"}
Segments(s, f) == s = packetLog /\ f = "alias"

Command(do, f, v) == [do |-> do, file |-> f, value |-> v]
Verify == Command("verify", "marker", Absent)
Clear  == Command("clear", "marker", Absent)
Op(kind, s, k, plan) ==
  [kind |-> kind, store |-> s, key |-> k, gen |-> fence[s].gen,
   plan |-> plan, stale |-> FALSE]
Idle == [kind |-> "idle", store |-> 1, key |-> "blob", gen |-> 0,
         plan |-> <<>>, stale |-> FALSE]
Blank == [s \in StoreId |-> [primary |-> [f \in Files |-> Absent],
                             backup  |-> [f \in Files |-> Absent]]]
OldHistory ==
  [s \in StoreId |->
     [primary |-> [f \in Files |-> IF f = "marker" THEN Absent ELSE 0],
      backup  |-> [f \in Files |-> Absent]]]

InitCards == /\ packetLog \in PacketLogs
             /\ card \in [Cards -> {Blank, OldHistory}]
             /\ slot = NoCard
             /\ op = Idle
             /\ ram = [s \in StoreId |-> Absent]
             /\ sdFaults = 0

-----------------------------------------------------------------------------
(* A file, as a read of it returns it: the backup counts only where the    *)
(* primary is missing.                                                     *)
Content(c, s, f) ==
  LET files == card[c][s]
  IN  IF files.primary[f] # Absent THEN files.primary[f] ELSE files.backup[f]

\* Faulty variant: any marker will do.
MarkerPresent(c, s) == Content(c, s, "marker") # Absent

(* sd_media_lineage_ready.                                                 *)
MarkerMatches(c, s) == Content(c, s, "marker") = fence[s].gen
Ready(c, s) == /\ fence[s].ok /\ ~fence[s].active
               /\ fence[s].gen = 0 \/ MarkerMatches(c, s)

Older(a, b) == IF a = Absent \/ (b # Absent /\ b < a) THEN b ELSE a

(* rename_replace_preserving_old: <<primary, backup>> after it succeeded,  *)
(* and where it may stop when it fails, or when only its answer is lost.   *)
Replaced(old, backup, new) ==
  IF old = Absent THEN <<new, backup>> ELSE <<new, Absent>>
Interrupted(old, backup, new) ==
  {<<old, backup>>, Replaced(old, backup, new)} \cup
  (IF old = Absent THEN {}
   ELSE {<<old, Absent>>, <<Absent, old>>, <<new, old>>})

-----------------------------------------------------------------------------
(* Plans.                                                                  *)
EraseFile(f) == <<Command("drop_backup", f, Absent),
                  Command("drop", f, Absent)>>

(* clear_sd_history_for_generation and sd_purge_store_for_generation.      *)
Purge(s) ==
  IF s = packetLog THEN <<Command("drop", "alias", Absent)>> \o EraseFile("blob")
                   ELSE EraseFile("blob") \o EraseFile("alias")

\* Faulty variant: the marker is written and read back, the fence stays up.
FinalizeMarkerOnly(s) == <<Command("put", "marker", fence[s].gen), Verify>>

(* sd_finalize_lineage_for_generation.                                     *)
Finalize(s) == <<Command("put", "marker", fence[s].gen), Verify, Clear>>

WritePlan(s, k, ready) ==
  LET put == <<Command("put", k, ram[s])>>
  IN  IF ready THEN put ELSE Purge(s) \o put \o Finalize(s)

ErasePlan(s, k, ready) ==
  IF ready THEN EraseFile(k) ELSE Purge(s) \o Finalize(s)

(* Operations begin with the lineage check.                                *)
Begins(s) == /\ phase = "running" /\ op = Idle
             /\ slot # NoCard /\ fence[s].ok
             /\ UNCHANGED <<vars, card, slot, ram, sdFaults>>

BeginRead(s, k) ==
  /\ Begins(s) /\ Ready(slot, s)
  /\ op' = Op("read", s, k, <<Command("get", k, Absent)>>)

BeginWrite(s, k) ==
  /\ Begins(s)
  /\ ram[s] # Absent
  /\ Ready(slot, s) \/ s # packetLog
  /\ op' = Op("write", s, k, WritePlan(s, k, Ready(slot, s)))

BeginErase(s, k) ==
  /\ Begins(s)
  /\ ~Segments(s, k)
  /\ Ready(slot, s) \/ s # packetLog
  /\ op' = Op("erase", s, k, ErasePlan(s, k, Ready(slot, s)))

(* reconcile_sd_primary adopts a card for the packet log.                  *)
BeginAdopt ==
  /\ packetLog # 0
  /\ Begins(packetLog) /\ ~Ready(slot, packetLog)
  /\ op' = Op("adopt", packetLog, "blob",
              Purge(packetLog) \o Finalize(packetLog))

-----------------------------------------------------------------------------
(* Steps of an operation.                                                  *)
At(do) == /\ phase = "running"
          /\ op.plan # <<>> /\ ~op.stale /\ slot # NoCard
          /\ Head(op.plan).do = do
Advance == op' = IF Tail(op.plan) = <<>> THEN Idle
                 ELSE [op EXCEPT !.plan = Tail(@)]
Now == card[slot][op.store]
File == Head(op.plan).file
Value == Head(op.plan).value
SetFile(pair) ==
  card' = [card EXCEPT ![slot][op.store].primary[File] = pair[1],
                       ![slot][op.store].backup[File] = pair[2]]

(* The bridge firmware answers "not_found" to any delete that fails, which *)
(* the blob store takes for a file that is already gone.                   *)
Delete(pair) == \E removed \in BOOLEAN :
                  /\ removed \/ DeleteMayFail
                  /\ IF removed THEN SetFile(pair) ELSE UNCHANGED card

DropBackup ==
  /\ At("drop_backup")
  /\ Delete(<<Now.primary[File], Absent>>)
  /\ Advance
  /\ UNCHANGED <<vars, slot, ram, sdFaults>>

Drop ==
  /\ At("drop")
  /\ Delete(<<Absent, Now.backup[File]>>)
  /\ Advance
  /\ UNCHANGED <<vars, slot, ram, sdFaults>>

(* Segments of the packet log are appended to in place.                    *)
Put ==
  /\ At("put")
  /\ SetFile(IF Segments(op.store, File) THEN <<Value, Absent>>
             ELSE Replaced(Now.primary[File], Now.backup[File], Value))
  /\ Advance
  /\ UNCHANGED <<vars, slot, ram, sdFaults>>

PutFails ==
  /\ At("put")
  /\ sdFaults < MaxSdFaults /\ sdFaults' = sdFaults + 1
  /\ \E pair \in IF Segments(op.store, File) THEN {<<Value, Absent>>}
                 ELSE Interrupted(Now.primary[File], Now.backup[File], Value) :
       SetFile(pair)
  /\ op' = Idle
  /\ UNCHANGED <<vars, slot, ram>>

(* The marker is read back before the fence comes down.                    *)
VerifyMarker ==
  /\ At("verify")
  /\ fence[op.store].gen = op.gen
  /\ IF MarkerMatches(slot, op.store) THEN Advance ELSE op' = Idle
  /\ UNCHANGED <<vars, card, slot, ram, sdFaults>>

\* Faulty variant: the lineage record is removed instead of cleared.
ClearFenceForgets ==
  /\ At("clear")
  /\ fence' = [fence EXCEPT ![op.store] = NoLineage]
  /\ Advance
  /\ UNCHANGED <<bootVars, journal, domain, readState, resets, faults,
                 card, slot, ram, sdFaults>>

ClearFence ==
  /\ At("clear")
  /\ \/ /\ ~fence[op.store].active
        /\ UNCHANGED vars
        /\ Advance
     \/ \E o \in Outcomes :
          /\ LineageClear(op.store, op.gen, o)
          /\ IF o = "ok" THEN Advance ELSE op' = Idle
  /\ UNCHANGED <<card, slot, ram, sdFaults>>

Get ==
  /\ At("get")
  /\ ram' = [ram EXCEPT ![op.store] = Older(@, Content(slot, op.store, File))]
  /\ Advance
  /\ UNCHANGED <<vars, card, slot, sdFaults>>

Stop ==
  /\ op.plan # <<>>
  /\ op' = Idle
  /\ UNCHANGED <<vars, card, slot, ram, sdFaults>>

Step == DropBackup \/ Drop \/ Put \/ PutFails \/ VerifyMarker \/ ClearFence
        \/ Get \/ Stop

-----------------------------------------------------------------------------
(* The rest of the running device.                                         *)
NewEntry(s) ==
  /\ phase = "running"
  /\ ram[s] = Absent
  /\ ram' = [ram EXCEPT ![s] = resets]
  /\ UNCHANGED <<vars, card, slot, op, sdFaults>>

(* note_sd_backend moves the backend generation when it sees a card go.    *)
(* The bridge's recover_file_ops_mount may mount another card before that. *)
Swap(c) ==
  /\ c # slot /\ slot' = c
  /\ \E noticed \in BOOLEAN :
       /\ noticed \/ SilentSwap
       /\ op' = [op EXCEPT !.stale = @ \/ (noticed /\ op.plan # <<>>)]
  /\ UNCHANGED <<vars, card, ram, sdFaults>>

(* Nothing in RAM outlives the device's going down.                        *)
Down ==
  /\ Restart \/ PowerFails
  /\ op' = Idle
  /\ ram' = [s \in StoreId |-> Absent]
  /\ UNCHANGED <<card, slot, sdFaults>>

(* A step of the reset: the request waits for the worker to be idle.       *)
ResetStep ==
  /\ \/ Boot
     \/ Request /\ op = Idle
     \/ Repair \/ JournalUnreadable
     \/ \E s \in StoreId : LineageUnreadable(s)
  /\ UNCHANGED sdVars

NextCards ==
  /\ UNCHANGED packetLog
  /\ \/ Step \/ Down \/ ResetStep \/ BeginAdopt
     \/ \E s \in StoreId : NewEntry(s)
     \/ \E s \in StoreId, k \in Keys :
          BeginRead(s, k) \/ BeginWrite(s, k) \/ BeginErase(s, k)
     \/ \E c \in Cards \cup {NoCard} : Swap(c)

SpecCards == Init /\ InitCards /\ [][NextCards]_allVars

-----------------------------------------------------------------------------
(* "A durable per-store lineage fence prevents a removable-SD history      *)
(* created before the last reset from being adopted after reset, including *)
(* when media was absent during reset" (factory_reset.h): whichever card   *)
(* is inserted, and wherever an adoption of it was cut short, what a store *)
(* would read from it or already holds is younger than the last reset.     *)
OldHistoryFenced ==
  phase = "running" =>
    \A s \in StoreId :
      /\ ram[s] \in {Absent, resets}
      /\ slot # NoCard /\ Ready(slot, s) =>
           \A k \in Keys : Content(slot, s, k) \in {Absent, resets}

(* A write that ends well can be read back, on the card it was written to: *)
(* the purge of an adoption precedes the write, and the fence comes down   *)
(* before the write is reported (sd_write_blob_with_lineage).              *)
WriteEnds(s, k) ==
  /\ op.kind = "write" /\ op.store = s /\ op.key = k
  /\ Len(op.plan) = 1
  /\ \/ Put
     \/ VerifyMarker /\ MarkerMatches(slot, s)
     \/ ClearFence /\ ~fence'[s].active /\ UNCHANGED faults

WriteReadable ==
  [][\A s \in StoreId, k \in Keys :
       WriteEnds(s, k) => (Ready(slot, s) /\ Content(slot, s, k) # Absent)']_allVars

(* The reset keeps its own guarantees with the cards in place: what the    *)
(* blob store does to the lineage records (sd_lineage_clear) and when it   *)
(* does it is within what factory_reset.c allows.                          *)
ResetSpec == Init /\ [][Next]_vars
=============================================================================
