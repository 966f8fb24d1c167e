----------------------------- MODULE ReadState ------------------------------
(***************************************************************************)
(* Read cursors (main/mesh/read_state.c): how far the user has read the    *)
(* public conversation, the direct messages as a whole, and each thread.   *)
(* A change is journalled in NVS, written to the SD card, and the journal  *)
(* is then retired.  Cards come and go between any two steps.              *)
(*                                                                         *)
(* s_persist_io_lock is held throughout an operation, so one runs at a     *)
(* time; `op` is the operation and where it stands.  A backend generation  *)
(* is only ever compared with the current one: `fresh` says that the       *)
(* accepted generation is current, op.fence that the operation's own is.   *)
(***************************************************************************)
EXTENDS Naturals, Sequences, FiniteSets

CONSTANTS
  Threads,      \* the contacts that write direct messages
  Capacity,     \* D1L_READ_STATE_DM_THREAD_CAPACITY
  Cards,        \* the SD cards that are ever inserted
  NoCard,
  MaxRows,      \* bound: messages held at a time, and clears
  MaxClears,    \* bound: clears of the direct messages
  MaxFaults     \* bound: reads and writes that fail

ASSUME ReadAssumption == /\ NoCard \notin Cards
                         /\ {"public", "dm"} \cap Threads = {}
                         /\ IsFiniteSet(Threads)
                         /\ Capacity \in Nat \ {0}
                         /\ MaxRows \in Nat /\ MaxClears \in Nat /\ MaxFaults \in Nat

VARIABLES
  ram,          \* s_state
  loaded, local, sdDirty, reconcile, nvsDirty,  \* local: authority is LOCAL
  fresh,        \* s_accepted_sd_backend_generation is the current one
  op,           \* the operation that holds s_persist_io_lock
  journal,      \* the NVS fallback, or Absent
  card,         \* the blob on each card, or Absent
  slot,         \* the card in the slot
  public,       \* public messages received; their numbers are never reused
  rows,         \* the senders of the direct messages since the last clear
  clears, faults,
  promised,     \* history: the cursors of the marks that were reported done
  marked        \* history: something was marked in the present numbering

flags     == <<loaded, local, sdDirty, reconcile, nvsDirty>>
storeVars == <<public, rows, clears>>
history   == <<promised, marked>>
vars == <<ram, flags, fresh, op, journal, card, slot, storeVars, faults, history>>

Keys    == {"public", "dm"} \cup Threads
Cursors == [Keys -> Nat]                 \* 0: no cursor
Blank   == [k \in Keys |-> 0]
Absent  == [k \in {} |-> 0]              \* no blob
Larger(a, b) == IF a < b THEN b ELSE a

Idle  == [pc |-> "idle", mark |-> FALSE, init |-> FALSE, fence |-> FALSE,
          value |-> Blank]

Init ==
  /\ ram = Blank
  /\ loaded = FALSE /\ local = FALSE /\ sdDirty = FALSE /\ reconcile = FALSE
  /\ nvsDirty = FALSE /\ fresh = FALSE
  /\ op = Idle
  /\ journal = Absent
  /\ card = [c \in Cards |-> Absent]
  /\ slot \in Cards \cup {NoCard}
  /\ public = 0 /\ rows = <<>> /\ clears = 0 /\ faults = 0
  /\ promised = Blank /\ marked = FALSE

-----------------------------------------------------------------------------
(* What the user is shown.                                                 *)

(* A cursor beyond the newest number is of an earlier numbering: ignored.  *)
InNumbering(cursor, newest) == IF cursor > newest THEN 0 ELSE cursor

PublicRead  == InNumbering(ram["public"], public)
DmRead      == InNumbering(ram["dm"], Len(rows))
ThreadRead(t) == InNumbering(Larger(ram[t], ram["dm"]), Len(rows))

RowsOf(t) == {i \in 1 .. Len(rows) : rows[i] = t}
Newest(t) == {i \in RowsOf(t) : \A j \in RowsOf(t) : j <= i}   \* of t, if any

-----------------------------------------------------------------------------
(* Cursors.                                                                *)
Tracked(s)  == {t \in Threads : s[t] > 0}
(* Faulty: the local cursors take the place of the card's. *)
MergedLocal(a, b) == a
Merged(a, b) == [k \in Keys |-> Larger(a[k], b[k])]

(* merge_monotonic drops no cursor: with no room for one it fails.         *)
MergeFits(a, b) == \A t \in Tracked(b) \ Tracked(a) :
                     Cardinality(Tracked(Merged(a, b))) <= Capacity

(* upsert_dm_cursor takes the place of the lowest cursor in a full table.  *)
Lowest(s) == {t \in Tracked(s) : \A u \in Tracked(s) : s[t] <= s[u]}
Upserted(s, t, n) ==
  IF s[t] > 0 \/ Cardinality(Tracked(s)) < Capacity
  THEN {[s EXCEPT ![t] = n]}
  ELSE {[s EXCEPT ![t] = n, ![u] = 0] : u \in Lowest(s)}

(* What the four marks ask for; nothing when there is nothing new to read. *)
PublicMark == IF public > PublicRead THEN {[ram EXCEPT !["public"] = public]} ELSE {}
DmMark == IF Len(rows) > DmRead THEN {[ram EXCEPT !["dm"] = Len(rows)]} ELSE {}
AllMark == {[new EXCEPT !["public"] = IF public > PublicRead THEN public ELSE @] : new \in DmMark}
ThreadMark(t) == UNION {Upserted(ram, t, n) : n \in {i \in Newest(t) : i > ThreadRead(t)}}

Marks == PublicMark \cup DmMark \cup AllMark \cup UNION {ThreadMark(t) : t \in Threads}

-----------------------------------------------------------------------------
(* The steps of an operation.                                              *)
At(pc) == op.pc = pc
Goto(pc) == op' = [op EXCEPT !.pc = pc]
Clean == local' = FALSE /\ sdDirty' = FALSE /\ reconcile' = FALSE /\ nvsDirty' = FALSE
Fault == faults < MaxFaults /\ faults' = faults + 1

(* The load, the flush after it, and the mark itself follow one another.   *)
Succeed ==
  /\ op' = IF op.init THEN [op EXCEPT !.pc = "flush", !.init = FALSE]
           ELSE IF op.mark THEN [op EXCEPT !.pc = "mark"] ELSE Idle
  /\ loaded' = loaded
(* Faulty: after a failed write the operation goes on. *)
GiveUpLater ==
  /\ op' = IF At("write") THEN [op EXCEPT !.pc = "retire"] ELSE Idle
  /\ loaded' = (loaded /\ ~op.init)
GiveUp ==
  /\ op' = Idle
  /\ loaded' = (loaded /\ ~op.init)

Begin(mark) ==
  /\ At("idle")
  /\ op' = [Idle EXCEPT !.pc = IF loaded THEN "flush" ELSE "load", !.mark = mark]
  /\ UNCHANGED <<ram, flags, fresh, journal, card, slot, storeVars, faults, history>>

(* init_locked, up to its flush.                                           *)
Load ==
  /\ At("load")
  /\ fresh' = TRUE
  /\ \/ /\ Fault
        /\ ram' = Blank /\ op' = Idle
        /\ loaded' = FALSE /\ Clean
     \/ /\ ram' = IF journal = Absent THEN Blank ELSE journal
        /\ local' = (journal # Absent) /\ sdDirty' = local' /\ nvsDirty' = FALSE
        /\ loaded' = TRUE
        /\ reconcile' = (local' \/ slot # NoCard)
        /\ op' = [op EXCEPT !.pc = "flush", !.init = slot # NoCard]
        /\ UNCHANGED faults
  /\ UNCHANGED <<journal, card, slot, storeVars, history>>

(* flush_loaded.                                                           *)
Flush ==
  /\ At("flush")
  /\ \/ /\ nvsDirty /\ Fault
        /\ journal' \in {journal, ram}
        /\ GiveUp
        /\ UNCHANGED <<nvsDirty, reconcile>>
     \/ /\ journal' = IF nvsDirty THEN ram ELSE journal
        /\ nvsDirty' = FALSE
        /\ IF slot = NoCard
           THEN Succeed /\ reconcile' = (reconcile \/ local \/ sdDirty)
           ELSE /\ reconcile' = (reconcile \/ ~fresh)
                /\ IF reconcile' \/ sdDirty
                   THEN /\ op' = [op EXCEPT !.pc = "read", !.fence = TRUE]
                        /\ loaded' = loaded
                   ELSE Succeed
        /\ UNCHANGED faults
  /\ UNCHANGED <<ram, local, sdDirty, fresh, card, slot, storeVars, history>>

(* reconcile_current_sd: the read and the choice of what replaces it.      *)
Read ==
  /\ At("read")
  /\ LET theirs == IF slot = NoCard \/ card[slot] = Absent THEN Blank ELSE card[slot]
         value == IF local THEN Merged(ram, theirs) ELSE theirs
     IN  \/ /\ \/ ~op.fence /\ UNCHANGED faults
               \/ op.fence /\ Fault
               \/ op.fence /\ local /\ ~MergeFits(ram, theirs) /\ UNCHANGED faults
            /\ GiveUp /\ reconcile' = TRUE
         \/ /\ op.fence /\ (local => MergeFits(ram, theirs))
            /\ op' = [op EXCEPT !.value = value,
                                !.pc = IF local /\ value # card[slot]
                                       THEN "write" ELSE "retire"]
            /\ UNCHANGED <<loaded, reconcile, faults>>
  /\ UNCHANGED <<ram, local, sdDirty, nvsDirty, fresh, journal, card, slot, storeVars, history>>

WriteCard ==
  /\ At("write")
  /\ \/ /\ ~op.fence /\ GiveUp /\ reconcile' = TRUE
        /\ UNCHANGED <<card, faults>>
     \/ /\ op.fence /\ Fault /\ GiveUp /\ reconcile' = TRUE
        /\ card' \in {card, [card EXCEPT ![slot] = op.value]}
     \/ /\ op.fence /\ Goto("retire")
        /\ card' = [card EXCEPT ![slot] = op.value]
        /\ UNCHANGED <<loaded, reconcile, faults>>
  /\ UNCHANGED <<ram, local, sdDirty, nvsDirty, fresh, journal, slot, storeVars, history>>

(* The journal is erased once the card holds what it said.                 *)
Retire ==
  /\ At("retire")
  /\ \/ /\ ~op.fence /\ GiveUp /\ reconcile' = TRUE
        /\ UNCHANGED <<journal, nvsDirty, faults>>
     \/ /\ op.fence /\ local /\ Fault /\ GiveUp
        /\ journal' \in {journal, Absent}
        /\ reconcile' = TRUE /\ nvsDirty' = TRUE
     \/ /\ op.fence /\ Goto("apply")
        /\ journal' = IF local THEN Absent ELSE journal
        /\ UNCHANGED <<loaded, reconcile, nvsDirty, faults>>
  /\ UNCHANGED <<ram, local, sdDirty, fresh, card, slot, storeVars, history>>

(* The card was replaced while the journal was erased: write it again.     *)
JournalAgain ==
  /\ ~op.fence /\ GiveUp /\ reconcile' = TRUE
  /\ \/ /\ local /\ Fault
        /\ nvsDirty' = TRUE /\ journal' \in {journal, ram}
     \/ /\ local
        /\ nvsDirty' = FALSE /\ journal' = ram
        /\ UNCHANGED faults
     \/ ~local /\ UNCHANGED <<nvsDirty, journal, faults>>
  /\ UNCHANGED <<ram, local, sdDirty, fresh>>

Apply ==
  /\ At("apply")
  /\ \/ JournalAgain
     \/ /\ op.fence /\ Succeed
        /\ ram' = op.value /\ fresh' = TRUE
        /\ Clean
        /\ UNCHANGED <<journal, faults>>
  /\ UNCHANGED <<card, slot, storeVars, history>>

(* The cursors a mark changes are journalled or rolled back; with the      *)
(* accepted card still there they go to it at once.  A cursor that a mark  *)
(* lowers or evicts is promised no longer, whatever becomes of the mark.   *)
MarkStep(new) ==
  /\ marked' = TRUE
  /\ \/ /\ Fault /\ op' = Idle
        /\ journal' \in {journal, new}
        /\ promised' = [k \in Keys |-> IF new[k] < ram[k] /\ new[k] < promised[k]
                                       THEN new[k] ELSE promised[k]]
        /\ UNCHANGED <<ram, flags>>
     \/ /\ journal' = new /\ ram' = new
        /\ local' = TRUE /\ sdDirty' = TRUE /\ reconcile' = TRUE /\ nvsDirty' = FALSE
        /\ promised' = [k \in Keys |-> IF new[k] # ram[k] THEN new[k] ELSE promised[k]]
        /\ op' = IF slot = NoCard \/ ~fresh THEN Idle
                 ELSE [op EXCEPT !.pc = "write", !.mark = FALSE, !.fence = TRUE, !.value = new]
        /\ UNCHANGED <<loaded, faults>>
Mark ==
  /\ At("mark")
  /\ \/ /\ op' = Idle          \* nothing new in what was to be marked
        /\ UNCHANGED <<ram, flags, journal, faults, history>>
     \/ \E new \in Marks : MarkStep(new)
  /\ UNCHANGED <<fresh, card, slot, storeVars>>

Step == Load \/ Flush \/ Read \/ WriteCard \/ Retire \/ Apply \/ Mark

-----------------------------------------------------------------------------
(* What goes on around it.                                                 *)
ReceivePublic ==
  /\ public + Len(rows) + clears < MaxRows /\ public' = public + 1
  /\ UNCHANGED <<ram, flags, fresh, op, journal, card, slot, rows, clears, faults, history>>

Receive(t) ==
  /\ public + Len(rows) + clears < MaxRows /\ rows' = Append(rows, t)
  /\ UNCHANGED <<ram, flags, fresh, op, journal, card, slot, public, clears, faults, history>>

(* "messages dm clear": the numbers of the direct messages start again at  *)
(* 1; the mark that follows finds nothing to read.                         *)
ClearDm ==
  /\ At("idle") /\ clears < MaxClears /\ clears' = clears + 1
  /\ rows' = <<>>
  /\ marked' = FALSE
  /\ op' = [Idle EXCEPT !.pc = IF loaded THEN "flush" ELSE "load", !.mark = TRUE]
  /\ UNCHANGED <<ram, flags, fresh, journal, card, slot, public, faults, promised>>

(* The card is taken out or one is put in: a new backend generation.  With *)
(* the fence gone op.value is not used again.                              *)
Swap(c) ==
  /\ (slot = NoCard) # (c = NoCard) /\ slot' = c
  /\ fresh' = FALSE /\ op' = [op EXCEPT !.fence = FALSE, !.value = Blank]
  /\ UNCHANGED <<ram, flags, journal, card, storeVars, faults, history>>

Reboot ==
  /\ ram' = Blank
  /\ loaded' = FALSE /\ Clean /\ fresh' = FALSE
  /\ op' = Idle
  /\ UNCHANGED <<journal, card, slot, storeVars, faults, history>>

Next ==
  \/ \E mark \in BOOLEAN : Begin(mark)
  \/ Step
  \/ ReceivePublic \/ ClearDm \/ Reboot
  \/ \E t \in Threads : Receive(t)
  \/ \E c \in Cards \cup {NoCard} : Swap(c)

Spec == Init /\ [][Next]_vars

-----------------------------------------------------------------------------
(* The type of each variable.                                              *)
TypeOK ==
  /\ ram \in Cursors /\ promised \in Cursors
  /\ loaded \in BOOLEAN /\ local \in BOOLEAN /\ sdDirty \in BOOLEAN
  /\ reconcile \in BOOLEAN /\ nvsDirty \in BOOLEAN /\ fresh \in BOOLEAN
  /\ op \in [pc : {"idle", "load", "flush", "read", "write", "retire", "apply", "mark"},
             mark : BOOLEAN, init : BOOLEAN, fence : BOOLEAN, value : Cursors]
  /\ journal \in Cursors \cup {Absent}
  /\ card \in [Cards -> Cursors \cup {Absent}]
  /\ slot \in Cards \cup {NoCard}
  /\ public \in Nat /\ rows \in Seq(Threads) /\ clears \in Nat /\ faults \in Nat
  /\ marked \in BOOLEAN

(* A mark that was reported done is never lost: its cursor is in RAM's     *)
(* journal or on a card, wherever the operation, the power or the card     *)
(* change came in between (persist_mutation_or_rollback and                *)
(* reconcile_current_sd erase the journal last).                           *)
Held(blob, k, n) == blob # Absent /\ blob[k] >= n
Recoverable ==
  \A k \in Keys :
    promised[k] > 0 => \/ Held(journal, k, promised[k])
                       \/ \E c \in Cards : Held(card[c], k, promised[k])

(* A restart shows nothing again as unread: what the running device counts *)
(* as read is in what init_locked would merge from the accepted card and   *)
(* the journal.                                                            *)
RebootKeeps ==
  loaded /\ fresh /\ slot # NoCard =>
    \A k \in Keys : ram[k] > 0 => Held(journal, k, ram[k]) \/ Held(card[slot], k, ram[k])

(* No card's cursor ever moves backwards (merge_monotonic), whichever      *)
(* cards the journal's cursors were read from, unless upsert_dm_cursor     *)
(* gave it up in a full table or the numbering started again.              *)
CursorKept(c, k) ==
  \/ clears > 0
  \/ Held(card'[c], k, card[c][k])
  \/ k \in Threads /\ Cardinality(Tracked(card'[c])) = Capacity
CardsMonotone ==
  [][\A c \in Cards : card[c] # Absent => \A k \in Keys : CursorKept(c, k)]_vars

(* "A cursor outside the new generation must not suppress new seq=1 rows"  *)
(* (dm_thread_read_seq_for_blob): after a clear no direct message is shown  *)
(* as read before the user has marked anything.                            *)
OldCursorHidesNothing == \A t \in Threads : ~marked => ThreadRead(t) = 0

=============================================================================
