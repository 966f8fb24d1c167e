-------------------------- MODULE ReadStateProofs ---------------------------
(* Proofs about ReadState: for any threads, table size, cards, messages,     *)
(* clears and failures, a reported mark stays recoverable, a restart shows   *)
(* nothing as unread that was shown as read, and no card goes backwards.     *)
EXTENDS ReadState, FiniteSetTheorems, TLAPS

(* Every cursor of b is held by a. *)
Covers(a, b) == b = Absent \/ (a # Absent /\ \A k \in Keys : a[k] >= b[k])

(* A reported mark that no card holds is still in RAM, under the journal's  *)
(* authority: what Load, Retire and Apply rely on.                          *)
OnCard(k) == \E c \in Cards : Held(card[c], k, promised[k])
RamHolds ==
  loaded => \A k \in Keys :
    promised[k] > 0 => OnCard(k) \/ (local /\ ram[k] >= promised[k])

(* Where an operation may stand, given the flags.                           *)
FlagsOK ==
  /\ nvsDirty => local
  /\ loaded /\ local => reconcile
  /\ op.pc \notin {"idle", "load"} => loaded
  /\ op.pc \in {"read", "write", "retire", "apply"} /\ op.fence => slot # NoCard
  /\ op.pc = "write" => local
  /\ op.pc = "mark" /\ fresh /\ slot # NoCard => ~reconcile
  /\ op.pc \in {"read", "write", "retire", "apply"} /\ ~op.fence => ~fresh

(* The accepted card, once reconciled, has nothing that RAM has not; and    *)
(* what RAM has is on the card or in the journal.                           *)
CardCovered ==
  loaded /\ fresh /\ slot # NoCard /\ ~reconcile => Covers(ram, card[slot])
RamKept ==
  loaded /\ fresh /\ slot # NoCard =>
    \A k \in Keys : ram[k] > 0 => \/ Held(card[slot], k, ram[k])
                                  \/ local /\ Held(journal, k, ram[k])

(* What is about to be written to the card gives up no promise; what was    *)
(* written is what will be accepted, and covers RAM.                        *)
WriteSafe ==
  op.pc = "write" /\ op.fence =>
    /\ \A k \in Keys : /\ op.value[k] >= ram[k]
                       /\ promised[k] > 0 /\ Held(card[slot], k, promised[k])
                            => op.value[k] >= promised[k]
Written ==
  op.pc \in {"retire", "apply"} /\ op.fence =>
    /\ card[slot] = op.value \/ (~local /\ card[slot] = Absent /\ op.value = Blank)
    /\ local => \A k \in Keys : op.value[k] >= ram[k]

(* The inductive invariant. *)
Safe    == Recoverable /\ RamHolds /\ FlagsOK /\ CardCovered /\ RamKept /\ WriteSafe /\ Written
ReadInv == TypeOK /\ Safe

(* The types of the flags and of an operation.                              *)
FlagsTyped == /\ loaded \in BOOLEAN /\ local \in BOOLEAN /\ sdDirty \in BOOLEAN
              /\ reconcile \in BOOLEAN /\ nvsDirty \in BOOLEAN /\ fresh \in BOOLEAN
Pcs == {"idle", "load", "flush", "read", "write", "retire", "apply", "mark"}
Ops == [pc : Pcs, mark : BOOLEAN, init : BOOLEAN, fence : BOOLEAN, value : Cursors]

-----------------------------------------------------------------------------
(* A blob is not the absence of one, and its cursors are numbers.           *)
LEMMA BlobFacts ==
  ASSUME NEW s \in Cursors
  PROVE  s # Absent /\ \A k \in Keys : s[k] \in Nat
<1>1. DOMAIN s = Keys /\ "public" \in Keys
  BY DEF Cursors, Keys
<1>2. DOMAIN Absent = {}
  BY DEF Absent
<1> QED
  BY <1>1, <1>2 DEF Cursors

LEMMA BlankFacts ==
  /\ Blank \in Cursors
  /\ \A k \in Keys : Blank[k] = 0
BY DEF Blank, Cursors

LEMMA IdleFacts ==
  /\ Idle \in Ops
  /\ Idle.pc = "idle" /\ Idle.init = FALSE /\ Idle.fence = FALSE
BY BlankFacts DEF Idle, Ops, Pcs

(* Merging keeps the cursors of both sides.                                 *)
LEMMA MergedFacts ==
  ASSUME NEW a \in Cursors, NEW b \in Cursors
  PROVE  /\ Merged(a, b) \in Cursors
         /\ \A k \in Keys : Merged(a, b)[k] >= a[k] /\ Merged(a, b)[k] >= b[k]
BY DEF Merged, Larger, Cursors

(* A mark asks for a table of cursors.                                      *)
LEMMA MarksFacts ==
  ASSUME TypeOK
  PROVE  \A new \in Marks : new \in Cursors
<1>1. "public" \in Keys /\ "dm" \in Keys /\ Threads \subseteq Keys
  BY DEF Keys
<1>2. ram \in Cursors /\ public \in Nat /\ Len(rows) \in Nat
  BY DEF TypeOK
<1>3. \A new \in PublicMark : new \in Cursors
  BY <1>1, <1>2 DEF PublicMark, Cursors
<1>4. \A new \in DmMark : new \in Cursors
  BY <1>1, <1>2 DEF DmMark, Cursors
<1>5. \A new \in AllMark : new \in Cursors
  <2> TAKE new \in AllMark
  <2>1. PICK old \in DmMark :
          new = [old EXCEPT !["public"] = IF public > PublicRead THEN public ELSE @]
    BY DEF AllMark
  <2> QED
    BY <1>1, <1>2, <1>4, <2>1 DEF Cursors
<1>6. ASSUME NEW t \in Threads, NEW new \in ThreadMark(t) PROVE new \in Cursors
  <2>1. PICK n \in RowsOf(t) : new \in Upserted(ram, t, n)
    BY <1>6 DEF ThreadMark, Newest
  <2>2. n \in Nat
    BY <1>2, <2>1 DEF RowsOf
  <2>3. \/ new = [ram EXCEPT ![t] = n]
        \/ \E u \in Threads : new = [ram EXCEPT ![t] = n, ![u] = 0]
    BY <2>1 DEF Upserted, Lowest, Tracked
  <2> QED
    BY <1>1, <1>2, <2>2, <2>3 DEF Cursors
<1> QED
  BY <1>3, <1>4, <1>5, <1>6 DEF Marks

-----------------------------------------------------------------------------
(* The type invariant.                                                      *)
LEMMA TypeInit == Init => TypeOK
<1> SUFFICES ASSUME Init PROVE TypeOK
  OBVIOUS
<1>1. FlagsTyped /\ marked \in BOOLEAN
  BY Zenon DEF Init, FlagsTyped
<1>2. op \in Ops
  BY IdleFacts DEF Init
<1>3. card \in [Cards -> Cursors \cup {Absent}]
  BY DEF Init
<1>4. rows \in Seq(Threads) /\ public \in Nat /\ clears \in Nat /\ faults \in Nat
  BY DEF Init
<1>5. ram \in Cursors /\ promised \in Cursors /\ journal \in Cursors \cup {Absent}
  BY BlankFacts DEF Init
<1> QED
  BY <1>1, <1>2, <1>3, <1>4, <1>5 DEF Init, TypeOK, FlagsTyped, Ops, Pcs

LEMMA TypeStep == TypeOK /\ [Next]_vars => TypeOK'
<1> SUFFICES ASSUME TypeOK, [Next]_vars PROVE TypeOK'
  OBVIOUS
<1>0. /\ op \in Ops /\ Idle \in Ops /\ Blank \in Cursors
      /\ ram \in Cursors /\ op.value \in Cursors /\ FlagsTyped
      /\ op.init \in BOOLEAN
  BY BlankFacts, IdleFacts DEF TypeOK, Ops, Pcs, FlagsTyped
<1>1. CASE \E mark \in BOOLEAN : Begin(mark)
  <2>1. op' \in Ops
    BY <1>0, <1>1 DEF Begin, Ops, Pcs
  <2> QED
    BY <1>1, <2>1 DEF Begin, TypeOK, flags, storeVars, history, Ops, Pcs
<1>2. CASE Load
  <2>1. op' \in Ops
    BY <1>0, <1>2 DEF Load, Ops, Pcs
  <2>2. ram' \in Cursors
    BY <1>0, <1>2 DEF Load, TypeOK
  <2>3. FlagsTyped'
    BY <1>2, Zenon DEF Load, Clean, FlagsTyped
  <2> QED
    BY <1>2, <2>1, <2>2, <2>3 DEF Load, Fault, TypeOK, storeVars, history, Ops, Pcs, FlagsTyped
<1>3. CASE Flush
  <2>1. op' \in Ops
    BY <1>0, <1>3 DEF Flush, GiveUp, Succeed, Ops, Pcs
  <2>2. FlagsTyped'
    BY <1>0, <1>3, Zenon DEF Flush, GiveUp, Succeed, FlagsTyped
  <2> QED
    BY <1>0, <1>3, <2>1, <2>2 DEF Flush, Fault, TypeOK, storeVars, history, Ops, Pcs, FlagsTyped
<1>4. CASE Read
  <2>1. op' \in Ops
    <3> DEFINE theirs == IF slot = NoCard \/ card[slot] = Absent THEN Blank ELSE card[slot]
               value == IF local THEN Merged(ram, theirs) ELSE theirs
    <3>1. theirs \in Cursors
      BY <1>0 DEF TypeOK
    <3>2. value \in Cursors
      BY <1>0, <3>1, MergedFacts
    <3>3. \/ op' = Idle
          \/ op' = [op EXCEPT !.value = value,
                              !.pc = IF local /\ value # card[slot] THEN "write" ELSE "retire"]
      BY <1>4 DEF Read, GiveUp
    <3> QED
      BY <1>0, <3>2, <3>3 DEF Ops, Pcs
  <2>2. FlagsTyped'
    BY <1>0, <1>4, Zenon DEF Read, GiveUp, FlagsTyped
  <2> QED
    BY <1>4, <2>1, <2>2 DEF Read, Fault, TypeOK, storeVars, history, Ops, Pcs, FlagsTyped
<1>5. CASE WriteCard
  <2>1. op' \in Ops
    BY <1>0, <1>5 DEF WriteCard, GiveUp, Goto, Ops, Pcs
  <2>2. card' \in [Cards -> Cursors \cup {Absent}]
    BY <1>0, <1>5 DEF WriteCard, TypeOK
  <2>3. FlagsTyped'
    BY <1>0, <1>5, Zenon DEF WriteCard, GiveUp, FlagsTyped
  <2> QED
    BY <1>5, <2>1, <2>2, <2>3 DEF WriteCard, Fault, TypeOK, storeVars, history, Ops, Pcs, FlagsTyped
<1>6. CASE Retire
  <2>1. op' \in Ops
    BY <1>0, <1>6 DEF Retire, GiveUp, Goto, Ops, Pcs
  <2>2. FlagsTyped'
    BY <1>0, <1>6, Zenon DEF Retire, GiveUp, FlagsTyped
  <2> QED
    BY <1>6, <2>1, <2>2 DEF Retire, Fault, TypeOK, storeVars, history, Ops, Pcs, FlagsTyped
<1>7. CASE Apply
  <2>1. op' \in Ops
    <3>1. CASE JournalAgain
      BY <1>0, <3>1 DEF JournalAgain, GiveUp
    <3>2. CASE Succeed
      BY <1>0, <3>2 DEF Succeed, Ops, Pcs
    <3> QED
      BY <1>7, <3>1, <3>2 DEF Apply
  <2>2. FlagsTyped'
    BY <1>0, <1>7, Zenon DEF Apply, JournalAgain, GiveUp, Succeed, Clean, FlagsTyped
  <2> QED
    <3>1. UNCHANGED <<card, slot, storeVars, history>>
      BY <1>7 DEF Apply
    <3>2. ram' \in Cursors
      BY <1>0, <1>7 DEF Apply, JournalAgain
    <3>3. journal' \in Cursors \cup {Absent} /\ faults' \in Nat
      <4>1. journal' \in {journal, ram} /\ (UNCHANGED faults \/ Fault)
        BY <1>7 DEF Apply, JournalAgain
      <4> QED
        BY <1>0, <4>1 DEF TypeOK, Fault
    <3> QED
      BY <2>1, <2>2, <3>1, <3>2, <3>3 DEF TypeOK, storeVars, history, Ops, Pcs, FlagsTyped
<1>8. CASE Mark
  <2>1. CASE op' = Idle /\ UNCHANGED <<ram, flags, journal, faults, history>>
    BY <1>0, <1>8, <2>1 DEF Mark, TypeOK, flags, storeVars, history, Ops, Pcs
  <2>2. CASE \E new \in Marks : MarkStep(new)
    <3>1. PICK new \in Marks : MarkStep(new)
      BY <2>2
    <3>2. new \in Cursors
      BY MarksFacts, <3>1
    <3>3. op' \in Ops
      BY <1>0, <3>1, <3>2 DEF MarkStep, Ops, Pcs
    <3>4. promised' \in Cursors
      BY <1>0, <3>1, <3>2 DEF MarkStep, TypeOK, Cursors
    <3>5. FlagsTyped'
      BY <1>0, <1>8, <3>1, Zenon DEF Mark, MarkStep, FlagsTyped, flags
    <3>6. ram' \in Cursors /\ journal' \in Cursors \cup {Absent} /\ faults' \in Nat
      BY <1>0, <3>1, <3>2 DEF MarkStep, Fault, TypeOK
    <3>7. marked' \in BOOLEAN
      BY <3>1, Zenon DEF MarkStep
    <3>8. UNCHANGED <<card, slot, public, rows, clears>>
      BY <1>8 DEF Mark, storeVars
    <3> QED
      BY <3>3, <3>4, <3>5, <3>6, <3>7, <3>8 DEF TypeOK, Ops, Pcs, FlagsTyped
  <2> QED
    BY <1>8, <2>1, <2>2 DEF Mark
<1>9. CASE ReceivePublic
  BY <1>9 DEF ReceivePublic, TypeOK, flags, history
<1>10. CASE \E t \in Threads : Receive(t)
  BY <1>10 DEF Receive, TypeOK, flags, history
<1>11. CASE ClearDm
  <2>1. op' \in Ops
    BY <1>0, <1>11 DEF ClearDm, Ops, Pcs
  <2>2. rows' \in Seq(Threads) /\ clears' \in Nat
    BY <1>11 DEF ClearDm, TypeOK
  <2>3. FlagsTyped' /\ marked' = FALSE
    BY <1>0, <1>11, Zenon DEF ClearDm, flags, FlagsTyped
  <2> QED
    BY <1>11, <2>1, <2>2, <2>3 DEF ClearDm, TypeOK, Ops, Pcs, FlagsTyped
<1>12. CASE Reboot
  BY <1>0, <1>12 DEF Reboot, Clean, TypeOK, storeVars, history, Ops, Pcs
<1>13. CASE \E c \in Cards \cup {NoCard} : Swap(c)
  <2>1. op' \in Ops
    BY <1>0, <1>13 DEF Swap, Ops, Pcs
  <2> QED
    BY <1>13, <2>1 DEF Swap, TypeOK, flags, storeVars, history, Ops, Pcs
<1>14. CASE UNCHANGED vars
  BY <1>14 DEF vars, TypeOK, flags, storeVars, history
<1> QED
  BY <1>1, <1>2, <1>3, <1>4, <1>5, <1>6, <1>7, <1>8, <1>9, <1>10, <1>11, <1>12, <1>13,
     <1>14 DEF Next, Step

-----------------------------------------------------------------------------
(* Where no value is being handed to the card, nothing is said of one.      *)
LEMMA Settled ==
  ASSUME op.pc \notin {"write", "retire", "apply"}
  PROVE  WriteSafe /\ Written
BY DEF WriteSafe, Written

(* RAM in the journal: what RAM holds under the journal's authority is      *)
(* then in the journal.                                                     *)
LEMMA RamJournalled ==
  ASSUME ReadInv, loaded, NEW blob \in {journal, ram}
  PROVE  /\ \A k \in Keys : promised[k] > 0 => OnCard(k) \/ Held(blob, k, promised[k])
         /\ local /\ fresh /\ slot # NoCard =>
              \A k \in Keys : ram[k] > 0 => Held(card[slot], k, ram[k]) \/ Held(blob, k, ram[k])
<1>1. ram # Absent /\ \A k \in Keys : ram[k] \in Nat
  BY BlobFacts DEF ReadInv, TypeOK
<1>2. CASE blob = journal
  BY <1>2 DEF ReadInv, Safe, Recoverable, RamKept, OnCard
<1>3. CASE blob = ram
  <2>1. ASSUME NEW k \in Keys, promised[k] > 0 PROVE OnCard(k) \/ Held(blob, k, promised[k])
    BY <1>1, <1>3, <2>1 DEF ReadInv, Safe, RamHolds, Held
  <2>2. ASSUME NEW k \in Keys PROVE Held(blob, k, ram[k])
    BY <1>1, <1>3 DEF Held
  <2> QED
    BY <2>1, <2>2
<1> QED
  BY <1>2, <1>3

(* A card that covers RAM holds every reported mark that RAM held.          *)
LEMMA AllOnCard ==
  ASSUME ReadInv, op.fence, op.pc \in {"retire", "apply"}
  PROVE  /\ loaded /\ slot \in Cards
         /\ \A k \in Keys : promised[k] > 0 => OnCard(k)
         /\ local => \A k \in Keys : Held(card[slot], k, ram[k])
<1>1. loaded /\ slot \in Cards
  BY DEF ReadInv, Safe, FlagsOK, TypeOK
<1>2. op.value \in Cursors /\ ram \in Cursors /\ promised \in Cursors
  BY DEF ReadInv, TypeOK
<1>3. op.value # Absent /\ \A k \in Keys : op.value[k] \in Nat /\ ram[k] \in Nat /\ promised[k] \in Nat
  BY <1>2, BlobFacts
<1>4. ASSUME local PROVE card[slot] = op.value /\ \A k \in Keys : op.value[k] >= ram[k]
  BY <1>4 DEF ReadInv, Safe, Written
<1>5. local => \A k \in Keys : Held(card[slot], k, ram[k])
  BY <1>3, <1>4 DEF Held
<1>6. ASSUME NEW k \in Keys, promised[k] > 0 PROVE OnCard(k)
  <2>1. OnCard(k) \/ (local /\ ram[k] >= promised[k])
    BY <1>1, <1>6 DEF ReadInv, Safe, RamHolds
  <2>2. CASE local /\ ram[k] >= promised[k]
    <3>1. Held(card[slot], k, promised[k])
      BY <1>3, <1>4, <2>2 DEF Held
    <3> QED
      BY <1>1, <3>1 DEF OnCard
  <2> QED
    BY <2>1, <2>2
<1> QED
  BY <1>1, <1>5, <1>6

-----------------------------------------------------------------------------
(* Steps that touch neither the cursors nor where they are kept.            *)
LEMMA QuietStep ==
  ASSUME ReadInv,
         UNCHANGED <<ram, flags, fresh, journal, card, slot, promised>>,
         op' = op \/ op'.pc \in {"idle", "load"} \/ (op'.pc = "flush" /\ loaded)
  PROVE  Safe'
<1>1. Recoverable' /\ RamHolds' /\ CardCovered' /\ RamKept'
  BY DEF ReadInv, Safe, Recoverable, RamHolds, OnCard, CardCovered, RamKept, flags
<1>2. FlagsOK'
  BY Zenon DEF ReadInv, Safe, FlagsOK, flags
<1>3. WriteSafe' /\ Written'
  BY DEF ReadInv, Safe, WriteSafe, Written, flags
<1> QED
  BY <1>1, <1>2, <1>3 DEF Safe

LEMMA BeginStep ==
  ASSUME ReadInv, NEW mark \in BOOLEAN, Begin(mark) PROVE Safe'
<1>1. op'.pc = IF loaded THEN "flush" ELSE "load"
  BY IdleFacts DEF Begin, Ops
<1>2. op'.pc = "load" \/ (op'.pc = "flush" /\ loaded)
  BY <1>1, Zenon
<1>3. UNCHANGED <<ram, flags, fresh, journal, card, slot, promised>>
  BY DEF Begin, history
<1> QED
  BY <1>2, <1>3, QuietStep

LEMMA ClearStep ==
  ASSUME ReadInv, ClearDm PROVE Safe'
<1>1. op'.pc = IF loaded THEN "flush" ELSE "load"
  BY IdleFacts DEF ClearDm, Ops
<1>2. op'.pc = "load" \/ (op'.pc = "flush" /\ loaded)
  BY <1>1, Zenon
<1>3. UNCHANGED <<ram, flags, fresh, journal, card, slot, promised>>
  BY DEF ClearDm
<1> QED
  BY <1>2, <1>3, QuietStep

LEMMA ReceiveStep ==
  ASSUME ReadInv, ReceivePublic \/ (\E t \in Threads : Receive(t)) PROVE Safe'
BY QuietStep DEF ReceivePublic, Receive, history

(* A reboot and a swap void what was said of RAM and of the accepted card.  *)
LEMMA RebootStep ==
  ASSUME ReadInv, Reboot PROVE Safe'
<1>1. ~loaded' /\ ~local' /\ ~nvsDirty' /\ ~fresh' /\ op'.pc = "idle"
  BY IdleFacts, Zenon DEF Reboot, Clean
<1>2. Recoverable'
  BY DEF ReadInv, Safe, Reboot, Recoverable, history
<1>3. RamHolds' /\ CardCovered' /\ RamKept'
  BY <1>1, Zenon DEF RamHolds, CardCovered, RamKept
<1>4. FlagsOK'
  BY <1>1 DEF FlagsOK
<1> QED
  BY <1>1, <1>2, <1>3, <1>4 DEF Safe, WriteSafe, Written

LEMMA SwapStep ==
  ASSUME ReadInv, NEW c \in Cards \cup {NoCard}, Swap(c) PROVE Safe'
<1>0. op \in Ops
  BY DEF ReadInv, TypeOK, Ops, Pcs
<1>1. op'.pc = op.pc /\ ~op'.fence /\ ~fresh'
  BY <1>0 DEF Swap, Ops
<1>2. Recoverable' /\ RamHolds'
  BY DEF ReadInv, Safe, Swap, Recoverable, RamHolds, OnCard, history, flags
<1>3. CardCovered' /\ RamKept' /\ WriteSafe' /\ Written'
  BY <1>1, Zenon DEF CardCovered, RamKept, WriteSafe, Written
<1>4. UNCHANGED <<loaded, local, reconcile, nvsDirty>>
  BY DEF Swap, flags
<1>5. FlagsOK'
  BY <1>1, <1>4, Zenon DEF ReadInv, Safe, FlagsOK
<1> QED
  BY <1>2, <1>3, <1>5 DEF Safe

(* init_locked takes the journal, which holds every mark no card holds.      *)
LEMMA LoadStep ==
  ASSUME ReadInv, Load PROVE Safe'
<1>0. op \in Ops /\ Idle \in Ops
  BY IdleFacts DEF ReadInv, TypeOK, Ops, Pcs
<1>1. Recoverable'
  BY DEF ReadInv, Safe, Load, Recoverable, history
<1>2. CASE Load /\ ~loaded' /\ op' = Idle /\ Clean
  <2>1. op'.pc = "idle" /\ ~nvsDirty'
    BY <1>2, IdleFacts, Zenon DEF Clean
  <2>2. RamHolds' /\ CardCovered' /\ RamKept'
    BY <1>2, Zenon DEF RamHolds, CardCovered, RamKept
  <2>3. FlagsOK'
    BY <1>2, <2>1 DEF FlagsOK
  <2> QED
    BY <1>1, <2>1, <2>2, <2>3, Settled DEF Safe, WriteSafe, Written
<1>3. CASE /\ ram' = IF journal = Absent THEN Blank ELSE journal
           /\ local' = (journal # Absent) /\ nvsDirty' = FALSE
           /\ loaded' = TRUE
           /\ reconcile' = (local' \/ slot # NoCard)
           /\ op' = [op EXCEPT !.pc = "flush", !.init = slot # NoCard]
  <2>1. UNCHANGED <<journal, card, slot, promised>>
    BY DEF Load, history
  <2>2. op'.pc = "flush"
    BY <1>0, <1>3 DEF Ops
  <2>3. RamHolds'
    <3>1. ASSUME NEW k \in Keys, promised[k] > 0 PROVE OnCard(k) \/ (local' /\ ram'[k] >= promised[k])
      BY <1>3, <3>1 DEF ReadInv, Safe, Recoverable, OnCard, Held
    <3> QED
      BY <2>1, <3>1 DEF RamHolds, OnCard
  <2>4. RamKept'
    <3>1. ASSUME NEW k \in Keys, ram'[k] > 0 PROVE local' /\ Held(journal, k, ram'[k])
      <4>1. journal # Absent
        BY <1>3, <3>1, BlankFacts
      <4>2. journal \in Cursors
        BY <4>1 DEF ReadInv, TypeOK
      <4>3. local' /\ ram' = journal
        BY <1>3, <4>1, Zenon
      <4>4. journal[k] \in Nat
        BY <4>2 DEF Cursors
      <4> QED
        BY <4>1, <4>3, <4>4 DEF Held
    <3> QED
      BY <2>1, <3>1 DEF RamKept
  <2>5. FlagsOK'
    BY <1>3, <2>2, Zenon DEF FlagsOK
  <2>6. CardCovered'
    BY <1>3, <2>1, Zenon DEF CardCovered
  <2> QED
    BY <1>1, <2>2, <2>3, <2>4, <2>5, <2>6 DEF Safe, WriteSafe, Written
<1> QED
  BY <1>2, <1>3, Zenon DEF Load

(* A journal that is left alone or written from RAM keeps the promises.      *)
LEMMA JournalStep ==
  ASSUME ReadInv, loaded, journal' \in {journal, ram},
         UNCHANGED <<ram, local, fresh, card, slot, promised>>, loaded' \in BOOLEAN,
         local \/ ~fresh \/ journal' = journal
  PROVE  Recoverable' /\ RamHolds' /\ RamKept'
<1>1. Recoverable'
  BY RamJournalled DEF Recoverable, OnCard
<1>2. RamHolds'
  BY DEF ReadInv, Safe, RamHolds, OnCard
<1>3. RamKept'
  <2>1. CASE journal' = journal
    BY <2>1 DEF ReadInv, Safe, RamKept
  <2>2. CASE ~fresh
    BY <2>2, Zenon DEF RamKept
  <2>3. CASE local
    BY <2>3, RamJournalled DEF RamKept
  <2> QED
    BY <2>1, <2>2, <2>3
<1> QED
  BY <1>1, <1>2, <1>3

(* Where an operation goes when a part of it succeeded or gave up.           *)
LEMMA SucceedGoes ==
  ASSUME op \in Ops, Succeed PROVE op'.pc \in {"idle", "flush", "mark"} /\ loaded' = loaded
BY IdleFacts DEF Succeed, Ops
LEMMA GiveUpGoes ==
  ASSUME GiveUp PROVE op'.pc = "idle" /\ (loaded' => loaded) /\ loaded' \in BOOLEAN
<1>1. op'.pc = "idle"
  BY IdleFacts DEF GiveUp
<1>2. (loaded' => loaded) /\ loaded' \in BOOLEAN
  BY Zenon DEF GiveUp
<1> QED
  BY <1>1, <1>2

(* An operation that gives up with the cursors and the card as they were.    *)
LEMMA GiveUpStep ==
  ASSUME ReadInv, loaded, GiveUp, reconcile' = TRUE \/ reconcile' = reconcile,
         nvsDirty' => local, UNCHANGED <<ram, local, fresh, slot, promised>>,
         Recoverable', RamHolds', RamKept',
         card' = card \/ reconcile'
  PROVE  Safe'
<1>1. op'.pc = "idle" /\ (loaded' => loaded)
  BY GiveUpGoes
<1>2. FlagsOK'
  BY <1>1, Zenon DEF FlagsOK, ReadInv, Safe
<1>3. CardCovered'
  <2>1. CASE reconcile'
    BY <2>1, Zenon DEF CardCovered
  <2>2. CASE card' = card /\ reconcile' = reconcile
    BY <2>2 DEF CardCovered, ReadInv, Safe
  <2> QED
    BY <2>1, <2>2
<1> QED
  BY <1>1, <1>2, <1>3 DEF Safe, WriteSafe, Written

LEMMA FlushStep ==
  ASSUME ReadInv, Flush PROVE Safe'
<1>0. /\ op \in Ops /\ loaded /\ (nvsDirty => local) /\ (local => reconcile)
      /\ FlagsTyped
  BY DEF Flush, At, ReadInv, Safe, FlagsOK, TypeOK, Ops, Pcs, FlagsTyped
<1>1. UNCHANGED <<ram, local, fresh, card, slot, promised>>
  BY DEF Flush, history
<1>2. CASE /\ nvsDirty /\ journal' \in {journal, ram} /\ GiveUp
           /\ UNCHANGED <<nvsDirty, reconcile>>
  <2>1. loaded' \in BOOLEAN
    BY <1>2, GiveUpGoes
  <2>2. Recoverable' /\ RamHolds' /\ RamKept'
    BY <1>0, <1>1, <1>2, <2>1, JournalStep
  <2> QED
    BY <1>0, <1>1, <1>2, <2>2, GiveUpStep
<1>3. CASE /\ journal' = IF nvsDirty THEN ram ELSE journal
           /\ nvsDirty' = FALSE
           /\ IF slot = NoCard
              THEN Succeed /\ reconcile' = (reconcile \/ local \/ sdDirty)
              ELSE /\ reconcile' = (reconcile \/ ~fresh)
                   /\ IF reconcile' \/ sdDirty
                      THEN /\ op' = [op EXCEPT !.pc = "read", !.fence = TRUE]
                           /\ loaded' = loaded
                      ELSE Succeed
  <2>1. loaded' /\ loaded' \in BOOLEAN
    BY <1>0, <1>3, SucceedGoes, Zenon DEF FlagsTyped
  <2>2. journal' \in {journal, ram} /\ (local \/ journal' = journal)
    BY <1>0, <1>3
  <2>3. Recoverable' /\ RamHolds' /\ RamKept'
    BY <1>0, <1>1, <2>1, <2>2, JournalStep
  <2>4. \/ op'.pc \in {"idle", "flush", "mark"} /\ (slot = NoCard \/ ~reconcile')
        \/ op'.pc = "read" /\ op'.fence /\ slot # NoCard
    <3>1. CASE op' = [op EXCEPT !.pc = "read", !.fence = TRUE] /\ slot # NoCard
      BY <1>0, <3>1 DEF Ops
    <3>2. CASE Succeed /\ (slot = NoCard \/ ~reconcile')
      BY <1>0, <3>2, SucceedGoes
    <3> QED
      BY <1>3, <3>1, <3>2, Zenon
  <2>5. reconcile => reconcile'
    BY <1>3, Zenon
  <2>6. FlagsOK'
    BY <1>0, <1>1, <1>3, <2>1, <2>4, <2>5 DEF FlagsOK
  <2>7. CardCovered'
    BY <1>0, <1>1, <2>5 DEF CardCovered, ReadInv, Safe
  <2> QED
    BY <2>3, <2>4, <2>6, <2>7 DEF Safe, WriteSafe, Written
<1> QED
  BY <1>2, <1>3, Zenon DEF Flush

LEMMA ReadStep ==
  ASSUME ReadInv, Read PROVE Safe'
<1> DEFINE theirs == IF slot = NoCard \/ card[slot] = Absent THEN Blank ELSE card[slot]
           value == IF local THEN Merged(ram, theirs) ELSE theirs
<1>0. /\ op \in Ops /\ loaded /\ theirs \in Cursors /\ ram \in Cursors /\ promised \in Cursors
      /\ FlagsTyped
  BY BlankFacts DEF Read, At, ReadInv, Safe, FlagsOK, TypeOK, Ops, Pcs, FlagsTyped
<1>1. UNCHANGED <<ram, local, nvsDirty, fresh, journal, card, slot, promised>>
  BY DEF Read, history
<1>2. CASE GiveUp /\ reconcile' = TRUE
  <2>1. Recoverable' /\ RamHolds' /\ RamKept'
    BY <1>0, <1>1, <1>2, GiveUpGoes, Zenon
       DEF ReadInv, Safe, Recoverable, RamHolds, RamKept, OnCard
  <2> QED
    BY <1>0, <1>1, <1>2, <2>1, GiveUpStep DEF ReadInv, Safe, FlagsOK
<1>3. CASE /\ op.fence
           /\ op' = [op EXCEPT !.value = value,
                               !.pc = IF local /\ value # card[slot] THEN "write" ELSE "retire"]
           /\ UNCHANGED <<loaded, reconcile>>
  <2> HIDE DEF value
  <2>1. slot # NoCard /\ slot \in Cards /\ card[slot] \in Cursors \cup {Absent}
    BY <1>3 DEF Read, At, ReadInv, Safe, FlagsOK, TypeOK
  <2>2. /\ op'.fence /\ op'.value = value
        /\ op'.pc = IF local /\ value # card[slot] THEN "write" ELSE "retire"
    BY <1>0, <1>3 DEF Ops
  <2>3. \/ op'.pc = "write" /\ local
        \/ op'.pc = "retire" /\ (local => value = card[slot])
    BY <2>2, Zenon
  <2>4. ASSUME local
        PROVE  \A k \in Keys : /\ value[k] >= ram[k]
                               /\ card[slot] # Absent => value[k] >= card[slot][k]
                               /\ value[k] \in Nat
    BY <1>0, <2>1, <2>4, MergedFacts DEF value, Cursors
  <2>5. ASSUME ~local PROVE card[slot] = value \/ (card[slot] = Absent /\ value = Blank)
    BY <2>1, <2>5 DEF value
  <2>6. WriteSafe'
    <3>1. ASSUME local, NEW k \in Keys, promised[k] > 0, Held(card[slot], k, promised[k])
          PROVE  value[k] >= promised[k]
      <4>1. card[slot] # Absent /\ card[slot][k] >= promised[k] /\ card[slot][k] \in Nat
        BY <2>1, <3>1 DEF Held, Cursors
      <4>2. value[k] >= card[slot][k] /\ value[k] \in Nat /\ promised[k] \in Nat
        BY <1>0, <2>4, <3>1, <4>1 DEF Cursors
      <4> QED
        BY <4>1, <4>2
    <3> QED
      BY <1>1, <2>2, <2>3, <2>4, <3>1 DEF WriteSafe
  <2>7. Written'
    BY <1>1, <2>2, <2>3, <2>4, <2>5 DEF Written
  <2>8. Recoverable' /\ RamHolds' /\ RamKept' /\ CardCovered'
    BY <1>1, <1>3 DEF ReadInv, Safe, Recoverable, RamHolds, RamKept, CardCovered, OnCard
  <2>9. FlagsOK'
    BY <1>0, <1>1, <1>3, <2>1, <2>2, <2>3 DEF ReadInv, Safe, FlagsOK
  <2> QED
    BY <2>6, <2>7, <2>8, <2>9 DEF Safe
<1> QED
  BY <1>2, <1>3, Zenon DEF Read

(* A card that is written covers RAM and every promise the card held.       *)
LEMMA WriteStep ==
  ASSUME ReadInv, WriteCard PROVE Safe'
<1>0. /\ op \in Ops /\ loaded /\ ram \in Cursors /\ promised \in Cursors /\ op.value \in Cursors
      /\ FlagsTyped /\ local /\ reconcile /\ op.pc = "write"
      /\ card \in [Cards -> Cursors \cup {Absent}]
      /\ op.fence => slot \in Cards
  BY DEF WriteCard, At, ReadInv, Safe, FlagsOK, TypeOK, Ops, Pcs, FlagsTyped
<1>1. UNCHANGED <<ram, local, nvsDirty, fresh, journal, slot, promised>>
  BY DEF WriteCard, history
<1>2. card' = card \/ (op.fence /\ card' = [card EXCEPT ![slot] = op.value])
  BY DEF WriteCard
<1>3. ASSUME op.fence, card' = [card EXCEPT ![slot] = op.value]
      PROVE  /\ card'[slot] = op.value
             /\ \A k \in Keys : op.value[k] >= ram[k]
             /\ \A k \in Keys : promised[k] > 0 => OnCard(k)'
             /\ \A k \in Keys : Held(card'[slot], k, ram[k])
  <2>1. card'[slot] = op.value /\ \A c \in Cards : c # slot => card'[c] = card[c]
    BY <1>0, <1>3
  <2>2. /\ op.value # Absent
        /\ \A k \in Keys : op.value[k] \in Nat /\ ram[k] \in Nat /\ promised[k] \in Nat
    BY <1>0, BlobFacts
  <2>3. /\ \A k \in Keys : op.value[k] >= ram[k]
        /\ \A k \in Keys : promised[k] > 0 /\ Held(card[slot], k, promised[k])
                              => op.value[k] >= promised[k]
    BY <1>0, <1>3 DEF ReadInv, Safe, WriteSafe
  <2>4. ASSUME NEW k \in Keys, promised[k] > 0 PROVE OnCard(k)'
    <3>1. OnCard(k) \/ ram[k] >= promised[k]
      BY <1>0, <2>4 DEF ReadInv, Safe, RamHolds
    <3>2. CASE op.value[k] >= promised[k]
      BY <1>0, <1>1, <1>3, <2>1, <2>2, <3>2 DEF OnCard, Held
    <3>3. CASE ram[k] >= promised[k]
      BY <2>2, <2>3, <3>2, <3>3
    <3>4. CASE OnCard(k) /\ ~(op.value[k] >= promised[k])
      <4>1. PICK c \in Cards : Held(card[c], k, promised[k])
        BY <3>4 DEF OnCard
      <4>2. c # slot
        BY <2>3, <2>4, <3>4, <4>1
      <4> QED
        BY <1>1, <2>1, <4>1, <4>2 DEF OnCard
    <3> QED
      BY <3>1, <3>2, <3>3, <3>4
  <2> QED
    BY <2>1, <2>2, <2>3, <2>4 DEF Held
<1>4. /\ \A k \in Keys : promised[k] > 0 => OnCard(k)' \/ (local /\ ram[k] >= promised[k])
      /\ Recoverable'
  <2>1. CASE card' = card
    BY <1>0, <1>1, <2>1 DEF ReadInv, Safe, RamHolds, Recoverable, OnCard
  <2>2. CASE op.fence /\ card' = [card EXCEPT ![slot] = op.value]
    BY <1>1, <1>3, <2>2 DEF Recoverable, OnCard
  <2> QED
    BY <1>2, <2>1, <2>2
<1>5. RamHolds'
  BY <1>1, <1>4 DEF RamHolds, OnCard
<1>6. RamKept'
  <2>1. CASE card' = card
    BY <1>0, <1>1, <2>1 DEF ReadInv, Safe, RamKept
  <2>2. CASE op.fence /\ card' = [card EXCEPT ![slot] = op.value]
    BY <1>1, <1>3, <2>2 DEF RamKept
  <2> QED
    BY <1>2, <2>1, <2>2
<1>7. CASE GiveUp /\ reconcile' = TRUE
  BY <1>0, <1>1, <1>4, <1>5, <1>6, <1>7, GiveUpStep
<1>8. CASE /\ op.fence /\ Goto("retire") /\ card' = [card EXCEPT ![slot] = op.value]
           /\ UNCHANGED <<loaded, reconcile>>
  <2>1. op'.pc = "retire" /\ op'.fence = op.fence /\ op'.value = op.value
    BY <1>0, <1>8 DEF Goto, Ops
  <2>2. FlagsOK'
    BY <1>0, <1>1, <1>8, <2>1 DEF ReadInv, Safe, FlagsOK
  <2>3. CardCovered'
    BY <1>0, <1>8, Zenon DEF CardCovered
  <2>4. WriteSafe' /\ Written'
    BY <1>1, <1>3, <1>8, <2>1 DEF WriteSafe, Written
  <2> QED
    BY <1>4, <1>5, <1>6, <2>2, <2>3, <2>4 DEF Safe
<1> QED
  BY <1>7, <1>8, Zenon DEF WriteCard

(* The journal goes only when the card holds what RAM and the marks say.     *)
LEMMA RetireStep ==
  ASSUME ReadInv, Retire PROVE Safe'
<1>0. /\ op \in Ops /\ loaded /\ op.pc = "retire" /\ FlagsTyped /\ (nvsDirty => local)
  BY DEF Retire, At, ReadInv, Safe, FlagsOK, TypeOK, Ops, Pcs, FlagsTyped
<1>1. UNCHANGED <<ram, local, fresh, card, slot, promised>>
  BY DEF Retire, history
<1>2. journal' = journal \/ (op.fence /\ local /\ journal' = Absent)
  BY DEF Retire
<1>3. Recoverable' /\ RamHolds' /\ (loaded' \in BOOLEAN => RamKept')
  <2>1. CASE journal' = journal
    BY <1>0, <1>1, <2>1, Zenon DEF ReadInv, Safe, Recoverable, RamHolds, RamKept, OnCard
  <2>2. CASE op.fence /\ local /\ journal' = Absent
    BY <1>0, <1>1, <2>2, AllOnCard DEF Recoverable, RamHolds, RamKept, OnCard
  <2> QED
    BY <1>2, <2>1, <2>2
<1>4. CASE GiveUp /\ reconcile' = TRUE /\ (nvsDirty' => local)
  BY <1>0, <1>1, <1>3, <1>4, GiveUpGoes, GiveUpStep
<1>5. CASE /\ op.fence /\ Goto("apply") /\ UNCHANGED <<loaded, reconcile, nvsDirty>>
  <2>1. op'.pc = "apply" /\ op'.fence = op.fence /\ op'.value = op.value
    BY <1>0, <1>5 DEF Goto, Ops
  <2>2. FlagsOK'
    BY <1>0, <1>1, <1>5, <2>1 DEF ReadInv, Safe, FlagsOK
  <2>3. CardCovered'
    BY <1>1, <1>5 DEF ReadInv, Safe, CardCovered
  <2>4. WriteSafe' /\ Written'
    BY <1>0, <1>1, <1>5, <2>1 DEF ReadInv, Safe, WriteSafe, Written
  <2> QED
    BY <1>0, <1>3, <1>5, <2>2, <2>3, <2>4 DEF Safe, FlagsTyped
<1>6. \/ GiveUp /\ reconcile' = TRUE /\ (nvsDirty' => local)
      \/ op.fence /\ Goto("apply") /\ UNCHANGED <<loaded, reconcile, nvsDirty>>
  BY <1>0, Zenon DEF Retire
<1> QED
  BY <1>4, <1>5, <1>6

(* RAM becomes what the card holds; or, the card gone, the journal is       *)
(* written again from RAM.                                                  *)
LEMMA ApplyStep ==
  ASSUME ReadInv, Apply PROVE Safe'
<1>0. /\ op \in Ops /\ loaded /\ op.pc = "apply" /\ FlagsTyped /\ (nvsDirty => local)
      /\ op.value \in Cursors
  BY DEF Apply, At, ReadInv, Safe, FlagsOK, TypeOK, Ops, Pcs, FlagsTyped
<1>1. UNCHANGED <<card, slot, promised>>
  BY DEF Apply, history
<1>2. CASE JournalAgain
  <2>1. /\ ~op.fence /\ GiveUp /\ reconcile' = TRUE /\ UNCHANGED <<ram, local, fresh>>
        /\ journal' \in {journal, ram}
    BY <1>2 DEF JournalAgain
  <2>2. nvsDirty' => local
    BY <1>0, <1>2, Zenon DEF JournalAgain
  <2>3. ~fresh /\ loaded' \in BOOLEAN
    BY <1>0, <2>1, GiveUpGoes DEF ReadInv, Safe, FlagsOK
  <2>4. Recoverable' /\ RamHolds' /\ RamKept'
    BY <1>0, <1>1, <2>1, <2>3, JournalStep
  <2> QED
    BY <1>0, <1>1, <2>1, <2>2, <2>4, GiveUpStep
<1>3. CASE op.fence /\ Succeed /\ ram' = op.value /\ Clean /\ UNCHANGED journal
  <2>1. op'.pc \in {"idle", "flush", "mark"} /\ loaded'
    BY <1>0, <1>3, SucceedGoes
  <2>2. ~local' /\ ~reconcile' /\ ~nvsDirty'
    BY <1>3, Zenon DEF Clean
  <2>3. Recoverable'
    BY <1>1, <1>3 DEF ReadInv, Safe, Recoverable
  <2>4. RamHolds'
    BY <1>0, <1>1, <1>3, AllOnCard DEF RamHolds, OnCard
  <2>5. card[slot] = op.value \/ (card[slot] = Absent /\ op.value = Blank)
    BY <1>0, <1>3 DEF ReadInv, Safe, Written
  <2>6. op.value # Absent /\ \A k \in Keys : op.value[k] \in Nat
    BY <1>0, BlobFacts
  <2>7. RamKept'
    <3>1. ASSUME NEW k \in Keys, op.value[k] > 0 PROVE Held(card[slot], k, op.value[k])
      BY <2>5, <2>6, <3>1, BlankFacts DEF Held
    <3> QED
      BY <1>1, <1>3, <3>1 DEF RamKept
  <2>8. CardCovered'
    BY <1>1, <1>3, <2>5, <2>6 DEF CardCovered, Covers
  <2>9. FlagsOK'
    BY <2>1, <2>2 DEF FlagsOK
  <2> QED
    BY <2>1, <2>3, <2>4, <2>7, <2>8, <2>9 DEF Safe, WriteSafe, Written
<1> QED
  BY <1>2, <1>3, Zenon DEF Apply

(* A mark is promised only with the journal written; one that fails leaves  *)
(* RAM alone and what it lowers is promised no longer.                      *)
LEMMA MarkPreserves ==
  ASSUME ReadInv, Mark PROVE Safe'
<1>0. /\ op \in Ops /\ loaded /\ op.pc = "mark" /\ FlagsTyped /\ (local => reconcile)
      /\ ram \in Cursors /\ promised \in Cursors /\ card \in [Cards -> Cursors \cup {Absent}]
      /\ slot \in Cards \cup {NoCard}
  BY DEF Mark, At, ReadInv, Safe, FlagsOK, TypeOK, Ops, Pcs, FlagsTyped
<1>1. UNCHANGED <<fresh, card, slot>>
  BY DEF Mark
<1>2. CASE op' = Idle /\ UNCHANGED <<ram, flags, journal, faults, history>>
  BY <1>1, <1>2, IdleFacts, QuietStep DEF history
<1>3. ASSUME NEW new \in Marks, MarkStep(new) PROVE Safe'
  <2>0. /\ new \in Cursors /\ new # Absent
        /\ \A k \in Keys : new[k] \in Nat /\ ram[k] \in Nat /\ promised[k] \in Nat
    BY <1>0, MarksFacts, BlobFacts DEF ReadInv
  <2>1. CASE /\ op' = Idle /\ journal' \in {journal, new} /\ UNCHANGED <<ram, flags>>
             /\ promised' = [k \in Keys |-> IF new[k] < ram[k] /\ new[k] < promised[k]
                                            THEN new[k] ELSE promised[k]]
    <3>1. \A k \in Keys : promised'[k] \in Nat /\ promised'[k] <= promised[k]
      BY <2>0, <2>1
    <3>2. ASSUME NEW k \in Keys, promised'[k] > 0 PROVE OnCard(k)' \/ Held(journal', k, promised'[k])
      <4>1. CASE \E c \in Cards : Held(card[c], k, promised[k])
        <5>1. PICK c \in Cards : Held(card[c], k, promised[k])
          BY <4>1
        <5>2. card[c] # Absent /\ card[c][k] \in Nat
          BY <1>0, <5>1 DEF Held, Cursors
        <5> QED
          BY <1>1, <2>0, <3>1, <5>1, <5>2 DEF Held, OnCard
      <4>2. CASE ~OnCard(k)
        <5>1. promised[k] > 0
          BY <2>0, <3>1, <3>2
        <5>2. local /\ ram[k] >= promised[k] /\ Held(journal, k, promised[k])
          BY <1>0, <4>2, <5>1 DEF ReadInv, Safe, RamHolds, Recoverable, OnCard
        <5>3. CASE journal' = new
          BY <2>0, <2>1, <5>2, <5>3 DEF Held
        <5>4. CASE journal' = journal
          <6>1. journal # Absent /\ journal[k] \in Nat
            BY <5>2 DEF Held, ReadInv, TypeOK, Cursors
          <6> QED
            BY <2>0, <3>1, <5>2, <5>4, <6>1 DEF Held
        <5> QED
          BY <2>1, <5>3, <5>4
      <4> QED
        BY <4>1, <4>2 DEF OnCard
    <3>3. Recoverable'
      BY <3>2 DEF Recoverable, OnCard
    <3>4. RamHolds'
      <4>1. ASSUME NEW k \in Keys, promised'[k] > 0 PROVE OnCard(k)' \/ (local /\ ram[k] >= promised'[k])
        <5>1. promised[k] > 0
          BY <2>0, <3>1, <4>1
        <5>2. CASE local /\ ram[k] >= promised[k]
          BY <2>0, <3>1, <5>2
        <5>3. CASE \E c \in Cards : Held(card[c], k, promised[k])
          <6>1. PICK c \in Cards : Held(card[c], k, promised[k])
            BY <5>3
          <6>2. card[c] # Absent /\ card[c][k] \in Nat
            BY <1>0, <6>1 DEF Held, Cursors
          <6> QED
            BY <1>1, <2>0, <3>1, <6>1, <6>2 DEF Held, OnCard
        <5> QED
          BY <1>0, <5>1, <5>2, <5>3 DEF ReadInv, Safe, RamHolds, OnCard
      <4> QED
        BY <2>1, <4>1 DEF RamHolds, flags
    <3>5. fresh /\ slot # NoCard => ~local
      BY <1>0, Zenon DEF ReadInv, Safe, FlagsOK
    <3>6. RamKept'
      BY <1>0, <1>1, <2>1, <3>5 DEF ReadInv, Safe, RamKept, flags
    <3>7. CardCovered'
      BY <1>1, <2>1 DEF ReadInv, Safe, CardCovered, flags
    <3>8. op'.pc = "idle"
      BY <2>1, IdleFacts
    <3>9. FlagsOK'
      BY <2>1, <3>8 DEF ReadInv, Safe, FlagsOK, flags
    <3> QED
      BY <3>3, <3>4, <3>6, <3>7, <3>8, <3>9 DEF Safe, WriteSafe, Written
  <2>2. CASE /\ journal' = new /\ ram' = new
             /\ local' = TRUE /\ sdDirty' = TRUE /\ reconcile' = TRUE /\ nvsDirty' = FALSE
             /\ promised' = [k \in Keys |-> IF new[k] # ram[k] THEN new[k] ELSE promised[k]]
             /\ op' = IF slot = NoCard \/ ~fresh THEN Idle
                      ELSE [op EXCEPT !.pc = "write", !.mark = FALSE, !.fence = TRUE, !.value = new]
             /\ UNCHANGED loaded
    <3>1. ASSUME NEW k \in Keys, promised'[k] > 0 PROVE OnCard(k)' \/ new[k] >= promised'[k]
      <4>1. CASE new[k] # ram[k]
        BY <2>0, <2>2, <4>1
      <4>2. CASE new[k] = ram[k]
        <5>1. promised'[k] = promised[k]
          BY <2>2, <4>2
        <5>2. OnCard(k) \/ ram[k] >= promised[k]
          BY <1>0, <3>1, <5>1 DEF ReadInv, Safe, RamHolds
        <5> QED
          BY <1>1, <4>2, <5>1, <5>2 DEF OnCard
      <4> QED
        BY <4>1, <4>2
    <3>2. Recoverable'
      BY <2>0, <2>2, <3>1 DEF Recoverable, OnCard, Held
    <3>3. RamHolds'
      BY <2>2, <3>1 DEF RamHolds, OnCard
    <3>4. RamKept'
      BY <2>0, <2>2 DEF RamKept, Held
    <3>5. CardCovered'
      BY <2>2, Zenon DEF CardCovered
    <3>6. \/ op'.pc = "idle"
          \/ /\ op'.pc = "write" /\ op'.fence /\ op'.value = new
             /\ slot # NoCard /\ fresh
      BY <1>0, <2>2, IdleFacts DEF Ops
    <3>7. FlagsOK'
      BY <1>0, <1>1, <2>2, <3>6 DEF FlagsOK
    <3>8. ASSUME slot # NoCard, fresh, NEW k \in Keys, promised'[k] > 0,
                 Held(card[slot], k, promised'[k])
          PROVE  new[k] >= promised'[k]
      <4>1. Covers(ram, card[slot])
        BY <1>0, <3>8, Zenon DEF ReadInv, Safe, FlagsOK, CardCovered
      <4>2. card[slot] # Absent /\ card[slot][k] \in Nat /\ card[slot][k] >= promised'[k]
        BY <1>0, <3>8 DEF Held, Cursors
      <4>3. ram[k] >= card[slot][k]
        BY <4>1, <4>2 DEF Covers
      <4> QED
        BY <2>0, <2>2, <4>2, <4>3
    <3>9. WriteSafe' /\ Written'
      BY <1>1, <2>0, <2>2, <3>6, <3>8 DEF WriteSafe, Written
    <3> QED
      BY <3>2, <3>3, <3>4, <3>5, <3>7, <3>9 DEF Safe
  <2> QED
    BY <1>3, <2>1, <2>2, Zenon DEF MarkStep
<1> QED
  BY <1>2, <1>3 DEF Mark

-----------------------------------------------------------------------------
LEMMA SafeInit == Init => Safe
<1> SUFFICES ASSUME Init PROVE Safe
  OBVIOUS
<1>1. ~loaded /\ ~local /\ ~nvsDirty /\ ~fresh /\ op.pc = "idle"
  BY IdleFacts, Zenon DEF Init
<1>2. Recoverable
  BY BlankFacts DEF Init, Recoverable
<1>3. RamHolds /\ CardCovered /\ RamKept
  BY <1>1, Zenon DEF RamHolds, CardCovered, RamKept
<1>4. FlagsOK
  BY <1>1 DEF FlagsOK
<1> QED
  BY <1>1, <1>2, <1>3, <1>4, Settled DEF Safe

LEMMA SafeStep == ReadInv /\ [Next]_vars => Safe'
<1> SUFFICES ASSUME ReadInv, [Next]_vars PROVE Safe'
  OBVIOUS
<1>1. CASE UNCHANGED vars
  BY <1>1, QuietStep DEF vars, history
<1>2. CASE Step
  BY <1>2, LoadStep, FlushStep, ReadStep, WriteStep, RetireStep, ApplyStep, MarkPreserves DEF Step
<1>3. CASE \E mark \in BOOLEAN : Begin(mark)
  BY <1>3, BeginStep
<1>4. CASE ReceivePublic \/ ClearDm \/ Reboot \/ \E t \in Threads : Receive(t)
  BY <1>4, ReceiveStep, ClearStep, RebootStep
<1>5. CASE \E c \in Cards \cup {NoCard} : Swap(c)
  BY <1>5, SwapStep
<1> QED
  BY <1>1, <1>2, <1>3, <1>4, <1>5 DEF Next

THEOREM ReadInvariant == Spec => []ReadInv
<1>1. Init => ReadInv
  BY TypeInit, SafeInit DEF ReadInv
<1>2. ReadInv /\ [Next]_vars => ReadInv'
  BY TypeStep, SafeStep DEF ReadInv
<1> QED
  BY <1>1, <1>2, PTL DEF Spec

-----------------------------------------------------------------------------
(* Every variable keeps its type, whatever is read, written or pulled out.  *)
THEOREM ReadTypeCorrect == Spec => []TypeOK
<1>1. ReadInv => TypeOK
  BY DEF ReadInv
<1> QED
  BY <1>1, ReadInvariant, PTL

(* A mark reported done is in the journal or on a card in every state: what *)
(* persist_mutation_or_rollback and reconcile_current_sd write and erase,   *)
(* in their order, leaves no moment at which a power cut, a failed write or *)
(* a card change loses it.                                                  *)
THEOREM MarksRecoverable == Spec => []Recoverable
<1>1. ReadInv => Recoverable
  BY DEF ReadInv, Safe
<1> QED
  BY <1>1, ReadInvariant, PTL

(* What the running device counts as read, init_locked finds again in the   *)
(* journal and the accepted card.                                           *)
THEOREM RestartKeeps == Spec => []RebootKeeps
<1>1. ReadInv => RebootKeeps
  BY Zenon DEF ReadInv, Safe, RamKept, RebootKeeps
<1> QED
  BY <1>1, ReadInvariant, PTL

-----------------------------------------------------------------------------
(* No card's cursor moves backwards.  A blob is bounded when its cursors are  *)
(* of messages there were, and its table is no larger than upsert_dm_cursor   *)
(* and merge_monotonic let it grow: p public messages, n direct ones, z: in   *)
(* the first numbering of these.                                              *)
Within(b, p, n, z) ==
  b # Absent =>
    /\ b["public"] <= p
    /\ z => \A k \in Keys \ {"public"} : b[k] <= n
    /\ Cardinality(Tracked(b)) <= Capacity
Bounded(b) == Within(b, public, Len(rows), clears = 0)
CursorsBounded == /\ Bounded(ram) /\ Bounded(journal) /\ Bounded(op.value)
                  /\ \A c \in Cards : Bounded(card[c])

(* What is about to be written lowers a cursor of the card's only when the   *)
(* table it leaves is full.                                                  *)
Keeps(a, b) ==
  b # Absent => \A k \in Keys : \/ a[k] >= b[k]
                                \/ k \in Threads /\ Cardinality(Tracked(a)) = Capacity
ValueKeeps == op.pc = "write" /\ op.fence /\ clears = 0 => Keeps(op.value, card[slot])

CardInv == ReadInv /\ CursorsBounded /\ ValueKeeps

LEMMA TrackedFacts ==
  ASSUME NEW s
  PROVE  /\ Tracked(s) \subseteq Threads /\ IsFiniteSet(Tracked(s))
         /\ Cardinality(Tracked(s)) \in Nat
<1>1. Tracked(s) \subseteq Threads
  BY DEF Tracked
<1>2. IsFiniteSet(Tracked(s))
  BY <1>1, ReadAssumption, FS_Subset
<1> QED
  BY <1>1, <1>2, FS_CardinalityType

LEMMA BlankBounded ==
  ASSUME TypeOK PROVE Bounded(Blank) /\ Bounded(Absent)
<1>0. \A t \in Threads : Blank[t] = 0
  BY BlankFacts DEF Keys
<1>1. Tracked(Blank) = {}
  BY <1>0 DEF Tracked
<1>2. Cardinality(Tracked(Blank)) = 0 /\ Capacity \in Nat
  BY <1>1, FS_EmptySet, ReadAssumption
<1>3. "public" \in Keys /\ public \in Nat /\ Len(rows) \in Nat
  BY DEF Keys, TypeOK
<1>4. Bounded(Blank)
  BY <1>2, <1>3, BlankFacts DEF Bounded, Within
<1>5. Bounded(Absent)
  BY Zenon DEF Bounded, Within
<1> QED
  BY <1>4, <1>5

(* Messages only arrive, until a clear ends the first numbering.             *)
LEMMA BoundsGrow ==
  ASSUME NEW b \in Cursors \cup {Absent}, NEW p \in Nat, NEW n \in Nat, NEW z \in BOOLEAN,
         NEW q \in Nat, NEW m \in Nat, NEW y \in BOOLEAN,
         Within(b, p, n, z), p <= q, y => z /\ n <= m
  PROVE  Within(b, q, m, y)
<1> SUFFICES ASSUME b # Absent PROVE Within(b, q, m, y)
  BY DEF Within
<1>1. b \in Cursors /\ \A k \in Keys : b[k] \in Nat
  BY DEF Cursors
<1>2. "public" \in Keys
  BY DEF Keys
<1>3. b["public"] <= q
  BY <1>1, <1>2 DEF Within
<1>4. ASSUME y, NEW k \in Keys \ {"public"} PROVE b[k] <= m
  BY <1>1, <1>4 DEF Within
<1>5. Cardinality(Tracked(b)) <= Capacity
  BY DEF Within
<1> QED
  BY <1>3, <1>4, <1>5 DEF Within

LEMMA BoundedKept ==
  ASSUME TypeOK, TypeOK', public <= public', clears' = 0 => clears = 0 /\ Len(rows) <= Len(rows'),
         Bounded(ram'), Bounded(journal'), Bounded(op'.value), \A c \in Cards : Bounded(card'[c])
  PROVE  CursorsBounded'
<1>1. /\ public \in Nat /\ Len(rows) \in Nat /\ (clears = 0) \in BOOLEAN
      /\ public' \in Nat /\ Len(rows') \in Nat /\ (clears' = 0) \in BOOLEAN
  BY DEF TypeOK
<1>2. ASSUME NEW b \in Cursors \cup {Absent}, Bounded(b)
      PROVE  Within(b, public', Len(rows'), clears' = 0)
  BY <1>1, <1>2, BoundsGrow DEF Bounded
<1>3. /\ ram' \in Cursors \cup {Absent} /\ journal' \in Cursors \cup {Absent}
      /\ op'.value \in Cursors \cup {Absent}
      /\ \A c \in Cards : card'[c] \in Cursors \cup {Absent}
  BY DEF TypeOK
<1>4. /\ Within(ram', public', Len(rows'), clears' = 0)
      /\ Within(journal', public', Len(rows'), clears' = 0)
      /\ Within(op'.value, public', Len(rows'), clears' = 0)
      /\ \A c \in Cards : Within(card'[c], public', Len(rows'), clears' = 0)
  BY <1>2, <1>3
<1> QED
  BY <1>4 DEF CursorsBounded, Bounded

(* Merging with a card that fits leaves a table that fits.                   *)
LEMMA MergedBounded ==
  ASSUME TypeOK, NEW a \in Cursors, NEW b \in Cursors,
         Bounded(a), Bounded(b), MergeFits(a, b)
  PROVE  Bounded(Merged(a, b))
<1> DEFINE m == Merged(a, b)
<1>1. /\ a # Absent /\ b # Absent /\ m \in Cursors
      /\ \A k \in Keys : a[k] \in Nat /\ b[k] \in Nat /\ m[k] = Larger(a[k], b[k])
  BY BlobFacts, MergedFacts DEF Merged
<1>2. "public" \in Keys /\ Threads \subseteq Keys
  BY DEF Keys
<1>3. m["public"] <= public
  BY <1>1, <1>2 DEF Bounded, Within, Larger
<1>4. ASSUME clears = 0, NEW k \in Keys \ {"public"} PROVE m[k] <= Len(rows)
  BY <1>1, <1>4 DEF Bounded, Within, Larger
<1>5. Cardinality(Tracked(m)) <= Capacity
  <2>1. CASE Tracked(b) \ Tracked(a) # {}
    BY <2>1 DEF MergeFits
  <2>2. CASE Tracked(b) \subseteq Tracked(a)
    <3>1. ASSUME NEW t \in Threads PROVE m[t] > 0 <=> a[t] > 0
      BY <1>1, <1>2, <2>2 DEF Tracked, Larger
    <3>2. Tracked(m) = Tracked(a)
      BY <3>1 DEF Tracked
    <3> QED
      BY <1>1, <3>2 DEF Bounded, Within
  <2> QED
    BY <2>1, <2>2
<1> QED
  BY <1>3, <1>4, <1>5 DEF Bounded, Within

(* What a mark asks for fits, and falls behind RAM only where it evicts.     *)
LEMMA UpsertedKeeps ==
  ASSUME TypeOK, Bounded(ram), NEW t \in Threads, NEW n \in 1 .. Len(rows),
         clears = 0 => n >= ram[t], NEW new \in Upserted(ram, t, n)
  PROVE  Bounded(new) /\ (clears = 0 => Keeps(new, ram))
<1>1. /\ ram \in Cursors /\ ram # Absent /\ \A k \in Keys : ram[k] \in Nat
      /\ Threads \subseteq Keys /\ "public" \in Keys /\ "public" \notin Threads
      /\ Len(rows) \in Nat /\ Capacity \in Nat
  BY BlobFacts, ReadAssumption DEF TypeOK, Keys
<1>2. /\ ram["public"] <= public
      /\ clears = 0 => \A k \in Keys \ {"public"} : ram[k] <= Len(rows)
      /\ Cardinality(Tracked(ram)) <= Capacity
  BY <1>1 DEF Bounded, Within
<1>3. IsFiniteSet(Tracked(ram)) /\ Cardinality(Tracked(ram)) \in Nat
  BY TrackedFacts
<1>4. CASE new = [ram EXCEPT ![t] = n] /\ (ram[t] > 0 \/ Cardinality(Tracked(ram)) < Capacity)
  <2>1. \A k \in Keys : new[k] = IF k = t THEN n ELSE ram[k]
    BY <1>1, <1>4 DEF Cursors
  <2>2. Tracked(new) = Tracked(ram) \cup {t}
    BY <1>1, <2>1 DEF Tracked
  <2>3. t \in Tracked(ram) <=> ram[t] > 0
    BY DEF Tracked
  <2>4. Cardinality(Tracked(new)) <= Capacity
    <3>1. Cardinality(Tracked(new)) = IF t \in Tracked(ram) THEN Cardinality(Tracked(ram))
                                      ELSE Cardinality(Tracked(ram)) + 1
      BY <1>3, <2>2, FS_AddElement
    <3>2. CASE t \in Tracked(ram)
      BY <1>2, <3>1, <3>2
    <3>3. CASE t \notin Tracked(ram)
      <4>1. Cardinality(Tracked(ram)) < Capacity
        BY <1>4, <2>3, <3>3
      <4>2. Cardinality(Tracked(new)) = Cardinality(Tracked(ram)) + 1
        BY <3>1, <3>3
      <4> HIDE DEF Tracked
      <4> QED
        BY <1>1, <1>3, <4>1, <4>2
    <3> QED
      BY <3>2, <3>3
  <2>5. new["public"] <= public /\ (clears = 0 => \A k \in Keys \ {"public"} : new[k] <= Len(rows))
    BY <1>1, <1>2, <2>1
  <2>6. clears = 0 => \A k \in Keys : new[k] >= ram[k]
    BY <1>1, <2>1
  <2> QED
    BY <2>4, <2>5, <2>6 DEF Bounded, Within, Keeps
<1>5. CASE ram[t] = 0 /\ Cardinality(Tracked(ram)) = Capacity
           /\ \E u \in Tracked(ram) : new = [ram EXCEPT ![t] = n, ![u] = 0]
  <2>1. PICK u \in Tracked(ram) : new = [ram EXCEPT ![t] = n, ![u] = 0]
    BY <1>5
  <2>2. u \in Threads /\ u # t /\ t \notin Tracked(ram)
    BY <1>1, <1>5 DEF Tracked
  <2>3. \A k \in Keys : new[k] = IF k = u THEN 0 ELSE IF k = t THEN n ELSE ram[k]
    BY <1>1, <2>1, <2>2 DEF Cursors
  <2>4. Tracked(new) = (Tracked(ram) \ {u}) \cup {t}
    BY <1>1, <2>2, <2>3 DEF Tracked
  <2>5. /\ IsFiniteSet(Tracked(ram) \ {u})
        /\ Cardinality(Tracked(ram) \ {u}) = Cardinality(Tracked(ram)) - 1
    BY <1>3, FS_RemoveElement
  <2>6. Cardinality(Tracked(new)) = Cardinality(Tracked(ram) \ {u}) + 1
    BY <2>2, <2>4, <2>5, FS_AddElement
  <2>7. Cardinality(Tracked(new)) = Capacity
    BY <1>1, <1>3, <1>5, <2>5, <2>6
  <2>8. new["public"] <= public /\ (clears = 0 => \A k \in Keys \ {"public"} : new[k] <= Len(rows))
    BY <1>1, <1>2, <2>2, <2>3
  <2>9. \A k \in Keys : new[k] >= ram[k] \/ k \in Threads
    BY <1>1, <2>2, <2>3
  <2> QED
    BY <1>1, <2>7, <2>8, <2>9 DEF Bounded, Within, Keeps
<1> QED
  <2>1. \/ new = [ram EXCEPT ![t] = n] /\ (ram[t] > 0 \/ Cardinality(Tracked(ram)) < Capacity)
        \/ /\ ~(ram[t] > 0) /\ ~(Cardinality(Tracked(ram)) < Capacity)
           /\ \E u \in Lowest(ram) : new = [ram EXCEPT ![t] = n, ![u] = 0]
    BY DEF Upserted
  <2> QED
    BY <1>1, <1>2, <1>3, <1>4, <1>5, <2>1 DEF Lowest

LEMMA MarksKeep ==
  ASSUME TypeOK, Bounded(ram), NEW new \in Marks
  PROVE  Bounded(new) /\ (clears = 0 => Keeps(new, ram))
<1>1. /\ ram \in Cursors /\ ram # Absent /\ \A k \in Keys : ram[k] \in Nat
      /\ Threads \subseteq Keys /\ "public" \in Keys /\ "dm" \in Keys
      /\ "public" \notin Threads /\ "dm" \notin Threads /\ "public" # "dm"
      /\ public \in Nat /\ Len(rows) \in Nat
  BY BlobFacts, ReadAssumption DEF TypeOK, Keys
<1>2. /\ ram["public"] <= public
      /\ clears = 0 => \A k \in Keys \ {"public"} : ram[k] <= Len(rows)
      /\ Cardinality(Tracked(ram)) <= Capacity
  BY <1>1 DEF Bounded, Within
<1>3. ASSUME NEW m \in Cursors,
             \A k \in Keys : \/ m[k] = ram[k]
                             \/ k = "public" /\ m[k] = public
                             \/ k = "dm" /\ m[k] = Len(rows)
      PROVE  Bounded(m) /\ (clears = 0 => Keeps(m, ram))
  <2>1. \A k \in Threads : m[k] = ram[k]
    BY <1>1, <1>3
  <2>2. Tracked(m) = Tracked(ram)
    BY <2>1 DEF Tracked
  <2>3. m["public"] <= public /\ (clears = 0 => \A k \in Keys \ {"public"} : m[k] <= Len(rows))
    BY <1>1, <1>2, <1>3
  <2>4. clears = 0 => \A k \in Keys : m[k] >= ram[k]
    BY <1>1, <1>2, <1>3
  <2> QED
    BY <1>2, <2>2, <2>3, <2>4 DEF Bounded, Within, Keeps
<1>4. new \in Cursors
  BY MarksFacts
<1>5. CASE new \in PublicMark
  <2>1. new = [ram EXCEPT !["public"] = public]
    BY <1>5 DEF PublicMark
  <2>2. \A k \in Keys : new[k] = IF k = "public" THEN public ELSE ram[k]
    BY <1>1, <2>1 DEF Cursors
  <2> QED
    BY <1>3, <1>4, <2>2
<1>6. ASSUME NEW m \in DmMark
      PROVE  m \in Cursors /\ \A k \in Keys : m[k] = IF k = "dm" THEN Len(rows) ELSE ram[k]
  BY <1>1, <1>6 DEF DmMark, Cursors
<1>7. CASE new \in DmMark
  BY <1>3, <1>6, <1>7
<1>8. CASE new \in AllMark
  <2>1. PICK m \in DmMark :
          new = [m EXCEPT !["public"] = IF public > PublicRead THEN public ELSE @]
    BY <1>8 DEF AllMark
  <2>2. \A k \in Keys : \/ new[k] = m[k]
                        \/ k = "public" /\ new[k] = public
    BY <1>1, <1>6, <2>1 DEF Cursors
  <2> QED
    BY <1>3, <1>4, <1>6, <2>2
<1>9. ASSUME NEW t \in Threads, new \in ThreadMark(t)
      PROVE  Bounded(new) /\ (clears = 0 => Keeps(new, ram))
  <2>1. PICK n \in RowsOf(t) : n > ThreadRead(t) /\ new \in Upserted(ram, t, n)
    BY <1>9 DEF ThreadMark, Newest
  <2>2. n \in 1 .. Len(rows)
    BY <2>1 DEF RowsOf
  <2>3. clears = 0 => n >= ram[t]
    <3> SUFFICES ASSUME clears = 0 PROVE n >= ram[t]
      OBVIOUS
    <3>1. ram[t] <= Len(rows) /\ ram["dm"] <= Len(rows)
      BY <1>1, <1>2
    <3>2. ThreadRead(t) >= ram[t]
      BY <1>1, <3>1 DEF ThreadRead, InNumbering, Larger
    <3>3. ThreadRead(t) \in Nat
      BY <1>1, <3>1 DEF ThreadRead, InNumbering, Larger
    <3> QED
      BY <1>1, <2>1, <2>2, <3>2, <3>3
  <2> QED
    BY <2>1, <2>2, <2>3, UpsertedKeeps
<1> QED
  BY <1>5, <1>7, <1>8, <1>9 DEF Marks

-----------------------------------------------------------------------------
LEMMA CardInit == Init => CursorsBounded /\ ValueKeeps
<1> SUFFICES ASSUME Init PROVE CursorsBounded /\ ValueKeeps
  OBVIOUS
<1>1. Bounded(Blank) /\ Bounded(Absent)
  BY TypeInit, BlankBounded
<1>2. op.value = Blank /\ op.pc = "idle"
  BY DEF Init, Idle
<1>3. ram = Blank /\ journal = Absent /\ \A c \in Cards : card[c] = Absent
  BY DEF Init
<1>4. CursorsBounded
  BY <1>1, <1>2, <1>3 DEF CursorsBounded
<1> QED
  BY <1>2, <1>4 DEF ValueKeeps

(* A step that touches no blob.                                              *)
LEMMA QuietCard ==
  ASSUME CardInv, TypeOK', UNCHANGED <<ram, journal, card>>,
         op'.value = op.value \/ op'.value = Blank,
         public <= public', clears' = 0 => clears = 0 /\ Len(rows) <= Len(rows'),
         \/ op'.pc # "write" \/ ~op'.fence
         \/ op' = op /\ slot' = slot
  PROVE  CursorsBounded' /\ ValueKeeps'
<1>1. TypeOK /\ Bounded(Blank)
  BY BlankBounded DEF CardInv, ReadInv
<1>2. Bounded(ram') /\ Bounded(journal') /\ \A c \in Cards : Bounded(card'[c])
  BY DEF CardInv, CursorsBounded
<1>3. Bounded(op'.value)
  BY <1>1 DEF CardInv, CursorsBounded
<1>4. CursorsBounded'
  BY <1>1, <1>2, <1>3, BoundedKept
<1>5. ValueKeeps'
  BY DEF CardInv, ValueKeeps
<1> QED
  BY <1>4, <1>5

(* A step in which no message comes in: blobs move, and what is written next  *)
(* is no worse than what the card has.                                        *)
LEMMA MovingCard ==
  ASSUME CardInv, TypeOK', UNCHANGED storeVars,
         Bounded(ram'), Bounded(journal'), Bounded(op'.value),
         \A c \in Cards : Bounded(card'[c]),
         op'.pc # "write"
  PROVE  CursorsBounded' /\ ValueKeeps'
<1>1. TypeOK /\ public <= public' /\ (clears' = 0 => clears = 0 /\ Len(rows) <= Len(rows'))
  BY DEF CardInv, ReadInv, TypeOK, storeVars
<1>2. CursorsBounded'
  BY <1>1, BoundedKept
<1> QED
  BY <1>2 DEF ValueKeeps

(* An operation that goes on or gives up hands no new value to the card.     *)
LEMMA OpGoes ==
  ASSUME op \in Ops,
         GiveUp \/ Succeed
  PROVE  op'.pc # "write" /\ op'.value \in {op.value, Blank}
<1>1. CASE op' = Idle
  BY <1>1 DEF Idle
<1>2. CASE op' = [op EXCEPT !.pc = "flush", !.init = FALSE] \/ op' = [op EXCEPT !.pc = "mark"]
  BY <1>2 DEF Ops
<1> QED
  BY <1>1, <1>2, Zenon DEF GiveUp, Succeed

LEMMA CardLoad ==
  ASSUME CardInv, Load, TypeOK' PROVE CursorsBounded' /\ ValueKeeps'
<1>1. op \in Ops /\ TypeOK
  BY DEF CardInv, ReadInv, TypeOK, Ops, Pcs
<1>2. ram' \in {Blank, journal} /\ UNCHANGED <<journal, card, storeVars>>
  BY DEF Load
<1>3. op'.pc \in {"idle", "flush"} /\ op'.value \in {op.value, Blank}
  <2>1. CASE op' = Idle
    BY <2>1 DEF Idle
  <2>2. CASE op' = [op EXCEPT !.pc = "flush", !.init = slot # NoCard]
    BY <1>1, <2>2 DEF Ops
  <2> QED
    BY <2>1, <2>2, Zenon DEF Load
<1>4. Bounded(ram') /\ Bounded(journal') /\ Bounded(op'.value) /\ \A c \in Cards : Bounded(card'[c])
  BY <1>1, <1>2, <1>3, BlankBounded DEF CardInv, CursorsBounded
<1> QED
  BY <1>2, <1>3, <1>4, MovingCard

LEMMA CardFlush ==
  ASSUME CardInv, Flush, TypeOK' PROVE CursorsBounded' /\ ValueKeeps'
<1>1. op \in Ops /\ TypeOK
  BY DEF CardInv, ReadInv, TypeOK, Ops, Pcs
<1>2. journal' \in {ram, journal} /\ UNCHANGED <<ram, card, storeVars>>
  BY DEF Flush
<1>3. op'.pc # "write" /\ op'.value \in {op.value, Blank}
  <2>1. GiveUp \/ Succeed \/ op' = [op EXCEPT !.pc = "read", !.fence = TRUE]
    BY Zenon DEF Flush
  <2>2. CASE op' = [op EXCEPT !.pc = "read", !.fence = TRUE]
    BY <1>1, <2>2 DEF Ops
  <2> QED
    BY <1>1, <2>1, <2>2, OpGoes
<1>4. Bounded(ram') /\ Bounded(journal') /\ Bounded(op'.value) /\ \A c \in Cards : Bounded(card'[c])
  BY <1>1, <1>2, <1>3, BlankBounded DEF CardInv, CursorsBounded
<1> QED
  BY <1>2, <1>3, <1>4, MovingCard

LEMMA CardRetire ==
  ASSUME CardInv, Retire, TypeOK' PROVE CursorsBounded' /\ ValueKeeps'
<1>1. op \in Ops /\ TypeOK
  BY DEF CardInv, ReadInv, TypeOK, Ops, Pcs
<1>2. journal' \in {Absent, journal} /\ UNCHANGED <<ram, card, storeVars>>
  BY DEF Retire
<1>3. op'.pc # "write" /\ op'.value \in {op.value, Blank}
  <2>1. CASE Goto("apply")
    BY <1>1, <2>1 DEF Goto, Ops
  <2> QED
    BY <1>1, <2>1, OpGoes, Zenon DEF Retire
<1>4. Bounded(ram') /\ Bounded(journal') /\ Bounded(op'.value) /\ \A c \in Cards : Bounded(card'[c])
  BY <1>1, <1>2, <1>3, BlankBounded DEF CardInv, CursorsBounded
<1> QED
  BY <1>2, <1>3, <1>4, MovingCard

LEMMA CardApply ==
  ASSUME CardInv, Apply, TypeOK' PROVE CursorsBounded' /\ ValueKeeps'
<1>1. op \in Ops /\ TypeOK
  BY DEF CardInv, ReadInv, TypeOK, Ops, Pcs
<1>2. journal' \in {ram, journal} /\ ram' \in {ram, op.value} /\ UNCHANGED <<card, storeVars>>
  BY DEF Apply, JournalAgain
<1>3. op'.pc # "write" /\ op'.value \in {op.value, Blank}
  <2>1. GiveUp \/ Succeed
    BY Zenon DEF Apply, JournalAgain
  <2> QED
    BY <1>1, <2>1, OpGoes
<1>4. Bounded(ram') /\ Bounded(journal') /\ Bounded(op'.value) /\ \A c \in Cards : Bounded(card'[c])
  BY <1>1, <1>2, <1>3, BlankBounded DEF CardInv, CursorsBounded
<1> QED
  BY <1>2, <1>3, <1>4, MovingCard

LEMMA CardWrite ==
  ASSUME CardInv, WriteCard, TypeOK' PROVE CursorsBounded' /\ ValueKeeps'
<1>1. op \in Ops /\ TypeOK
  BY DEF CardInv, ReadInv, TypeOK, Ops, Pcs
<1>2. card' \in {card, [card EXCEPT ![slot] = op.value]} /\ UNCHANGED <<ram, journal, storeVars>>
  BY DEF WriteCard
<1>3. op'.pc # "write" /\ op'.value \in {op.value, Blank}
  <2>1. CASE Goto("retire")
    BY <1>1, <2>1 DEF Goto, Ops
  <2> QED
    BY <1>1, <2>1, OpGoes, Zenon DEF WriteCard
<1>4. \A c \in Cards : card'[c] \in {card[c], op.value}
  BY <1>1, <1>2 DEF TypeOK
<1>5. Bounded(ram') /\ Bounded(journal') /\ Bounded(op'.value) /\ \A c \in Cards : Bounded(card'[c])
  BY <1>1, <1>2, <1>3, <1>4, BlankBounded DEF CardInv, CursorsBounded
<1> QED
  BY <1>2, <1>3, <1>5, MovingCard

(* What reconcile_current_sd is to write is the merge of RAM and the card.   *)
LEMMA CardRead ==
  ASSUME CardInv, Read, TypeOK' PROVE CursorsBounded' /\ ValueKeeps'
<1> DEFINE theirs == IF slot = NoCard \/ card[slot] = Absent THEN Blank ELSE card[slot]
           value == IF local THEN Merged(ram, theirs) ELSE theirs
<1>1. /\ op \in Ops /\ TypeOK /\ ram \in Cursors /\ theirs \in Cursors
      /\ UNCHANGED <<ram, journal, card, slot, storeVars>>
  BY BlankFacts DEF Read, CardInv, ReadInv, TypeOK, Ops, Pcs
<1>2. Bounded(theirs) /\ Bounded(ram)
  BY <1>1, BlankBounded DEF CardInv, CursorsBounded, TypeOK
<1>3. Bounded(ram') /\ Bounded(journal') /\ \A c \in Cards : Bounded(card'[c])
  BY <1>1 DEF CardInv, CursorsBounded
<1>4. CASE GiveUp
  <2>1. op'.pc # "write" /\ op'.value \in {op.value, Blank}
    BY <1>1, <1>4, OpGoes
  <2>2. Bounded(op'.value)
    BY <1>1, <2>1, BlankBounded DEF CardInv, CursorsBounded
  <2> QED
    BY <1>1, <1>3, <2>1, <2>2, MovingCard
<1>5. CASE /\ op.fence /\ (local => MergeFits(ram, theirs))
           /\ op' = [op EXCEPT !.value = value,
                               !.pc = IF local /\ value # card[slot] THEN "write" ELSE "retire"]
  <2>1. value \in Cursors /\ Bounded(value)
    BY <1>1, <1>2, <1>5, MergedBounded, MergedFacts
  <2>2. Keeps(value, theirs)
    <3>1. \A k \in Keys : theirs[k] \in Nat /\ (local => value[k] >= theirs[k])
      BY <1>1, MergedFacts DEF Cursors
    <3> QED
      BY <3>1 DEF Keeps
  <2> HIDE DEF value
  <2>3. op'.value = value /\ (op'.pc = "write" => local)
    BY <1>1, <1>5 DEF Ops
  <2>4. public <= public' /\ (clears' = 0 => clears = 0 /\ Len(rows) <= Len(rows'))
    BY <1>1 DEF TypeOK, storeVars
  <2>5. CursorsBounded'
    BY <1>1, <1>3, <2>1, <2>3, <2>4, BoundedKept
  <2>6. slot # NoCard
    BY <1>5 DEF Read, At, CardInv, ReadInv, Safe, FlagsOK
  <2>7. Keeps(value, card[slot])
    BY <2>2, <2>6 DEF Keeps
  <2>8. ValueKeeps'
    BY <1>1, <2>3, <2>7 DEF ValueKeeps
  <2> QED
    BY <2>5, <2>8
<1> QED
  BY <1>4, <1>5, Zenon DEF Read

(* A mark that goes to the card at once goes to the accepted one, which has  *)
(* nothing that RAM has not.                                                 *)
LEMMA CardMark ==
  ASSUME CardInv, Mark, TypeOK' PROVE CursorsBounded' /\ ValueKeeps'
<1>1. /\ op \in Ops /\ TypeOK /\ Bounded(Blank) /\ Bounded(ram)
      /\ loaded /\ (fresh /\ slot # NoCard => ~reconcile)
      /\ UNCHANGED <<card, slot, storeVars, fresh>>
  BY BlankBounded DEF Mark, At, CardInv, CursorsBounded, ReadInv, Safe, FlagsOK, TypeOK, Ops, Pcs
<1>2. CASE op' = Idle /\ UNCHANGED <<ram, journal>>
  <2>1. op'.pc = "idle" /\ op'.value = Blank
    BY <1>2 DEF Idle
  <2> QED
    BY <1>1, <1>2, <2>1, MovingCard DEF CardInv, CursorsBounded
<1>3. ASSUME NEW new \in Marks, MarkStep(new) PROVE CursorsBounded' /\ ValueKeeps'
  <2>1. new \in Cursors /\ Bounded(new) /\ (clears = 0 => Keeps(new, ram))
    BY <1>1, <1>3, MarksFacts, MarksKeep
  <2>2. journal' \in {journal, new} /\ ram' \in {ram, new}
    BY <1>3 DEF MarkStep
  <2>3. \/ op' = Idle
        \/ /\ fresh /\ slot # NoCard
           /\ op' = [op EXCEPT !.pc = "write", !.mark = FALSE, !.fence = TRUE, !.value = new]
    BY <1>3, Zenon DEF MarkStep
  <2>4. Bounded(ram') /\ Bounded(journal') /\ \A c \in Cards : Bounded(card'[c])
    BY <1>1, <2>1, <2>2 DEF CardInv, CursorsBounded
  <2>5. CASE op' = Idle
    <3>1. op'.pc = "idle" /\ op'.value = Blank
      BY <2>5 DEF Idle
    <3> QED
      BY <1>1, <2>4, <3>1, MovingCard
  <2>6. CASE /\ fresh /\ slot # NoCard
             /\ op' = [op EXCEPT !.pc = "write", !.mark = FALSE, !.fence = TRUE, !.value = new]
    <3>1. op'.value = new
      BY <1>1, <2>6 DEF Ops
    <3>2. public <= public' /\ (clears' = 0 => clears = 0 /\ Len(rows) <= Len(rows'))
      BY <1>1 DEF TypeOK, storeVars
    <3>3. CursorsBounded'
      BY <1>1, <2>1, <2>4, <3>1, <3>2, BoundedKept
    <3>4. Covers(ram, card[slot])
      BY <1>1, <2>6, Zenon DEF CardInv, ReadInv, Safe, CardCovered
    <3>5. ASSUME clears = 0 PROVE Keeps(new, card[slot])
      <4> SUFFICES ASSUME card[slot] # Absent, NEW k \in Keys,
                          ~(k \in Threads /\ Cardinality(Tracked(new)) = Capacity)
                   PROVE  new[k] >= card[slot][k]
        BY DEF Keeps
      <4>1. card[slot] \in Cursors /\ ram \in Cursors /\ ram # Absent
        BY <1>1, <2>6, BlobFacts DEF TypeOK
      <4>2. card[slot][k] \in Nat /\ ram[k] \in Nat /\ new[k] \in Nat
        BY <2>1, <4>1 DEF Cursors
      <4>3. ram[k] >= card[slot][k]
        BY <3>4 DEF Covers
      <4>4. new[k] >= ram[k]
        BY <2>1, <3>5, <4>1 DEF Keeps
      <4> QED
        BY <4>2, <4>3, <4>4
    <3>6. ValueKeeps'
      BY <1>1, <3>1, <3>5 DEF ValueKeeps, storeVars
    <3> QED
      BY <3>3, <3>6
  <2> QED
    BY <2>3, <2>5, <2>6
<1> QED
  BY <1>2, <1>3 DEF Mark

(* What goes on around an operation.                                         *)
LEMMA CardAround ==
  ASSUME CardInv, TypeOK',
         \/ \E mark \in BOOLEAN : Begin(mark)
         \/ ReceivePublic \/ ClearDm \/ Reboot
         \/ \E t \in Threads : Receive(t)
         \/ \E c \in Cards \cup {NoCard} : Swap(c)
  PROVE  CursorsBounded' /\ ValueKeeps'
<1>1. op \in Ops /\ TypeOK
  BY DEF CardInv, ReadInv, TypeOK, Ops, Pcs
<1>2. public \in Nat /\ clears \in Nat /\ rows \in Seq(Threads) /\ Len(rows) \in Nat
  BY <1>1 DEF TypeOK
<1>3. CASE \E mark \in BOOLEAN : Begin(mark)
  <2>1. op'.pc # "write" /\ op'.value = Blank
    BY <1>3 DEF Begin, Idle
  <2>2. UNCHANGED <<ram, journal, card, public, rows, clears>>
    BY <1>3 DEF Begin, storeVars
  <2> QED
    BY <1>2, <2>1, <2>2, QuietCard
<1>4. CASE ReceivePublic
  BY <1>2, <1>4, QuietCard DEF ReceivePublic
<1>5. CASE \E t \in Threads : Receive(t)
  BY <1>2, <1>5, QuietCard DEF Receive
<1>6. CASE ClearDm
  <2>1. op'.pc # "write" /\ op'.value = Blank
    BY <1>6 DEF ClearDm, Idle
  <2>2. UNCHANGED <<ram, journal, card, public>> /\ clears' # 0
    BY <1>2, <1>6 DEF ClearDm
  <2> QED
    BY <1>2, <2>1, <2>2, QuietCard
<1>7. CASE Reboot
  <2>1. op'.pc # "write" /\ op'.value = Blank /\ ram' = Blank
    BY <1>7 DEF Reboot, Idle
  <2>2. UNCHANGED <<journal, card, storeVars>>
    BY <1>7 DEF Reboot
  <2> QED
    BY <1>1, <2>1, <2>2, BlankBounded, MovingCard DEF CardInv, CursorsBounded
<1>8. CASE \E c \in Cards \cup {NoCard} : Swap(c)
  <2>1. ~op'.fence /\ op'.value = Blank
    BY <1>1, <1>8 DEF Swap, Ops
  <2>2. UNCHANGED <<ram, journal, card, public, rows, clears>>
    BY <1>8 DEF Swap, storeVars
  <2> QED
    BY <1>2, <2>1, <2>2, QuietCard
<1> QED
  BY <1>3, <1>4, <1>5, <1>6, <1>7, <1>8

LEMMA CardStep == CardInv /\ [Next]_vars => CardInv'
<1> SUFFICES ASSUME CardInv, [Next]_vars PROVE CardInv'
  OBVIOUS
<1>1. ReadInv' /\ TypeOK'
  BY TypeStep, SafeStep DEF CardInv, ReadInv
<1>2. CASE UNCHANGED vars
  BY <1>1, <1>2 DEF CardInv, CursorsBounded, ValueKeeps, Bounded, vars, storeVars
<1>3. CASE Step
  BY <1>1, <1>3, CardLoad, CardFlush, CardRead, CardWrite, CardRetire, CardApply, CardMark
     DEF Step, CardInv
<1>4. CASE Next /\ ~Step
  BY <1>1, <1>4, CardAround DEF Next, CardInv
<1> QED
  BY <1>2, <1>3, <1>4

(* A card is written by WriteCard alone, with a value that keeps what it has. *)
LEMMA CardKept ==
  CardInv /\ [Next]_vars =>
    \A c \in Cards : card[c] # Absent => \A k \in Keys : CursorKept(c, k)
<1> SUFFICES ASSUME CardInv, [Next]_vars, NEW c \in Cards, card[c] # Absent, NEW k \in Keys,
                    clears = 0
             PROVE  CursorKept(c, k)
  BY DEF CursorKept, CardInv, ReadInv, TypeOK
<1>1. /\ card[c] \in Cursors /\ card[c][k] \in Nat /\ op.value \in Cursors
      /\ card \in [Cards -> Cursors \cup {Absent}]
  BY DEF CardInv, ReadInv, TypeOK, Cursors
<1>2. op.value # Absent
  BY <1>1, BlobFacts
<1>3. CASE card' = card
  BY <1>1, <1>3 DEF CursorKept, Held
<1>4. CASE WriteCard
  <2>1. card' = card \/ (op.fence /\ card' = [card EXCEPT ![slot] = op.value])
    BY <1>4 DEF WriteCard
  <2>2. CASE op.fence /\ card' = [card EXCEPT ![slot] = op.value] /\ c = slot
    <3>1. card'[c] = op.value
      BY <1>1, <2>2
    <3>2. Keeps(op.value, card[c])
      BY <1>4, <2>2 DEF WriteCard, At, CardInv, ValueKeeps
    <3> QED
      BY <1>2, <3>1, <3>2 DEF CursorKept, Keeps, Held
  <2>3. CASE card' = card \/ (card' = [card EXCEPT ![slot] = op.value] /\ c # slot)
    <3>1. card'[c] = card[c]
      BY <1>1, <2>3
    <3> QED
      BY <1>1, <3>1 DEF CursorKept, Held
  <2> QED
    BY <2>1, <2>2, <2>3
<1>5. CASE Step /\ ~WriteCard
  BY <1>3, <1>5 DEF Step, Load, Flush, Read, Retire, Apply, Mark
<1>6. CASE Next /\ ~Step
  BY <1>3, <1>6 DEF Next, Begin, ReceivePublic, Receive, ClearDm, Reboot, Swap
<1> QED
  BY <1>3, <1>4, <1>5, <1>6 DEF vars

(* Whichever cards come and go, and whatever fails, the write that flush     *)
(* makes never takes a card's cursor back: it is the merge with what was     *)
(* read from this card under the fence, or a mark on top of what this card   *)
(* was last given; only a full table gives one up.                           *)
THEOREM CardsNeverGoBack == Spec => CardsMonotone
<1>1. Init => CardInv
  BY TypeInit, SafeInit, CardInit DEF CardInv, ReadInv
<1>2. CardInv /\ [Next]_vars => CardInv'
  BY CardStep
<1>3. CardInv /\ [Next]_vars =>
        [\A c \in Cards : card[c] # Absent => \A k \in Keys : CursorKept(c, k)]_vars
  BY CardKept
<1> QED
  BY <1>1, <1>2, <1>3, PTL DEF Spec, CardsMonotone

=============================================================================
