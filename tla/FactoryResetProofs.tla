------------------------- MODULE FactoryResetProofs -------------------------
(***************************************************************************)
(* Proofs about the factory reset, for any number of domains and stores,   *)
(* any number of resets and failures, and with any cards in the slot.      *)
(*                                                                         *)
(* Of the reset, the inductive invariant is ResetInv: what boot has armed  *)
(* and erased so far, and that the journal is given up only with every key *)
(* clean.  Of the fence it is CardInv: no marker on a card is newer than a *)
(* lineage record, an adopted card holds nothing old, and what is left of  *)
(* an operation's plan still erases all that is old before it puts a       *)
(* marker.  Of a write it is WriteInv: the stage the write has come to.    *)
(***************************************************************************)
EXTENDS SdLineage, FiniteSetTheorems, SequenceTheorems, TLAPS

Clean(d) == domain[d] \in {Absent, resets}

AtOK ==
  /\ phase = "arm" => at \in StoreId
  /\ phase \in {"erase", "progress"} => at \in DomainId

WhileWorking ==
  phase \in {"arm", "erase", "progress"} => journal.state = "active"

ArmedSoFar ==
  /\ phase = "arm" => \A s \in StoreId : s < at => Armed(s)
  /\ phase \in {"erase", "progress"} => \A s \in StoreId : Armed(s)

ErasedSoFar ==
  /\ phase \in {"erase", "progress"} =>
       \A d \in DomainId : d < at => domain[d] = Absent
  /\ phase = "progress" => domain[at] = Absent

CleanWhenDone ==
  journal.state \in {"absent", "complete"} \/ phase = "running"
    => \A d \in DomainId : Clean(d)

RunningNotActive == phase = "running" => journal.state # "active"

ResetInv ==
  /\ TypeOK
  /\ AtOK
  /\ WhileWorking
  /\ ArmedSoFar
  /\ ErasedSoFar
  /\ CleanWhenDone
  /\ RunningNotActive
-----------------------------------------------------------------------------
(* The helpers, typed.                                                     *)
LEMMA Constants ==
  /\ Domains \in Nat \ {0} /\ Stores \in Nat \ {0} /\ MaxResets \in Nat
  /\ 0 \in Epochs /\ 1 \in 1 .. (Domains + Stores)
  /\ \A n \in 1 .. Domains : n \in 1 .. (Domains + Stores)
  /\ \A n \in 1 .. Stores : n \in 1 .. (Domains + Stores)
  /\ CursorsKey \in DomainId
  BY ResetAssumption DEF Epochs, DomainId

JournalType == [state : {"absent", "active", "complete", "bad"},
                gen : Nat, next : 0 .. Domains]
LineageType == [gen : Nat, active : BOOLEAN, ok : BOOLEAN]
CursorsType == [ready : BOOLEAN, nvs : Epochs \cup {Absent},
                ram : Epochs \cup {Absent, NotLoaded}]

LEMMA CountType ==
  ASSUME NEW failed \in BOOLEAN, faults \in 0 .. MaxFaults, Count(failed)
  PROVE  faults' \in 0 .. MaxFaults
  BY ResetAssumption DEF Count

LEMMA StoreJournalType ==
  ASSUME NEW j \in JournalType, NEW o, journal \in JournalType,
         StoreJournal(j, o)
  PROVE  journal' \in JournalType
  BY DEF StoreJournal

LEMMA JournalTyped ==
  ASSUME NEW st \in {"absent", "active", "complete", "bad"}, NEW g \in Nat,
         NEW n \in 0 .. Domains
  PROVE  Journal(st, g, n) \in JournalType
  BY DEF Journal, JournalType

LEMMA StoreLineageType ==
  ASSUME NEW s \in StoreId, NEW l \in LineageType, NEW o,
         fence \in [StoreId -> LineageType], StoreLineage(s, l, o)
  PROVE  fence' \in [StoreId -> LineageType]
  BY DEF StoreLineage

LEMMA LineageTyped ==
  ASSUME NEW g \in Nat, NEW a \in BOOLEAN
  PROVE  Lineage(g, a) \in LineageType
  BY DEF Lineage, LineageType

LEMMA EraseKeyType ==
  ASSUME NEW d \in DomainId, NEW o,
         domain \in [DomainId -> Epochs \cup {Absent}], EraseKey(d, o)
  PROVE  domain' \in [DomainId -> Epochs \cup {Absent}]
  BY DEF EraseKey

LEMMA NextGenerationType ==
  ASSUME fence \in [StoreId -> LineageType]
  PROVE  NextGeneration \subseteq Nat
  <1>1. \A s \in Readable : fence[s].gen + 1 \in Nat
    BY DEF Readable, LineageType
  <1> QED
    BY <1>1 DEF NextGeneration

LEMMA ScheduleType ==
  ASSUME NEW g \in Nat, NEW o, journal \in JournalType, resets \in Epochs,
         Schedule(g, o)
  PROVE  journal' \in JournalType /\ resets' \in Epochs
  <1>1. Journal("active", g, 0) \in JournalType
    BY JournalTyped, Constants
  <1>2. journal' \in JournalType
    BY <1>1, StoreJournalType DEF Schedule
  <1>3. resets' \in Epochs
    BY Constants DEF Schedule, Epochs
  <1> QED
    BY <1>2, <1>3

LEMMA CursorsTyped ==
  ASSUME NEW ready \in BOOLEAN, NEW nvs \in Epochs \cup {Absent},
         NEW mem \in Epochs \cup {Absent, NotLoaded}
  PROVE  Cursors(ready, nvs, mem) \in CursorsType
  BY DEF Cursors, CursorsType

LEMMA TypeParts ==
  TypeOK <=> /\ phase \in Phases
             /\ at \in 1 .. (Domains + Stores)
             /\ journal \in JournalType
             /\ fence \in [StoreId -> LineageType]
             /\ domain \in [DomainId -> Epochs \cup {Absent}]
             /\ readState \in CursorsType
             /\ resets \in Epochs
             /\ faults \in 0 .. MaxFaults
  BY DEF TypeOK, JournalType, LineageType, CursorsType

-----------------------------------------------------------------------------
LEMMA InitInv == Init => ResetInv
  <1> SUFFICES ASSUME Init PROVE ResetInv
    OBVIOUS
  <1>1. phase = "off" /\ journal.state = "absent" /\ resets = 0
    BY DEF Init, Journal
  <1>2. TypeOK
    <2>1. journal \in JournalType
      BY JournalTyped, Constants DEF Init
    <2>2. fence \in [StoreId -> LineageType]
      BY LineageTyped DEF Init, NoLineage
    <2>3. domain \in [DomainId -> Epochs \cup {Absent}]
      BY Constants DEF Init
    <2>4. /\ phase \in Phases /\ at \in 1 .. (Domains + Stores)
          /\ readState \in CursorsType /\ resets \in Epochs
      BY Constants, CursorsTyped DEF Init, Phases
    <2>5. faults \in 0 .. MaxFaults
      BY ResetAssumption DEF Init
    <2> QED
      BY <2>1, <2>2, <2>3, <2>4, <2>5, TypeParts
  <1>3. CleanWhenDone
    BY <1>1 DEF CleanWhenDone, Clean, Init
  <1> QED
    BY <1>1, <1>2, <1>3
    DEF ResetInv, AtOK, WhileWorking, ArmedSoFar, ErasedSoFar, RunningNotActive
-----------------------------------------------------------------------------
(* Type correctness, one step per action.                                  *)
LEMMA EnterTyped ==
  ASSUME NEW p \in Phases, Enter(p)
  PROVE  phase' \in Phases /\ at' \in 1 .. (Domains + Stores)
  BY Constants DEF Enter

LEMMA FrameTyped ==
  ASSUME TypeOK
  PROVE  /\ UNCHANGED phase => phase' \in Phases
         /\ UNCHANGED at => at' \in 1 .. (Domains + Stores)
         /\ UNCHANGED journal => journal' \in JournalType
         /\ UNCHANGED fence => fence' \in [StoreId -> LineageType]
         /\ UNCHANGED domain => domain' \in [DomainId -> Epochs \cup {Absent}]
         /\ UNCHANGED readState => readState' \in CursorsType
         /\ UNCHANGED resets => resets' \in Epochs
         /\ UNCHANGED faults => faults' \in 0 .. MaxFaults
  BY TypeParts

LEMMA TypeFromParts ==
  ASSUME phase' \in Phases,
         at' \in 1 .. (Domains + Stores),
         journal' \in JournalType,
         fence' \in [StoreId -> LineageType],
         domain' \in [DomainId -> Epochs \cup {Absent}],
         readState' \in CursorsType,
         resets' \in Epochs,
         faults' \in 0 .. MaxFaults
  PROVE  TypeOK'
  BY DEF TypeOK, JournalType, LineageType, CursorsType

LEMMA BootType == ASSUME TypeOK, AtOK, Boot PROVE TypeOK'
  <1> USE TypeParts, FrameTyped, TypeFromParts, Constants
  <1>0. journal.gen \in Nat
    BY DEF JournalType
  <1>1. CASE Inspect
    BY <1>1, EnterTyped, CountType DEF Inspect, Phases
  <1>2. CASE RetainedInit
    <2>1. PICK failed \in BOOLEAN :
            Count(failed) /\ readState' = [readState EXCEPT !.ready = ~failed]
      BY <1>2 DEF RetainedInit
    <2>2. readState' \in CursorsType
      BY <2>1 DEF CursorsType
    <2>3. faults' \in 0 .. MaxFaults
      BY <2>1, CountType
    <2>4. phase' \in Phases /\ at' \in 1 .. (Domains + Stores)
      BY <1>2, EnterTyped DEF Phases, RetainedInit
    <2> QED
      BY <1>2, <2>2, <2>3, <2>4 DEF RetainedInit
  <1>5. CASE ResumeRefused
    BY <1>5, EnterTyped, CountType DEF ResumeRefused, Phases
  <1>6. CASE ResumeAbsent
    BY <1>6, EnterTyped DEF ResumeAbsent, Phases
  <1>7. CASE ResumeComplete
    <2>1. PICK o \in Outcomes :
            /\ Count(o # "ok")
            /\ StoreJournal(Journal("absent", 0, 0), o)
            /\ Enter(IF o = "ok" THEN "running" ELSE "recovery")
      BY <1>7 DEF ResumeComplete
    <2>2. Journal("absent", 0, 0) \in JournalType
      BY JournalTyped
    <2>3. journal' \in JournalType
      BY <2>1, <2>2, StoreJournalType
    <2>4. faults' \in 0 .. MaxFaults
      BY <2>1, CountType
    <2>5. phase' \in Phases /\ at' \in 1 .. (Domains + Stores)
      BY <2>1, EnterTyped DEF Phases
    <2> QED
      BY <1>7, <2>3, <2>4, <2>5 DEF ResumeComplete
  <1>8. CASE ResumeActive
    <2>1. PICK o \in Outcomes :
            /\ Count(o # "ok")
            /\ StoreJournal(Journal("active", journal.gen, StartOver), o)
            /\ Enter(IF o = "ok" THEN "arm" ELSE "recovery")
      BY <1>8 DEF ResumeActive
    <2>2. Journal("active", journal.gen, StartOver) \in JournalType
      BY <1>0, JournalTyped DEF StartOver
    <2>3. journal' \in JournalType
      BY <2>1, <2>2, StoreJournalType
    <2>4. faults' \in 0 .. MaxFaults
      BY <2>1, CountType
    <2>5. phase' \in Phases /\ at' \in 1 .. (Domains + Stores)
      BY <2>1, EnterTyped DEF Phases
    <2> QED
      BY <1>8, <2>3, <2>4, <2>5 DEF ResumeActive
  <1>9. CASE ArmSkip
    BY <1>9 DEF ArmSkip, NextStore, StartOver, Phases
  <1>10. CASE ArmStore
    <2>1. PICK o \in Outcomes :
            /\ Count(o # "ok")
            /\ StoreLineage(at, Lineage(journal.gen, TRUE), o)
            /\ IF o = "ok" THEN NextStore ELSE Enter("recovery")
      BY <1>10 DEF ArmStore
    <2>2. at \in StoreId
      BY <1>10 DEF ArmStore, AtOK
    <2>3. Lineage(journal.gen, TRUE) \in LineageType
      BY LineageTyped DEF JournalType
    <2>4. fence' \in [StoreId -> LineageType]
      BY <2>1, <2>2, <2>3, StoreLineageType
    <2>5. faults' \in 0 .. MaxFaults
      BY <2>1, CountType
    <2>6. phase' \in Phases /\ at' \in 1 .. (Domains + Stores)
      BY <2>1, EnterTyped DEF Phases, NextStore, StartOver
    <2> QED
      BY <1>10, <2>4, <2>5, <2>6 DEF ArmStore
  <1>11. CASE EraseDomain
    BY <1>11, EraseKeyType DEF EraseDomain, Phases, AtOK
  <1>12. CASE EraseFails
    <2>1. at \in DomainId
      BY <1>12 DEF EraseFails, AtOK
    <2>2. PICK o \in {"lost", "applied"} : EraseKey(at, o)
      BY <1>12 DEF EraseFails
    <2>3. domain' \in [DomainId -> Epochs \cup {Absent}]
      BY <2>1, <2>2, EraseKeyType
    <2>4. PICK n \in Outcomes :
            StoreJournal(Journal("active", journal.gen, at - 1), n)
      BY <1>12 DEF EraseFails
    <2>5. Journal("active", journal.gen, at - 1) \in JournalType
      <3>1. at - 1 \in 0 .. Domains
        BY <2>1 DEF DomainId
      <3> QED
        BY <3>1, <1>0, JournalTyped
    <2>6. journal' \in JournalType
      BY <2>4, <2>5, StoreJournalType
    <2>7. faults' \in 0 .. MaxFaults
      BY <1>12, CountType DEF EraseFails
    <2>8. phase' \in Phases /\ at' \in 1 .. (Domains + Stores)
      BY <1>12, EnterTyped DEF Phases, EraseFails
    <2> QED
      BY <1>12, <2>3, <2>6, <2>7, <2>8 DEF EraseFails
  <1>13. CASE Progress
    <2>1. at \in DomainId
      BY <1>13 DEF Progress, AtOK
    <2> DEFINE st == IF at = Domains THEN "complete" ELSE "active"
    <2>2. PICK o \in Outcomes :
            /\ Count(o # "ok")
            /\ StoreJournal(Journal(st, journal.gen, at), o)
            /\ \/ o = "ok" /\ at < Domains /\ phase' = "erase" /\ at' = at + 1
               \/ o = "ok" /\ at = Domains /\ Enter("running")
               \/ o # "ok" /\ Enter("recovery")
      BY <1>13 DEF Progress
    <2>3. Journal(st, journal.gen, at) \in JournalType
      <3>1. at \in 0 .. Domains
        BY <2>1 DEF DomainId
      <3> QED
        BY <3>1, <1>0, JournalTyped
    <2>4. journal' \in JournalType
      BY <2>2, <2>3, StoreJournalType
    <2>5. faults' \in 0 .. MaxFaults
      BY <2>2, CountType
    <2>6. phase' \in Phases /\ at' \in 1 .. (Domains + Stores)
      BY <2>1, <2>2, EnterTyped DEF Phases, DomainId
    <2> QED
      BY <1>13, <2>4, <2>5, <2>6 DEF Progress
  <1> QED
    BY <1>1, <1>2, <1>5, <1>6, <1>7, <1>8, <1>9, <1>10, <1>11, <1>12, <1>13
    DEF Boot

(* What a producer may change: the cursors, and keys of the inventory, none*)
(* of which ends up with older data than it had or than is being written.  *)
LEMMA CopyDropped ==
  ASSUME TypeOK, NEW may, DropCopy(may)
  PROVE  /\ domain' \in [DomainId -> Epochs \cup {Absent}]
         /\ \A e \in DomainId : domain'[e] \in {domain[e], Absent}
  BY TypeParts, Constants DEF DropCopy

LEMMA ProduceKeys ==
  ASSUME TypeOK, Produce
  PROVE  /\ phase = "running" /\ UNCHANGED <<bootVars, journal, fence, resets, faults>>
         /\ domain' \in [DomainId -> Epochs \cup {Absent}]
         /\ \A e \in DomainId : domain'[e] \in {domain[e], resets, Absent}
         /\ readState' \in CursorsType
  <1>0. /\ domain \in [DomainId -> Epochs \cup {Absent}] /\ resets \in Epochs
        /\ readState \in CursorsType /\ CursorsKey \in DomainId
    BY TypeParts, Constants
  <1>1. ASSUME NEW d \in DomainId, WriteDomain(d) \/ RetireLegacy(d)
        PROVE  /\ phase = "running" /\ UNCHANGED <<bootVars, journal, fence, resets, faults>>
               /\ domain' \in [DomainId -> Epochs \cup {Absent}]
               /\ \A e \in DomainId : domain'[e] \in {domain[e], resets, Absent}
               /\ readState' \in CursorsType
    BY <1>0, <1>1 DEF WriteDomain, RetireLegacy
  <1>2. CASE LoadCursors
    <2>1. CASE readState.nvs # Absent
      <3>1. readState' = [readState EXCEPT !.ram = readState.nvs] /\ UNCHANGED domain
        BY <1>2, <2>1 DEF LoadCursors
      <3>2. readState' \in CursorsType
        BY <1>0, <3>1 DEF CursorsType
      <3> QED
        BY <1>0, <1>2, <3>1, <3>2 DEF LoadCursors
    <2>2. CASE readState.nvs = Absent
      <3>1. PICK o \in Outcomes :
              /\ readState' = Cursors(TRUE,
                                      IF Reaches(o) THEN domain[CursorsKey] ELSE Absent,
                                      domain[CursorsKey])
              /\ DropCopy(o = "ok")
        BY <1>2, <2>2 DEF LoadCursors
      <3>2. domain[CursorsKey] \in Epochs \cup {Absent}
        BY <1>0
      <3>3. readState' \in CursorsType
        BY <3>1, <3>2, CursorsTyped
      <3> QED
        BY <1>2, <3>1, <3>3, CopyDropped DEF LoadCursors
    <2> QED
      BY <2>1, <2>2
  <1>3. CASE MarkRead
    <2>1. PICK oldest \in {resets, readState.ram} \ {Absent}, o \in {"ok", "applied"} :
            /\ readState' = Cursors(TRUE, oldest,
                                    IF o = "ok" THEN oldest ELSE readState.ram)
            /\ DropCopy(o = "ok")
      BY <1>3 DEF MarkRead
    <2>2. readState.ram \in Epochs \cup {Absent}
      BY <1>0, <1>3 DEF MarkRead, CursorsType
    <2>3. readState' \in CursorsType
      BY <1>0, <2>1, <2>2, CursorsTyped
    <2> QED
      BY <1>3, <2>1, <2>3, CopyDropped DEF MarkRead
  <1>4. CASE RetireCursors
    <2>1. readState' \in CursorsType
      BY <1>0, <1>4 DEF RetireCursors, CursorsType
    <2> QED
      BY <1>0, <1>4, <2>1 DEF RetireCursors
  <1> QED
    BY <1>1, <1>2, <1>3, <1>4 DEF Produce

LEMMA ColdTyped == ASSUME TypeOK PROVE ColdCursors \in CursorsType
  BY TypeParts, CursorsTyped DEF ColdCursors, CursorsType

LEMMA RunningType ==
  ASSUME TypeOK,
         \/ Request \/ Repair \/ Restart \/ PowerFails \/ JournalUnreadable
         \/ Produce
         \/ \E s \in StoreId, o \in Outcomes : LineageClear(s, fence[s].gen, o)
         \/ \E s \in StoreId : LineageUnreadable(s)
  PROVE  TypeOK'
  <1> USE TypeParts, FrameTyped, TypeFromParts, Constants
  <1>1. CASE Request
    <2>1. PICK failed \in BOOLEAN, o \in Outcomes :
            /\ Count(failed \/ o # "ok")
            /\ \/ \E gen \in IF journal.state = "active" THEN {journal.gen}
                             ELSE NextGeneration : Schedule(gen, o)
               \/ UNCHANGED <<journal, resets>>
      BY <1>1 DEF Request, Requested
    <2>2. journal.gen \in Nat /\ NextGeneration \subseteq Nat
      BY NextGenerationType DEF JournalType
    <2>3. journal' \in JournalType /\ resets' \in Epochs
      BY <2>1, <2>2, ScheduleType
    <2>4. faults' \in 0 .. MaxFaults
      BY <2>1, CountType
    <2>5. phase' \in Phases /\ at' \in 1 .. (Domains + Stores)
      BY <1>1, EnterTyped DEF Request, Phases
    <2> QED
      BY <1>1, <2>3, <2>4, <2>5 DEF Request
  <1>2. CASE Repair
    <2>1. PICK failed \in BOOLEAN, readBack \in BOOLEAN, o \in Outcomes :
            /\ Count(failed \/ o # "ok" \/ ~readBack)
            /\ \E gen \in NextGeneration : Schedule(gen, o)
            /\ Enter(IF Reaches(o) /\ readBack THEN "restarting" ELSE "recovery")
      BY <1>2 DEF Repair
    <2>2. NextGeneration \subseteq Nat
      BY NextGenerationType
    <2>3. journal' \in JournalType /\ resets' \in Epochs
      BY <2>1, <2>2, ScheduleType
    <2>4. faults' \in 0 .. MaxFaults
      BY <2>1, CountType
    <2>5. phase' \in Phases /\ at' \in 1 .. (Domains + Stores)
      BY <2>1, EnterTyped DEF Phases
    <2> QED
      BY <1>2, <2>3, <2>4, <2>5 DEF Repair
  <1>3. CASE Restart
    BY <1>3, EnterTyped, ColdTyped DEF Restart, Phases
  <1>4. CASE PowerFails
    BY <1>4, EnterTyped, CountType, ColdTyped DEF PowerFails, Phases
  <1>5. CASE JournalUnreadable
    <2>1. journal' \in JournalType
      BY <1>5 DEF JournalUnreadable, JournalType
    <2> QED
      BY <1>5, <2>1 DEF JournalUnreadable, bootVars
  <1>6. CASE Produce
    BY <1>6, ProduceKeys DEF bootVars
  <1>7. CASE \E s \in StoreId, o \in Outcomes : LineageClear(s, fence[s].gen, o)
    <2>1. PICK s \in StoreId, o \in Outcomes : LineageClear(s, fence[s].gen, o)
      BY <1>7
    <2>2. Lineage(fence[s].gen, FALSE) \in LineageType
      BY LineageTyped DEF LineageType
    <2>3. fence' \in [StoreId -> LineageType]
      BY <2>1, <2>2, StoreLineageType DEF LineageClear
    <2>4. faults' \in 0 .. MaxFaults
      BY <2>1, CountType DEF LineageClear
    <2> QED
      BY <2>1, <2>3, <2>4 DEF LineageClear, bootVars
  <1>8. CASE \E s \in StoreId : LineageUnreadable(s)
    <2>1. PICK s \in StoreId : LineageUnreadable(s)
      BY <1>8
    <2>2. [fence[s] EXCEPT !.ok = FALSE] \in LineageType
      BY <2>1 DEF LineageType
    <2>3. fence' \in [StoreId -> LineageType]
      BY <2>1, <2>2 DEF LineageUnreadable
    <2> QED
      BY <2>1, <2>3 DEF LineageUnreadable, bootVars
  <1> QED
    BY <1>1, <1>2, <1>3, <1>4, <1>5, <1>6, <1>7, <1>8

-----------------------------------------------------------------------------
(* The rest of the invariant.                                              *)
Working == ArmedSoFar /\ ErasedSoFar
Rest == AtOK /\ WhileWorking /\ Working /\ CleanWhenDone /\ RunningNotActive

LEMMA JournalAfter ==
  ASSUME NEW st, NEW g, NEW n, NEW o, StoreJournal(Journal(st, g, n), o)
  PROVE  /\ journal' = journal \/ (journal'.state = st /\ journal'.gen = g)
         /\ o = "ok" => journal'.state = st /\ journal'.gen = g
  BY DEF StoreJournal, Journal, Reaches

(* Where no work is under way and the device does not run, all that counts *)
(* is that the journal was not given up.                                   *)
LEMMA IdleRest ==
  ASSUME phase' \notin {"arm", "erase", "progress", "running"},
         \/ journal'.state \notin {"absent", "complete"}
         \/ \A d \in DomainId : Clean(d)'
  PROVE  Rest'
  BY DEF Rest, AtOK, WhileWorking, Working, ArmedSoFar, ErasedSoFar,
         CleanWhenDone, RunningNotActive

(* Where the device runs, the keys are clean and the journal not active.   *)
LEMMA RunningRest ==
  ASSUME phase' = "running", journal'.state # "active",
         \A d \in DomainId : Clean(d)'
  PROVE  Rest'
  BY DEF Rest, AtOK, WhileWorking, Working, ArmedSoFar, ErasedSoFar,
         CleanWhenDone, RunningNotActive

(* While a reset is carried out, its journal is active.                    *)
LEMMA WorkingRest ==
  ASSUME phase' \in {"arm", "erase", "progress"}, journal'.state = "active",
         AtOK', Working'
  PROVE  Rest'
  BY DEF Rest, WhileWorking, CleanWhenDone, RunningNotActive

LEMMA CleanFrame ==
  ASSUME NEW d \in DomainId, Clean(d), domain'[d] \in {domain[d], Absent},
         resets' = resets
  PROVE  Clean(d)'
  BY DEF Clean

LEMMA SettleType == ASSUME ResetInv PROVE domain \in [DomainId -> Epochs \cup {Absent}]
  BY TypeParts DEF ResetInv

LEMMA EarlyRest ==
  ASSUME ResetInv, Inspect \/ RetainedInit
  PROVE  Rest'
  <1>1. phase' \in {"recovery", "stores", "resume"} /\ UNCHANGED <<journal, domain, resets>>
    BY DEF Inspect, RetainedInit, Enter
  <1> QED
    BY <1>1, IdleRest DEF ResetInv, CleanWhenDone, Clean

LEMMA ResumeRest ==
  ASSUME ResetInv,
         ResumeRefused \/ ResumeAbsent \/ ResumeComplete \/ ResumeActive
  PROVE  Rest'
  <1> USE DEF ResetInv
  <1>1. CASE ResumeRefused
    <2>1. phase' = "recovery" /\ UNCHANGED <<journal, domain, resets>>
      BY <1>1 DEF ResumeRefused, Enter
    <2> QED
      BY <2>1, IdleRest DEF CleanWhenDone, Clean
  <1>2. CASE ResumeAbsent
    <2>1. /\ phase' = "running" /\ UNCHANGED <<journal, domain, resets>>
          /\ journal.state = "absent"
      BY <1>2 DEF ResumeAbsent, Enter
    <2> QED
      BY <2>1, RunningRest DEF CleanWhenDone, Clean
  <1>3. CASE ResumeComplete
    <2>1. PICK o \in Outcomes :
            /\ StoreJournal(Journal("absent", 0, 0), o)
            /\ Enter(IF o = "ok" THEN "running" ELSE "recovery")
      BY <1>3 DEF ResumeComplete
    <2>2. \A d \in DomainId : Clean(d)'
      BY <1>3 DEF ResumeComplete, CleanWhenDone, Clean
    <2>3. phase' = "running" => journal'.state = "absent"
      BY <2>1, JournalAfter DEF Enter
    <2>4. phase' \in {"running", "recovery"}
      BY <2>1 DEF Enter
    <2> QED
      BY <2>2, <2>3, <2>4, IdleRest, RunningRest
  <1>4. CASE ResumeActive
    <2>1. PICK o \in Outcomes :
            /\ StoreJournal(Journal("active", journal.gen, StartOver), o)
            /\ Enter(IF o = "ok" THEN "arm" ELSE "recovery")
      BY <1>4 DEF ResumeActive
    <2>2. journal'.state = "active"
      BY <1>4, <2>1, JournalAfter DEF ResumeActive
    <2>3. phase' \in {"arm", "recovery"} /\ at' = 1
      BY <2>1 DEF Enter
    <2>4. 1 \in StoreId /\ \A s \in StoreId : ~(s < 1)
      BY Constants DEF StoreId
    <2>5. phase' = "arm" => AtOK' /\ Working'
      BY <2>3, <2>4 DEF AtOK, Working, ArmedSoFar, ErasedSoFar
    <2> QED
      BY <2>2, <2>3, <2>5, IdleRest, WorkingRest
  <1> QED
    BY <1>1, <1>2, <1>3, <1>4

(* After the last store the erase begins at the first domain.              *)
LEMMA NextStoreRest ==
  ASSUME ResetInv, phase = "arm", NextStore, UNCHANGED journal,
         fence'[at] = Lineage(journal.gen, TRUE),
         \A s \in StoreId : s < at => fence'[s] = fence[s]
  PROVE  Rest'
  <1>1. at \in StoreId /\ journal.state = "active"
    BY DEF ResetInv, AtOK, WhileWorking
  <1>2. \A s \in StoreId : s < at \/ s = at => Armed(s)'
    BY <1>1 DEF ResetInv, ArmedSoFar, Armed
  <1>3. CASE at < Stores
    <2>1. phase' = "arm" /\ at' = at + 1
      BY <1>3 DEF NextStore
    <2>2. at' \in StoreId /\ \A s \in StoreId : s < at' => s < at \/ s = at
      BY <1>1, <1>3, <2>1, Constants DEF StoreId
    <2>3. AtOK' /\ Working'
      BY <1>2, <2>1, <2>2 DEF AtOK, Working, ArmedSoFar, ErasedSoFar
    <2> QED
      BY <1>1, <2>1, <2>3, WorkingRest
  <1>4. CASE ~(at < Stores)
    <2>1. phase' = "erase" /\ at' = 1
      BY <1>4 DEF NextStore, StartOver
    <2>2. 1 \in DomainId /\ \A d \in DomainId : ~(d < 1)
      BY Constants DEF DomainId
    <2>3. \A s \in StoreId : Armed(s)'
      <3>1. \A s \in StoreId : s < at \/ s = at
        BY <1>1, <1>4, Constants DEF StoreId
      <3> QED
        BY <3>1, <1>2
    <2>4. AtOK' /\ Working'
      BY <2>1, <2>2, <2>3 DEF AtOK, Working, ArmedSoFar, ErasedSoFar
    <2> QED
      BY <1>1, <2>1, <2>4, WorkingRest
  <1> QED
    BY <1>3, <1>4

LEMMA ArmRest == ASSUME ResetInv, ArmSkip \/ ArmStore PROVE Rest'
  <1>1. CASE ArmSkip
    BY <1>1, NextStoreRest DEF ArmSkip, Armed
  <1>2. CASE ArmStore
    <2>1. PICK o \in Outcomes :
            /\ StoreLineage(at, Lineage(journal.gen, TRUE), o)
            /\ IF o = "ok" THEN NextStore ELSE Enter("recovery")
      BY <1>2 DEF ArmStore
    <2>2. /\ phase = "arm" /\ UNCHANGED <<journal, domain, resets>>
          /\ at \in StoreId /\ journal.state = "active"
          /\ fence \in [StoreId -> LineageType]
      BY <1>2, TypeParts DEF ArmStore, ResetInv, AtOK, WhileWorking
    <2>3. CASE o = "ok"
      <3>1. fence' = [fence EXCEPT ![at] = Lineage(journal.gen, TRUE)]
        BY <2>1, <2>3 DEF StoreLineage, Reaches
      <3>2. fence'[at] = Lineage(journal'.gen, TRUE)
        BY <3>1, <2>2
      <3>3. \A s \in StoreId : s < at => fence'[s] = fence[s]
        <4>1. \A s \in StoreId : s < at => s # at
          BY <2>2 DEF StoreId
        <4> QED
          BY <3>1, <4>1, <2>2
      <3>4. NextStore
        BY <2>1, <2>3
      <3> QED
        BY <3>1, <3>2, <3>3, <3>4, <2>2, NextStoreRest DEF Armed
    <2>4. CASE o # "ok"
      BY <2>1, <2>2, <2>4, IdleRest DEF Enter
    <2> QED
      BY <2>3, <2>4
  <1> QED
    BY <1>1, <1>2

LEMMA EraseRest ==
  ASSUME ResetInv, EraseDomain \/ EraseFails \/ Progress
  PROVE  Rest'
  <1>0. /\ phase \in {"erase", "progress"} /\ journal.state = "active"
        /\ at \in DomainId /\ \A s \in StoreId : Armed(s)
        /\ \A d \in DomainId : d < at => domain[d] = Absent
        /\ domain \in [DomainId -> Epochs \cup {Absent}]
    BY TypeParts DEF EraseDomain, EraseFails, Progress, ResetInv, AtOK,
                     WhileWorking, ArmedSoFar, ErasedSoFar
  <1>1. CASE EraseDomain
    <2>1. /\ phase' = "progress" /\ UNCHANGED <<at, journal, fence>>
          /\ domain' = [domain EXCEPT ![at] = Absent]
      BY <1>1 DEF EraseDomain, EraseKey, Reaches
    <2>2. AtOK' /\ Working'
      BY <1>0, <2>1 DEF AtOK, Working, ArmedSoFar, ErasedSoFar, Armed
    <2> QED
      BY <1>0, <2>1, <2>2, WorkingRest
  <1>2. CASE EraseFails
    <2>1. PICK o \in Outcomes :
            StoreJournal(Journal("active", journal.gen, at - 1), o)
      BY <1>2 DEF EraseFails
    <2>2. journal'.state = "active"
      BY <1>0, <2>1, JournalAfter
    <2>3. phase' = "recovery"
      BY <1>2 DEF EraseFails, Enter
    <2> QED
      BY <2>2, <2>3, IdleRest
  <1>3. CASE Progress
    <2> DEFINE st == IF at = Domains THEN "complete" ELSE "active"
    <2>1. PICK o \in Outcomes :
            /\ StoreJournal(Journal(st, journal.gen, at), o)
            /\ \/ o = "ok" /\ at < Domains /\ phase' = "erase" /\ at' = at + 1
               \/ o = "ok" /\ at = Domains /\ Enter("running")
               \/ o # "ok" /\ Enter("recovery")
      BY <1>3 DEF Progress
    <2>2. /\ domain[at] = Absent
          /\ UNCHANGED <<fence, domain, resets>>
      BY <1>3 DEF Progress, ResetInv, ErasedSoFar
    <2>3. /\ journal' = journal \/ (journal'.state = st /\ journal'.gen = journal.gen)
          /\ o = "ok" => journal'.state = st /\ journal'.gen = journal.gen
      BY <2>1, JournalAfter
    <2>4. at = Domains => \A d \in DomainId : domain'[d] = Absent
      <3>1. at = Domains => \A d \in DomainId : d < at \/ d = at
        BY Constants DEF DomainId
      <3> QED
        BY <3>1, <1>0, <2>2
    <2>5. CASE o = "ok" /\ at < Domains /\ phase' = "erase" /\ at' = at + 1
      <3>1. at' \in DomainId /\ \A d \in DomainId : d < at' => d < at \/ d = at
        BY <1>0, <2>5, Constants DEF DomainId
      <3>2. journal'.state = "active" /\ journal'.gen = journal.gen
        BY <2>3, <2>5, <1>0 DEF DomainId
      <3>3. AtOK' /\ Working'
        BY <1>0, <2>2, <2>5, <3>1, <3>2
        DEF AtOK, Working, ArmedSoFar, ErasedSoFar, Armed
      <3> QED
        BY <2>5, <3>2, <3>3, WorkingRest
    <2>6. CASE o = "ok" /\ at = Domains /\ Enter("running")
      BY <2>3, <2>4, <2>6, RunningRest DEF Clean, Enter
    <2>7. CASE o # "ok" /\ Enter("recovery")
      BY <1>0, <2>3, <2>4, <2>7, IdleRest DEF Clean, Enter
    <2> QED
      BY <2>1, <2>5, <2>6, <2>7
  <1> QED
    BY <1>1, <1>2, <1>3

(* Scheduling a reset makes the journal active or leaves all as it is.     *)
LEMMA ScheduleRest ==
  ASSUME ResetInv, NEW g, NEW o, Schedule(g, o), UNCHANGED domain,
         phase' \in {"restarting", "recovery"}
  PROVE  Rest'
  <1>1. journal'.state = "active" \/ UNCHANGED <<journal, resets>>
    BY DEF Schedule, StoreJournal, Journal
  <1> QED
    BY <1>1, IdleRest DEF ResetInv, CleanWhenDone, Clean

LEMMA RequestRest == ASSUME ResetInv, Request \/ Repair PROVE Rest'
  <1>1. CASE Request
    <2>1. phase' = "restarting" /\ UNCHANGED domain
      BY <1>1 DEF Request, Enter
    <2>2. \/ \E g, o : Schedule(g, o)
          \/ UNCHANGED <<journal, resets>>
      BY <1>1 DEF Request, Requested
    <2>3. CASE \E g, o : Schedule(g, o)
      BY <2>1, <2>3, ScheduleRest
    <2>4. CASE UNCHANGED <<journal, resets>>
      BY <2>1, <2>4, IdleRest DEF ResetInv, CleanWhenDone, Clean
    <2> QED
      BY <2>2, <2>3, <2>4
  <1>2. CASE Repair
    <2>1. phase' \in {"restarting", "recovery"} /\ UNCHANGED domain
      BY <1>2 DEF Repair, Enter
    <2>2. \E g, o : Schedule(g, o)
      BY <1>2 DEF Repair
    <2> QED
      BY <2>1, <2>2, ScheduleRest
  <1> QED
    BY <1>1, <1>2

LEMMA RunningStepRest ==
  ASSUME ResetInv,
         \/ Restart \/ PowerFails \/ JournalUnreadable
         \/ Produce
         \/ \E s \in StoreId, o \in Outcomes : LineageClear(s, fence[s].gen, o)
         \/ \E s \in StoreId : LineageUnreadable(s)
  PROVE  Rest'
  <1> USE DEF ResetInv
  <1>1. CASE Restart \/ PowerFails
    <2>1. phase' = "off" /\ UNCHANGED <<journal, domain, resets>>
      BY <1>1 DEF Restart, PowerFails, Enter
    <2> QED
      BY <2>1, IdleRest DEF CleanWhenDone, Clean
  <1>2. CASE JournalUnreadable
    <2>1. /\ phase \in {"off", "running"} /\ UNCHANGED <<phase, domain, resets>>
          /\ journal'.state = "bad"
      BY <1>2, TypeParts DEF JournalUnreadable, bootVars, JournalType
    <2> QED
      BY <2>1, IdleRest, RunningRest DEF CleanWhenDone, Clean
  <1>3. CASE Produce
    <2>2. phase' = "running" /\ phase = "running" /\ UNCHANGED <<journal, resets>>
      BY <1>3, ProduceKeys DEF bootVars
    <2>3. \A e \in DomainId : domain'[e] \in {domain[e], resets, Absent}
      BY <1>3, ProduceKeys
    <2>4. \A e \in DomainId : Clean(e)'
      BY <2>2, <2>3 DEF CleanWhenDone, Clean
    <2> QED
      BY <2>2, <2>4, RunningRest DEF RunningNotActive
  <1>4. CASE \E s \in StoreId, o \in Outcomes : LineageClear(s, fence[s].gen, o)
    <2>1. /\ phase' = "running" /\ phase = "running"
          /\ UNCHANGED <<journal, domain, resets>>
      BY <1>4 DEF LineageClear, bootVars
    <2> QED
      BY <2>1, RunningRest DEF CleanWhenDone, RunningNotActive, Clean
  <1>5. CASE \E s \in StoreId : LineageUnreadable(s)
    <2>1. phase' = "off" /\ UNCHANGED <<journal, domain, resets>>
      BY <1>5 DEF LineageUnreadable, bootVars
    <2> QED
      BY <2>1, IdleRest DEF CleanWhenDone, Clean
  <1> QED
    BY <1>1, <1>2, <1>3, <1>4, <1>5

LEMMA StepInv == ResetInv /\ [Next]_vars => ResetInv'
  <1> SUFFICES ASSUME ResetInv, [Next]_vars PROVE ResetInv'
    OBVIOUS
  <1>1. CASE Boot
    <2>1. TypeOK'
      BY <1>1, BootType DEF ResetInv
    <2>2. Rest'
      BY <1>1, EarlyRest, ResumeRest, ArmRest, EraseRest DEF Boot
    <2> QED
      BY <2>1, <2>2 DEF ResetInv, Rest, Working
  <1>2. CASE Request \/ Repair
    BY <1>2, RunningType, RequestRest DEF ResetInv, Rest, Working
  <1>3. CASE \/ Restart \/ PowerFails \/ JournalUnreadable
             \/ Produce
             \/ \E s \in StoreId, o \in Outcomes : LineageClear(s, fence[s].gen, o)
             \/ \E s \in StoreId : LineageUnreadable(s)
    BY <1>3, RunningType, RunningStepRest DEF ResetInv, Rest, Working
  <1>4. CASE UNCHANGED vars
    BY <1>4 DEF vars, bootVars, ResetInv, TypeOK, AtOK, WhileWorking, ArmedSoFar,
                ErasedSoFar, CleanWhenDone, RunningNotActive, Armed, Clean
  <1> QED
    BY <1>1, <1>2, <1>3, <1>4 DEF Next

-----------------------------------------------------------------------------
(* The theorems.                                                           *)

(* Every variable of the reset keeps its type (journal, lineage records,   *)
(* domains and boot position of factory_reset.c).                          *)
THEOREM ResetTypes == Spec => []TypeOK
  <1>1. ResetInv => TypeOK
    BY DEF ResetInv
  <1> QED
    BY <1>1, InitInv, StepInv, PTL DEF Spec

LEMMA InvClean == ResetInv => InventoryErased
  BY DEF ResetInv, CleanWhenDone, Clean, InventoryErased

(* Once producers run, no key of the inventory holds data from before the  *)
(* last reset, whatever failed or was interrupted and whichever of the keys*)
(* are still written (d1l_factory_reset_resume).                           *)
THEOREM InventoryAlwaysErased == Spec => []InventoryErased
  BY InvClean, InitInv, StepInv, PTL DEF Spec

(* What may happen to the journal in a step.                               *)
DoneWhenClean ==
  journal.state = "active" /\ journal'.state \in {"complete", "absent"}
  => /\ \A d \in DomainId : domain[d] = Absent
     /\ \A s \in StoreId : Armed(s)
OnlyRepaired ==
  journal.state = "bad" /\ journal' # journal
  => phase = "recovery" /\ journal'.state = "active"

LEMMA JournalMoves ==
  ResetInv /\ [Next]_vars => DoneWhenClean /\ OnlyRepaired
  <1> SUFFICES ASSUME ResetInv, [Next]_vars PROVE DoneWhenClean /\ OnlyRepaired
    OBVIOUS
  <1> USE DEF DoneWhenClean, OnlyRepaired
  <1>1. CASE UNCHANGED journal
    BY <1>1
  <1>2. CASE ResumeComplete \/ ResumeActive
    <2>1. ResumeComplete => journal.state = "complete"
      BY DEF ResumeComplete
    <2>2. ResumeActive => journal.state = "active" /\ journal'.state = "active"
      BY JournalAfter DEF ResumeActive
    <2> QED
      BY <1>2, <2>1, <2>2
  <1>3. CASE EraseFails
    <2>1. journal.state = "active"
      BY <1>3 DEF ResetInv, WhileWorking, EraseFails
    <2>2. journal'.state = "active"
      BY <1>3, <2>1, JournalAfter DEF EraseFails
    <2> QED
      BY <2>1, <2>2
  <1>4. CASE Progress
    <2>1. /\ journal.state = "active" /\ at \in DomainId /\ domain[at] = Absent
          /\ \A d \in DomainId : d < at => domain[d] = Absent
          /\ \A s \in StoreId : Armed(s)
      BY <1>4 DEF ResetInv, AtOK, WhileWorking, ArmedSoFar, ErasedSoFar, Progress
    <2>2. at = Domains => \A d \in DomainId : domain[d] = Absent
      <3>1. at = Domains => \A d \in DomainId : d < at \/ d = at
        BY Constants DEF DomainId
      <3> QED
        BY <3>1, <2>1
    <2>3. at # Domains => journal'.state = "active"
      BY <1>4, <2>1, JournalAfter DEF Progress
    <2> QED
      BY <2>1, <2>2, <2>3
  <1>5. CASE Request
    <2>1. journal.state # "bad" \/ UNCHANGED journal
      BY <1>5 DEF Request, Requested, LoadFails
    <2>2. UNCHANGED journal \/ journal'.state = "active"
      BY <1>5 DEF Request, Requested, Schedule, StoreJournal, Journal
    <2> QED
      BY <2>1, <2>2
  <1>6. CASE Repair
    <2>1. UNCHANGED journal \/ journal'.state = "active"
      BY <1>6 DEF Repair, Schedule, StoreJournal, Journal
    <2> QED
      BY <1>6, <2>1 DEF Repair
  <1>7. CASE JournalUnreadable
    BY <1>7, TypeParts DEF JournalUnreadable, ResetInv, JournalType
  <1>8. CASE Inspect \/ RetainedInit \/ ResumeRefused \/ ResumeAbsent
    BY <1>1, <1>8 DEF Inspect, RetainedInit, ResumeRefused, ResumeAbsent
  <1>9. CASE ArmSkip \/ ArmStore \/ EraseDomain
    BY <1>1, <1>9 DEF ArmSkip, ArmStore, EraseDomain
  <1>10. CASE \/ Restart \/ PowerFails
              \/ Produce
              \/ \E s \in StoreId, o \in Outcomes : LineageClear(s, fence[s].gen, o)
              \/ \E s \in StoreId : LineageUnreadable(s)
    BY <1>1, <1>10, ProduceKeys
    DEF ResetInv, Restart, PowerFails, LineageClear, LineageUnreadable
  <1>11. CASE UNCHANGED vars
    BY <1>1, <1>11 DEF vars
  <1> QED
    BY <1>2, <1>3, <1>4, <1>5, <1>6, <1>7, <1>8, <1>9, <1>10, <1>11 DEF Next, Boot

(* The journal of a reset is given up only with every key gone and every   *)
(* store fenced at its generation (process_active_journal).                *)
THEOREM ResetNotGivenUp == Spec => CompleteOnlyWhenClean
  <1>1. ResetInv /\ [Next]_vars =>
          [/\ journal.state = "active"
           /\ journal'.state \in {"complete", "absent"}
           => /\ \A d \in DomainId : domain[d] = Absent
              /\ \A s \in StoreId : Armed(s)]_vars
    BY JournalMoves DEF DoneWhenClean
  <1> QED
    BY <1>1, InitInv, StepInv, PTL DEF Spec, CompleteOnlyWhenClean

(* A journal that cannot be read is replaced by the recovery console only  *)
(* (d1l_factory_reset_request, d1l_factory_reset_repair_quarantined).      *)
THEOREM ResetQuarantine == Spec => QuarantineKept
  <1>1. ResetInv /\ [Next]_vars =>
          [journal.state = "bad" /\ journal' # journal
           => phase = "recovery" /\ journal'.state = "active"]_vars
    BY JournalMoves DEF OnlyRepaired
  <1> QED
    BY <1>1, InitInv, StepInv, PTL DEF Spec, QuarantineKept

-----------------------------------------------------------------------------
(* The cards.                                                              *)
(* The operation on a card always belongs to a store.                      *)
OpOK == /\ DOMAIN op = {"kind", "store", "key", "gen", "plan", "stale"}
        /\ op.store \in StoreId
        /\ packetLog \in StoreId \cup {0}

LEMMA OpTyped ==
  ASSUME NEW kind, NEW s \in StoreId, NEW k, NEW plan
  PROVE  /\ DOMAIN Op(kind, s, k, plan)
              = {"kind", "store", "key", "gen", "plan", "stale"}
         /\ Op(kind, s, k, plan).store \in StoreId
  BY DEF Op

LEMMA IdleTyped ==
  /\ DOMAIN Idle = {"kind", "store", "key", "gen", "plan", "stale"}
  /\ Idle.store \in StoreId
  BY Constants DEF Idle, StoreId

LEMMA StepOp == OpOK /\ [NextCards]_allVars => OpOK'
  <1> SUFFICES ASSUME OpOK, [NextCards]_allVars PROVE OpOK'
    OBVIOUS
  <1>0. UNCHANGED packetLog
    BY DEF NextCards, allVars
  <1>1. op' = op \/ op' = Idle => OpOK'
    BY <1>0, IdleTyped DEF OpOK
  <1>2. Advance => OpOK'
    BY <1>0, <1>1 DEF OpOK, Advance
  <1>3. CASE Step
    BY <1>1, <1>2, <1>3
    DEF Step, DropBackup, Drop, Put, PutFails, VerifyMarker, ClearFence, Get, Stop
  <1>4. CASE BeginAdopt
    BY <1>0, <1>4, OpTyped DEF BeginAdopt, OpOK
  <1>5. CASE \E s \in StoreId, k \in Keys :
               BeginRead(s, k) \/ BeginWrite(s, k) \/ BeginErase(s, k)
    BY <1>0, <1>5, OpTyped DEF BeginRead, BeginWrite, BeginErase, OpOK
  <1>6. CASE \E c \in Cards \cup {NoCard} : Swap(c)
    BY <1>0, <1>6 DEF Swap, OpOK
  <1>7. CASE Down \/ ResetStep \/ \E s \in StoreId : NewEntry(s)
    BY <1>1, <1>7 DEF Down, ResetStep, sdVars, NewEntry
  <1>8. CASE UNCHANGED allVars
    BY <1>1, <1>8 DEF allVars, sdVars
  <1> QED
    BY <1>3, <1>4, <1>5, <1>6, <1>7, <1>8 DEF NextCards

LEMMA CardStep == OpOK /\ [NextCards]_allVars => [Next]_vars
  <1> SUFFICES ASSUME OpOK, [NextCards]_allVars PROVE [Next]_vars
    OBVIOUS
  <1>1. CASE UNCHANGED vars
    BY <1>1
  <1>2. CASE ClearFence
    <2>1. CASE \E o \in Outcomes : LineageClear(op.store, op.gen, o)
      <3>1. PICK o \in Outcomes : LineageClear(op.store, op.gen, o)
        BY <2>1
      <3>2. fence[op.store].gen = op.gen
        BY <3>1 DEF LineageClear, Lineage
      <3>3. LineageClear(op.store, fence[op.store].gen, o)
        BY <3>1, <3>2
      <3> QED
        BY <3>3 DEF Next, OpOK
    <2> QED
      BY <1>1, <1>2, <2>1 DEF ClearFence
  <1>3. CASE Step
    BY <1>1, <1>2, <1>3
    DEF Step, DropBackup, Drop, Put, PutFails, VerifyMarker, Get, Stop
  <1>4. CASE \/ BeginAdopt
             \/ \E s \in StoreId, k \in Keys :
                  BeginRead(s, k) \/ BeginWrite(s, k) \/ BeginErase(s, k)
    BY <1>1, <1>4 DEF BeginAdopt, BeginRead, BeginWrite, BeginErase, Begins
  <1>5. CASE \/ \E s \in StoreId : NewEntry(s)
             \/ \E c \in Cards \cup {NoCard} : Swap(c)
    BY <1>1, <1>5 DEF NewEntry, Swap
  <1>6. CASE Down
    BY <1>6 DEF Down, Next
  <1>7. CASE ResetStep
    BY <1>7 DEF ResetStep, Next
  <1>8. CASE UNCHANGED allVars
    BY <1>1, <1>8 DEF allVars
  <1> QED
    BY <1>3, <1>4, <1>5, <1>6, <1>7, <1>8 DEF NextCards

(* What the stores do to the lineage records is within what factory_reset.c*)
(* allows (d1l_factory_reset_sd_lineage_clear).                            *)
THEOREM CardsKeepReset == SpecCards => ResetSpec
  <1>1. Init /\ InitCards => OpOK
    BY IdleTyped, SdAssumption DEF InitCards, OpOK
  <1> QED
    BY <1>1, StepOp, CardStep, PTL DEF SpecCards, ResetSpec
-----------------------------------------------------------------------------
(* The fence.  While no reset is under way all stores have the generation  *)
(* of the last one; no marker on any card is newer than a lineage record,  *)
(* and none is as new as the generation of a reset that is under way.      *)

Settled == journal.state \in {"absent", "complete"} \/ phase = "running"

CardType == card \in [Cards -> [StoreId -> [primary : [Files -> Int], backup : [Files -> Int]]]]

AllMarks == {card[c][s].primary["marker"] : c \in Cards, s \in StoreId} \cup
            {card[c][s].backup["marker"] : c \in Cards, s \in StoreId}

FenceOK ==
  /\ Cardinality(StoreId \ Readable) <= MaxUnreadable
  /\ Settled => \A s, r \in StoreId : fence[s].gen = fence[r].gen
  /\ \A m \in AllMarks, r \in StoreId : m <= fence[r].gen
  /\ journal.state = "active" =>
       journal.gen > 0 /\ \A m \in AllMarks : m < journal.gen

LEMMA MarksTyped == CardType => AllMarks \subseteq Int
  BY DEF CardType, AllMarks, Files

(* The records that cannot be read stay within their bound, so that one    *)
(* can, and a new generation is newer than it.                             *)
LEMMA SomeReadable ==
  ASSUME MaxUnreadable < Stores, Cardinality(StoreId \ Readable) <= MaxUnreadable
  PROVE  Readable # {}
  <1>1. Cardinality(StoreId) = Stores
    BY Constants, FS_Interval DEF StoreId
  <1>2. Readable = {} => StoreId \ Readable = StoreId
    OBVIOUS
  <1> QED
    BY <1>1, <1>2, Constants, ResetAssumption

LEMMA NextGenerationNew ==
  ASSUME fence \in [StoreId -> LineageType], NEW g \in NextGeneration
  PROVE  g \in Nat /\ g > 0 /\ \A s \in Readable : fence[s].gen < g
  <1>1. \A s \in Readable : fence[s].gen + 1 \in Nat /\ fence[s].gen + 1 > 0
    BY DEF Readable, LineageType
  <1> QED
    BY <1>1 DEF NextGeneration

LEMMA UnreadableStep ==
  ASSUME ResetInv, [Next]_vars, Cardinality(StoreId \ Readable) <= MaxUnreadable
  PROVE  (Cardinality(StoreId \ Readable) <= MaxUnreadable)'
  <1>0. fence \in [StoreId -> LineageType]
    BY TypeParts DEF ResetInv
  <1>1. IsFiniteSet(StoreId) /\ IsFiniteSet(StoreId \ Readable)
    <2>1. IsFiniteSet(StoreId)
      BY Constants, FS_Interval DEF StoreId
    <2> QED
      BY <2>1, FS_Subset
  <1>2. ASSUME Readable \subseteq Readable' PROVE (Cardinality(StoreId \ Readable) <= MaxUnreadable)'
    <2>1. (StoreId \ Readable)' \subseteq StoreId \ Readable
      BY <1>2
    <2>2. /\ Cardinality((StoreId \ Readable)') <= Cardinality(StoreId \ Readable)
          /\ Cardinality((StoreId \ Readable)') \in Nat /\ Cardinality(StoreId \ Readable) \in Nat
      BY <1>1, <2>1, FS_Subset, FS_CardinalityType
    <2> QED
      BY <2>2, ResetAssumption
  <1>3. ASSUME NEW s \in StoreId, LineageUnreadable(s)
        PROVE  (Cardinality(StoreId \ Readable) <= MaxUnreadable)'
    <2>1. \A r \in StoreId \ {s} : fence'[r].ok = fence[r].ok
      BY <1>0, <1>3 DEF LineageUnreadable, LineageType
    <2>2. fence[s].ok /\ ~fence'[s].ok
      BY <1>0, <1>3 DEF LineageUnreadable, LineageType
    <2>3. (StoreId \ Readable)' = (StoreId \ Readable) \cup {s} /\ s \notin StoreId \ Readable
      BY <2>1, <2>2 DEF Readable
    <2>4. Cardinality((StoreId \ Readable)') = Cardinality(StoreId \ Readable) + 1
      BY <1>1, <2>3, FS_AddElement
    <2>5. Cardinality(StoreId \ Readable) < MaxUnreadable
          /\ Cardinality(StoreId \ Readable) \in Nat
      BY <1>1, <1>3, FS_CardinalityType DEF LineageUnreadable
    <2> QED
      BY <2>4, <2>5, ResetAssumption
  <1>4. CASE UNCHANGED fence
    BY <1>2, <1>4 DEF Readable
  <1>5. ASSUME NEW s \in StoreId, NEW l \in LineageType, NEW o, StoreLineage(s, l, o), l.ok
        PROVE  Readable \subseteq Readable'
    BY <1>0, <1>5 DEF StoreLineage, Readable
  <1>6. CASE ArmStore
    <2>1. at \in StoreId /\ Lineage(journal.gen, TRUE) \in LineageType /\ Lineage(journal.gen, TRUE).ok
      BY <1>6, LineageTyped, TypeParts DEF ResetInv, AtOK, ArmStore, Lineage, JournalType
    <2> QED
      BY <1>2, <1>5, <1>6, <2>1 DEF ArmStore
  <1>7. ASSUME NEW s \in StoreId, NEW o \in Outcomes, LineageClear(s, fence[s].gen, o)
        PROVE  (Cardinality(StoreId \ Readable) <= MaxUnreadable)'
    <2>1. Lineage(fence[s].gen, FALSE) \in LineageType /\ Lineage(fence[s].gen, FALSE).ok
      BY <1>0, LineageTyped DEF Lineage, LineageType
    <2> QED
      BY <1>2, <1>5, <1>7, <2>1 DEF LineageClear
  <1>8. CASE Produce
    BY <1>4, <1>8, ProduceKeys DEF ResetInv
  <1> QED
    BY <1>3, <1>4, <1>6, <1>7, <1>8
       DEF Next, Boot, Inspect, RetainedInit, ResumeRefused,
           ResumeAbsent, ResumeComplete, ResumeActive, ArmSkip, EraseDomain, EraseFails, Progress,
           Request, Repair, Restart, PowerFails, JournalUnreadable, vars

(* A step keeps every generation, or arms one store.                       *)
LEMMA GensMove ==
  ASSUME ResetInv, [Next]_vars
  PROVE  \/ \A s \in StoreId : fence'[s].gen = fence[s].gen
         \/ /\ ArmStore /\ journal.state = "active"
            /\ \A s \in StoreId : fence'[s].gen \in {fence[s].gen, journal.gen}
  <1>0. fence \in [StoreId -> LineageType]
    BY TypeParts DEF ResetInv
  <1>1. CASE ArmStore
    <2>1. journal.state = "active" /\ at \in StoreId
      BY <1>1 DEF ResetInv, WhileWorking, AtOK, ArmStore
    <2>2. \A s \in StoreId : fence'[s].gen \in {fence[s].gen, journal.gen}
      BY <1>0, <1>1, <2>1 DEF ArmStore, StoreLineage, Lineage
    <2> QED
      BY <1>1, <2>1, <2>2
  <1>2. ASSUME NEW s \in StoreId, NEW o \in Outcomes, LineageClear(s, fence[s].gen, o)
        PROVE  \A r \in StoreId : fence'[r].gen = fence[r].gen
    BY <1>0, <1>2 DEF LineageClear, StoreLineage, Lineage
  <1>3. ASSUME NEW s \in StoreId, LineageUnreadable(s)
        PROVE  \A r \in StoreId : fence'[r].gen = fence[r].gen
    BY <1>0, <1>3 DEF LineageUnreadable, LineageType
  <1>4. CASE UNCHANGED fence
    BY <1>4
  <1>5. CASE Produce
    BY <1>4, <1>5, ProduceKeys DEF ResetInv
  <1> QED
    BY <1>1, <1>2, <1>3, <1>4, <1>5
       DEF Next, Boot, Inspect, RetainedInit, ResumeRefused,
           ResumeAbsent, ResumeComplete, ResumeActive, ArmSkip, EraseDomain, EraseFails, Progress,
           Request, Repair, Restart, PowerFails, JournalUnreadable, vars

(* A reset becomes active with a new generation only, and only then does   *)
(* an epoch end; the device is then not running.                           *)
LEMMA ActiveMoves ==
  ASSUME ResetInv, [Next]_vars
  PROVE  /\ journal'.state = "active" =>
              \/ journal.state = "active" /\ journal'.gen = journal.gen
              \/ journal'.gen \in NextGeneration
         /\ resets' # resets => ~Settled'
         /\ phase' = "running" /\ phase # "running" =>
              journal'.state \in {"absent", "complete"}
  <1>1. CASE Request \/ Repair
    <2>1. ASSUME NEW g, NEW o, Schedule(g, o)
          PROVE  /\ resets' # resets => journal'.state = "active"
                 /\ journal' = journal \/ (journal'.state = "active" /\ journal'.gen = g)
      BY <2>1 DEF Schedule, StoreJournal, Journal
    <2>2. phase' \in {"restarting", "recovery"}
      BY <1>1 DEF Request, Repair, Enter
    <2>3. \/ UNCHANGED <<journal, resets>>
          \/ \E o \in Outcomes : Schedule(journal.gen, o) /\ journal.state = "active"
          \/ \E o \in Outcomes, g \in NextGeneration : Schedule(g, o)
      BY <1>1 DEF Request, Requested, Repair
    <2> QED
      BY <2>1, <2>2, <2>3 DEF Settled
  <1>2. CASE ResumeActive \/ EraseFails \/ Progress
    <2>1. ASSUME NEW st, NEW n, NEW o, StoreJournal(Journal(st, journal.gen, n), o)
          PROVE  journal' = journal \/ (journal'.state = st /\ journal'.gen = journal.gen)
      BY <2>1 DEF StoreJournal, Journal
    <2>2. journal.state = "active" /\ UNCHANGED resets
      BY <1>2 DEF ResumeActive, EraseFails, Progress, ResetInv, WhileWorking
    <2>3. journal'.state = "active" => journal'.gen = journal.gen
      BY <1>2, <2>1 DEF ResumeActive, EraseFails, Progress
    <2>4. phase' = "running" => journal'.state \in {"absent", "complete"}
      BY <1>2 DEF ResumeActive, EraseFails, Progress, Enter, StoreJournal, Journal, Reaches
    <2> QED
      BY <2>2, <2>3, <2>4
  <1>3. CASE ResumeAbsent \/ ResumeComplete
    BY <1>3 DEF ResumeAbsent, ResumeComplete, StoreJournal, Journal, Enter, Settled
  <1>4. CASE JournalUnreadable
    <2>1. journal'.state = "bad" /\ UNCHANGED <<resets, phase>>
      BY <1>4, TypeParts DEF JournalUnreadable, ResetInv, JournalType, bootVars
    <2> QED
      BY <2>1
  <1>5. CASE UNCHANGED <<journal, resets>> /\ (phase' # "running" \/ phase = "running")
    BY <1>5
  <1>6. CASE Boot
    BY <1>2, <1>3, <1>5, <1>6
       DEF Boot, Inspect, RetainedInit, ResumeRefused,
           ArmSkip, ArmStore, EraseDomain, NextStore, Enter
  <1>7. CASE Produce
    <2>1. UNCHANGED <<journal, resets, phase>>
      BY <1>7, ProduceKeys DEF ResetInv, bootVars
    <2> QED
      BY <1>5, <2>1
  <1> QED
    BY <1>1, <1>4, <1>5, <1>6, <1>7
       DEF Next, Restart, PowerFails, LineageClear, LineageUnreadable, Enter, bootVars, vars

(* A reset that ends has armed every store with its generation.            *)
LEMMA SettledMoves ==
  ASSUME ResetInv, [Next]_vars, Settled'
  PROVE  \/ /\ Settled /\ resets' = resets
            /\ \A s \in StoreId : fence'[s].gen = fence[s].gen
         \/ /\ journal.state = "active"
            /\ \A s \in StoreId : fence'[s].gen = journal.gen
  <1>0. /\ journal.state \in {"absent", "active", "complete", "bad"}
        /\ journal'.state \in {"absent", "active", "complete", "bad"}
    BY StepInv DEF ResetInv, TypeOK
  <1>1. resets' = resets
    BY ActiveMoves
  <1>2. CASE Settled
    <2>1. ~ArmStore
      <3>1. ArmStore => journal.state = "active" /\ UNCHANGED journal /\ phase' # "running"
        BY DEF ArmStore, NextStore, Enter, ResetInv, WhileWorking
      <3> QED
        BY <3>1 DEF Settled
    <2> QED
      BY <1>1, <1>2, <2>1, GensMove
  <1>3. CASE ~Settled
    <2>1. journal'.state \in {"absent", "complete"}
      BY <1>3, ActiveMoves DEF Settled
    <2>2. journal.state = "active"
      BY <1>0, <1>3, <2>1, JournalMoves DEF Settled, OnlyRepaired
    <2>3. \A s \in StoreId : Armed(s)
      BY <2>1, <2>2, JournalMoves DEF DoneWhenClean
    <2>4. \A s \in StoreId : fence[s].gen = journal.gen
      BY <2>3 DEF Armed, Lineage
    <2>5. \A s \in StoreId : fence'[s].gen = journal.gen
      BY <2>4, GensMove
    <2> QED
      BY <2>2, <2>5
  <1> QED
    BY <1>2, <1>3

LEMMA FenceStep ==
  ASSUME MaxUnreadable < Stores, ResetInv, CardType, FenceOK, [Next]_vars, UNCHANGED card
  PROVE  FenceOK'
  <1>0. /\ fence \in [StoreId -> LineageType] /\ fence' \in [StoreId -> LineageType]
        /\ journal \in JournalType
        /\ AllMarks \subseteq Int /\ AllMarks' = AllMarks
    BY StepInv, MarksTyped DEF ResetInv, TypeOK, LineageType, JournalType, AllMarks
  <1>1. \A s \in StoreId : fence[s].gen \in Nat /\ fence'[s].gen \in Nat
    BY <1>0 DEF LineageType
  <1>2. (Cardinality(StoreId \ Readable) <= MaxUnreadable)'
    BY UnreadableStep DEF FenceOK
  <1>3. Settled' => \A s, r \in StoreId : fence'[s].gen = fence'[r].gen
    BY SettledMoves DEF FenceOK
  <1>4. ASSUME NEW m \in AllMarks, NEW r \in StoreId PROVE m <= fence'[r].gen
    <2>1. m <= fence[r].gen /\ (journal.state = "active" => m < journal.gen)
      BY <1>4 DEF FenceOK
    <2>2. journal.gen \in Nat /\ m \in Int
      BY <1>0 DEF JournalType
    <2> QED
      BY <1>1, <2>1, <2>2, GensMove
  <1>5. ASSUME journal'.state = "active"
        PROVE  journal'.gen > 0 /\ \A m \in AllMarks : m < journal'.gen
    <2>1. CASE journal.state = "active" /\ journal'.gen = journal.gen
      BY <2>1 DEF FenceOK
    <2>2. CASE journal'.gen \in NextGeneration
      <3>1. PICK s \in StoreId : s \in Readable
        BY SomeReadable DEF FenceOK, Readable
      <3>2. /\ journal'.gen \in Nat /\ journal'.gen > 0 /\ fence[s].gen < journal'.gen
        BY <1>0, <2>2, <3>1, NextGenerationNew
      <3>3. ASSUME NEW m \in AllMarks PROVE m < journal'.gen
        <4>1. m \in Int /\ m <= fence[s].gen
          BY <1>0, <3>3 DEF FenceOK
        <4> QED
          BY <1>1, <3>2, <4>1
      <3> QED
        BY <3>2, <3>3
    <2> QED
      BY <1>5, <2>1, <2>2, ActiveMoves
  <1> QED
    BY <1>0, <1>2, <1>3, <1>4, <1>5 DEF FenceOK

-----------------------------------------------------------------------------
(* What a card holds for a store that would read it is of the last epoch.  *)
Young == {Absent, resets}
KeyYoung(c, s, k) == card[c][s].primary[k] \in Young /\ card[c][s].backup[k] \in Young
Adopted(c, s) == fence[s].gen = 0 \/ MarkerMatches(c, s)
AdoptedOK ==
  Settled => \A c \in Cards, s \in StoreId : Adopted(c, s) => \A k \in Keys : KeyYoung(c, s, k)

LEMMA MarksHere ==
  ASSUME NEW c \in Cards, NEW s \in StoreId
  PROVE  card[c][s].primary["marker"] \in AllMarks /\ card[c][s].backup["marker"] \in AllMarks
  <1> DEFINE Primaries == {card[d][t].primary["marker"] : d \in Cards, t \in StoreId}
             Backups   == {card[d][t].backup["marker"] : d \in Cards, t \in StoreId}
  <1>1. card[c][s].primary["marker"] \in Primaries
    OBVIOUS
  <1>2. card[c][s].backup["marker"] \in Backups
    OBVIOUS
  <1>3. Primaries \subseteq AllMarks /\ Backups \subseteq AllMarks
    BY DEF AllMarks
  <1> HIDE DEF Primaries, Backups
  <1> QED
    BY <1>1, <1>2, <1>3

LEMMA ContentIsMark ==
  ASSUME NEW c \in Cards, NEW s \in StoreId PROVE Content(c, s, "marker") \in AllMarks
  BY MarksHere DEF Content

LEMMA AdoptedKept ==
  ASSUME ResetInv, FenceOK, CardType, AdoptedOK, [Next]_vars, UNCHANGED card
  PROVE  AdoptedOK'
  <1> SUFFICES ASSUME Settled', NEW c \in Cards, NEW s \in StoreId, Adopted(c, s)', NEW k \in Keys
               PROVE  KeyYoung(c, s, k)'
    BY DEF AdoptedOK
  <1>1. Content(c, s, "marker")' = Content(c, s, "marker")
    BY DEF Content
  <1>2. CASE Settled /\ resets' = resets /\ fence'[s].gen = fence[s].gen
    <2>1. Adopted(c, s)
      BY <1>1, <1>2 DEF Adopted, MarkerMatches
    <2> QED
      BY <1>2, <2>1 DEF AdoptedOK, KeyYoung, Young
  <1>3. CASE journal.state = "active" /\ fence'[s].gen = journal.gen
    <2>1. journal.gen > 0 /\ Content(c, s, "marker") < journal.gen
      BY <1>3, ContentIsMark DEF FenceOK
    <2>2. journal.gen \in Nat /\ Content(c, s, "marker") \in Int
      BY ContentIsMark, MarksTyped, TypeParts DEF ResetInv, JournalType
    <2> QED
      BY <1>1, <1>3, <2>1, <2>2 DEF Adopted, MarkerMatches
  <1> QED
    BY <1>2, <1>3, SettledMoves
-----------------------------------------------------------------------------
(* Plans.                                                                  *)
Commands == [do : {"get", "put", "drop", "drop_backup", "verify", "clear"},
             file : Files, value : Int]
Elems(q) == {q[i] : i \in DOMAIN q}
PutsMarker(cmd) == cmd.do = "put" /\ cmd.file = "marker"
(* Nothing is erased once the marker is put.                               *)
Ordered(q) == \A i, j \in DOMAIN q :
                i < j /\ PutsMarker(q[i]) => q[j].do \in {"verify", "clear"}

LEMMA ElemsConcat ==
  ASSUME NEW p \in Seq(Commands), NEW q \in Seq(Commands)
  PROVE  /\ p \o q \in Seq(Commands)
         /\ Elems(p \o q) = Elems(p) \cup Elems(q)
         /\ Ordered(q) /\ (\A x \in Elems(p) : ~PutsMarker(x)) => Ordered(p \o q)
  <1>1. /\ p \o q \in Seq(Commands) /\ Len(p) \in Nat /\ Len(q) \in Nat
        /\ DOMAIN p = 1 .. Len(p) /\ DOMAIN q = 1 .. Len(q)
        /\ DOMAIN (p \o q) = 1 .. (Len(p) + Len(q))
        /\ \A i \in 1 .. (Len(p) + Len(q)) :
             (p \o q)[i] = IF i <= Len(p) THEN p[i] ELSE q[i - Len(p)]
    OBVIOUS
  <1> DEFINE r == p \o q
  <1> HIDE DEF r
  <1>2. ASSUME NEW x \in Elems(r) PROVE x \in Elems(p) \cup Elems(q)
    <2>1. PICK i \in 1 .. (Len(p) + Len(q)) : x = r[i]
      BY <1>1, <1>2 DEF Elems, r
    <2>2. CASE i <= Len(p)
      <3>1. i \in 1 .. Len(p) /\ x = p[i]
        BY <1>1, <2>1, <2>2 DEF r
      <3> QED
        BY <1>1, <3>1 DEF Elems
    <2>3. CASE ~(i <= Len(p))
      <3>1. i - Len(p) \in 1 .. Len(q) /\ x = q[i - Len(p)]
        BY <1>1, <2>1, <2>3 DEF r
      <3> QED
        BY <1>1, <3>1 DEF Elems
    <2> QED
      BY <2>2, <2>3
  <1>3. ASSUME NEW x \in Elems(p) PROVE x \in Elems(r)
    <2>1. PICK i \in 1 .. Len(p) : x = p[i]
      BY <1>1, <1>3 DEF Elems
    <2>2. i \in 1 .. (Len(p) + Len(q)) /\ r[i] = x
      BY <1>1, <2>1 DEF r
    <2> QED
      BY <1>1, <2>2 DEF Elems, r
  <1>4. ASSUME NEW x \in Elems(q) PROVE x \in Elems(r)
    <2>1. PICK i \in 1 .. Len(q) : x = q[i]
      BY <1>1, <1>4 DEF Elems
    <2>2. i + Len(p) \in 1 .. (Len(p) + Len(q)) /\ ~(i + Len(p) <= Len(p)) /\ (i + Len(p)) - Len(p) = i
      BY <1>1
    <2>3. r[i + Len(p)] = x
      BY <1>1, <2>1, <2>2 DEF r
    <2> QED
      BY <1>1, <2>2, <2>3 DEF Elems, r
  <1>5. ASSUME Ordered(q), \A x \in Elems(p) : ~PutsMarker(x) PROVE Ordered(r)
    <2> SUFFICES ASSUME NEW i \in DOMAIN r, NEW j \in DOMAIN r, i < j, PutsMarker(r[i])
                 PROVE  r[j].do \in {"verify", "clear"}
      BY DEF Ordered
    <2>1. i \in 1 .. (Len(p) + Len(q)) /\ j \in 1 .. (Len(p) + Len(q))
      BY <1>1 DEF r
    <2>2. ~(i <= Len(p))
      BY <1>1, <1>5, <2>1 DEF Elems, r
    <2>3. /\ i - Len(p) \in DOMAIN q /\ j - Len(p) \in DOMAIN q /\ i - Len(p) < j - Len(p)
          /\ r[i] = q[i - Len(p)] /\ r[j] = q[j - Len(p)]
      BY <1>1, <2>1, <2>2 DEF r
    <2> QED
      BY <1>5, <2>3 DEF Ordered
  <1> QED
    BY <1>1, <1>2, <1>3, <1>4, <1>5 DEF r

LEMMA ElemsTail ==
  ASSUME NEW q \in Seq(Commands), q # <<>>
  PROVE  /\ Head(q) \in Commands /\ Tail(q) \in Seq(Commands)
         /\ Elems(q) = {Head(q)} \cup Elems(Tail(q))
         /\ Ordered(q) => Ordered(Tail(q))
         /\ Ordered(q) /\ PutsMarker(Head(q)) =>
              \A x \in Elems(Tail(q)) : x.do \in {"verify", "clear"}
  <1>1. /\ Head(q) \in Commands /\ Tail(q) \in Seq(Commands) /\ Len(q) \in Nat \ {0}
        /\ DOMAIN q = 1 .. Len(q) /\ Head(q) = q[1]
        /\ DOMAIN Tail(q) = 1 .. (Len(q) - 1)
        /\ \A i \in 1 .. (Len(q) - 1) : Tail(q)[i] = q[i + 1]
    OBVIOUS
  <1> DEFINE t == Tail(q)
  <1> HIDE DEF t
  <1>2. ASSUME NEW x \in Elems(q), x # q[1] PROVE x \in Elems(t)
    <2>1. PICK i \in 1 .. Len(q) : x = q[i]
      BY <1>1, <1>2 DEF Elems
    <2>2. i - 1 \in 1 .. (Len(q) - 1) /\ (i - 1) + 1 = i
      BY <1>1, <1>2, <2>1
    <2>3. t[i - 1] = x
      BY <1>1, <2>1, <2>2 DEF t
    <2> QED
      BY <1>1, <2>2, <2>3 DEF Elems, t
  <1>3. ASSUME NEW j \in DOMAIN t
        PROVE  j + 1 \in DOMAIN q /\ j + 1 > 1 /\ 1 \in DOMAIN q /\ t[j] = q[j + 1] /\ j \in Nat
    BY <1>1, <1>3 DEF t
  <1>4. Elems(q) = {q[1]} \cup Elems(t)
    <2>1. q[1] \in Elems(q)
      BY <1>1 DEF Elems
    <2> QED
      BY <1>2, <1>3, <2>1 DEF Elems
  <1>5. Ordered(q) => Ordered(t)
    BY <1>3 DEF Ordered
  <1>6. ASSUME Ordered(q), PutsMarker(q[1]), NEW x \in Elems(t) PROVE x.do \in {"verify", "clear"}
    <2>1. PICK j \in DOMAIN t : x = t[j]
      BY <1>6 DEF Elems
    <2> QED
      BY <1>3, <1>6, <2>1 DEF Ordered
  <1> QED
    BY <1>1, <1>4, <1>5, <1>6 DEF t

LEMMA ElemsOfTuples ==
  ASSUME NEW a \in Commands, NEW b \in Commands
  PROVE  /\ <<a>> \in Seq(Commands) /\ Elems(<<a>>) = {a} /\ Ordered(<<a>>)
         /\ <<a, b>> \in Seq(Commands) /\ Elems(<<a, b>>) = {a, b}
         /\ ~PutsMarker(a) => Ordered(<<a, b>>)
         /\ Elems(<<>>) = {}
  <1>1. DOMAIN <<a>> = {1} /\ DOMAIN <<a, b>> = {1, 2}
    OBVIOUS
  <1> QED
    BY <1>1 DEF Elems, Ordered
(* The files an erasure of a store drops: all, but for the backup of the   *)
(* packet log's segments, which never have one.                            *)
LEMMA CommandTyped ==
  ASSUME NEW do \in {"get", "put", "drop", "drop_backup", "verify", "clear"},
         NEW f \in Files, NEW v \in Int
  PROVE  /\ Command(do, f, v) \in Commands
         /\ Command(do, f, v).do = do /\ Command(do, f, v).file = f /\ Command(do, f, v).value = v
  BY DEF Command, Commands

LEMMA PlainCommands ==
  /\ "blob" \in Files /\ "alias" \in Files /\ "marker" \in Files /\ Absent \in Int
  /\ "blob" \in Keys /\ "alias" \in Keys /\ "marker" \notin Keys /\ Keys \subseteq Files
  /\ Verify \in Commands /\ Clear \in Commands
  /\ Verify.do = "verify" /\ Clear.do = "clear"
  <1>1. /\ "blob" \in Files /\ "alias" \in Files /\ "marker" \in Files /\ Absent \in Int
        /\ "blob" \in Keys /\ "alias" \in Keys /\ "marker" \notin Keys /\ Keys \subseteq Files
    BY DEF Files, Keys, Absent
  <1> QED
    BY <1>1, CommandTyped DEF Verify, Clear

LEMMA EraseFilePlan ==
  ASSUME NEW f \in Files
  PROVE  /\ EraseFile(f) \in Seq(Commands)
         /\ Elems(EraseFile(f)) = {Command("drop_backup", f, Absent), Command("drop", f, Absent)}
         /\ \A x \in Elems(EraseFile(f)) : ~PutsMarker(x)
         /\ Ordered(EraseFile(f))
  <1> DEFINE a == Command("drop_backup", f, Absent)
             b == Command("drop", f, Absent)
  <1>1. a \in Commands /\ b \in Commands /\ a.do = "drop_backup" /\ b.do = "drop"
    BY CommandTyped, PlainCommands
  <1>2. EraseFile(f) = <<a, b>>
    BY DEF EraseFile
  <1> HIDE DEF a, b
  <1>3. ~PutsMarker(a) /\ ~PutsMarker(b)
    BY <1>1 DEF PutsMarker
  <1>4. <<a, b>> \in Seq(Commands) /\ Elems(<<a, b>>) = {a, b} /\ Ordered(<<a, b>>)
    BY <1>1, <1>3, ElemsOfTuples
  <1> QED
    BY <1>2, <1>3, <1>4 DEF a, b

LEMMA PurgePlan ==
  ASSUME NEW s
  PROVE  /\ Purge(s) \in Seq(Commands)
         /\ \A x \in Elems(Purge(s)) : x.do \in {"drop", "drop_backup"} /\ x.file \in Keys
         /\ \A k \in Keys : /\ Command("drop", k, Absent) \in Elems(Purge(s))
                            /\ \/ Command("drop_backup", k, Absent) \in Elems(Purge(s))
                               \/ Segments(s, k)
  <1>1. EraseFile("blob") \in Seq(Commands) /\ EraseFile("alias") \in Seq(Commands)
        /\ Command("drop", "alias", Absent) \in Commands
    BY PlainCommands, CommandTyped, EraseFilePlan
  <1>2. <<Command("drop", "alias", Absent)>> \in Seq(Commands)
        /\ Elems(<<Command("drop", "alias", Absent)>>) = {Command("drop", "alias", Absent)}
    BY <1>1, ElemsOfTuples
  <1>3. CASE s = packetLog
    <2>1. Purge(s) = <<Command("drop", "alias", Absent)>> \o EraseFile("blob")
      BY <1>3 DEF Purge
    <2>2. Purge(s) \in Seq(Commands)
          /\ Elems(Purge(s)) = {Command("drop", "alias", Absent)}
                               \cup {Command("drop_backup", "blob", Absent), Command("drop", "blob", Absent)}
      BY <1>1, <1>2, <2>1, ElemsConcat, EraseFilePlan, PlainCommands
    <2> QED
      BY <1>3, <2>2, CommandTyped, PlainCommands DEF Keys, Segments
  <1>4. CASE s # packetLog
    <2>1. Purge(s) = EraseFile("blob") \o EraseFile("alias")
      BY <1>4 DEF Purge
    <2>2. Purge(s) \in Seq(Commands)
          /\ Elems(Purge(s)) = {Command("drop_backup", "blob", Absent), Command("drop", "blob", Absent)}
                               \cup {Command("drop_backup", "alias", Absent), Command("drop", "alias", Absent)}
      BY <1>1, <2>1, ElemsConcat, EraseFilePlan, PlainCommands
    <2> QED
      BY <2>2, CommandTyped, PlainCommands DEF Keys
  <1> QED
    BY <1>3, <1>4

LEMMA FinalizePlan ==
  ASSUME NEW s \in StoreId, fence \in [StoreId -> LineageType]
  PROVE  /\ Finalize(s) \in Seq(Commands) /\ Ordered(Finalize(s))
         /\ Elems(Finalize(s)) = {Command("put", "marker", fence[s].gen), Verify, Clear}
  <1> DEFINE put == Command("put", "marker", fence[s].gen)
  <1>1. put \in Commands /\ Verify \in Commands /\ Clear \in Commands
    BY CommandTyped, PlainCommands DEF LineageType
  <1>2. Verify.do = "verify" /\ Clear.do = "clear"
    BY PlainCommands
  <1> HIDE DEF put
  <1>3. DOMAIN <<put, Verify, Clear>> = {1, 2, 3} /\ <<put, Verify, Clear>> \in Seq(Commands)
    BY <1>1
  <1>4. Ordered(<<put, Verify, Clear>>)
    BY <1>2, <1>3 DEF Ordered, PutsMarker
  <1>5. Elems(<<put, Verify, Clear>>) = {put, Verify, Clear}
    BY <1>3 DEF Elems
  <1> QED
    BY <1>3, <1>4, <1>5 DEF Finalize, put

-----------------------------------------------------------------------------
(* What a plan still has to do fits the store, and is safe on the card in  *)
(* the slot: a read has an adopted card, and before a marker is put every  *)
(* file of a key is young or still to be dropped.                          *)
CmdFits(x, s) ==
  /\ x.do = "put" => x.value = IF x.file = "marker" THEN fence[s].gen ELSE resets
  /\ x.do \in {"get", "drop", "drop_backup"} => x.file \in Keys
Gets(x) == x.do = "get"
Purged(plan, s) ==
  \A k \in Keys :
    /\ card[slot][s].primary[k] \in Young \/ Command("drop", k, Absent) \in Elems(plan)
    /\ card[slot][s].backup[k] \in Young \/ Command("drop_backup", k, Absent) \in Elems(plan)
PlanFits(plan, s) ==
  /\ Ordered(plan) /\ \A x \in Elems(plan) : CmdFits(x, s)
  /\ (\E x \in Elems(plan) : Gets(x)) => \A x \in Elems(plan) : Gets(x)
PlanSafe(plan, s) ==
  /\ slot \in Cards
  /\ (\E x \in Elems(plan) : Gets(x)) => Adopted(slot, s)
  /\ (\E x \in Elems(plan) : PutsMarker(x)) => Purged(plan, s)
PlanOK ==
  op.plan # <<>> =>
    /\ phase = "running"
    /\ PlanFits(op.plan, op.store)
    /\ ~op.stale => PlanSafe(op.plan, op.store)

SegmentsOK == packetLog # 0 => \A c \in Cards : card[c][packetLog].backup["alias"] = Absent
RamOK == /\ phase \notin {"running", "restarting"} => \A s \in StoreId : ram[s] = Absent
         /\ phase = "running" => \A s \in StoreId : ram[s] \in Young
OpType == [kind : {"idle", "read", "write", "erase", "adopt"}, store : StoreId, key : Keys,
           gen : Nat, plan : Seq(Commands), stale : BOOLEAN]
CardsTyped == /\ CardType /\ op \in OpType /\ ram \in [StoreId -> Int]
              /\ slot \in Cards \cup {NoCard} /\ packetLog \in StoreId \cup {0}

CardInv == /\ ResetInv /\ CardsTyped /\ FenceOK /\ AdoptedOK
           /\ SegmentsOK /\ RamOK /\ PlanOK

LEMMA InvTypes ==
  ASSUME CardInv
  PROVE  /\ fence \in [StoreId -> LineageType] /\ resets \in Nat
         /\ \A s \in StoreId : fence[s].gen \in Nat
         /\ Young \subseteq Int /\ resets # Absent
  BY TypeParts DEF CardInv, ResetInv, LineageType, Epochs, Young, Absent

(* Every operation begins with a plan that fits and is safe.               *)
LEMMA AdoptionSafe ==
  ASSUME CardInv, NEW s \in StoreId, slot \in Cards,
         NEW put \in Seq(Commands),
         \A x \in Elems(put) : x.do = "put" /\ x.file \in Keys /\ x.value = resets
  PROVE  /\ Purge(s) \o put \o Finalize(s) \in Seq(Commands)
         /\ PlanFits(Purge(s) \o put \o Finalize(s), s)
         /\ PlanSafe(Purge(s) \o put \o Finalize(s), s)
  <1> DEFINE plan == Purge(s) \o put \o Finalize(s)
  <1>0. fence[s].gen \in Int
    BY InvTypes
  <1>1. /\ Purge(s) \in Seq(Commands) /\ Finalize(s) \in Seq(Commands) /\ Ordered(Finalize(s))
        /\ Elems(Finalize(s)) = {Command("put", "marker", fence[s].gen), Verify, Clear}
        /\ \A x \in Elems(Purge(s)) : x.do \in {"drop", "drop_backup"} /\ x.file \in Keys
    BY PurgePlan, FinalizePlan, InvTypes
  <1>2. /\ Purge(s) \o put \in Seq(Commands)
        /\ Elems(Purge(s) \o put) = Elems(Purge(s)) \cup Elems(put)
    BY <1>1, ElemsConcat
  <1>3. \A x \in Elems(Purge(s) \o put) : ~PutsMarker(x) /\ CmdFits(x, s) /\ ~Gets(x)
    BY <1>1, <1>2, PlainCommands DEF PutsMarker, CmdFits, Gets
  <1>4. \A x \in Elems(Finalize(s)) : CmdFits(x, s) /\ ~Gets(x)
    BY <1>0, <1>1, CommandTyped, PlainCommands DEF CmdFits, Gets
  <1>5. /\ plan \in Seq(Commands) /\ Ordered(plan)
        /\ Elems(plan) = Elems(Purge(s)) \cup Elems(put) \cup Elems(Finalize(s))
    BY <1>1, <1>2, <1>3, ElemsConcat
  <1>6. Purged(plan, s)
    <2> SUFFICES ASSUME NEW k \in Keys
                 PROVE  /\ Command("drop", k, Absent) \in Elems(plan)
                        /\ \/ card[slot][s].backup[k] \in Young
                           \/ Command("drop_backup", k, Absent) \in Elems(plan)
      BY DEF Purged
    <2>1. Segments(s, k) => card[slot][s].backup[k] = Absent
      BY DEF CardInv, SegmentsOK, Segments, CardsTyped, StoreId
    <2> QED
      BY <1>5, <2>1, PurgePlan DEF Young
  <1> QED
    BY <1>2, <1>3, <1>4, <1>5, <1>6 DEF PlanFits, PlanSafe
-----------------------------------------------------------------------------
(* What a command does to the card in the slot.                            *)
LEMMA SetFileEffect ==
  ASSUME CardType, slot \in Cards, op.store \in StoreId, File \in Files,
         NEW p \in Int, NEW b \in Int, SetFile(<<p, b>>)
  PROVE  /\ CardType'
         /\ \A c \in Cards, s \in StoreId, f \in Files :
              IF c = slot /\ s = op.store /\ f = File
              THEN card'[c][s].primary[f] = p /\ card'[c][s].backup[f] = b
              ELSE /\ card'[c][s].primary[f] = card[c][s].primary[f]
                   /\ card'[c][s].backup[f] = card[c][s].backup[f]
  <1> DEFINE r  == card[slot][op.store]
             r1 == [r EXCEPT !.primary = [r.primary EXCEPT ![File] = p]]
             r2 == [r1 EXCEPT !.backup = [r1.backup EXCEPT ![File] = b]]
             k1 == [card EXCEPT ![slot] = [card[slot] EXCEPT ![op.store] = r1]]
             k2 == [k1 EXCEPT ![slot] = [k1[slot] EXCEPT ![op.store] = r2]]
             Files2 == [primary : [Files -> Int], backup : [Files -> Int]]
  <1>1. r \in Files2 /\ card[slot] \in [StoreId -> Files2]
    BY DEF CardType
  <1>2. /\ r1 \in Files2 /\ r1.backup = r.backup
        /\ r1.primary = [r.primary EXCEPT ![File] = p]
    BY <1>1
  <1>3. k1[slot] = [card[slot] EXCEPT ![op.store] = r1] /\ k1[slot][op.store] = r1
    BY <1>1 DEF CardType
  <1>4. card' = k2
    BY <1>3 DEF SetFile
  <1>5. /\ r2 \in Files2
        /\ r2.primary = [r.primary EXCEPT ![File] = p]
        /\ r2.backup = [r.backup EXCEPT ![File] = b]
    BY <1>1, <1>2
  <1> HIDE DEF r1, r2
  <1>6. /\ k2 \in [Cards -> [StoreId -> Files2]]
        /\ \A c \in Cards, s \in StoreId :
             k2[c][s] = IF c = slot /\ s = op.store THEN r2 ELSE card[c][s]
    BY <1>1, <1>2, <1>3, <1>5 DEF CardType
  <1> HIDE DEF k2
  <1>7. CardType'
    BY <1>4, <1>6 DEF CardType
  <1>8. ASSUME NEW c \in Cards, NEW s \in StoreId, NEW f \in Files
        PROVE  IF c = slot /\ s = op.store /\ f = File
               THEN card'[c][s].primary[f] = p /\ card'[c][s].backup[f] = b
               ELSE /\ card'[c][s].primary[f] = card[c][s].primary[f]
                    /\ card'[c][s].backup[f] = card[c][s].backup[f]
    <2>1. CASE c = slot /\ s = op.store
      <3>1. card'[c][s] = r2
        BY <1>4, <1>6, <2>1
      <3> QED
        BY <1>1, <1>5, <2>1, <3>1
    <2>2. CASE ~(c = slot /\ s = op.store)
      <3>1. card'[c][s] = card[c][s]
        BY <1>4, <1>6, <2>2
      <3> QED
        BY <2>2, <3>1
    <2> QED
      BY <2>1, <2>2
  <1> QED
    BY <1>7, <1>8

(* A file gets what it held, nothing, or what the store puts: that keeps   *)
(* the marks and the adopted cards in order, if a marker is put on young   *)
(* keys only.                                                              *)
LEMMA CardWritten ==
  ASSUME CardInv, phase = "running", slot \in Cards, File \in Files, UNCHANGED vars,
         NEW v \in Int, NEW p \in Int, NEW b \in Int, SetFile(<<p, b>>),
         {p, b} \subseteq {Now.primary[File], Now.backup[File], Absent, v},
         File \in Keys => v \in Young,
         File = "marker" =>
           v \in {Absent, fence[op.store].gen} /\ \A k \in Keys : KeyYoung(slot, op.store, k)
  PROVE  CardType' /\ FenceOK' /\ AdoptedOK'
  <1> DEFINE s == op.store
  <1>0. /\ CardType /\ s \in StoreId /\ FenceOK /\ AdoptedOK /\ Settled
        /\ journal.state # "active"
        /\ "marker" \in Files /\ Keys \subseteq Files /\ "marker" \notin Keys
    BY PlainCommands DEF CardInv, CardsTyped, OpType, Settled, ResetInv, RunningNotActive
  <1>1. /\ CardType'
        /\ \A c \in Cards, t \in StoreId, f \in Files :
             IF c = slot /\ t = s /\ f = File
             THEN card'[c][t].primary[f] = p /\ card'[c][t].backup[f] = b
             ELSE /\ card'[c][t].primary[f] = card[c][t].primary[f]
                  /\ card'[c][t].backup[f] = card[c][t].backup[f]
    BY <1>0, SetFileEffect
  <1>2. FenceOK'
    <2>1. AllMarks' \subseteq AllMarks \cup {Absent, fence[s].gen}
      <3> SUFFICES ASSUME NEW m \in AllMarks' PROVE m \in AllMarks \cup {Absent, fence[s].gen}
        OBVIOUS
      <3> PICK c \in Cards, t \in StoreId :
             m = card'[c][t].primary["marker"] \/ m = card'[c][t].backup["marker"]
        BY DEF AllMarks
      <3>1. card[c][t].primary["marker"] \in AllMarks /\ card[c][t].backup["marker"] \in AllMarks
        BY MarksHere
      <3>2. CASE c = slot /\ t = s /\ File = "marker"
        <4>1. m \in {p, b}
          BY <1>0, <1>1, <3>2
        <4>2. Now.primary[File] \in AllMarks /\ Now.backup[File] \in AllMarks
          BY <3>1, <3>2 DEF Now
        <4>3. v \in {Absent, fence[s].gen}
          BY <3>2
        <4> QED
          BY <4>1, <4>2, <4>3
      <3>3. CASE ~(c = slot /\ t = s /\ File = "marker")
        <4>1. /\ card'[c][t].primary["marker"] = card[c][t].primary["marker"]
              /\ card'[c][t].backup["marker"] = card[c][t].backup["marker"]
          BY <1>0, <1>1, <3>3
        <4> QED
          BY <3>1, <4>1
      <3> QED
        BY <3>2, <3>3
    <2>2. \A m \in AllMarks', r \in StoreId : m <= fence[r].gen
      <3>1. \A r \in StoreId : fence[s].gen = fence[r].gen /\ fence[r].gen \in Nat
        BY <1>0, InvTypes DEF FenceOK
      <3> QED
        BY <1>0, <2>1, <3>1 DEF FenceOK, Absent
    <2>3. UNCHANGED <<fence, journal, phase>>
      BY DEF vars, bootVars
    <2> QED
      BY <1>0, <2>2, <2>3 DEF FenceOK, Settled, Readable
  <1>3. AdoptedOK'
    <2> SUFFICES ASSUME NEW c \in Cards, NEW t \in StoreId, Adopted(c, t)', NEW k \in Keys
                 PROVE  KeyYoung(c, t, k)'
      BY DEF AdoptedOK
    <2>0. UNCHANGED <<fence, resets>>
      BY DEF vars
    <2>1. CASE ~(c = slot /\ t = s)
      <3>1. Content(c, t, "marker")' = Content(c, t, "marker")
        BY <1>0, <1>1, <2>1 DEF Content
      <3>2. KeyYoung(c, t, k)
        BY <1>0, <2>0, <3>1 DEF AdoptedOK, Adopted, MarkerMatches
      <3> QED
        BY <1>0, <1>1, <2>0, <2>1, <3>2 DEF KeyYoung, Young
    <2>2. CASE c = slot /\ t = s /\ File = "marker"
      <3>1. KeyYoung(c, t, k)
        BY <2>2
      <3> QED
        BY <1>0, <1>1, <2>0, <2>2, <3>1 DEF KeyYoung, Young
    <2>3. CASE c = slot /\ t = s /\ File # "marker"
      <3>1. Content(c, t, "marker")' = Content(c, t, "marker")
        BY <1>0, <1>1, <2>3 DEF Content
      <3>2. \A j \in Keys : KeyYoung(c, t, j)
        BY <1>0, <2>0, <3>1 DEF AdoptedOK, Adopted, MarkerMatches
      <3>3. File \in Keys /\ v \in Young /\ Absent \in Young
        BY <2>3 DEF Files, Young
      <3>4. p \in Young /\ b \in Young
        BY <2>3, <3>2, <3>3 DEF KeyYoung, Now
      <3>5. Young' = Young
        BY <2>0 DEF Young
      <3> QED
        BY <1>0, <1>1, <2>3, <3>2, <3>4, <3>5 DEF KeyYoung
    <2> QED
      BY <2>1, <2>2, <2>3
  <1> QED
    BY <1>1, <1>2, <1>3
-----------------------------------------------------------------------------
(* How an operation goes on.                                               *)
LEMMA IdleOK ==
  ASSUME op' = Idle
  PROVE  op' \in OpType /\ PlanOK'
  <1>1. /\ Idle.plan = <<>> /\ Idle.store \in StoreId /\ Idle.key \in Keys
        /\ DOMAIN Idle = {"kind", "store", "key", "gen", "plan", "stale"}
    BY IdleTyped, PlainCommands DEF Idle
  <1>2. Idle \in OpType
    BY <1>1 DEF Idle, OpType
  <1> QED
    BY <1>1, <1>2 DEF PlanOK

LEMMA HeadOfPlan ==
  ASSUME CardInv, op.plan # <<>>
  PROVE  /\ op.plan \in Seq(Commands) /\ op.store \in StoreId
         /\ Head(op.plan) \in Commands /\ Head(op.plan) \in Elems(op.plan)
         /\ Tail(op.plan) \in Seq(Commands)
         /\ File \in Files /\ Value \in Int
         /\ CmdFits(Head(op.plan), op.store)
         /\ phase = "running"
  <1>1. op.plan \in Seq(Commands) /\ op.store \in StoreId
    BY DEF CardInv, CardsTyped, OpType
  <1>2. /\ Head(op.plan) \in Commands /\ Tail(op.plan) \in Seq(Commands)
        /\ Head(op.plan) \in Elems(op.plan)
    BY <1>1, ElemsTail
  <1> QED
    BY <1>1, <1>2 DEF CardInv, PlanOK, PlanFits, File, Value, Commands

LEMMA AdvanceKeeps ==
  ASSUME CardInv, op.plan # <<>>, Advance
  PROVE  /\ op' \in OpType
         /\ op'.plan # <<>> => /\ op'.plan = Tail(op.plan) /\ op'.store = op.store
                               /\ op'.stale = op.stale
  <1>1. CASE Tail(op.plan) = <<>>
    <2>1. op' = Idle
      BY <1>1 DEF Advance
    <2> QED
      BY <2>1, IdleOK DEF Idle
  <1>2. CASE Tail(op.plan) # <<>>
    <2>1. op' = [op EXCEPT !.plan = Tail(op.plan)] /\ op \in OpType
      BY <1>2 DEF Advance, CardInv, CardsTyped
    <2> QED
      BY <2>1, HeadOfPlan DEF OpType
  <1> QED
    BY <1>1, <1>2

(* The rest of a plan is as good as the plan was: what it relies on at     *)
(* most has to be looked at where the command wrote to the card.           *)
LEMMA PlanAdvances ==
  ASSUME CardInv, op.plan # <<>>, Advance, UNCHANGED <<phase, resets, slot>>,
         NEW s, s = op.store, NEW t, t = Tail(op.plan),
         \A r \in StoreId : fence'[r].gen = fence[r].gen,
         slot \in Cards,
         Gets(Head(op.plan)) => UNCHANGED card,
         Purged(op.plan, s) => Purged(t, s)' \/ PutsMarker(Head(op.plan))
  PROVE  op' \in OpType /\ PlanOK'
  <1> DEFINE h == Head(op.plan)
  <1>1. /\ op' \in OpType
        /\ op'.plan # <<>> => op'.plan = t /\ op'.store = s /\ op'.stale = op.stale
    BY AdvanceKeeps
  <1>2. /\ t \in Seq(Commands) /\ h \in Elems(op.plan) /\ Elems(op.plan) = {h} \cup Elems(t)
        /\ Ordered(op.plan) => Ordered(t)
        /\ Ordered(op.plan) /\ PutsMarker(h) => \A x \in Elems(t) : x.do \in {"verify", "clear"}
        /\ s \in StoreId /\ phase = "running"
        /\ h.do \in {"get", "put", "drop", "drop_backup", "verify", "clear"}
    BY HeadOfPlan, ElemsTail DEF Commands
  <1>3. PlanFits(op.plan, s) /\ (~op.stale => PlanSafe(op.plan, s))
    BY DEF CardInv, PlanOK
  <1>4. ASSUME NEW x \in Elems(t) PROVE CmdFits(x, s)'
    <2>1. CmdFits(x, s) /\ fence'[s].gen = fence[s].gen
      BY <1>2, <1>3 DEF PlanFits
    <2> QED
      BY <2>1 DEF CmdFits
  <1>5. PlanFits(t, s)'
    <2>1. Ordered(t)
      BY <1>2, <1>3 DEF PlanFits
    <2>2. (\E x \in Elems(t) : Gets(x)) => \A x \in Elems(t) : Gets(x)
      BY <1>2, <1>3 DEF PlanFits
    <2> QED
      BY <1>4, <2>1, <2>2 DEF PlanFits
  <1>6. ASSUME ~op.stale PROVE PlanSafe(t, s)'
    <2>1. ASSUME NEW x \in Elems(t), Gets(x) PROVE Adopted(slot, s)'
      <3>1. Gets(h) /\ Adopted(slot, s)
        BY <1>2, <1>3, <1>6, <2>1 DEF PlanFits, PlanSafe
      <3>2. UNCHANGED card /\ fence'[s].gen = fence[s].gen
        BY <1>2, <3>1
      <3> QED
        BY <3>1, <3>2 DEF Adopted, MarkerMatches, Content
    <2>2. ASSUME NEW x \in Elems(t), PutsMarker(x) PROVE Purged(t, s)'
      <3>1. Purged(op.plan, s)
        BY <1>2, <1>3, <1>6, <2>2 DEF PlanSafe
      <3>2. ~PutsMarker(h)
        BY <1>2, <1>3, <2>2 DEF PlanFits, PutsMarker
      <3> QED
        BY <3>1, <3>2
    <2> QED
      BY <2>1, <2>2 DEF PlanSafe
  <1> QED
    BY <1>1, <1>2, <1>5, <1>6 DEF PlanOK
LEMMA PurgedAdvances ==
  ASSUME CardInv, op.plan # <<>>, slot \in Cards, UNCHANGED <<resets, slot>>,
         NEW s, s = op.store, NEW t, t = Tail(op.plan), Purged(op.plan, s),
         NEW p \in Int, NEW b \in Int, SetFile(<<p, b>>),
         p \in Young \/ (p = Now.primary[File] /\ Head(op.plan).do # "drop"),
         b \in Young \/ (b = Now.backup[File] /\ Head(op.plan).do # "drop_backup")
  PROVE  Purged(t, s)'
  <1> DEFINE h == Head(op.plan)
  <1>1. /\ s \in StoreId /\ File \in Files /\ Elems(op.plan) = {h} \cup Elems(t)
        /\ h.file = File /\ CardType /\ Keys \subseteq Files
    BY HeadOfPlan, ElemsTail, PlainCommands DEF File, CardInv, CardsTyped
  <1>2. \A k \in Keys :
          IF k = File
          THEN card'[slot][s].primary[k] = p /\ card'[slot][s].backup[k] = b
          ELSE /\ card'[slot][s].primary[k] = card[slot][s].primary[k]
               /\ card'[slot][s].backup[k] = card[slot][s].backup[k]
    BY <1>1, SetFileEffect
  <1> SUFFICES ASSUME NEW k \in Keys
               PROVE  /\ \/ card'[slot][s].primary[k] \in Young
                         \/ Command("drop", k, Absent) \in Elems(t)
                      /\ \/ card'[slot][s].backup[k] \in Young
                         \/ Command("drop_backup", k, Absent) \in Elems(t)
    BY DEF Purged, Young
  <1>3. /\ card[slot][s].primary[k] \in Young \/ Command("drop", k, Absent) \in Elems(op.plan)
        /\ card[slot][s].backup[k] \in Young \/ Command("drop_backup", k, Absent) \in Elems(op.plan)
    BY DEF Purged
  <1>4. /\ Command("drop", k, Absent).do = "drop" /\ Command("drop", k, Absent).file = k
        /\ Command("drop_backup", k, Absent).do = "drop_backup"
        /\ Command("drop_backup", k, Absent).file = k
    BY <1>1, CommandTyped, PlainCommands
  <1>5. CASE k # File
    <2>1. Command("drop", k, Absent) # h /\ Command("drop_backup", k, Absent) # h
      BY <1>1, <1>4, <1>5
    <2> QED
      BY <1>1, <1>2, <1>3, <1>5, <2>1
  <1>6. CASE k = File
    <2>1. p \in Young \/ (p = card[slot][s].primary[k] /\ Command("drop", k, Absent) # h)
      BY <1>4, <1>6 DEF Now
    <2>2. b \in Young \/ (b = card[slot][s].backup[k] /\ Command("drop_backup", k, Absent) # h)
      BY <1>4, <1>6 DEF Now
    <2> QED
      BY <1>1, <1>2, <1>3, <1>6, <2>1, <2>2
  <1> QED
    BY <1>5, <1>6

(* A command that writes to the card, whether the plan goes on or ends.    *)
LEMMA FileStep ==
  ASSUME CardInv, NEW do \in {"drop", "drop_backup", "put"}, At(do),
         UNCHANGED <<vars, slot, ram, packetLog>>,
         NEW p \in Int, NEW b \in Int, SetFile(<<p, b>>),
         {p, b} \subseteq {Now.primary[File], Now.backup[File], Absent,
                           IF do = "put" THEN Value ELSE Absent},
         Segments(op.store, File) => b \in {Now.backup[File], Absent},
         \/ op' = Idle
         \/ /\ Advance
            /\ \/ File = "marker"
               \/ /\ p \in Young \/ (p = Now.primary[File] /\ do # "drop")
                  /\ b \in Young \/ (b = Now.backup[File] /\ do # "drop_backup")
  PROVE  CardInv'
  <1> DEFINE v == IF do = "put" THEN Value ELSE Absent
             h == Head(op.plan)
  <1>1. /\ op.plan # <<>> /\ h.do = do /\ ~op.stale /\ phase = "running" /\ slot \in Cards
        /\ UNCHANGED <<phase, resets, fence>>
    BY DEF At, CardInv, CardsTyped, vars, bootVars
  <1>2. /\ File \in Files /\ v \in Int /\ CmdFits(h, op.store) /\ op.store \in StoreId
        /\ h.file = File /\ h.value = Value /\ h \in Elems(op.plan)
    BY <1>1, HeadOfPlan, PlainCommands DEF File, Value
  <1>3. File \in Keys => v \in Young
    BY <1>1, <1>2, PlainCommands DEF CmdFits, Young
  <1>4. ASSUME File = "marker"
        PROVE  /\ PutsMarker(h) /\ v \in {Absent, fence[op.store].gen}
               /\ \A k \in Keys : KeyYoung(slot, op.store, k)
    <2>1. do = "put" /\ v = fence[op.store].gen /\ PutsMarker(h)
      BY <1>1, <1>2, <1>4, PlainCommands DEF CmdFits, PutsMarker
    <2>2. Purged(op.plan, op.store) /\ Ordered(op.plan)
      BY <1>1, <1>2, <2>1 DEF CardInv, PlanOK, PlanFits, PlanSafe
    <2>3. ASSUME NEW x \in Elems(op.plan) PROVE x.do \notin {"drop", "drop_backup"}
      <3>1. x = h \/ x \in Elems(Tail(op.plan))
        BY <1>1, HeadOfPlan, ElemsTail
      <3>2. x \in Elems(Tail(op.plan)) => x.do \in {"verify", "clear"}
        BY <1>1, <2>1, <2>2, HeadOfPlan, ElemsTail
      <3> QED
        BY <1>1, <2>1, <3>1, <3>2
    <2>4. ASSUME NEW k \in Keys PROVE KeyYoung(slot, op.store, k)
      <3>1. Command("drop", k, Absent).do = "drop"
            /\ Command("drop_backup", k, Absent).do = "drop_backup"
        BY CommandTyped, PlainCommands
      <3> QED
        BY <2>2, <2>3, <3>1 DEF Purged, KeyYoung
    <2> QED
      BY <2>1, <2>4
  <1>5. CardType' /\ FenceOK' /\ AdoptedOK'
    BY <1>1, <1>2, <1>3, <1>4, CardWritten
  <1>6. SegmentsOK'
    <2> SUFFICES ASSUME packetLog # 0, NEW c \in Cards
                 PROVE  card'[c][packetLog].backup["alias"] = Absent
      BY DEF SegmentsOK
    <2>1. /\ packetLog \in StoreId /\ CardType /\ "alias" \in Files
          /\ card[c][packetLog].backup["alias"] = Absent
      BY PlainCommands DEF CardInv, CardsTyped, SegmentsOK
    <2>2. CASE c = slot /\ packetLog = op.store /\ File = "alias"
      <3>1. card'[c][packetLog].backup["alias"] = b
        BY <1>1, <1>2, <2>1, <2>2, SetFileEffect
      <3> QED
        BY <2>1, <2>2, <3>1 DEF Segments, Now
    <2>3. CASE ~(c = slot /\ packetLog = op.store /\ File = "alias")
      <3>1. card'[c][packetLog].backup["alias"] = card[c][packetLog].backup["alias"]
        BY <1>1, <1>2, <2>1, <2>3, SetFileEffect
      <3> QED
        BY <2>1, <3>1
    <2> QED
      BY <2>2, <2>3
  <1>7. op' \in OpType /\ PlanOK'
    <2>1. CASE op' = Idle
      BY <2>1, IdleOK
    <2>2. CASE op' # Idle
      <3> PICK s : s = op.store
        OBVIOUS
      <3> PICK t : t = Tail(op.plan)
        OBVIOUS
      <3>1. Purged(op.plan, s) => Purged(t, s)' \/ PutsMarker(h)
        BY <1>1, <1>4, <2>2, PurgedAdvances
      <3>2. ~Gets(h) /\ \A r \in StoreId : fence'[r].gen = fence[r].gen
        BY <1>1 DEF Gets
      <3> QED
        BY <1>1, <2>2, <3>1, <3>2, PlanAdvances
    <2> QED
      BY <2>1, <2>2
  <1>8. ResetInv' /\ RamOK'
    <2>1. ResetInv'
      BY StepInv DEF CardInv
    <2>2. RamOK'
      BY <1>1 DEF CardInv, RamOK, Young
    <2> QED
      BY <2>1, <2>2
  <1> QED
    BY <1>5, <1>6, <1>7, <1>8 DEF CardInv, CardsTyped
LEMMA NowTyped ==
  ASSUME CardInv, NEW do, At(do)
  PROVE  /\ Now.primary[File] \in Int /\ Now.backup[File] \in Int
         /\ Value \in Int /\ Absent \in Int /\ Absent \in Young
         /\ phase = "running" /\ slot \in Cards /\ op.store \in StoreId
         /\ CmdFits(Head(op.plan), op.store) /\ Head(op.plan).do = do
         /\ File \in Files
  <1>1. op.plan # <<>> /\ slot \in Cards /\ phase = "running" /\ Head(op.plan).do = do
    BY DEF At, CardInv, CardsTyped
  <1> QED
    BY <1>1, HeadOfPlan, PlainCommands DEF CardInv, CardsTyped, CardType, Now, Young

(* Where a failed delete is not taken for a file that is already gone,     *)
(* every command keeps what the fence relies on.                           *)
LEMMA DropKeeps ==
  ASSUME ~DeleteMayFail, CardInv, DropBackup \/ Drop, UNCHANGED packetLog
  PROVE  CardInv'
  <1>1. CASE DropBackup
    <2>1. At("drop_backup") /\ Advance /\ UNCHANGED <<vars, slot, ram>>
      BY <1>1 DEF DropBackup
    <2>2. SetFile(<<Now.primary[File], Absent>>)
      BY <1>1 DEF DropBackup, Delete
    <2> QED
      BY <2>1, <2>2, NowTyped, FileStep
  <1>2. CASE Drop
    <2>1. At("drop") /\ Advance /\ UNCHANGED <<vars, slot, ram>>
      BY <1>2 DEF Drop
    <2>2. SetFile(<<Absent, Now.backup[File]>>)
      BY <1>2 DEF Drop, Delete
    <2> QED
      BY <2>1, <2>2, NowTyped, FileStep
  <1> QED
    BY <1>1, <1>2

LEMMA PutKeeps ==
  ASSUME CardInv, Put \/ PutFails, UNCHANGED packetLog
  PROVE  CardInv'
  <1>1. At("put") /\ UNCHANGED <<vars, slot, ram>>
    BY DEF Put, PutFails
  <1> DEFINE old == Now.primary[File]
             bak == Now.backup[File]
             val == Value
  <1>2. old \in Int /\ bak \in Int /\ val \in Int /\ Absent \in Int
    BY <1>1, NowTyped
  <1>3. File = "marker" \/ val \in Young
    BY <1>1, NowTyped DEF CmdFits, Value, Young, File
  <1>4. CASE Put
    <2>1. PICK b \in {bak, Absent} : SetFile(<<val, b>>)
      BY <1>4 DEF Put, Replaced
    <2>2. Advance
      BY <1>4 DEF Put
    <2> QED
      BY <1>1, <1>2, <1>3, <2>1, <2>2, FileStep, NowTyped
  <1>5. CASE PutFails
    <2>1. op' = Idle
      BY <1>5 DEF PutFails
    <2>2. CASE Segments(op.store, File)
      <3>1. SetFile(<<val, Absent>>)
        BY <1>5, <2>2 DEF PutFails
      <3> QED
        BY <1>1, <1>2, <2>1, <2>2, <3>1, FileStep
    <2>3. CASE ~Segments(op.store, File)
      <3>1. PICK pair \in Interrupted(old, bak, val) : SetFile(pair)
        BY <1>5, <2>3 DEF PutFails
      <3>2. pair \in {<<old, bak>>, <<val, bak>>, <<val, Absent>>, <<old, Absent>>,
                      <<Absent, old>>, <<val, old>>}
        BY <3>1 DEF Interrupted, Replaced
      <3>3. PICK p \in {old, bak, Absent, val}, b \in {old, bak, Absent, val} : pair = <<p, b>>
        BY <3>2
      <3>4. SetFile(<<p, b>>)
        BY <3>1, <3>3
      <3> HIDE DEF old, bak, val
      <3>5. p \in Int /\ b \in Int
        BY <1>2, <3>3
      <3>6. {p, b} \subseteq {Now.primary[File], Now.backup[File], Absent, Value}
        BY <3>3 DEF old, bak, val
      <3> QED
        BY <1>1, <2>1, <2>3, <3>4, <3>5, <3>6, FileStep
    <2> QED
      BY <2>2, <2>3
  <1> QED
    BY <1>4, <1>5
LEMMA SameCards ==
  ASSUME MaxUnreadable < Stores, CardInv, [Next]_vars, UNCHANGED <<card, packetLog>>,
         slot' \in Cards \cup {NoCard}, op' \in OpType, ram' \in [StoreId -> Int],
         RamOK', PlanOK'
  PROVE  CardInv'
  <1>1. ResetInv' /\ FenceOK' /\ AdoptedOK'
    BY StepInv, FenceStep, AdoptedKept DEF CardInv, CardsTyped
  <1>2. CardsTyped' /\ SegmentsOK'
    BY DEF CardInv, CardsTyped, CardType, SegmentsOK
  <1> QED
    BY <1>1, <1>2 DEF CardInv

(* A command that writes nothing to the card.                              *)
LEMMA GoesOn ==
  ASSUME MaxUnreadable < Stores, CardInv, NEW do \in {"verify", "clear", "get"}, At(do),
         [Next]_vars, UNCHANGED <<phase, resets, card, slot, packetLog>>,
         op' = Idle \/ Advance, ram' \in [StoreId -> Int], RamOK'
  PROVE  CardInv'
  <1>1. /\ op.plan # <<>> /\ phase = "running" /\ slot \in Cards /\ op.store \in StoreId
        /\ Head(op.plan).do = do
    BY NowTyped DEF At
  <1>2. \A r \in StoreId : fence'[r].gen = fence[r].gen
    <2>1. ~ArmStore
      BY <1>1 DEF ArmStore
    <2> QED
      BY <2>1, GensMove DEF CardInv
  <1>3. op' \in OpType /\ PlanOK'
    <2>1. CASE op' = Idle
      BY <2>1, IdleOK
    <2>2. CASE op' # Idle
      <3> PICK s : s = op.store
        OBVIOUS
      <3> PICK t : t = Tail(op.plan)
        OBVIOUS
      <3>1. Elems(op.plan) = {Head(op.plan)} \cup Elems(t)
        BY <1>1, HeadOfPlan, ElemsTail
      <3>2. ASSUME NEW k \in Keys
            PROVE  /\ Command("drop", k, Absent) # Head(op.plan)
                   /\ Command("drop_backup", k, Absent) # Head(op.plan)
        BY <1>1, <3>2, CommandTyped, PlainCommands
      <3>3. Purged(op.plan, s) => Purged(t, s)'
        BY <3>1, <3>2 DEF Purged, Young
      <3> QED
        BY <1>1, <1>2, <2>2, <3>3, PlanAdvances
    <2> QED
      BY <2>1, <2>2
  <1> QED
    BY <1>1, <1>3, SameCards

LEMMA MarkerKeeps ==
  ASSUME MaxUnreadable < Stores, CardInv, VerifyMarker \/ ClearFence, [Next]_vars,
         UNCHANGED packetLog
  PROVE  CardInv'
  <1>1. UNCHANGED <<phase, resets, card, slot, ram>>
    BY DEF VerifyMarker, ClearFence, LineageClear, vars, bootVars
  <1>2. op' = Idle \/ Advance
    BY DEF VerifyMarker, ClearFence
  <1>3. At("verify") \/ At("clear")
    BY DEF VerifyMarker, ClearFence
  <1>4. ram' \in [StoreId -> Int] /\ RamOK'
    BY <1>1 DEF CardInv, CardsTyped, RamOK, Young
  <1> QED
    BY <1>1, <1>2, <1>3, <1>4, GoesOn

(* A read takes what an adopted card holds under a key.                    *)
LEMMA GetKeeps ==
  ASSUME MaxUnreadable < Stores, CardInv, Get, UNCHANGED packetLog
  PROVE  CardInv'
  <1> DEFINE content == Content(slot, op.store, File)
  <1>1. /\ At("get") /\ Advance /\ UNCHANGED <<vars, card, slot>>
        /\ ram' = [ram EXCEPT ![op.store] = Older(ram[op.store], content)]
    BY DEF Get
  <1>2. UNCHANGED <<phase, resets>> /\ [Next]_vars
    BY <1>1 DEF vars, bootVars
  <1>3. /\ op.plan # <<>> /\ ~op.stale /\ phase = "running" /\ slot \in Cards
        /\ op.store \in StoreId /\ File \in Keys
        /\ Head(op.plan) \in Elems(op.plan) /\ Gets(Head(op.plan))
    BY <1>1, NowTyped, HeadOfPlan DEF At, Gets, CmdFits, File
  <1>4. Adopted(slot, op.store)
    BY <1>3 DEF CardInv, PlanOK, PlanSafe
  <1>5. KeyYoung(slot, op.store, File)
    BY <1>3, <1>4 DEF CardInv, AdoptedOK, Settled
  <1>6. content \in Young
    BY <1>5 DEF KeyYoung, Content
  <1> HIDE DEF content
  <1>7. ram \in [StoreId -> Int] /\ \A s \in StoreId : ram[s] \in Young
    BY <1>3 DEF CardInv, CardsTyped, RamOK
  <1>8. Older(ram[op.store], content) \in Young /\ Young \subseteq Int
    BY <1>3, <1>6, <1>7, InvTypes DEF Older
  <1>9. ram' \in [StoreId -> Int] /\ \A s \in StoreId : ram'[s] \in Young
    BY <1>1, <1>3, <1>7, <1>8
  <1>10. RamOK'
    BY <1>2, <1>3, <1>9 DEF RamOK, Young
  <1> QED
    BY <1>1, <1>2, <1>9, <1>10, GoesOn

LEMMA RestKeeps ==
  ASSUME MaxUnreadable < Stores, CardInv, [Next]_vars, UNCHANGED <<card, slot, packetLog>>,
         \/ Stop \/ Down
         \/ \E s \in StoreId : NewEntry(s)
  PROVE  CardInv'
  <1>0. /\ ram \in [StoreId -> Int] /\ slot \in Cards \cup {NoCard} /\ op \in OpType
        /\ resets \in Int /\ Absent \in Int
    BY InvTypes, PlainCommands DEF CardInv, CardsTyped
  <1>1. CASE Stop
    <2>1. op' = Idle /\ UNCHANGED <<phase, resets, ram>>
      BY <1>1 DEF Stop, vars, bootVars
    <2>2. RamOK'
      BY <2>1 DEF CardInv, RamOK, Young
    <2> QED
      BY <1>0, <2>1, <2>2, IdleOK, SameCards
  <1>2. CASE Down
    <2>1. op' = Idle /\ ram' = [s \in StoreId |-> Absent]
      BY <1>2 DEF Down
    <2>2. RamOK' /\ ram' \in [StoreId -> Int]
      BY <1>0, <2>1 DEF RamOK, Young
    <2> QED
      BY <1>0, <2>1, <2>2, IdleOK, SameCards
  <1>3. ASSUME NEW s \in StoreId, NewEntry(s) PROVE CardInv'
    <2>1. /\ phase = "running" /\ ram' = [ram EXCEPT ![s] = resets]
          /\ UNCHANGED <<phase, resets, fence, op>>
      BY <1>3 DEF NewEntry, vars, bootVars
    <2>2. RamOK' /\ ram' \in [StoreId -> Int]
      BY <1>0, <2>1 DEF CardInv, RamOK, Young
    <2>3. PlanOK'
      BY <2>1 DEF CardInv, PlanOK, PlanFits, PlanSafe, CmdFits, Purged, Young, Adopted,
                  MarkerMatches, Content
    <2> QED
      BY <1>0, <2>1, <2>2, <2>3, SameCards
  <1> QED
    BY <1>1, <1>2, <1>3

(* Where a card cannot be replaced without the backend's noticing, the     *)
(* operation that was under way gives no further command.                  *)
LEMMA SwapKeeps ==
  ASSUME ~SilentSwap, MaxUnreadable < Stores, CardInv, NEW c \in Cards \cup {NoCard}, Swap(c),
         UNCHANGED packetLog
  PROVE  CardInv'
  <1>1. /\ UNCHANGED <<vars, card, ram>> /\ slot' = c
        /\ op' = [op EXCEPT !.stale = op.stale \/ op.plan # <<>>]
    BY DEF Swap
  <1>2. UNCHANGED <<phase, resets, fence>> /\ [Next]_vars
    BY <1>1 DEF vars, bootVars
  <1>3. op \in OpType /\ ram \in [StoreId -> Int]
    BY DEF CardInv, CardsTyped
  <1>4. /\ op' \in OpType /\ op'.plan = op.plan /\ op'.store = op.store
        /\ op'.plan # <<>> => op'.stale
    BY <1>1, <1>3 DEF OpType
  <1>5. PlanOK'
    <2> PICK plan : plan = op.plan
      OBVIOUS
    <2> PICK s : s = op.store
      OBVIOUS
    <2>1. plan # <<>> => phase = "running" /\ PlanFits(plan, s)
      BY DEF CardInv, PlanOK
    <2>2. plan # <<>> => phase' = "running" /\ PlanFits(plan, s)'
      BY <1>2, <2>1 DEF PlanFits, CmdFits
    <2> QED
      BY <1>4, <2>2 DEF PlanOK
  <1>6. RamOK'
    BY <1>1, <1>2 DEF CardInv, RamOK, Young
  <1> QED
    BY <1>1, <1>2, <1>3, <1>4, <1>5, <1>6, SameCards
(* The steps of a reset leave the cards alone, and meet no operation.      *)
LEMMA ResetKeeps ==
  ASSUME MaxUnreadable < Stores, CardInv, [Next]_vars, ResetStep, UNCHANGED packetLog
  PROVE  CardInv'
  <1>0. /\ UNCHANGED <<card, slot, op, ram>>
        /\ ram \in [StoreId -> Int] /\ slot \in Cards \cup {NoCard} /\ op \in OpType
    BY DEF ResetStep, sdVars, CardInv, CardsTyped
  <1>1. ASSUME phase \notin {"running", "restarting"} PROVE CardInv'
    <2>1. op.plan = <<>> /\ \A s \in StoreId : ram[s] = Absent
      BY <1>1 DEF CardInv, PlanOK, RamOK
    <2>2. PlanOK' /\ RamOK'
      BY <1>0, <2>1 DEF PlanOK, RamOK, Young
    <2> QED
      BY <1>0, <2>2, SameCards
  <1>2. CASE Request /\ op = Idle
    <2>1. phase' = "restarting" /\ op.plan = <<>>
      BY <1>2 DEF Request, Enter, Idle
    <2>2. PlanOK' /\ RamOK'
      BY <1>0, <2>1 DEF PlanOK, RamOK
    <2> QED
      BY <1>0, <2>2, SameCards
  <1>3. CASE JournalUnreadable
    <2>1. UNCHANGED <<phase, resets, fence>>
      BY <1>3 DEF JournalUnreadable, bootVars
    <2>2. PlanOK' /\ RamOK'
      BY <1>0, <2>1 DEF CardInv, PlanOK, PlanFits, PlanSafe, CmdFits, Purged, Young, Adopted,
                        MarkerMatches, Content, RamOK
    <2> QED
      BY <1>0, <2>2, SameCards
  <1>4. Boot => phase \notin {"running", "restarting"}
    BY DEF Boot, Inspect, RetainedInit, ResumeRefused,
           ResumeAbsent, ResumeComplete, ResumeActive, ArmSkip, ArmStore, EraseDomain, EraseFails,
           Progress
  <1>5. Repair \/ (\E s \in StoreId : LineageUnreadable(s))
          => phase \notin {"running", "restarting"}
    BY DEF Repair, LineageUnreadable
  <1> QED
    BY <1>1, <1>2, <1>3, <1>4, <1>5 DEF ResetStep

-----------------------------------------------------------------------------
(* How an operation begins.                                                *)
LEMMA BeginKeeps ==
  ASSUME MaxUnreadable < Stores, CardInv, NEW s \in StoreId, Begins(s), UNCHANGED packetLog,
         NEW kind \in {"read", "write", "erase", "adopt"}, NEW k \in Keys,
         NEW plan \in Seq(Commands), PlanFits(plan, s), PlanSafe(plan, s),
         op' = Op(kind, s, k, plan)
  PROVE  CardInv'
  <1>1. UNCHANGED <<vars, card, slot, ram>> /\ phase = "running"
    BY DEF Begins
  <1>2. UNCHANGED <<phase, resets, fence>> /\ [Next]_vars
    BY <1>1 DEF vars, bootVars
  <1>3. op' \in OpType /\ op'.plan = plan /\ op'.store = s
    BY InvTypes DEF Op, OpType
  <1>4. PlanOK'
    <2>1. PlanFits(plan, s)'
      BY <1>2 DEF PlanFits, CmdFits
    <2>2. PlanSafe(plan, s)'
      BY <1>1, <1>2 DEF PlanSafe, Purged, Young, Adopted, MarkerMatches, Content
    <2> QED
      BY <1>1, <1>2, <1>3, <2>1, <2>2 DEF PlanOK
  <1>5. RamOK' /\ ram' \in [StoreId -> Int] /\ slot' \in Cards \cup {NoCard}
    BY <1>1, <1>2 DEF CardInv, CardsTyped, RamOK, Young
  <1> QED
    BY <1>1, <1>2, <1>3, <1>4, <1>5, SameCards

LEMMA BeginsFacts ==
  ASSUME CardInv, NEW s \in StoreId, Begins(s)
  PROVE  /\ slot \in Cards /\ phase = "running"
         /\ Ready(slot, s) => Adopted(slot, s)
         /\ ram[s] \in Young /\ ram[s] \in Int
  BY DEF Begins, CardInv, CardsTyped, Ready, Adopted, RamOK

LEMMA ReadBegins ==
  ASSUME MaxUnreadable < Stores, CardInv, NEW s \in StoreId, NEW k \in Keys, BeginRead(s, k),
         UNCHANGED packetLog
  PROVE  CardInv'
  <1> DEFINE get == Command("get", k, Absent)
  <1>1. get \in Commands /\ get.do = "get" /\ get.file = k
    BY CommandTyped, PlainCommands
  <1>2. Begins(s) /\ Ready(slot, s) /\ op' = Op("read", s, k, <<get>>)
    BY DEF BeginRead
  <1> HIDE DEF get
  <1>3. <<get>> \in Seq(Commands) /\ Elems(<<get>>) = {get} /\ Ordered(<<get>>)
    BY <1>1, ElemsOfTuples
  <1>4. PlanFits(<<get>>, s) /\ PlanSafe(<<get>>, s)
    BY <1>1, <1>2, <1>3, BeginsFacts DEF PlanFits, PlanSafe, CmdFits, Gets, PutsMarker
  <1> QED
    BY <1>2, <1>3, <1>4, BeginKeeps

LEMMA AdoptionErases ==
  ASSUME CardInv, NEW s \in StoreId, slot \in Cards
  PROVE  /\ Purge(s) \o Finalize(s) \in Seq(Commands)
         /\ PlanFits(Purge(s) \o Finalize(s), s)
         /\ PlanSafe(Purge(s) \o Finalize(s), s)
  <1>1. <<>> \in Seq(Commands) /\ Elems(<<>>) = {}
    BY DEF Elems
  <1>2. Purge(s) \o <<>> = Purge(s)
    BY PurgePlan
  <1> QED
    BY <1>1, <1>2, AdoptionSafe

LEMMA WriteBegins ==
  ASSUME MaxUnreadable < Stores, CardInv, NEW s \in StoreId, NEW k \in Keys, BeginWrite(s, k),
         UNCHANGED packetLog
  PROVE  CardInv'
  <1> DEFINE put == Command("put", k, ram[s])
  <1>1. /\ Begins(s) /\ ram[s] # Absent
        /\ op' = Op("write", s, k, WritePlan(s, k, Ready(slot, s)))
    BY DEF BeginWrite
  <1>2. put \in Commands /\ put.do = "put" /\ put.file = k /\ put.value = resets /\ slot \in Cards
    BY <1>1, BeginsFacts, CommandTyped, PlainCommands DEF Young
  <1>3. WritePlan(s, k, Ready(slot, s))
          = IF Ready(slot, s) THEN <<put>> ELSE Purge(s) \o <<put>> \o Finalize(s)
    BY DEF WritePlan
  <1> HIDE DEF put
  <1>4. /\ <<put>> \in Seq(Commands) /\ Elems(<<put>>) = {put} /\ Ordered(<<put>>)
        /\ k \in Files /\ k # "marker"
    BY <1>2, ElemsOfTuples, PlainCommands
  <1>5. PlanFits(<<put>>, s) /\ PlanSafe(<<put>>, s)
    BY <1>2, <1>4 DEF PlanFits, PlanSafe, CmdFits, Gets, PutsMarker
  <1>6. /\ Purge(s) \o <<put>> \o Finalize(s) \in Seq(Commands)
        /\ PlanFits(Purge(s) \o <<put>> \o Finalize(s), s)
        /\ PlanSafe(Purge(s) \o <<put>> \o Finalize(s), s)
    BY <1>2, <1>4, AdoptionSafe
  <1> QED
    BY <1>1, <1>3, <1>4, <1>5, <1>6, BeginKeeps

LEMMA EraseBegins ==
  ASSUME MaxUnreadable < Stores, CardInv, NEW s \in StoreId, NEW k \in Keys, BeginErase(s, k),
         UNCHANGED packetLog
  PROVE  CardInv'
  <1>1. Begins(s) /\ op' = Op("erase", s, k, ErasePlan(s, k, Ready(slot, s)))
    BY DEF BeginErase
  <1>2. slot \in Cards /\ k \in Files
    BY <1>1, BeginsFacts, PlainCommands
  <1>3. /\ EraseFile(k) \in Seq(Commands) /\ Ordered(EraseFile(k))
        /\ Elems(EraseFile(k)) = {Command("drop_backup", k, Absent), Command("drop", k, Absent)}
        /\ \A x \in Elems(EraseFile(k)) : ~PutsMarker(x)
    BY <1>2, EraseFilePlan
  <1>4. \A x \in Elems(EraseFile(k)) : x.do \in {"drop_backup", "drop"} /\ x.file = k
    BY <1>2, <1>3, CommandTyped, PlainCommands
  <1>5. PlanFits(EraseFile(k), s) /\ PlanSafe(EraseFile(k), s)
    BY <1>2, <1>3, <1>4 DEF PlanFits, PlanSafe, CmdFits, Gets
  <1>6. CASE Ready(slot, s)
    BY <1>1, <1>3, <1>5, <1>6, BeginKeeps DEF ErasePlan
  <1>7. CASE ~Ready(slot, s)
    BY <1>1, <1>2, <1>7, AdoptionErases, BeginKeeps DEF ErasePlan
  <1> QED
    BY <1>6, <1>7

LEMMA AdoptBegins ==
  ASSUME MaxUnreadable < Stores, CardInv, BeginAdopt, UNCHANGED packetLog
  PROVE  CardInv'
  <1>1. /\ packetLog \in StoreId /\ Begins(packetLog)
        /\ op' = Op("adopt", packetLog, "blob", Purge(packetLog) \o Finalize(packetLog))
    BY DEF BeginAdopt, CardInv, CardsTyped
  <1>2. slot \in Cards /\ "blob" \in Keys
    BY <1>1, BeginsFacts, PlainCommands
  <1> PICK s \in StoreId : s = packetLog
    BY <1>1
  <1> QED
    BY <1>1, <1>2, AdoptionErases, BeginKeeps
-----------------------------------------------------------------------------
LEMMA CardInit == Init /\ InitCards => CardInv
  <1> SUFFICES ASSUME Init, InitCards PROVE CardInv
    OBVIOUS
  <1>1. /\ ResetInv /\ resets = 0 /\ phase = "off" /\ journal.state = "absent"
        /\ \A s \in StoreId : fence[s].gen = 0 /\ fence[s].ok
    BY InitInv DEF Init, Journal, NoLineage, Lineage
  <1>2. ASSUME NEW c \in Cards, NEW s \in StoreId
        PROVE  /\ card[c][s] \in [primary : [Files -> Int], backup : [Files -> Int]]
               /\ \A f \in Files : /\ card[c][s].primary[f] \in {Absent, 0}
                                   /\ card[c][s].backup[f] = Absent
               /\ card[c][s].primary["marker"] = Absent
    <2>1. card[c] \in {Blank, OldHistory}
      BY DEF InitCards
    <2> QED
      BY <2>1, PlainCommands DEF Blank, OldHistory
  <1>3. CardType
    <2>1. card \in [Cards -> {Blank, OldHistory}]
      BY DEF InitCards
    <2>2. \A b \in {Blank, OldHistory} :
            b \in [StoreId -> [primary : [Files -> Int], backup : [Files -> Int]]]
      BY PlainCommands DEF Blank, OldHistory
    <2> QED
      BY <2>1, <2>2 DEF CardType
  <1>4. op = Idle /\ op.plan = <<>> /\ op \in OpType
    <2>1. op = Idle
      BY DEF InitCards
    <2> QED
      BY <2>1, IdleTyped, PlainCommands DEF Idle, OpType
  <1>5. CardsTyped
    BY <1>3, <1>4, SdAssumption, PlainCommands DEF CardsTyped, InitCards
  <1>6. FenceOK
    <2>1. StoreId \ Readable = {}
      BY <1>1 DEF Readable
    <2>2. Cardinality(StoreId \ Readable) <= MaxUnreadable
      BY <2>1, FS_EmptySet, ResetAssumption
    <2>3. AllMarks \subseteq {Absent}
      BY <1>2, PlainCommands DEF AllMarks
    <2> QED
      BY <1>1, <2>2, <2>3 DEF FenceOK, Absent
  <1>7. AdoptedOK
    BY <1>1, <1>2, PlainCommands DEF AdoptedOK, KeyYoung, Young
  <1>8. SegmentsOK
    BY <1>2, <1>5, PlainCommands DEF SegmentsOK, CardsTyped
  <1>9. RamOK /\ PlanOK
    BY <1>1, <1>4 DEF RamOK, PlanOK, InitCards
  <1> QED
    BY <1>1, <1>5, <1>6, <1>7, <1>8, <1>9 DEF CardInv

LEMMA CardKeeps ==
  ASSUME ~DeleteMayFail, ~SilentSwap, MaxUnreadable < Stores
  PROVE  CardInv /\ [NextCards]_allVars => CardInv'
  <1> SUFFICES ASSUME CardInv, [NextCards]_allVars PROVE CardInv'
    OBVIOUS
  <1>0. UNCHANGED packetLog /\ [Next]_vars
    <2>1. OpOK
      BY DEF OpOK, CardInv, CardsTyped, OpType
    <2>2. [Next]_vars
      BY <2>1, CardStep
    <2> QED
      BY <2>2 DEF NextCards, allVars
  <1>1. CASE Step
    BY <1>0, <1>1, DropKeeps, PutKeeps, MarkerKeeps, GetKeeps, RestKeeps DEF Step, Stop
  <1>2. CASE Down \/ \E s \in StoreId : NewEntry(s)
    BY <1>0, <1>2, RestKeeps DEF Down, NewEntry
  <1>3. CASE ResetStep
    BY <1>0, <1>3, ResetKeeps
  <1>4. CASE \/ BeginAdopt
             \/ \E s \in StoreId, k \in Keys :
                  BeginRead(s, k) \/ BeginWrite(s, k) \/ BeginErase(s, k)
    BY <1>0, <1>4, ReadBegins, WriteBegins, EraseBegins, AdoptBegins
  <1>5. CASE \E c \in Cards \cup {NoCard} : Swap(c)
    BY <1>0, <1>5, SwapKeeps
  <1>6. CASE UNCHANGED allVars
    <2>1. /\ UNCHANGED <<phase, resets, fence, card, slot, op, ram, packetLog>>
      BY <1>6 DEF allVars, vars, bootVars, sdVars
    <2>2. PlanOK' /\ RamOK'
      BY <2>1 DEF CardInv, PlanOK, PlanFits, PlanSafe, CmdFits, Purged, Young, Adopted,
                  MarkerMatches, Content, RamOK
    <2> QED
      BY <1>0, <2>1, <2>2, SameCards DEF CardInv, CardsTyped
  <1> QED
    BY <1>1, <1>2, <1>3, <1>4, <1>5, <1>6 DEF NextCards

LEMMA CardInvFences == CardInv => OldHistoryFenced
  <1> SUFFICES ASSUME CardInv, phase = "running", NEW s \in StoreId
               PROVE  /\ ram[s] \in Young
                      /\ slot # NoCard /\ Ready(slot, s) =>
                           \A k \in Keys : Content(slot, s, k) \in Young
    BY DEF OldHistoryFenced, Young
  <1>1. ram[s] \in Young
    BY DEF CardInv, RamOK
  <1>2. ASSUME slot # NoCard, Ready(slot, s), NEW k \in Keys PROVE Content(slot, s, k) \in Young
    <2>1. slot \in Cards /\ Adopted(slot, s)
      BY <1>2 DEF CardInv, CardsTyped, Ready, Adopted
    <2>2. KeyYoung(slot, s, k)
      BY <2>1 DEF CardInv, AdoptedOK, Settled
    <2> QED
      BY <2>2 DEF KeyYoung, Content
  <1> QED
    BY <1>1, <1>2

(* No history from before the last reset comes back from any card, however *)
(* many there are and wherever an adoption was cut short (sd_media_lineage *)
(* _ready, sd_purge_store_for_generation, sd_finalize_lineage_for_         *)
(* generation), where a failed delete is told from a missing file, a card  *)
(* that goes is noticed, and one lineage record at least can be read.      *)
THEOREM OldHistoryStaysFenced ==
  ASSUME ~DeleteMayFail, ~SilentSwap, MaxUnreadable < Stores
  PROVE  SpecCards => []OldHistoryFenced
  <1>1. CardInv /\ [NextCards]_allVars => CardInv'
    BY CardKeeps
  <1> QED
    BY <1>1, CardInit, CardInvFences, PTL DEF SpecCards
-----------------------------------------------------------------------------
(* A write that ends well.  This needs less: what the variables hold, and  *)
(* the stage a write has come to, even where deletes fail unnoticed.       *)
TypedInv == /\ ResetInv /\ CardsTyped
            /\ op.plan # <<>> => phase = "running"

LEMMA TypedFacts ==
  ASSUME TypedInv
  PROVE  /\ CardType /\ op \in OpType /\ ram \in [StoreId -> Int]
         /\ slot \in Cards \cup {NoCard} /\ packetLog \in StoreId \cup {0}
         /\ op.store \in StoreId /\ op.plan \in Seq(Commands)
         /\ fence \in [StoreId -> LineageType] /\ resets \in Int
         /\ \A s \in StoreId : fence[s].gen \in Nat
         /\ OpOK
  BY TypeParts DEF TypedInv, CardsTyped, OpType, OpOK, ResetInv, LineageType, Epochs

LEMMA TypedNext ==
  ASSUME TypedInv, NEW do, At(do)
  PROVE  /\ op.plan # <<>> /\ Head(op.plan).do = do /\ phase = "running" /\ slot \in Cards
         /\ Head(op.plan) \in Commands /\ File \in Files /\ Value \in Int
         /\ Now.primary[File] \in Int /\ Now.backup[File] \in Int /\ Absent \in Int
         /\ op' = Idle \/ Advance => op' \in OpType
  <1>1. /\ op.plan # <<>> /\ Head(op.plan).do = do /\ phase = "running" /\ slot \in Cards
    BY TypedFacts DEF At, TypedInv
  <1>2. /\ Head(op.plan) \in Commands /\ Tail(op.plan) \in Seq(Commands)
        /\ File \in Files /\ Value \in Int
    BY <1>1, TypedFacts, ElemsTail DEF Commands, File, Value
  <1>3. Now.primary[File] \in Int /\ Now.backup[File] \in Int /\ Absent \in Int
    <2>1. Now \in [primary : [Files -> Int], backup : [Files -> Int]]
      BY <1>1, TypedFacts DEF CardType, Now
    <2>2. Now.primary \in [Files -> Int] /\ Now.backup \in [Files -> Int]
      BY <2>1
    <2> QED
      BY <1>2, <2>2, PlainCommands
  <1>4. op' = Idle => op' \in OpType
    BY IdleOK
  <1>5. Advance => op' \in OpType
    <2>1. CASE Tail(op.plan) = <<>>
      BY <1>4, <2>1 DEF Advance
    <2>2. CASE Tail(op.plan) # <<>>
      <3>1. op \in OpType
        BY TypedFacts
      <3> QED
        BY <1>2, <2>2, <3>1 DEF Advance, OpType
    <2> QED
      BY <2>1, <2>2
  <1> QED
    BY <1>1, <1>2, <1>3, <1>4, <1>5

(* What each command does to the files of the card.                        *)
FileAfter(p, b) ==
  \A c \in Cards, s \in StoreId, f \in Files :
    IF c = slot /\ s = op.store /\ f = File
    THEN card'[c][s].primary[f] = p /\ card'[c][s].backup[f] = b
    ELSE /\ card'[c][s].primary[f] = card[c][s].primary[f]
         /\ card'[c][s].backup[f] = card[c][s].backup[f]

LEMMA WriterSteps ==
  ASSUME TypedInv
  PROVE  /\ DropBackup \/ Drop =>
              CardType'
         /\ Put => /\ CardType'
                   /\ \E b \in Int : FileAfter(Value, b)
         /\ PutFails => CardType'
  <1>0. CardType /\ op.store \in StoreId
    BY TypedFacts
  <1>1. ASSUME NEW do, At(do), NEW p \in Int, NEW b \in Int, SetFile(<<p, b>>)
        PROVE  CardType' /\ FileAfter(p, b)
    <2>1. slot \in Cards /\ File \in Files
      BY <1>1, TypedNext
    <2> QED
      BY <1>0, <1>1, <2>1, SetFileEffect DEF FileAfter
  <1>2. ASSUME NEW do, At(do), NEW p \in Int, NEW b \in Int, Delete(<<p, b>>) PROVE CardType'
    BY <1>0, <1>1, <1>2 DEF Delete, CardType
  <1>3. DropBackup \/ Drop => CardType'
    <2>1. CASE DropBackup
      <3>1. At("drop_backup") /\ Delete(<<Now.primary[File], Absent>>)
        BY <2>1 DEF DropBackup
      <3> QED
        BY <1>2, <3>1, TypedNext
    <2>2. CASE Drop
      <3>1. At("drop") /\ Delete(<<Absent, Now.backup[File]>>)
        BY <2>2 DEF Drop
      <3> QED
        BY <1>2, <3>1, TypedNext
    <2> QED
      BY <2>1, <2>2
  <1>4. ASSUME Put PROVE CardType' /\ \E b \in Int : FileAfter(Value, b)
    <2>1. At("put")
      BY <1>4 DEF Put
    <2>2. PICK b \in {Now.backup[File], Absent} : SetFile(<<Value, b>>)
      BY <1>4 DEF Put, Replaced
    <2>3. b \in Int /\ Value \in Int
      BY <2>1, <2>2, TypedNext
    <2> QED
      BY <1>1, <2>1, <2>2, <2>3
  <1>5. ASSUME PutFails PROVE CardType'
    <2>1. At("put")
      BY <1>5 DEF PutFails
    <2> DEFINE old == Now.primary[File]
               bak == Now.backup[File]
               val == Value
    <2>2. PICK pair \in {<<old, bak>>, <<val, bak>>, <<val, Absent>>, <<old, Absent>>,
                         <<Absent, old>>, <<val, old>>} : SetFile(pair)
      BY <1>5 DEF PutFails, Interrupted, Replaced
    <2>3. old \in Int /\ bak \in Int /\ val \in Int /\ Absent \in Int
      BY <2>1, TypedNext
    <2> HIDE DEF old, bak, val
    <2>4. PICK p \in Int, b \in Int : pair = <<p, b>>
      BY <2>2, <2>3
    <2> QED
      BY <1>1, <2>1, <2>2, <2>4
  <1> QED
    BY <1>3, <1>4, <1>5
LEMMA PlansTyped ==
  ASSUME TypedInv, NEW s \in StoreId, NEW k \in Keys, NEW v \in Int
  PROVE  /\ <<Command("get", k, Absent)>> \in Seq(Commands)
         /\ <<Command("put", k, v)>> \in Seq(Commands)
         /\ EraseFile(k) \in Seq(Commands) /\ Finalize(s) \in Seq(Commands)
         /\ Purge(s) \o Finalize(s) \in Seq(Commands)
         /\ Purge(s) \o <<Command("put", k, v)>> \o Finalize(s) \in Seq(Commands)
  <1>1. /\ <<Command("get", k, Absent)>> \in Seq(Commands)
        /\ <<Command("put", k, v)>> \in Seq(Commands)
    BY CommandTyped, PlainCommands
  <1>2. /\ Purge(s) \in Seq(Commands) /\ Finalize(s) \in Seq(Commands)
        /\ EraseFile(k) \in Seq(Commands)
    BY TypedFacts, PurgePlan, FinalizePlan, EraseFilePlan, PlainCommands
  <1> QED
    BY <1>1, <1>2

LEMMA BeginTyped ==
  ASSUME TypedInv, NEW s \in StoreId, Begins(s), NEW k \in Keys,
         NEW kind \in {"read", "write", "erase", "adopt"}, NEW plan \in Seq(Commands),
         op' = Op(kind, s, k, plan)
  PROVE  op' \in OpType /\ phase' = "running" /\ UNCHANGED <<card, slot, ram>>
  <1>1. op' \in OpType
    BY TypedFacts DEF Op, OpType
  <1> QED
    BY <1>1 DEF Begins, vars, bootVars

(* Every operation begins with a plan of commands.                         *)
LEMMA BeginsTyped ==
  ASSUME TypedInv, UNCHANGED packetLog,
         \/ BeginAdopt
         \/ \E s \in StoreId, k \in Keys :
              BeginRead(s, k) \/ BeginWrite(s, k) \/ BeginErase(s, k)
  PROVE  op' \in OpType /\ phase' = "running" /\ UNCHANGED <<card, slot, ram>>
  <1>1. CASE BeginAdopt
    <2>1. packetLog \in StoreId /\ Begins(packetLog) /\ "blob" \in Keys
      BY <1>1, TypedFacts, PlainCommands DEF BeginAdopt
    <2>2. Purge(packetLog) \o Finalize(packetLog) \in Seq(Commands)
      BY <2>1, PlansTyped, PlainCommands
    <2> QED
      BY <1>1, <2>1, <2>2, BeginTyped DEF BeginAdopt
  <1>2. ASSUME NEW s \in StoreId, NEW k \in Keys, BeginRead(s, k)
        PROVE  op' \in OpType /\ phase' = "running" /\ UNCHANGED <<card, slot, ram>>
    BY <1>2, PlansTyped, PlainCommands, BeginTyped DEF BeginRead
  <1>3. ASSUME NEW s \in StoreId, NEW k \in Keys, BeginWrite(s, k)
        PROVE  op' \in OpType /\ phase' = "running" /\ UNCHANGED <<card, slot, ram>>
    <2>1. ram[s] \in Int
      BY TypedFacts
    <2>2. WritePlan(s, k, Ready(slot, s)) \in Seq(Commands)
      BY <2>1, PlansTyped DEF WritePlan
    <2> QED
      BY <1>3, <2>2, BeginTyped DEF BeginWrite
  <1>4. ASSUME NEW s \in StoreId, NEW k \in Keys, BeginErase(s, k)
        PROVE  op' \in OpType /\ phase' = "running" /\ UNCHANGED <<card, slot, ram>>
    <2>1. ErasePlan(s, k, Ready(slot, s)) \in Seq(Commands)
      BY PlansTyped, PlainCommands DEF ErasePlan
    <2> QED
      BY <1>4, <2>1, BeginTyped DEF BeginErase
  <1> QED
    BY <1>1, <1>2, <1>3, <1>4

LEMMA TypedKeeps == TypedInv /\ [NextCards]_allVars => TypedInv'
  <1> SUFFICES ASSUME TypedInv, [NextCards]_allVars PROVE TypedInv'
    OBVIOUS
  <1>0. /\ UNCHANGED packetLog /\ ResetInv'
    BY CardStep, StepInv, TypedFacts DEF NextCards, allVars, TypedInv
  <1>1. ASSUME CardType', op' \in OpType, ram' \in [StoreId -> Int],
               slot' \in Cards \cup {NoCard}, op'.plan # <<>> => phase' = "running"
        PROVE  TypedInv'
    BY <1>0, <1>1, TypedFacts DEF TypedInv, CardsTyped
  <1>2. UNCHANGED card => CardType'
    BY TypedFacts DEF CardType
  <1>3. op' = Idle => op' \in OpType /\ op'.plan = <<>>
    BY IdleOK DEF Idle
  <1>4. CASE Step /\ ~Stop
    <2>1. /\ slot' = slot /\ phase' = phase /\ (op' = Idle \/ Advance)
          /\ \E do : At(do)
      BY <1>4 DEF Step, DropBackup, Drop, Put, PutFails, VerifyMarker, ClearFence, Get,
                  LineageClear, vars, bootVars
    <2>2. CardType'
      BY <1>2, <1>4, WriterSteps DEF Step, VerifyMarker, ClearFence, Get
    <2>3. ram' \in [StoreId -> Int]
      <3>1. CASE Get
        <4>1. At("get") /\ slot \in Cards /\ File \in Files
          BY <3>1, TypedNext DEF Get
        <4>2. Content(slot, op.store, File) \in Int
          BY <4>1, TypedFacts DEF CardType, Content
        <4>3. Older(ram[op.store], Content(slot, op.store, File)) \in Int
          BY <4>2, TypedFacts DEF Older
        <4> QED
          BY <3>1, <4>3, TypedFacts DEF Get
      <3>2. CASE ~Get
        BY <1>4, <3>2, TypedFacts
           DEF Step, DropBackup, Drop, Put, PutFails, VerifyMarker, ClearFence
      <3> QED
        BY <3>1, <3>2
    <2> QED
      BY <1>1, <2>1, <2>2, <2>3, TypedNext, TypedFacts
  <1>5. CASE Stop \/ Down
    <2>1. op' = Idle /\ UNCHANGED <<card, slot>> /\ ram' \in [StoreId -> Int]
      BY <1>5, TypedFacts, PlainCommands DEF Stop, Down
    <2> QED
      BY <1>1, <1>2, <1>3, <2>1, TypedFacts
  <1>6. CASE \/ BeginAdopt
             \/ \E s \in StoreId, k \in Keys :
                  BeginRead(s, k) \/ BeginWrite(s, k) \/ BeginErase(s, k)
    BY <1>0, <1>1, <1>2, <1>6, BeginsTyped, TypedFacts
  <1>7. CASE \E s \in StoreId : NewEntry(s)
    <2>1. UNCHANGED <<card, slot, op, phase>> /\ ram' \in [StoreId -> Int]
      BY <1>7, TypedFacts DEF NewEntry, vars, bootVars
    <2> QED
      BY <1>1, <1>2, <2>1, TypedFacts DEF TypedInv
  <1>8. CASE \E c \in Cards \cup {NoCard} : Swap(c)
    <2>1. UNCHANGED <<card, ram, phase>> /\ slot' \in Cards \cup {NoCard}
      BY <1>8 DEF Swap, vars, bootVars
    <2>2. PICK stale \in BOOLEAN : op' = [op EXCEPT !.stale = stale]
      BY <1>8, TypedFacts DEF Swap, OpType
    <2>3. op' \in OpType /\ op'.plan = op.plan
      BY <2>2, TypedFacts DEF OpType
    <2> QED
      BY <1>1, <1>2, <2>1, <2>3, TypedFacts DEF TypedInv
  <1>9. CASE ResetStep
    <2>1. UNCHANGED <<card, slot, op, ram>>
      BY <1>9 DEF ResetStep, sdVars
    <2>2. ASSUME op.plan # <<>> PROVE phase' = "running"
      <3>1. phase = "running" /\ op # Idle
        BY <2>2 DEF TypedInv, Idle
      <3>2. ~Boot
        BY <3>1 DEF Boot, Inspect, RetainedInit,
             ResumeRefused, ResumeAbsent, ResumeComplete, ResumeActive, ArmSkip, ArmStore,
             EraseDomain, EraseFails, Progress
      <3>3. JournalUnreadable
        BY <1>9, <3>1, <3>2 DEF ResetStep, Repair, LineageUnreadable
      <3> QED
        BY <3>1, <3>3 DEF JournalUnreadable, bootVars
    <2> QED
      BY <1>1, <1>2, <2>1, <2>2, TypedFacts
  <1>10. CASE UNCHANGED allVars
    BY <1>1, <1>2, <1>10, TypedFacts DEF TypedInv, allVars, vars, bootVars, sdVars
  <1> QED
    BY <1>4, <1>5, <1>6, <1>7, <1>8, <1>9, <1>10 DEF NextCards, Step
(* The stages of a write: to an adopted card it is one command; otherwise  *)
(* what is left to drop, the key, the marker, its reading back, the fence. *)
Dropping(q, s, k) ==
  \E r \in Seq(Commands), v \in Int \ {Absent} :
    /\ \A x \in Elems(r) : x.do \in {"drop", "drop_backup"}
    /\ q = r \o (<<Command("put", k, v)>> \o Finalize(s))
HasKey(s, k) == Content(slot, s, k) # Absent
WriteStage(q, s, k, stale) ==
  \/ /\ \E v \in Int \ {Absent} : q = <<Command("put", k, v)>>
     /\ stale \/ Ready(slot, s)
  \/ Dropping(q, s, k)
  \/ q = Finalize(s) /\ (stale \/ HasKey(s, k))
  \/ q = <<Verify, Clear>> /\ (stale \/ HasKey(s, k))
  \/ q = <<Clear>> /\ (stale \/ (HasKey(s, k) /\ MarkerMatches(slot, s)))
WriteOK ==
  op.kind = "write" /\ op.plan # <<>> =>
    fence[op.store].ok /\ WriteStage(op.plan, op.store, op.key, op.stale)
WriteInv == TypedInv /\ WriteOK

LEMMA ConsParts ==
  ASSUME NEW x \in Commands, NEW f \in Seq(Commands)
  PROVE  Head(<<x>> \o f) = x /\ Tail(<<x>> \o f) = f /\ <<x>> \o f \in Seq(Commands)
  <1> DEFINE p == <<x>>
  <1>1. p \in Seq(Commands) /\ Len(p) = 1 /\ p[1] = x
    OBVIOUS
  <1> HIDE DEF p
  <1>2. /\ p \o f \in Seq(Commands) /\ Len(p \o f) = 1 + Len(f) /\ Len(f) \in Nat
        /\ \A i \in 1 .. (1 + Len(f)) : (p \o f)[i] = IF i <= 1 THEN p[i] ELSE f[i - 1]
    <2>1. Len(f) \in Nat
      OBVIOUS
    <2>2. /\ p \o f \in Seq(Commands) /\ Len(p \o f) = Len(p) + Len(f)
          /\ \A i \in 1 .. (Len(p) + Len(f)) :
               (p \o f)[i] = IF i <= Len(p) THEN p[i] ELSE f[i - Len(p)]
      BY <1>1, ConcatProperties
    <2> QED
      BY <1>1, <2>1, <2>2
  <1>3. Head(p \o f) = x
    BY <1>1, <1>2
  <1>4. Tail(p \o f) \in Seq(Commands) /\ Len(Tail(p \o f)) = Len(f)
    BY <1>2
  <1>5. ASSUME NEW i \in 1 .. Len(f) PROVE Tail(p \o f)[i] = f[i]
    <2>1. Tail(p \o f)[i] = (p \o f)[i + 1]
      BY <1>2
    <2>2. i + 1 \in 1 .. (1 + Len(f)) /\ ~(i + 1 <= 1) /\ (i + 1) - 1 = i
      BY <1>2
    <2> QED
      BY <1>2, <2>1, <2>2
  <1> QED
    BY <1>2, <1>3, <1>4, <1>5, SeqEqual DEF p

LEMMA ConcatParts ==
  ASSUME NEW r \in Seq(Commands), r # <<>>, NEW g \in Seq(Commands)
  PROVE  Head(r \o g) = Head(r) /\ Tail(r \o g) = Tail(r) \o g
  <1>0. /\ Len(r) \in Nat \ {0} /\ Len(g) \in Nat /\ Head(r) = r[1]
        /\ Tail(r) \in Seq(Commands) /\ Len(Tail(r)) = Len(r) - 1
        /\ \A i \in 1 .. (Len(r) - 1) : Tail(r)[i] = r[i + 1]
    OBVIOUS
  <1>1. /\ r \o g \in Seq(Commands) /\ Len(r \o g) = Len(r) + Len(g)
        /\ \A i \in 1 .. (Len(r) + Len(g)) : (r \o g)[i] = IF i <= Len(r) THEN r[i] ELSE g[i - Len(r)]
    OBVIOUS
  <1>2. Head(r \o g) = Head(r) /\ r \o g # <<>>
    BY <1>0, <1>1
  <1>3. /\ Tail(r \o g) \in Seq(Commands) /\ Len(Tail(r \o g)) = (Len(r) + Len(g)) - 1
        /\ \A i \in 1 .. ((Len(r) + Len(g)) - 1) : Tail(r \o g)[i] = (r \o g)[i + 1]
    BY <1>0, <1>1
  <1> DEFINE t == Tail(r)
  <1>4. t \in Seq(Commands) /\ Len(t) = Len(r) - 1 /\ \A i \in 1 .. (Len(r) - 1) : t[i] = r[i + 1]
    BY <1>0 DEF t
  <1> HIDE DEF t
  <1>5. /\ t \o g \in Seq(Commands) /\ Len(t \o g) = Len(t) + Len(g)
        /\ \A i \in 1 .. (Len(t) + Len(g)) : (t \o g)[i] = IF i <= Len(t) THEN t[i] ELSE g[i - Len(t)]
    BY <1>4, ConcatProperties
  <1>6. ASSUME NEW i \in 1 .. ((Len(r) + Len(g)) - 1) PROVE Tail(r \o g)[i] = (t \o g)[i]
    <2>1. /\ i + 1 \in 1 .. (Len(r) + Len(g)) /\ i \in 1 .. (Len(t) + Len(g))
          /\ (i + 1) - Len(r) = i - Len(t) /\ (i + 1 <= Len(r) <=> i <= Len(t))
      BY <1>0, <1>4
    <2> QED
      BY <1>0, <1>1, <1>3, <1>4, <1>5, <2>1
  <1>7. Tail(r \o g) = t \o g
    BY <1>0, <1>3, <1>4, <1>5, <1>6, SeqEqual
  <1> QED
    BY <1>2, <1>7 DEF t

(* What comes next in a write whose card is still there.                   *)
LEMMA StageHead ==
  ASSUME TypedInv, NEW q, NEW s \in StoreId, NEW k \in Keys, WriteStage(q, s, k, FALSE)
  PROVE  /\ q # <<>>
         /\ \/ /\ Head(q).do = "put" /\ Head(q).file = k /\ Head(q).value # Absent
               /\ \/ Tail(q) = <<>> /\ Ready(slot, s)
                  \/ Tail(q) = Finalize(s) /\ Tail(q) # <<>>
            \/ Head(q).do \in {"drop", "drop_backup"} /\ Dropping(Tail(q), s, k)
            \/ /\ Head(q).do = "put" /\ Head(q).file = "marker"
               /\ Tail(q) = <<Verify, Clear>> /\ HasKey(s, k)
            \/ Head(q).do = "verify" /\ Tail(q) = <<Clear>> /\ HasKey(s, k)
            \/ Head(q).do = "clear" /\ Tail(q) = <<>> /\ HasKey(s, k) /\ MarkerMatches(slot, s)
  <1>0. /\ Verify \in Commands /\ Clear \in Commands /\ Verify.do = "verify" /\ Clear.do = "clear"
        /\ k \in Files /\ "marker" \in Files
    BY PlainCommands
  <1> DEFINE marker == Command("put", "marker", fence[s].gen)
  <1>1. marker \in Commands /\ marker.do = "put" /\ marker.file = "marker"
    BY <1>0, CommandTyped, TypedFacts
  <1>2. Finalize(s) = <<marker, Verify, Clear>> /\ Finalize(s) \in Seq(Commands)
    BY FinalizePlan, TypedFacts DEF Finalize
  <1> HIDE DEF marker
  <1>3. ASSUME NEW v \in Int \ {Absent}
        PROVE  /\ Command("put", k, v) \in Commands /\ Command("put", k, v).do = "put"
               /\ Command("put", k, v).file = k /\ Command("put", k, v).value = v
    BY <1>0, CommandTyped
  <1>4. CASE (\E v \in Int \ {Absent} : q = <<Command("put", k, v)>>) /\ Ready(slot, s)
    BY <1>3, <1>4
  <1>5. CASE Dropping(q, s, k)
    <2>1. PICK r \in Seq(Commands), v \in Int \ {Absent} :
                 /\ \A x \in Elems(r) : x.do \in {"drop", "drop_backup"}
                 /\ q = r \o (<<Command("put", k, v)>> \o Finalize(s))
      BY <1>5 DEF Dropping
    <2> DEFINE put == Command("put", k, v)
               g == <<put>> \o Finalize(s)
    <2>2. put \in Commands /\ put.do = "put" /\ put.file = k /\ put.value # Absent
      BY <1>3
    <2>3. q = r \o g
      BY <2>1
    <2> HIDE DEF put
    <2>4. Head(g) = put /\ Tail(g) = Finalize(s) /\ g \in Seq(Commands)
      BY <1>2, <2>2, ConsParts
    <2>5. Finalize(s) # <<>> /\ g # <<>>
      BY <1>2, <2>2
    <2> HIDE DEF g
    <2>6. CASE r = <<>>
      <3>1. q = g
        BY <2>3, <2>4, <2>6
      <3> QED
        BY <2>2, <2>4, <2>5, <3>1
    <2>7. CASE r # <<>>
      <3>1. Head(q) = Head(r) /\ Tail(q) = Tail(r) \o g /\ q # <<>>
        BY <2>3, <2>4, <2>7, ConcatParts
      <3>2. /\ Tail(r) \in Seq(Commands) /\ Elems(r) = {Head(r)} \cup Elems(Tail(r))
        BY <2>7, ElemsTail
      <3>3. \A x \in Elems(Tail(r)) : x.do \in {"drop", "drop_backup"}
        BY <2>1, <3>2
      <3>4. Dropping(Tail(q), s, k)
        BY <3>1, <3>2, <3>3 DEF Dropping, g, put
      <3> QED
        BY <2>1, <3>1, <3>2, <3>4
    <2> QED
      BY <2>6, <2>7
  <1>6. CASE q = Finalize(s) /\ HasKey(s, k)
    BY <1>1, <1>2, <1>6
  <1>7. CASE q = <<Verify, Clear>> /\ HasKey(s, k)
    BY <1>0, <1>7
  <1>8. CASE q = <<Clear>> /\ HasKey(s, k) /\ MarkerMatches(slot, s)
    BY <1>0, <1>8
  <1> QED
    BY <1>4, <1>5, <1>6, <1>7, <1>8 DEF WriteStage
(* A write to a card goes from one stage to the next.                      *)
LEMMA WriteAdvances ==
  ASSUME TypedInv, Step, NEW q, NEW s \in StoreId, NEW k \in Keys,
         q = op.plan, s = op.store, WriteStage(q, s, k, FALSE),
         Tail(q) # <<>>, Advance, UNCHANGED fence
  PROVE  WriteStage(Tail(q), s, k, FALSE)'
  <1>0. /\ UNCHANGED slot /\ "marker" \in Files /\ k \in Files /\ k # "marker"
        /\ op.plan # <<>> /\ CardType
    BY TypedFacts, PlainCommands, StageHead
       DEF Step, DropBackup, Drop, Put, PutFails, VerifyMarker, ClearFence, Get, Stop
  <1>1. CASE Head(q).do \in {"drop", "drop_backup"} /\ Dropping(Tail(q), s, k)
    <2>1. Finalize(s)' = Finalize(s)
      BY DEF Finalize
    <2> QED
      BY <1>1, <2>1 DEF WriteStage, Dropping
  <1>2. CASE Head(q).do = "put"
    <2>1. Put /\ slot \in Cards
      <3>1. Put
        BY <1>0, <1>2 DEF Step, DropBackup, Drop, VerifyMarker, ClearFence, Get, Stop, At,
                          PutFails, Put, Advance, Idle
      <3> QED
        BY <3>1, TypedNext DEF Put
    <2>2. PICK b \in Int : FileAfter(Value, b)
      BY <2>1, WriterSteps
    <2>3. CASE Head(q).file = k /\ Head(q).value # Absent /\ Tail(q) = Finalize(s)
      <3>1. card'[slot][s].primary[k] # Absent
        BY <1>0, <2>1, <2>2, <2>3 DEF FileAfter, File, Value
      <3>2. HasKey(s, k)'
        BY <1>0, <3>1 DEF HasKey, Content
      <3> QED
        BY <2>3, <3>2 DEF WriteStage, Finalize
    <2>4. CASE Head(q).file = "marker" /\ Tail(q) = <<Verify, Clear>> /\ HasKey(s, k)
      <3>1. /\ card'[slot][s].primary[k] = card[slot][s].primary[k]
            /\ card'[slot][s].backup[k] = card[slot][s].backup[k]
        BY <1>0, <2>1, <2>2, <2>4 DEF FileAfter, File
      <3>2. HasKey(s, k)'
        BY <1>0, <2>4, <3>1 DEF HasKey, Content
      <3> QED
        BY <2>4, <3>2 DEF WriteStage
    <2> QED
      BY <1>2, <2>3, <2>4, StageHead
  <1>3. CASE Head(q).do = "verify" /\ Tail(q) = <<Clear>> /\ HasKey(s, k)
    <2>1. VerifyMarker /\ op' # Idle
      BY <1>0, <1>3 DEF Step, DropBackup, Drop, VerifyMarker, ClearFence, Get, Stop, At,
                        PutFails, Put, Advance, Idle
    <2>2. MarkerMatches(slot, s) /\ UNCHANGED card
      BY <2>1 DEF VerifyMarker
    <2>3. HasKey(s, k)' /\ MarkerMatches(slot, s)'
      BY <1>0, <1>3, <2>2 DEF HasKey, MarkerMatches, Content
    <2> QED
      BY <1>3, <2>3 DEF WriteStage
  <1> QED
    BY <1>1, <1>2, <1>3, StageHead

LEMMA WriteBeginsOK ==
  ASSUME TypedInv, NEW s \in StoreId, NEW k \in Keys, BeginWrite(s, k)
  PROVE  WriteOK'
  <1>1. /\ fence[s].ok /\ ram[s] \in Int \ {Absent}
        /\ UNCHANGED <<fence, slot, card>>
        /\ op' = Op("write", s, k, WritePlan(s, k, Ready(slot, s)))
    BY TypedFacts DEF BeginWrite, Begins, vars
  <1> DEFINE put == <<Command("put", k, ram[s])>>
             plan == WritePlan(s, k, Ready(slot, s))
  <1>2. op'.store = s /\ op'.key = k /\ op'.plan = plan /\ op'.stale = FALSE
    BY <1>1 DEF Op
  <1>3. CASE Ready(slot, s)
    <2>1. plan = put
      BY <1>3 DEF WritePlan
    <2>2. Ready(slot, s)'
      BY <1>1, <1>3 DEF Ready, MarkerMatches, Content
    <2> QED
      BY <1>1, <1>2, <2>1, <2>2 DEF WriteOK, WriteStage
  <1>4. CASE ~Ready(slot, s)
    <2>1. plan = Purge(s) \o put \o Finalize(s)
      BY <1>4 DEF WritePlan
    <2>2. put \in Seq(Commands) /\ Purge(s) \in Seq(Commands) /\ Finalize(s) \in Seq(Commands)
      BY <1>1, TypedFacts, PlansTyped, PurgePlan
    <2> HIDE DEF put, plan
    <2>3. plan = Purge(s) \o (put \o Finalize(s))
      BY <2>1, <2>2, ConcatAssociative
    <2>4. Finalize(s)' = Finalize(s)
      BY <1>1 DEF Finalize
    <2>5. Dropping(plan, s, k)
      BY <1>1, <2>2, <2>3, PurgePlan DEF Dropping, put
    <2> PICK p : p = plan
      OBVIOUS
    <2>6. Dropping(p, s, k)'
      BY <2>4, <2>5 DEF Dropping
    <2> QED
      BY <1>1, <1>2, <2>6 DEF WriteOK, WriteStage, plan
  <1> QED
    BY <1>3, <1>4
(* Once its operation is stale, a write gives no further command.          *)
LEMMA WriteWaits ==
  ASSUME TypedInv, WriteOK, UNCHANGED fence,
         op'.kind = op.kind, op'.store = op.store, op'.key = op.key, op'.plan = op.plan,
         op'.stale \/ (op'.stale = op.stale /\ UNCHANGED <<card, slot>>)
  PROVE  WriteOK'
  <1> SUFFICES ASSUME op.kind = "write", op.plan # <<>>
               PROVE  fence[op.store].ok /\ WriteStage(op.plan, op.store, op.key, op.stale)'
    BY DEF WriteOK
  <1> PICK q : q = op.plan
    OBVIOUS
  <1> PICK s : s = op.store
    OBVIOUS
  <1> PICK k : k = op.key
    OBVIOUS
  <1>1. fence[s].ok /\ WriteStage(q, s, k, op.stale)
    BY DEF WriteOK
  <1>2. Finalize(s)' = Finalize(s) /\ (Dropping(q, s, k) => Dropping(q, s, k)')
    BY DEF Finalize, Dropping
  <1>3. CASE op'.stale
    <2>1. WriteStage(q, s, k, TRUE)'
      BY <1>1, <1>2 DEF WriteStage
    <2> QED
      BY <1>1, <1>3, <2>1 DEF WriteStage
  <1>4. CASE op'.stale = op.stale /\ UNCHANGED <<card, slot>>
    <2>1. /\ Ready(slot, s)' = Ready(slot, s) /\ HasKey(s, k)' = HasKey(s, k)
          /\ MarkerMatches(slot, s)' = MarkerMatches(slot, s)
      BY <1>4 DEF Ready, HasKey, MarkerMatches, Content
    <2> QED
      BY <1>1, <1>2, <1>4, <2>1 DEF WriteStage
  <1> QED
    BY <1>3, <1>4

LEMMA WriteStep ==
  ASSUME TypedInv, WriteOK, Step, ~Stop
  PROVE  WriteOK'
  <1> SUFFICES ASSUME op'.plan # <<>>, op'.kind = "write" PROVE WriteOK'
    BY DEF WriteOK
  <1>1. /\ op' # Idle /\ Advance
        /\ op.plan # <<>> /\ ~op.stale /\ UNCHANGED slot
    BY DEF Step, DropBackup, Drop, Put, PutFails, VerifyMarker, ClearFence, Get, At, Idle
  <1>2. op' = [op EXCEPT !.plan = Tail(op.plan)] /\ op \in OpType /\ Tail(op.plan) # <<>>
    BY <1>1, TypedFacts DEF Advance
  <1>3. /\ op'.kind = op.kind /\ op'.store = op.store /\ op'.key = op.key /\ op'.stale = FALSE
        /\ op'.plan = Tail(op.plan) /\ op.kind = "write" /\ op.stale = FALSE
    BY <1>1, <1>2 DEF OpType
  <1> PICK q : q = op.plan
    OBVIOUS
  <1> PICK s : s = op.store
    OBVIOUS
  <1> PICK k : k = op.key
    OBVIOUS
  <1>4. fence[s].ok /\ WriteStage(q, s, k, FALSE) /\ s \in StoreId /\ k \in Keys
    BY <1>1, <1>2, <1>3 DEF WriteOK, OpType
  <1>5. UNCHANGED fence
    <2>1. ~At("clear")
      <3>1. Head(q).do = "clear" => Tail(q) = <<>>
        BY <1>4, StageHead
      <3> QED
        BY <1>2, <3>1 DEF At
    <2> QED
      BY <2>1 DEF Step, DropBackup, Drop, Put, PutFails, VerifyMarker, ClearFence, Get, vars, Stop
  <1>6. WriteStage(Tail(q), s, k, FALSE)'
    BY <1>1, <1>2, <1>4, <1>5, WriteAdvances
  <1>7. op'.plan = Tail(q) /\ op'.store = s /\ op'.key = k /\ op'.stale = FALSE /\ fence'[s].ok
    BY <1>3, <1>4, <1>5
  <1> QED
    BY <1>6, <1>7 DEF WriteOK

LEMMA WriteKeeps ==
  ASSUME ~SilentSwap
  PROVE  WriteInv /\ [NextCards]_allVars => WriteInv'
  <1> SUFFICES ASSUME WriteInv, [NextCards]_allVars PROVE WriteOK'
    BY TypedKeeps DEF WriteInv
  <1>0. TypedInv /\ WriteOK /\ op \in OpType
    BY TypedFacts DEF WriteInv
  <1>1. op'.plan = <<>> \/ op'.kind # "write" => WriteOK'
    BY DEF WriteOK
  <1>2. CASE Step /\ ~Stop
    BY <1>0, <1>2, WriteStep
  <1>3. CASE Stop \/ Down
    BY <1>1, <1>3 DEF Stop, Down, Idle
  <1>4. CASE \/ BeginAdopt
             \/ \E s \in StoreId, k \in Keys : BeginRead(s, k) \/ BeginErase(s, k)
    BY <1>1, <1>4 DEF BeginAdopt, BeginRead, BeginErase, Op
  <1>5. CASE \E s \in StoreId, k \in Keys : BeginWrite(s, k)
    BY <1>0, <1>5, WriteBeginsOK
  <1>6. CASE \E c \in Cards \cup {NoCard} : Swap(c)
    <2>1. UNCHANGED fence /\ op' = [op EXCEPT !.stale = op.stale \/ op.plan # <<>>]
      BY <1>6 DEF Swap, vars
    <2>2. CASE op.plan = <<>>
      BY <1>0, <1>1, <2>1, <2>2 DEF OpType
    <2>3. CASE op.plan # <<>>
      BY <1>0, <2>1, <2>3, WriteWaits DEF OpType
    <2> QED
      BY <2>2, <2>3
  <1>7. CASE ResetStep
    <2>1. UNCHANGED <<card, slot, op>>
      BY <1>7 DEF ResetStep, sdVars
    <2>2. ASSUME op.plan # <<>> PROVE UNCHANGED fence
      <3>1. phase = "running" /\ op # Idle
        BY <1>0, <2>2 DEF TypedInv, Idle
      <3>2. ~Boot
        BY <3>1 DEF Boot, Inspect, RetainedInit,
             ResumeRefused, ResumeAbsent, ResumeComplete, ResumeActive, ArmSkip, ArmStore,
             EraseDomain, EraseFails, Progress
      <3>3. JournalUnreadable
        BY <1>7, <3>1, <3>2 DEF ResetStep, Repair, LineageUnreadable
      <3> QED
        BY <3>3 DEF JournalUnreadable
    <2> QED
      BY <1>0, <1>1, <2>1, <2>2, WriteWaits
  <1>8. CASE (\E s \in StoreId : NewEntry(s)) \/ UNCHANGED allVars
    <2>1. UNCHANGED <<card, slot, op, fence>>
      BY <1>8 DEF NewEntry, allVars, vars, sdVars
    <2> QED
      BY <1>0, <2>1, WriteWaits
  <1> QED
    BY <1>2, <1>3, <1>4, <1>5, <1>6, <1>7, <1>8 DEF NextCards, Step

LEMMA WriteEndsReadable ==
  ASSUME WriteInv, NEW s \in StoreId, NEW k \in Keys, WriteEnds(s, k)
  PROVE  (Ready(slot, s) /\ Content(slot, s, k) # Absent)'
  <1> PICK q : q = op.plan
    OBVIOUS
  <1>0. /\ TypedInv /\ CardType /\ op.kind = "write" /\ op.store = s /\ op.key = k
        /\ op.plan # <<>> /\ ~op.stale /\ Len(q) = 1 /\ q \in Seq(Commands)
    BY TypedFacts DEF WriteInv, WriteEnds, Put, VerifyMarker, ClearFence, At
  <1>1. fence[s].ok /\ WriteStage(q, s, k, FALSE)
    BY <1>0 DEF WriteInv, WriteOK, WriteStage
  <1>2. Tail(q) = <<>>
    <2>1. Tail(q) \in Seq(Commands) /\ Len(Tail(q)) = 0
      BY <1>0, HeadTailProperties
    <2> QED
      BY <2>1, EmptySeq
  <1>3. "marker" \in Files /\ k \in Files /\ k # "marker"
    BY PlainCommands
  <1>4. \/ /\ Head(q).do = "put" /\ Head(q).file = k /\ Head(q).value # Absent
           /\ Ready(slot, s)
        \/ Head(q).do = "clear" /\ HasKey(s, k) /\ MarkerMatches(slot, s)
    <2>1. ~Dropping(<<>>, s, k)
      <3> SUFFICES ASSUME NEW r \in Seq(Commands), NEW v \in Int
                   PROVE  r \o (<<Command("put", k, v)>> \o Finalize(s)) # <<>>
        BY DEF Dropping
      <3>1. <<Command("put", k, v)>> \in Seq(Commands) /\ Finalize(s) \in Seq(Commands)
        BY <1>0, PlansTyped
      <3>2. <<Command("put", k, v)>> \o Finalize(s) # <<>>
        BY <3>1, ConcatEqualIffEmpty
      <3>3. <<Command("put", k, v)>> \o Finalize(s) \in Seq(Commands)
        BY <3>1, ConcatProperties
      <3> QED
        BY <3>2, <3>3, ConcatEqualIffEmpty
    <2>2. ~Dropping(Tail(q), s, k)
      BY <1>2, <2>1, Zenon
    <2>3. Tail(q) # <<Clear>> /\ Tail(q) # <<Verify, Clear>>
      <3>1. <<Clear>> # <<>> /\ <<Verify, Clear>> # <<>>
        OBVIOUS
      <3> QED
        BY <1>2, <3>1, Zenon
    <2>4. \/ /\ Head(q).do = "put" /\ Head(q).file = k /\ Head(q).value # Absent
             /\ Tail(q) = <<>> => Ready(slot, s)
          \/ Dropping(Tail(q), s, k) \/ Tail(q) = <<Verify, Clear>> \/ Tail(q) = <<Clear>>
          \/ Head(q).do = "clear" /\ HasKey(s, k) /\ MarkerMatches(slot, s)
      BY <1>0, <1>1, StageHead
    <2> QED
      BY <1>2, <2>2, <2>3, <2>4
  <1>5. CASE Put
    <2>1. At("put") /\ UNCHANGED <<fence, slot>> /\ slot \in Cards
      BY <1>0, <1>5, TypedNext DEF Put, vars
    <2>2. /\ Head(q).file = k /\ Head(q).value # Absent /\ Ready(slot, s)
      BY <1>4, <2>1 DEF At
    <2>3. PICK b \in Int : FileAfter(Value, b)
      BY <1>0, <1>5, WriterSteps
    <2>4. /\ card'[slot][s].primary[k] # Absent
          /\ card'[slot][s].primary["marker"] = card[slot][s].primary["marker"]
          /\ card'[slot][s].backup["marker"] = card[slot][s].backup["marker"]
      BY <1>0, <1>3, <2>1, <2>2, <2>3 DEF FileAfter, File, Value
    <2>5. Content(slot, s, k)' # Absent /\ Content(slot, s, "marker")' = Content(slot, s, "marker")
      BY <2>1, <2>4 DEF Content
    <2>6. Ready(slot, s)'
      BY <2>1, <2>2, <2>5 DEF Ready, MarkerMatches
    <2> QED
      BY <2>5, <2>6
  <1>6. CASE ClearFence /\ ~fence'[s].active
    <2>1. At("clear") /\ UNCHANGED <<card, slot>>
      BY <1>6 DEF ClearFence
    <2>2. HasKey(s, k) /\ MarkerMatches(slot, s)
      BY <1>4, <2>1 DEF At
    <2>3. fence'[s].gen = fence[s].gen /\ fence'[s].ok
      <3>1. CASE UNCHANGED vars
        BY <1>1, <3>1 DEF vars
      <3>2. CASE ~UNCHANGED vars
        <4>1. PICK o \in Outcomes : LineageClear(op.store, op.gen, o)
          BY <1>6, <3>2 DEF ClearFence
        <4> QED
          BY <1>0, <1>1, <4>1, TypedFacts DEF LineageClear, StoreLineage, Lineage
      <3> QED
        BY <3>1, <3>2
    <2>4. /\ Content(slot, s, k)' = Content(slot, s, k)
          /\ Content(slot, s, "marker")' = Content(slot, s, "marker")
      BY <2>1 DEF Content
    <2> QED
      BY <1>6, <2>2, <2>3, <2>4 DEF HasKey, MarkerMatches, Ready
  <1>7. ~VerifyMarker
    BY <1>0, <1>4 DEF VerifyMarker, At
  <1> QED
    BY <1>5, <1>6, <1>7 DEF WriteEnds

LEMMA WriteInit == Init /\ InitCards => WriteInv
  <1> SUFFICES ASSUME Init, InitCards PROVE WriteInv
    OBVIOUS
  <1>1. CardInv /\ op.plan = <<>>
    BY CardInit DEF InitCards, Idle
  <1> QED
    BY <1>1 DEF CardInv, WriteInv, TypedInv, WriteOK

(* A write that ends well can be read back on the card it was written to,  *)
(* through the whole adoption of that card and with any renames failing    *)
(* and deletes passed over on the way (sd_write_blob_with_lineage), where  *)
(* a card that goes is noticed.                                            *)
THEOREM WritesReadable == ASSUME ~SilentSwap PROVE SpecCards => WriteReadable
  <1>1. WriteInv /\ [NextCards]_allVars => WriteInv'
    BY WriteKeeps
  <1>2. WriteInv /\ [NextCards]_allVars =>
          [\A s \in StoreId, k \in Keys :
             WriteEnds(s, k) => (Ready(slot, s) /\ Content(slot, s, k) # Absent)']_allVars
    BY WriteEndsReadable
  <1> QED
    BY <1>1, <1>2, WriteInit, PTL DEF SpecCards, WriteReadable
=============================================================================
