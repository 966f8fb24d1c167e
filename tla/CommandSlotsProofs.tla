------------------------- MODULE CommandSlotsProofs -------------------------
(***************************************************************************)
(* Proofs about CommandSlots, for any number of calling tasks, slots and   *)
(* queue places, and any last request id: the type invariant, the four     *)
(* safety properties of the slots, and the refinement of SyncCall.         *)
(*                                                                         *)
(* All follow from one inductive invariant, IInv. Its parts say who may    *)
(* touch a slot at each step of each task; a step of one task leaves the   *)
(* slots of every other task alone (the frame lemmas), so that each part   *)
(* is preserved by the few actions that touch what it speaks of.           *)
(***************************************************************************)
EXTENDS CommandSlots, TLAPS

-----------------------------------------------------------------------------
(* The type invariant by parts. Numbers and Words stay unexpanded in most  *)
(* proofs: WordTyped and NumberTyped say what is in them.                  *)

Numbers == 0 .. MaxId
Words   == [id : Numbers, state : States]

Unsent == {"scan", "prepare", "publish", "store", "send"}
Ended  == {"woken", "read", "return"}
Own(c) == pc[c] \notin {"idle", "scan"}

WordType   == word \in [Slots -> Words]
GivenType  == given \in [Slots -> BOOLEAN]
SlotTypes  == result \in [Slots -> Numbers] /\ secret \in [Slots -> Numbers]
PcType     == pc \in [Callers -> CallerSteps]
CallTypes  == /\ nextId \in Numbers /\ id \in [Callers -> Numbers]
              /\ at \in [Callers -> Slots] /\ got \in [Callers -> Numbers]
              /\ late \subseteq Numbers /\ admin \subseteq Ids /\ refused \subseteq Callers
QueueType  == queue \in Seq(Commands)
OwnerTypes == ownerPc \in OwnerSteps /\ cmd \in Commands /\ took \in Numbers
PastTypes  == /\ ran \subseteq Ids /\ timedOut \subseteq Ids
              /\ answer \in [Ids -> Numbers]

\* Ids are handed out once, and a call in progress has not returned.
CallId(c) == Calling(c) => /\ id[c] \in 1 .. nextId
                           /\ id[c] \notin timedOut
                           /\ answer[id[c]] = 0

IdsOK ==
  /\ \A c \in Callers : CallId(c)
  /\ \A c, d \in Callers : Calling(c) /\ Calling(d) /\ id[c] = id[d] => c = d
  /\ admin \subseteq 1 .. nextId
  /\ ran \subseteq 1 .. nextId
  /\ timedOut \subseteq 1 .. nextId
  /\ \A n \in Ids : answer[n] # 0 => n \in 1 .. nextId

\* The slot of a call in progress carries its id, in the state of its step.
InSlot(c, states) == word[at[c]].id = id[c] /\ word[at[c]].state \in states

CallerSlot(c) ==
  /\ pc[c] \in {"prepare", "publish"} => InSlot(c, {"CLAIMED"})
  /\ pc[c] \in {"store", "send"} => InSlot(c, {"PENDING"})
  /\ pc[c] \in {"wait", "cancel"} => InSlot(c, {"PENDING", "ADMITTED", "COMPLETED", "OWNER_EXPIRED"})
  /\ pc[c] \in {"wipe", "release"} => InSlot(c, {"CALLER_CANCELLED"})
  /\ pc[c] = "await" => InSlot(c, {"ADMITTED", "COMPLETED", "OWNER_EXPIRED"})
  /\ pc[c] \in Ended => InSlot(c, {"COMPLETED", "OWNER_EXPIRED"})

CallerOK == \A c \in Callers : CallerSlot(c)

\* A slot that is not free is held by the call whose id it carries.
HeldSlot(s) ==
  /\ word[s].id = 0 => word[s] = Free
  /\ word[s].id # 0 => \E c \in Callers : Own(c) /\ at[c] = s /\ id[c] = word[s].id

HeldOK == \A s \in Slots : HeldSlot(s)

\* The owner has exclusive hold of a slot from its CAS to its give.
Signalling(s) == ownerPc \in {"expired", "give"} /\ cmd.slot = s

OwnerOK ==
  /\ ownerPc \in {"expire", "admit", "expired", "reply", "seal", "give"} => cmd.id # 0
  /\ ownerPc = "expired" => word[cmd.slot] = W(cmd.id, "OWNER_EXPIRED")
  /\ ownerPc \in {"run", "reply", "seal"} /\ cmd.id # 0 =>
       word[cmd.slot] = W(cmd.id, "ADMITTED")
  /\ ownerPc = "give" => /\ word[cmd.slot].id = cmd.id
                         /\ word[cmd.slot].state \in Signalled

\* One signal per request: not yet given, in the semaphore, or taken.
GivenSlot(s)  == given[s] => word[s].state \in Signalled /\ ~Signalling(s)
TakenBy(c)    == pc[c] \in Ended => ~given[at[c]] /\ ~Signalling(at[c])
GiveOK == (\A s \in Slots : GivenSlot(s)) /\ (\A c \in Callers : TakenBy(c))

ResultSlot(s) ==
  /\ word[s].state = "COMPLETED" => result[s] = word[s].id
  /\ word[s].state = "OWNER_EXPIRED" =>
       result[s] = 0 \/ (ownerPc = "expired" /\ cmd.slot = s)
ResultOK ==
  /\ ownerPc = "seal" => result[cmd.slot] = cmd.id
  /\ \A s \in Slots : ResultSlot(s)
  /\ \A c \in Callers : pc[c] = "return" => got[c] = result[at[c]]

RanSlot(s) ==
  /\ word[s].state \in {"CLAIMED", "PENDING", "CALLER_CANCELLED", "OWNER_EXPIRED"} =>
       word[s].id \notin ran
  /\ word[s].state = "COMPLETED" => word[s].id \in ran
RanOK ==
  /\ \A n \in ran : n \notin timedOut
  /\ \A n \in Ids : answer[n] # 0 => answer[n] = n /\ n \in ran
  /\ \A s \in Slots : RanSlot(s)
  /\ \A c \in Callers : pc[c] = "scan" => id[c] \notin ran
  /\ ownerPc \in {"reply", "seal"} => cmd.id \in ran

\* A queued copy belongs to a call that has finished preparing its slot.
Sent(n) == n <= nextId /\ \A c \in Callers : id[c] = n => pc[c] \notin Unsent

QueueOK ==
  /\ \A i \in 1 .. Len(queue) : Sent(queue[i].id)
  /\ Sent(cmd.id)

SecretSlot(s) == secret[s] # 0 =>
    /\ word[s].id = secret[s]
    /\ word[s].state \in {"PENDING", "ADMITTED", "CALLER_CANCELLED", "OWNER_EXPIRED"}
SecretOf(c) ==
  /\ pc[c] = "release" => secret[at[c]] = 0
  /\ (id[c] \in admin /\ pc[c] \in {"send", "wait", "cancel"}
        /\ word[at[c]].state = "PENDING") => secret[at[c]] = id[c]
SecretOK ==
  /\ \A s \in Slots : SecretSlot(s)
  /\ \A c \in Callers : SecretOf(c)
  /\ ownerPc = "run" /\ cmd.id \in admin => secret[cmd.slot] = cmd.id

IInv == /\ TypeOK /\ IdsOK /\ CallerOK /\ HeldOK /\ OwnerOK /\ GiveOK
        /\ ResultOK /\ RanOK /\ QueueOK /\ SecretOK /\ RunsWithOwnSecret

-----------------------------------------------------------------------------
(* Frames: a step of one task leaves the other tasks' slots alone.         *)

CallerActs(c) == Call(c) \/ CallRefused(c) \/ CallerStep(c) \/ DeadlinePasses(c)
OwnerActs     == PostAsync \/ OwnerStep
\* A caller's steps up to the command's hand-over, while it waits, and after.
Opens(c)      == \/ Call(c) \/ CallRefused(c) \/ Claim(c) \/ SkipBusySlot(c) \/ NoSlot(c)
                 \/ Prepare(c) \/ Publish(c) \/ StoreSecret(c) \/ Send(c) \/ SendTimeout(c)
Waits(c)      == Take(c) \/ WaitTimeout(c) \/ Woken(c) \/ Cancel(c) \/ Wipe(c)
Ends(c)       == \/ ReleaseCancelled(c) \/ CancelLost(c) \/ Await(c) \/ ReadResult(c)
                 \/ Return(c) \/ DeadlinePasses(c)
\* The owner's steps up to the command's admission, and from there on.
Receives      == PostAsync \/ Dequeue \/ Match \/ Expire \/ Expired
Serves        == Admit \/ Run \/ RunAsync \/ Reply \/ Seal \/ Give

SameSlot(s) == /\ word'[s] = word[s] /\ given'[s] = given[s]
               /\ result'[s] = result[s] /\ secret'[s] = secret[s]
SameCall(d) == /\ pc'[d] = pc[d] /\ id'[d] = id[d] /\ at'[d] = at[d] /\ got'[d] = got[d]

LEMMA CallerSplit ==
  ASSUME NEW c, CallerActs(c) PROVE Opens(c) \/ Waits(c) \/ Ends(c)
BY DEF CallerActs, CallerStep, Opens, Waits, Ends
LEMMA OwnerSplit ==
  ASSUME OwnerActs PROVE Receives \/ Serves
BY DEF OwnerActs, OwnerStep, Receives, Serves

(* TypeOK is its parts, before and after a step.                           *)
LEMMA TypeParts ==
  /\ TypeOK <=> /\ WordType /\ GivenType /\ SlotTypes /\ PcType /\ CallTypes
                /\ QueueType /\ OwnerTypes /\ PastTypes
  /\ TypeOK' <=> /\ WordType' /\ GivenType' /\ SlotTypes' /\ PcType' /\ CallTypes'
                 /\ QueueType' /\ OwnerTypes' /\ PastTypes'
BY DEF TypeOK, WordType, GivenType, SlotTypes, PcType, CallTypes, QueueType,
       OwnerTypes, PastTypes, Words, Numbers

(* What the types say of the current command, callers and slots.           *)
LEMMA Facts ==
  ASSUME TypeOK
  PROVE  /\ cmd.id \in Numbers /\ cmd.slot \in Slots
         /\ \A c \in Callers : at[c] \in Slots /\ id[c] \in Numbers /\ pc[c] \in CallerSteps
         /\ \A s \in Slots : /\ word[s] = [id |-> word[s].id, state |-> word[s].state]
                             /\ word[s].id \in Numbers
BY DEF TypeOK, Commands, Numbers

(* Every word the code writes is a word.                                   *)
LEMMA WordTyped ==
  /\ Free \in Words
  /\ \A n \in Numbers :
       /\ W(n, "CLAIMED") \in Words /\ W(n, "PENDING") \in Words
       /\ W(n, "ADMITTED") \in Words /\ W(n, "CALLER_CANCELLED") \in Words
       /\ W(n, "OWNER_EXPIRED") \in Words /\ W(n, "COMPLETED") \in Words
BY SlotAssumption DEF Free, W, Words, Numbers, States

(* Ids and slot indices stay in range.                                     *)
LEMMA NumberTyped ==
  /\ 0 \in Numbers
  /\ nextId \in Numbers /\ nextId < MaxId => nextId + 1 \in Numbers /\ nextId + 1 \in Ids
  /\ \A n \in Numbers : n # 0 => n \in Ids
  /\ 1 \in Slots
  /\ \A s \in Slots : s < SlotCount => s + 1 \in Slots
BY SlotAssumption DEF Numbers, Ids, Slots

(* A caller touches only its own slot, or a free one.                      *)
LEMMA CallerFrame ==
  ASSUME TypeOK, NEW c \in Callers, CallerActs(c)
  PROVE  /\ ownerPc' = ownerPc /\ cmd' = cmd /\ took' = took /\ ran' = ran
         /\ \A d \in Callers : d # c => SameCall(d)
         /\ \A s \in Slots : s # at[c] \/ (~Own(c) /\ word[s] # Free) => SameSlot(s)
<1>. USE DEF TypeOK, SameCall, SameSlot, Own, W, Free, Holds, SetWord, Go,
       OwnerGo, slotVars, callerVars, ownerVars, history
<1>1. CASE Call(c)
  BY <1>1 DEF Call
<1>2. CASE CallRefused(c)
  BY <1>2 DEF CallRefused
<1>3. CASE Claim(c)
  BY <1>3 DEF Claim
<1>4. CASE SkipBusySlot(c)
  BY <1>4 DEF SkipBusySlot
<1>5. CASE NoSlot(c)
  BY <1>5 DEF NoSlot
<1>6. CASE Prepare(c)
  BY <1>6 DEF Prepare
<1>7. CASE Publish(c)
  BY <1>7 DEF Publish
<1>8. CASE StoreSecret(c)
  BY <1>8 DEF StoreSecret
<1>9. CASE Send(c)
  BY <1>9 DEF Send
<1>10. CASE SendTimeout(c)
  BY <1>10 DEF SendTimeout
<1>11. CASE Take(c)
  BY <1>11 DEF Take
<1>12. CASE WaitTimeout(c)
  BY <1>12 DEF WaitTimeout
<1>13. CASE Woken(c)
  BY <1>13 DEF Woken
<1>14. CASE Cancel(c)
  BY <1>14 DEF Cancel
<1>15. CASE Wipe(c)
  BY <1>15 DEF Wipe
<1>16. CASE ReleaseCancelled(c)
  BY <1>16 DEF ReleaseCancelled
<1>17. CASE CancelLost(c)
  BY <1>17 DEF CancelLost
<1>18. CASE Await(c)
  BY <1>18 DEF Await
<1>19. CASE ReadResult(c)
  BY <1>19 DEF ReadResult
<1>20. CASE Return(c)
  BY <1>20 DEF Return
<1>21. CASE DeadlinePasses(c)
  BY <1>21 DEF DeadlinePasses
<1>22. QED
  BY <1>1, <1>2, <1>3, <1>4, <1>5, <1>6, <1>7, <1>8, <1>9, <1>10, <1>11,
     <1>12, <1>13, <1>14, <1>15, <1>16, <1>17, <1>18, <1>19, <1>20, <1>21
     DEF CallerActs, CallerStep

(* The owner touches only the slot its command names.                      *)
LEMMA OwnerFrame ==
  ASSUME TypeOK, OwnerActs
  PROVE  /\ pc' = pc /\ id' = id /\ at' = at /\ got' = got /\ nextId' = nextId
         /\ admin' = admin /\ timedOut' = timedOut /\ answer' = answer
         /\ \A s \in Slots : s # cmd.slot => SameSlot(s)
<1>. USE Facts
     DEF SameSlot, W, Free, Holds, SetWord, Go, OwnerGo, slotVars, callerVars,
         ownerVars, history
<1>t. /\ word = [s \in Slots |-> word[s]] /\ given = [s \in Slots |-> given[s]]
      /\ result = [s \in Slots |-> result[s]] /\ secret = [s \in Slots |-> secret[s]]
  BY DEF TypeOK
<1>1. CASE PostAsync
  BY <1>t, <1>1 DEF PostAsync
<1>2. CASE Dequeue
  BY <1>t, <1>2 DEF Dequeue
<1>3. CASE Match
  BY <1>t, <1>3 DEF Match
<1>4. CASE Expire
  BY <1>t, <1>4 DEF Expire
<1>5. CASE Expired
  BY <1>t, <1>5 DEF Expired
<1>6. CASE Admit
  BY <1>t, <1>6 DEF Admit
<1>7. CASE Run
  BY <1>t, <1>7 DEF Run
<1>8. CASE RunAsync
  BY <1>t, <1>8 DEF RunAsync
<1>9. CASE Reply
  BY <1>t, <1>9 DEF Reply
<1>10. CASE Seal
  BY <1>t, <1>10 DEF Seal
<1>11. CASE Give
  BY <1>t, <1>11 DEF Give
<1>12. QED
  BY <1>1, <1>2, <1>3, <1>4, <1>5, <1>6, <1>7, <1>8, <1>9, <1>10, <1>11
     DEF OwnerActs, OwnerStep

(* A call in progress has a real id.                                       *)
LEMMA IdRange ==
  ASSUME TypeOK, IdsOK
  PROVE  \A c \in Callers : Calling(c) => id[c] \in Ids /\ id[c] \in Numbers /\ id[c] # 0
BY SlotAssumption DEF TypeOK, IdsOK, CallId, Ids, Numbers

(* Two callers never hold the same slot.                                   *)
LEMMA Exclusive ==
  ASSUME TypeOK, IdsOK, CallerOK
  PROVE  \A c \in Callers : Own(c) =>
           /\ word[at[c]].id = id[c] /\ at[c] \in Slots /\ id[c] # 0 /\ word[at[c]] # Free
           /\ \A d \in Callers : Own(d) /\ at[d] = at[c] => d = c
<1>1. \A c \in Callers : Own(c) => word[at[c]].id = id[c] /\ at[c] \in Slots
  BY Facts DEF CallerSteps, CallerOK, CallerSlot, InSlot, Ended, Own
<1>2. \A c \in Callers : Own(c) => Calling(c)
  BY DEF Own, Calling
<1>3. QED
  BY <1>1, <1>2, IdRange DEF IdsOK, Free, W

(* Each part of the type invariant is kept by every step.                  *)
LEMMA WordTypeStep ==
  ASSUME TypeOK, Next
  PROVE  WordType'
<1>. USE TypeParts, Facts, WordTyped, NumberTyped
      DEF WordType,
          Holds, SetWord, Go, OwnerGo, slotVars, callerVars, ownerVars, history
<1>1. ASSUME NEW c \in Callers, CallerActs(c)
      PROVE  WordType'
  <2>1. CASE Opens(c)
    BY <2>1
       DEF Opens, Call, CallRefused, Claim, SkipBusySlot, NoSlot, Prepare, Publish,
           StoreSecret, Send, SendTimeout
  <2>2. CASE Waits(c)
    BY <2>2
       DEF Waits, Take, WaitTimeout, Woken, Cancel, Wipe
  <2>3. CASE Ends(c)
    BY <2>3
       DEF Ends, ReleaseCancelled, CancelLost, Await, ReadResult, Return,
           DeadlinePasses
  <2>4. QED
    BY <1>1, <2>1, <2>2, <2>3, CallerSplit
<1>2. CASE OwnerActs
  BY <1>2
     DEF OwnerActs, OwnerStep, PostAsync, Dequeue, Match, Expire, Expired,
         Admit, Run, RunAsync, Reply, Seal, Give
<1>3. QED
  BY <1>1, <1>2 DEF Next, CallerActs, OwnerActs, CallerStep, OwnerStep

LEMMA SlotTypesStep ==
  ASSUME TypeOK, Next
  PROVE  SlotTypes'
<1>. USE TypeParts, Facts, WordTyped, NumberTyped
      DEF SlotTypes, CallTypes,
          Holds, SetWord, Go, OwnerGo, slotVars, callerVars, ownerVars, history
<1>1. ASSUME NEW c \in Callers, CallerActs(c)
      PROVE  SlotTypes'
  <2>1. CASE Opens(c)
    BY <2>1
       DEF Opens, Call, CallRefused, Claim, SkipBusySlot, NoSlot, Prepare, Publish,
           StoreSecret, Send, SendTimeout
  <2>2. CASE Waits(c)
    BY <2>2
       DEF Waits, Take, WaitTimeout, Woken, Cancel, Wipe
  <2>3. CASE Ends(c)
    BY <2>3
       DEF Ends, ReleaseCancelled, CancelLost, Await, ReadResult, Return,
           DeadlinePasses
  <2>4. QED
    BY <1>1, <2>1, <2>2, <2>3, CallerSplit
<1>2. CASE OwnerActs
  BY <1>2
     DEF OwnerActs, OwnerStep, PostAsync, Dequeue, Match, Expire, Expired,
         Admit, Run, RunAsync, Reply, Seal, Give
<1>3. QED
  BY <1>1, <1>2 DEF Next, CallerActs, OwnerActs, CallerStep, OwnerStep

LEMMA CallTypesStep ==
  ASSUME TypeOK, Next
  PROVE  CallTypes'
<1>. USE TypeParts, Facts, WordTyped, NumberTyped
      DEF CallTypes, SlotTypes,
          Holds, SetWord, Go, OwnerGo, slotVars, callerVars, ownerVars, history
<1>1. ASSUME NEW c \in Callers, CallerActs(c)
      PROVE  CallTypes'
  <2>1. CASE Opens(c)
    BY <2>1
       DEF Opens, Call, CallRefused, Claim, SkipBusySlot, NoSlot, Prepare, Publish,
           StoreSecret, Send, SendTimeout
  <2>2. CASE Waits(c)
    BY <2>2
       DEF Waits, Take, WaitTimeout, Woken, Cancel, Wipe
  <2>3. CASE Ends(c)
    BY <2>3
       DEF Ends, ReleaseCancelled, CancelLost, Await, ReadResult, Return,
           DeadlinePasses
  <2>4. QED
    BY <1>1, <2>1, <2>2, <2>3, CallerSplit
<1>2. CASE OwnerActs
  BY <1>2
     DEF OwnerActs, OwnerStep, PostAsync, Dequeue, Match, Expire, Expired,
         Admit, Run, RunAsync, Reply, Seal, Give
<1>3. QED
  BY <1>1, <1>2 DEF Next, CallerActs, OwnerActs, CallerStep, OwnerStep

LEMMA QueueTypeStep ==
  ASSUME TypeOK, Next
  PROVE  QueueType'
<1>. USE TypeParts, Facts, WordTyped, NumberTyped
      DEF QueueType, CallTypes, OwnerTypes, Commands, Command, NoCommand, Numbers,
          Holds, SetWord, Go, OwnerGo, slotVars, callerVars, ownerVars, history
<1>1. ASSUME NEW c \in Callers,
              Call(c) \/ CallRefused(c) \/ Claim(c) \/ SkipBusySlot(c) \/
              NoSlot(c) \/ Prepare(c) \/ Publish(c) \/ StoreSecret(c) \/
              SendTimeout(c) \/ Take(c) \/ WaitTimeout(c) \/ Woken(c) \/
              Cancel(c) \/ Wipe(c) \/ ReleaseCancelled(c) \/ CancelLost(c) \/
              Await(c) \/ ReadResult(c) \/ Return(c) \/ DeadlinePasses(c)
      PROVE  QueueType'
  BY <1>1
     DEF Call, CallRefused, Claim, SkipBusySlot, NoSlot, Prepare, Publish,
         StoreSecret, SendTimeout, Take, WaitTimeout, Woken, Cancel, Wipe,
         ReleaseCancelled, CancelLost, Await, ReadResult, Return,
         DeadlinePasses
<1>2. ASSUME NEW c \in Callers, Send(c) PROVE QueueType'
  BY <1>2 DEF Send
<1>3. CASE Match \/ Expire \/ Expired \/ Admit \/ Run \/ RunAsync \/ Reply \/
           Seal \/ Give
  BY <1>3 DEF Match, Expire, Expired, Admit, Run, RunAsync, Reply, Seal, Give
<1>4. CASE PostAsync
  BY <1>4 DEF PostAsync
<1>5. CASE Dequeue
  BY <1>5 DEF Dequeue
<1>6. QED
  BY <1>1, <1>2, <1>3, <1>4, <1>5 DEF Next, CallerActs, OwnerActs, CallerStep, OwnerStep

LEMMA OwnerTypesStep ==
  ASSUME TypeOK, Next
  PROVE  OwnerTypes'
<1>. USE TypeParts, Facts, WordTyped, NumberTyped
      DEF OwnerTypes, OwnerSteps, SlotTypes, QueueType,
          Holds, SetWord, Go, OwnerGo, slotVars, callerVars, ownerVars, history
<1>1. ASSUME NEW c \in Callers, CallerActs(c)
      PROVE  OwnerTypes'
  <2>1. CASE Opens(c)
    BY <2>1
       DEF Opens, Call, CallRefused, Claim, SkipBusySlot, NoSlot, Prepare, Publish,
           StoreSecret, Send, SendTimeout
  <2>2. CASE Waits(c)
    BY <2>2
       DEF Waits, Take, WaitTimeout, Woken, Cancel, Wipe
  <2>3. CASE Ends(c)
    BY <2>3
       DEF Ends, ReleaseCancelled, CancelLost, Await, ReadResult, Return,
           DeadlinePasses
  <2>4. QED
    BY <1>1, <2>1, <2>2, <2>3, CallerSplit
<1>2. CASE OwnerActs
  BY <1>2
     DEF OwnerActs, OwnerStep, PostAsync, Dequeue, Match, Expire, Expired,
         Admit, Run, RunAsync, Reply, Seal, Give
<1>3. QED
  BY <1>1, <1>2 DEF Next, CallerActs, OwnerActs, CallerStep, OwnerStep

LEMMA GivenTypeStep ==
  ASSUME TypeOK, Next
  PROVE  GivenType'
<1>. USE TypeParts, Facts, WordTyped, NumberTyped
      DEF GivenType, SlotTypes,
          Holds, SetWord, Go, OwnerGo, slotVars, callerVars, ownerVars, history
<1>1. ASSUME NEW c \in Callers, CallerActs(c)
      PROVE  GivenType'
  <2>1. CASE Opens(c)
    BY <2>1
       DEF Opens, Call, CallRefused, Claim, SkipBusySlot, NoSlot, Prepare, Publish,
           StoreSecret, Send, SendTimeout
  <2>2. CASE Waits(c)
    BY <2>2
       DEF Waits, Take, WaitTimeout, Woken, Cancel, Wipe
  <2>3. CASE Ends(c)
    BY <2>3
       DEF Ends, ReleaseCancelled, CancelLost, Await, ReadResult, Return,
           DeadlinePasses
  <2>4. QED
    BY <1>1, <2>1, <2>2, <2>3, CallerSplit
<1>2. CASE OwnerActs
  BY <1>2
     DEF OwnerActs, OwnerStep, PostAsync, Dequeue, Match, Expire, Expired,
         Admit, Run, RunAsync, Reply, Seal, Give
<1>3. QED
  BY <1>1, <1>2 DEF Next, CallerActs, OwnerActs, CallerStep, OwnerStep

LEMMA PcTypeStep ==
  ASSUME TypeOK, Next
  PROVE  PcType'
<1>. USE TypeParts, Facts, WordTyped, NumberTyped
      DEF PcType, CallerSteps,
          Holds, SetWord, Go, OwnerGo, slotVars, callerVars, ownerVars, history
<1>1. ASSUME NEW c \in Callers, CallerActs(c)
      PROVE  PcType'
  <2>1. CASE Opens(c)
    BY <2>1
       DEF Opens, Call, CallRefused, Claim, SkipBusySlot, NoSlot, Prepare, Publish,
           StoreSecret, Send, SendTimeout
  <2>2. CASE Waits(c)
    BY <2>2
       DEF Waits, Take, WaitTimeout, Woken, Cancel, Wipe
  <2>3. CASE Ends(c)
    BY <2>3
       DEF Ends, ReleaseCancelled, CancelLost, Await, ReadResult, Return,
           DeadlinePasses
  <2>4. QED
    BY <1>1, <2>1, <2>2, <2>3, CallerSplit
<1>2. CASE OwnerActs
  BY <1>2
     DEF OwnerActs, OwnerStep, PostAsync, Dequeue, Match, Expire, Expired,
         Admit, Run, RunAsync, Reply, Seal, Give
<1>3. QED
  BY <1>1, <1>2 DEF Next, CallerActs, OwnerActs, CallerStep, OwnerStep

LEMMA PastTypesStep ==
  ASSUME TypeOK, IdsOK, Next
  PROVE  PastTypes'
<1>. USE TypeParts, Facts, IdRange, NumberTyped
      DEF PastTypes, CallTypes, Calling, Holds, SetWord, Go, OwnerGo,
          slotVars, callerVars, ownerVars, history
<1>1. ASSUME NEW c \in Callers, CallerActs(c)
      PROVE  PastTypes'
  <2>1. CASE Opens(c)
    BY <2>1
       DEF Opens, Call, CallRefused, Claim, SkipBusySlot, NoSlot, Prepare, Publish,
           StoreSecret, Send, SendTimeout
  <2>2. CASE Waits(c)
    BY <2>2
       DEF Waits, Take, WaitTimeout, Woken, Cancel, Wipe
  <2>3. CASE Ends(c)
    BY <2>3
       DEF Ends, ReleaseCancelled, CancelLost, Await, ReadResult, Return,
           DeadlinePasses
  <2>4. QED
    BY <1>1, <2>1, <2>2, <2>3, CallerSplit
<1>2. CASE OwnerActs
  BY <1>2
     DEF OwnerActs, OwnerStep, PostAsync, Dequeue, Match, Expire, Expired,
         Admit, Run, RunAsync, Reply, Seal, Give
<1>3. QED
  BY <1>1, <1>2 DEF Next, CallerActs, OwnerActs, CallerStep, OwnerStep

(* A caller's step changes nothing another caller holds.                   *)
LEMMA OthersSame ==
  ASSUME TypeOK, IdsOK, CallerOK, NEW c \in Callers, CallerActs(c),
         NEW d \in Callers, d # c
  PROVE  SameCall(d) /\ (Own(d) => at[d] \in Slots /\ SameSlot(at[d]))
<1>1. Own(d) => at[d] \in Slots /\ word[at[d]] # Free /\ (Own(c) => at[d] # at[c])
  BY Exclusive
<1>2. QED
  BY <1>1, CallerFrame

(* Which caller steps write a result or a secret.                          *)
LEMMA CallerTouches ==
  ASSUME NEW c \in Callers, CallerActs(c)
  PROVE  /\ result' = result \/ Prepare(c)
         /\ secret' = secret \/ Prepare(c) \/ StoreSecret(c) \/ Wipe(c) \/ Return(c)
<1>. USE DEF slotVars, callerVars, SetWord
<1>1. CASE Call(c)
  BY <1>1 DEF Call
<1>2. CASE CallRefused(c)
  BY <1>2 DEF CallRefused
<1>3. CASE Claim(c)
  BY <1>3 DEF Claim
<1>4. CASE SkipBusySlot(c)
  BY <1>4 DEF SkipBusySlot
<1>5. CASE NoSlot(c)
  BY <1>5 DEF NoSlot
<1>6. CASE Prepare(c)
  BY <1>6 DEF Prepare
<1>7. CASE Publish(c)
  BY <1>7 DEF Publish
<1>8. CASE StoreSecret(c)
  BY <1>8 DEF StoreSecret
<1>9. CASE Send(c)
  BY <1>9 DEF Send
<1>10. CASE SendTimeout(c)
  BY <1>10 DEF SendTimeout
<1>11. CASE Take(c)
  BY <1>11 DEF Take
<1>12. CASE WaitTimeout(c)
  BY <1>12 DEF WaitTimeout
<1>13. CASE Woken(c)
  BY <1>13 DEF Woken
<1>14. CASE Cancel(c)
  BY <1>14 DEF Cancel
<1>15. CASE Wipe(c)
  BY <1>15 DEF Wipe
<1>16. CASE ReleaseCancelled(c)
  BY <1>16 DEF ReleaseCancelled
<1>17. CASE CancelLost(c)
  BY <1>17 DEF CancelLost
<1>18. CASE Await(c)
  BY <1>18 DEF Await
<1>19. CASE ReadResult(c)
  BY <1>19 DEF ReadResult
<1>20. CASE Return(c)
  BY <1>20 DEF Return
<1>21. CASE DeadlinePasses(c)
  BY <1>21 DEF DeadlinePasses
<1>22. QED
  BY <1>1, <1>2, <1>3, <1>4, <1>5, <1>6, <1>7, <1>8, <1>9, <1>10, <1>11,
     <1>12, <1>13, <1>14, <1>15, <1>16, <1>17, <1>18, <1>19, <1>20, <1>21 DEF CallerActs, CallerStep

(* The steps that neither start nor end a call leave the ids alone.        *)
SameIds == /\ nextId' = nextId /\ admin' = admin /\ id' = id
           /\ timedOut' = timedOut /\ answer' = answer
           /\ \A d \in Callers : Calling(d)' => Calling(d)

LEMMA QuietCalls ==
  ASSUME TypeOK, NEW c \in Callers,
         CallRefused(c) \/ Claim(c) \/ SkipBusySlot(c) \/ Prepare(c) \/
         Publish(c) \/ StoreSecret(c) \/ Send(c) \/ SendTimeout(c) \/ Take(c)
         \/ WaitTimeout(c) \/ Woken(c) \/ Cancel(c) \/ Wipe(c) \/
         CancelLost(c) \/ Await(c) \/ ReadResult(c) \/ DeadlinePasses(c)
  PROVE  SameIds /\ ran' = ran
<1>. USE DEF SameIds, Calling, Go, slotVars, callerVars, ownerVars, history
<1>t. pc = [d \in Callers |-> pc[d]]
  BY DEF TypeOK
<1>1. CASE CallRefused(c)
  BY <1>t, <1>1 DEF CallRefused
<1>2. CASE Claim(c)
  BY <1>t, <1>2 DEF Claim
<1>3. CASE SkipBusySlot(c)
  BY <1>t, <1>3 DEF SkipBusySlot
<1>4. CASE Prepare(c)
  BY <1>t, <1>4 DEF Prepare
<1>5. CASE Publish(c)
  BY <1>t, <1>5 DEF Publish
<1>6. CASE StoreSecret(c)
  BY <1>t, <1>6 DEF StoreSecret
<1>7. CASE Send(c)
  BY <1>t, <1>7 DEF Send
<1>8. CASE SendTimeout(c)
  BY <1>t, <1>8 DEF SendTimeout
<1>9. CASE Take(c)
  BY <1>t, <1>9 DEF Take
<1>10. CASE WaitTimeout(c)
  BY <1>t, <1>10 DEF WaitTimeout
<1>11. CASE Woken(c)
  BY <1>t, <1>11 DEF Woken
<1>12. CASE Cancel(c)
  BY <1>t, <1>12 DEF Cancel
<1>13. CASE Wipe(c)
  BY <1>t, <1>13 DEF Wipe
<1>14. CASE CancelLost(c)
  BY <1>t, <1>14 DEF CancelLost
<1>15. CASE Await(c)
  BY <1>t, <1>15 DEF Await
<1>16. CASE ReadResult(c)
  BY <1>t, <1>16 DEF ReadResult
<1>17. CASE DeadlinePasses(c)
  BY <1>t, <1>17 DEF DeadlinePasses
<1>18. QED
  BY <1>1, <1>2, <1>3, <1>4, <1>5, <1>6, <1>7, <1>8, <1>9, <1>10, <1>11,
     <1>12, <1>13, <1>14, <1>15, <1>16, <1>17

LEMMA SameIdsOK ==
  ASSUME IdsOK, SameIds, ran' = ran
  PROVE  IdsOK'
BY DEF IdsOK, SameIds, CallId, Calling

(* The type facts the invariant proofs share.                              *)
LEMMA Typed ==
  ASSUME TypeOK
  PROVE  /\ pc \in [Callers -> CallerSteps] /\ word \in [Slots -> Words]
         /\ at \in [Callers -> Slots] /\ id \in [Callers -> Numbers]
         /\ got \in [Callers -> Numbers] /\ result \in [Slots -> Numbers]
         /\ secret \in [Slots -> Numbers] /\ given \in [Slots -> BOOLEAN]
         /\ cmd.slot \in Slots /\ cmd.id \in Numbers
         /\ \A c \in Callers : at[c] \in Slots /\ id[c] \in Numbers
BY TypeParts, Facts DEF PcType, WordType, CallTypes, SlotTypes, GivenType

(* A caller's slot is in the state its step expects.                       *)
LEMMA CallerOKStep ==
  ASSUME TypeOK, IdsOK, CallerOK, GiveOK, OwnerOK, QueueOK, Next
  PROVE  CallerOK'
<1>1. ASSUME NEW c \in Callers, CallerActs(c), NEW d \in Callers
      PROVE  CallerSlot(d)'
  <2>1. CASE d # c
    BY <1>1, <2>1, OthersSame, CallerFrame
       DEF CallerOK, CallerSlot, InSlot, Own, Ended, SameCall, SameSlot
  <2>2. CASE d = c
    <3>. SUFFICES CallerSlot(c)'
      BY <2>2
    <3>. USE Typed
         DEF CallerOK, CallerSlot, InSlot, Ended, GiveOK, GivenSlot, TakenBy,
             Signalling, Signalled, W, Free, Holds, SetWord, Go, slotVars,
             callerVars
    <3>1. CASE Call(c)
      BY <3>1 DEF Call
    <3>2. CASE CallRefused(c)
      BY <3>2 DEF CallRefused
    <3>3. CASE Claim(c)
      BY <3>3 DEF Claim
    <3>4. CASE SkipBusySlot(c)
      BY <3>4 DEF SkipBusySlot
    <3>5. CASE NoSlot(c)
      BY <3>5 DEF NoSlot
    <3>6. CASE Prepare(c)
      BY <3>6 DEF Prepare
    <3>7. CASE Publish(c)
      BY <3>7 DEF Publish
    <3>8. CASE StoreSecret(c)
      BY <3>8 DEF StoreSecret
    <3>9. CASE Send(c)
      BY <3>9 DEF Send
    <3>10. CASE SendTimeout(c)
      BY <3>10 DEF SendTimeout
    <3>11. CASE Take(c)
      BY <3>11 DEF Take
    <3>12. CASE WaitTimeout(c)
      BY <3>12 DEF WaitTimeout
    <3>13. CASE Woken(c)
      BY <3>13 DEF Woken
    <3>14. CASE Cancel(c)
      BY <3>14 DEF Cancel
    <3>15. CASE Wipe(c)
      BY <3>15 DEF Wipe
    <3>16. CASE ReleaseCancelled(c)
      BY <3>16 DEF ReleaseCancelled
    <3>17. CASE CancelLost(c)
      BY <3>17 DEF CancelLost
    <3>18. CASE Await(c)
      BY <3>18 DEF Await
    <3>19. CASE ReadResult(c)
      BY <3>19 DEF ReadResult
    <3>20. CASE Return(c)
      BY <3>20 DEF Return
    <3>21. CASE DeadlinePasses(c)
      BY <3>21 DEF DeadlinePasses
    <3>22. QED
      BY <1>1, <3>1, <3>2, <3>3, <3>4, <3>5, <3>6, <3>7, <3>8, <3>9, <3>10, <3>11,
         <3>12, <3>13, <3>14, <3>15, <3>16, <3>17, <3>18, <3>19, <3>20, <3>21
          DEF CallerActs, CallerStep
  <2>3. QED
    BY <2>1, <2>2
<1>2. ASSUME OwnerActs, NEW d \in Callers
      PROVE  CallerSlot(d)'
  <2>1. CASE Receives
    BY Typed, <2>1
       DEF Receives, PostAsync, Dequeue, Match, Expire, Expired, CallerOK, CallerSlot,
           InSlot, Ended, OwnerOK, QueueOK, Sent, Unsent, W, Free, Holds, SetWord, Go,
           OwnerGo, slotVars, callerVars, ownerVars, history
  <2>2. CASE Serves
    BY Typed, <2>2
       DEF Serves, Admit, Run, RunAsync, Reply, Seal, Give, CallerOK, CallerSlot,
           InSlot, Ended, OwnerOK, QueueOK, Sent, Unsent, W, Free, Holds, SetWord, Go,
           OwnerGo, slotVars, callerVars, ownerVars, history
  <2>3. QED
    BY <1>2, <2>1, <2>2, OwnerSplit
<1>3. QED
  BY <1>1, <1>2 DEF CallerOK, Next, CallerActs, OwnerActs

(* A slot that is not free has a caller.                                   *)
LEMMA HeldOKStep ==
  ASSUME TypeOK, IdsOK, CallerOK, HeldOK, OwnerOK, Next
  PROVE  HeldOK'
<1>1. ASSUME NEW c \in Callers, CallerActs(c), NEW s \in Slots, ~(Own(c) /\ s = at[c]),
             ~Claim(c) \/ s # at[c]
      PROVE  HeldSlot(s)'
  <2>1. word'[s] = word[s]
    <3>1. CASE s # at[c] \/ word[s] # Free
      BY <1>1, <3>1, CallerFrame DEF SameSlot
    <3>2. CASE s = at[c] /\ word[s] = Free
      <4>1. CASE Opens(c)
        BY Typed, <1>1, <3>2, <4>1
           DEF Opens, Call, CallRefused, Claim, SkipBusySlot, NoSlot, Prepare,
               Publish, StoreSecret, Send, SendTimeout, Own, W, Free, Holds, SetWord,
               Go, OwnerGo, slotVars, callerVars, ownerVars, history
      <4>2. CASE Waits(c)
        BY Typed, <1>1, <3>2, <4>2
           DEF Waits, Take, WaitTimeout, Woken, Cancel, Wipe, Own, W, Free, Holds,
               SetWord, Go, OwnerGo, slotVars, callerVars, ownerVars, history
      <4>3. CASE Ends(c)
        BY Typed, <1>1, <3>2, <4>3
           DEF Ends, ReleaseCancelled, CancelLost, Await, ReadResult, Return,
               DeadlinePasses, Own, W, Free, Holds, SetWord, Go, OwnerGo, slotVars,
               callerVars, ownerVars, history
      <4>4. QED
        BY <1>1, <4>1, <4>2, <4>3, CallerSplit
    <3>3. QED
      BY <1>1, <3>1, <3>2
  <2>2. ASSUME NEW d \in Callers, Own(d), at[d] = s, id[d] = word[s].id
        PROVE  Own(d)' /\ at'[d] = s /\ id'[d] = word'[s].id
    BY <1>1, <2>1, <2>2, OthersSame DEF SameCall, Own
  <2>3. QED
    BY <2>1, <2>2 DEF HeldOK, HeldSlot, Free, W
<1>2. ASSUME NEW c \in Callers, CallerActs(c), Own(c) \/ Claim(c),
             NEW s \in Slots, s = at[c]
      PROVE  HeldSlot(s)'
  <2>1. CASE Call(c) \/ CallRefused(c) \/ SkipBusySlot(c) \/ NoSlot(c)
    BY <1>2, <2>1 DEF Call, CallRefused, SkipBusySlot, NoSlot, Claim, Own
  <2>2. CASE ReleaseCancelled(c) \/ Return(c)
    <3>1. word'[s] = Free
      BY <1>2, <2>2, Typed DEF ReleaseCancelled, Return, SetWord
    <3>2. QED
      BY <3>1 DEF HeldSlot, Free, W
  <2>3. CASE Claim(c)
    <3>1. word'[s] = W(id[c], "CLAIMED") /\ pc'[c] = "prepare" /\ at' = at /\ id' = id
      BY <1>2, <2>3, Typed DEF Claim, SetWord, Go
    <3>2. id[c] # 0
      BY <2>3, IdRange DEF Claim, Calling
    <3>3. Own(c)' /\ at'[c] = s /\ id'[c] = word'[s].id /\ word'[s].id # 0
      BY <1>2, <3>1, <3>2 DEF Own, W
    <3>4. QED
      BY <3>3 DEF HeldSlot
  <2>4. CASE Prepare(c) \/ Publish(c) \/ StoreSecret(c) \/ Send(c) \/
             SendTimeout(c) \/ Take(c) \/ WaitTimeout(c) \/
             Woken(c) \/ Cancel(c) \/ Wipe(c) \/ CancelLost(c) \/
             Await(c) \/ ReadResult(c) \/ DeadlinePasses(c)
    <3>0. /\ Own(c) /\ id[c] # 0 /\ word[s].id = id[c]
          /\ pc = [d \in Callers |-> pc[d]] /\ word = [r \in Slots |-> word[r]]
      <4>1. Own(c)
        BY <1>2, <2>4 DEF Claim, Own, Prepare, Publish, StoreSecret, Send,
                         SendTimeout, Take, WaitTimeout, Woken, Cancel, Wipe,
                         CancelLost, Await, ReadResult, DeadlinePasses
      <4>2. QED
        BY <1>2, <4>1, Exclusive, Typed
    <3>. USE <3>0 DEF Own, W, SetWord, Go, slotVars, callerVars
    <3>.  DEFINE Kept == /\ pc'[c] \notin {"idle", "scan"} /\ at'[c] = s /\ id'[c] = id[c]
                         /\ word'[s].id = id[c]
    <3>a. SUFFICES Kept
      BY <1>2 DEF HeldSlot
    <3>1. CASE Prepare(c)
      BY <1>2, <3>1 DEF Prepare
    <3>2. CASE Publish(c)
      BY <1>2, <3>2 DEF Publish, Holds
    <3>3. CASE StoreSecret(c)
      BY <1>2, <3>3 DEF StoreSecret
    <3>4. CASE Send(c)
      BY <1>2, <3>4 DEF Send
    <3>5. CASE SendTimeout(c)
      BY <1>2, <3>5 DEF SendTimeout
    <3>6. CASE Take(c)
      BY <1>2, <3>6 DEF Take
    <3>7. CASE WaitTimeout(c)
      BY <1>2, <3>7 DEF WaitTimeout
    <3>8. CASE Woken(c)
      BY <1>2, <3>8 DEF Woken
    <3>9. CASE Cancel(c)
      BY <1>2, <3>9 DEF Cancel, Holds
    <3>10. CASE Wipe(c)
      BY <1>2, <3>10 DEF Wipe
    <3>11. CASE CancelLost(c)
      BY <1>2, <3>11 DEF CancelLost
    <3>12. CASE Await(c)
      BY <1>2, <3>12 DEF Await
    <3>13. CASE ReadResult(c)
      BY <1>2, <3>13 DEF ReadResult
    <3>14. CASE DeadlinePasses(c)
      BY <1>2, <3>14 DEF DeadlinePasses
    <3>q. QED
      BY <2>4, <3>1, <3>2, <3>3, <3>4, <3>5, <3>6, <3>7, <3>8, <3>9, <3>10,
         <3>11, <3>12, <3>13, <3>14
  <2>5. QED
    BY <1>2, <2>1, <2>2, <2>3, <2>4 DEF CallerActs, CallerStep
<1>3. ASSUME OwnerActs, NEW s \in Slots
      PROVE  HeldSlot(s)'
  <2>1. CASE Receives
    BY Typed, <2>1
       DEF Receives, PostAsync, Dequeue, Match, Expire, Expired, HeldOK, HeldSlot,
           OwnerOK, Own, W, Free, Holds, SetWord, Go, OwnerGo, slotVars, callerVars,
           ownerVars, history
  <2>2. CASE Serves
    BY Typed, <2>2
       DEF Serves, Admit, Run, RunAsync, Reply, Seal, Give, HeldOK, HeldSlot, OwnerOK,
           Own, W, Free, Holds, SetWord, Go, OwnerGo, slotVars, callerVars, ownerVars,
           history
  <2>3. QED
    BY <1>3, <2>1, <2>2, OwnerSplit
<1>4. ASSUME NEW c \in Callers, CallerActs(c), NEW s \in Slots PROVE HeldSlot(s)'
  <2>1. CASE s = at[c] /\ (Own(c) \/ Claim(c))
    BY <1>2, <1>4, <2>1
  <2>2. CASE s # at[c] \/ ~(Own(c) \/ Claim(c))
    BY <1>1, <1>4, <2>2
  <2>3. QED
    BY <2>1, <2>2
<1>5. QED
  BY <1>3, <1>4 DEF HeldOK, Next, CallerActs, OwnerActs

(* The owner keeps the slot it admitted or expired.                        *)
LEMMA OwnerOKStep ==
  ASSUME TypeOK, IdsOK, CallerOK, OwnerOK, GiveOK, Next
  PROVE  OwnerOK'
<1>1. ASSUME NEW c \in Callers, CallerActs(c) PROVE OwnerOK'
  <2>1. CASE cmd.slot # at[c]
    BY <1>1, <2>1, CallerFrame, Facts DEF OwnerOK, SameSlot
  <2>2. CASE cmd.slot = at[c]
    <3>1. CASE Opens(c)
      BY <2>2, Typed, <3>1
         DEF Opens, Call, CallRefused, Claim, SkipBusySlot, NoSlot, Prepare, Publish,
             StoreSecret, Send, SendTimeout, CallerOK, CallerSlot, InSlot, Ended,
             OwnerOK, GiveOK, TakenBy, Signalling, Signalled, W, Free, Holds, SetWord,
             Go, OwnerGo, slotVars, callerVars, ownerVars, history
    <3>2. CASE Waits(c)
      BY <2>2, Typed, <3>2
         DEF Waits, Take, WaitTimeout, Woken, Cancel, Wipe, CallerOK, CallerSlot,
             InSlot, Ended, OwnerOK, GiveOK, TakenBy, Signalling, Signalled, W, Free,
             Holds, SetWord, Go, OwnerGo, slotVars, callerVars, ownerVars, history
    <3>3. CASE Ends(c)
      BY <2>2, Typed, <3>3
         DEF Ends, ReleaseCancelled, CancelLost, Await, ReadResult, Return,
             DeadlinePasses, CallerOK, CallerSlot, InSlot, Ended, OwnerOK, GiveOK,
             TakenBy, Signalling, Signalled, W, Free, Holds, SetWord, Go, OwnerGo,
             slotVars, callerVars, ownerVars, history
    <3>4. QED
      BY <1>1, <3>1, <3>2, <3>3, CallerSplit
  <2>3. QED
    BY <2>1, <2>2
<1>2. ASSUME OwnerActs
      PROVE  OwnerOK'
  <2>1. CASE Receives
    BY Typed, <2>1
       DEF Receives, PostAsync, Dequeue, Match, Expire, Expired, OwnerOK, Signalled,
           W, Free, Holds, SetWord, Go, OwnerGo, slotVars, callerVars, ownerVars,
           history
  <2>2. CASE Serves
    BY Typed, <2>2
       DEF Serves, Admit, Run, RunAsync, Reply, Seal, Give, OwnerOK, Signalled, W,
           Free, Holds, SetWord, Go, OwnerGo, slotVars, callerVars, ownerVars, history
  <2>3. QED
    BY <1>2, <2>1, <2>2, OwnerSplit
<1>3. QED
  BY <1>1, <1>2 DEF OwnerOK, Next, CallerActs, OwnerActs

(* A signal is given once per request.                                     *)
LEMMA GiveOKStep ==
  ASSUME TypeOK, IdsOK, CallerOK, OwnerOK, GiveOK, Next
  PROVE  GiveOK'
<1>1. ASSUME NEW c \in Callers, CallerActs(c), NEW s \in Slots
      PROVE  GivenSlot(s)'
  <2>1. CASE s # at[c]
    BY <1>1, <2>1, CallerFrame DEF GiveOK, GivenSlot, Signalling, SameSlot
  <2>2. CASE s = at[c]
    <3>1. CASE Opens(c)
      BY Typed, <2>2, <3>1
         DEF Opens, Call, CallRefused, Claim, SkipBusySlot, NoSlot, Prepare, Publish,
             StoreSecret, Send, SendTimeout, CallerOK, CallerSlot, InSlot, Ended,
             GiveOK, GivenSlot, TakenBy, Signalling, Signalled, W, Free, Holds,
             SetWord, Go, OwnerGo, slotVars, callerVars, ownerVars, history
    <3>2. CASE Waits(c)
      BY Typed, <2>2, <3>2
         DEF Waits, Take, WaitTimeout, Woken, Cancel, Wipe, CallerOK, CallerSlot,
             InSlot, Ended, GiveOK, GivenSlot, TakenBy, Signalling, Signalled, W,
             Free, Holds, SetWord, Go, OwnerGo, slotVars, callerVars, ownerVars,
             history
    <3>3. CASE Ends(c)
      BY Typed, <2>2, <3>3
         DEF Ends, ReleaseCancelled, CancelLost, Await, ReadResult, Return,
             DeadlinePasses, CallerOK, CallerSlot, InSlot, Ended, GiveOK, GivenSlot,
             TakenBy, Signalling, Signalled, W, Free, Holds, SetWord, Go, OwnerGo,
             slotVars, callerVars, ownerVars, history
    <3>4. QED
      BY <1>1, <3>1, <3>2, <3>3, CallerSplit
  <2>3. QED
    BY <2>1, <2>2
<1>2. ASSUME NEW c \in Callers, CallerActs(c), NEW d \in Callers
      PROVE  TakenBy(d)'
  <2>1. CASE d # c
    BY <1>2, <2>1, OthersSame, CallerFrame
       DEF GiveOK, TakenBy, Signalling, Own, Ended, SameCall, SameSlot
  <2>2. CASE d = c
    <3>. SUFFICES TakenBy(c)'
      BY <2>2
    <3>1. CASE Opens(c)
      BY Typed, <3>1
         DEF Opens, Call, CallRefused, Claim, SkipBusySlot, NoSlot, Prepare, Publish,
             StoreSecret, Send, SendTimeout, GiveOK, GivenSlot, TakenBy, Signalling,
             Ended, Signalled, W, Free, Holds, SetWord, Go, OwnerGo, slotVars,
             callerVars, ownerVars, history
    <3>2. CASE Waits(c)
      BY Typed, <3>2
         DEF Waits, Take, WaitTimeout, Woken, Cancel, Wipe, GiveOK, GivenSlot,
             TakenBy, Signalling, Ended, Signalled, W, Free, Holds, SetWord, Go,
             OwnerGo, slotVars, callerVars, ownerVars, history
    <3>3. CASE Ends(c)
      BY Typed, <3>3
         DEF Ends, ReleaseCancelled, CancelLost, Await, ReadResult, Return,
             DeadlinePasses, GiveOK, GivenSlot, TakenBy, Signalling, Ended, Signalled,
             W, Free, Holds, SetWord, Go, OwnerGo, slotVars, callerVars, ownerVars,
             history
    <3>4. QED
      BY <1>2, <3>1, <3>2, <3>3, CallerSplit
  <2>3. QED
    BY <2>1, <2>2
<1>3. ASSUME OwnerActs, NEW s \in Slots
      PROVE  GivenSlot(s)'
  <2>1. CASE Receives
    BY Typed, <2>1
       DEF Receives, PostAsync, Dequeue, Match, Expire, Expired, OwnerOK, GiveOK,
           GivenSlot, Signalling, Signalled, W, Free, Holds, SetWord, Go, OwnerGo,
           slotVars, callerVars, ownerVars, history
  <2>2. CASE Serves
    BY Typed, <2>2
       DEF Serves, Admit, Run, RunAsync, Reply, Seal, Give, OwnerOK, GiveOK,
           GivenSlot, Signalling, Signalled, W, Free, Holds, SetWord, Go, OwnerGo,
           slotVars, callerVars, ownerVars, history
  <2>3. QED
    BY <1>3, <2>1, <2>2, OwnerSplit
<1>4. ASSUME OwnerActs, NEW d \in Callers
      PROVE  TakenBy(d)'
  <2>1. CASE Receives
    BY Typed, <2>1
       DEF Receives, PostAsync, Dequeue, Match, Expire, Expired, CallerOK, CallerSlot,
           InSlot, OwnerOK, GiveOK, TakenBy, Signalling, Ended, W, Free, Holds,
           SetWord, Go, OwnerGo, slotVars, callerVars, ownerVars, history
  <2>2. CASE Serves
    BY Typed, <2>2
       DEF Serves, Admit, Run, RunAsync, Reply, Seal, Give, CallerOK, CallerSlot,
           InSlot, OwnerOK, GiveOK, TakenBy, Signalling, Ended, W, Free, Holds,
           SetWord, Go, OwnerGo, slotVars, callerVars, ownerVars, history
  <2>3. QED
    BY <1>4, <2>1, <2>2, OwnerSplit
<1>5. QED
  BY <1>1, <1>2, <1>3, <1>4 DEF GiveOK, Next, CallerActs, OwnerActs

(* Ids are handed out once.                                                *)
LEMMA IdsOKStep ==
  ASSUME TypeOK, IdsOK, CallerOK, HeldOK, OwnerOK, Next
  PROVE  IdsOK'
<1>1. ASSUME NEW c \in Callers,
              CallRefused(c) \/ Claim(c) \/ SkipBusySlot(c) \/ Prepare(c) \/
              Publish(c) \/ StoreSecret(c) \/ Send(c) \/ SendTimeout(c) \/
              Take(c) \/ WaitTimeout(c) \/ Woken(c) \/ Cancel(c) \/ Wipe(c) \/
              CancelLost(c) \/ Await(c) \/ ReadResult(c) \/ DeadlinePasses(c)
      PROVE  IdsOK'
  BY <1>1, QuietCalls, SameIdsOK
<1>5. ASSUME NEW c \in Callers, Call(c) PROVE IdsOK'
  <2>1. /\ nextId \in Nat
        /\ nextId' = nextId + 1
        /\ id'[c] = nextId + 1
        /\ nextId + 1 \in 1 .. nextId'
    BY <1>5, Typed, TypeParts DEF Call, CallTypes, Numbers
  <2>2. /\ 1 .. nextId \subseteq 1 .. nextId'
        /\ nextId + 1 \notin 1 .. nextId
        /\ nextId + 1 \in Ids
    BY <1>5, <2>1, NumberTyped, TypeParts DEF Call, CallTypes
  <2>3. \A d \in Callers : d # c => SameCall(d)
    BY <1>5, OthersSame DEF CallerActs
  <2>4. timedOut' = timedOut /\ answer' = answer /\ ran' = ran
    BY <1>5 DEF Call, history
  <2>5. \A d \in Callers : CallId(d)'
    BY <2>1, <2>2, <2>3, <2>4 DEF IdsOK, CallId, Calling, SameCall
  <2>6. \A d \in Callers : d # c /\ Calling(d)' => id'[d] # id'[c]
    BY <2>1, <2>2, <2>3 DEF IdsOK, CallId, Calling, SameCall
  <2>7. \A d, e \in Callers : Calling(d)' /\ Calling(e)' /\ id'[d] = id'[e] => d = e
    BY <2>3, <2>6 DEF IdsOK, Calling, SameCall
  <2>8. /\ /\ admin' \subseteq 1 .. nextId'
        /\ ran' \subseteq 1 .. nextId'
        /\ timedOut' \subseteq 1 .. nextId'
        /\ \A n \in Ids : answer'[n] # 0 => n \in 1 .. nextId'
    BY <1>5, <2>1, <2>2, <2>4 DEF Call, IdsOK
  <2>9. QED
    BY <2>5, <2>7, <2>8 DEF IdsOK
<1>6. ASSUME NEW c \in Callers, NoSlot(c) \/ ReleaseCancelled(c) \/ Return(c)
      PROVE  IdsOK'
  <2>0. Calling(c) /\ nextId' = nextId /\ admin' = admin /\ ran' = ran
    BY <1>6 DEF NoSlot, ReleaseCancelled, Return, Calling, slotVars, callerVars,
                ownerVars, history
  <2>1. Calling(c) /\ id[c] \in 1 .. nextId /\ id[c] \in Ids /\ nextId' = nextId
    BY <2>0, IdRange DEF IdsOK, CallId
  <2>2. \A d \in Callers : d # c => SameCall(d)
    BY <1>6, OthersSame DEF CallerActs, CallerStep
  <2>3. ~Calling(c)' /\ admin' = admin /\ ran' = ran
    BY <1>6, <2>0, Typed DEF NoSlot, ReleaseCancelled, Return, Calling, Go
  <2>4. \A d \in Callers : Calling(d)' => d # c /\ Calling(d) /\ id'[d] = id[d] /\ id[d] # id[c]
    BY <2>1, <2>2, <2>3 DEF IdsOK, Calling, SameCall
  <2>5. timedOut' \subseteq timedOut \cup {id[c]} /\ \A n \in Ids : n # id[c] => answer'[n] = answer[n]
    BY <1>6, <2>1, TypeParts
       DEF NoSlot, ReleaseCancelled, Return, PastTypes, slotVars
  <2>6. \A d \in Callers : CallId(d)'
    BY <2>1, <2>4, <2>5, IdRange DEF IdsOK, CallId
  <2>7. \A d, e \in Callers : Calling(d)' /\ Calling(e)' /\ id'[d] = id'[e] => d = e
    BY <2>4 DEF IdsOK
  <2>8. /\ /\ admin' \subseteq 1 .. nextId'
        /\ ran' \subseteq 1 .. nextId'
        /\ timedOut' \subseteq 1 .. nextId'
        /\ \A n \in Ids : answer'[n] # 0 => n \in 1 .. nextId'
    BY <2>1, <2>3, <2>5 DEF IdsOK
  <2>9. QED
    BY <2>6, <2>7, <2>8 DEF IdsOK
<1>7. ASSUME PostAsync \/ Dequeue \/ Match \/ Expire \/ Expired \/ Admit \/
             RunAsync \/ Reply \/ Seal \/ Give
      PROVE  IdsOK'
  <2>1. ran' = ran
    BY <1>7 DEF PostAsync, Dequeue, Match, Expire, Expired, Admit, RunAsync,
                Reply, Seal, Give, history
  <2>2. SameIds
    BY <1>7, OwnerFrame DEF OwnerActs, OwnerStep, SameIds, Calling
  <2>3. QED
    BY <2>1, <2>2, SameIdsOK
<1>9. CASE Run
  <2>1. word[cmd.slot].id = cmd.id /\ cmd.id # 0
    BY <1>9 DEF Run, OwnerOK, W
  <2>2. PICK d \in Callers : Own(d) /\ id[d] = cmd.id
    BY <2>1, Typed DEF HeldOK, HeldSlot
  <2>3. cmd.id \in 1 .. nextId
    BY <2>2 DEF IdsOK, CallId, Calling, Own
  <2>4. QED
    BY <1>9, <2>3, OwnerFrame DEF Run, OwnerActs, OwnerStep, IdsOK, CallId, Calling
<1>10. QED
  BY <1>1, <1>5, <1>6, <1>7, <1>9
     DEF Next, CallerActs, OwnerActs, CallerStep, OwnerStep

(* A slot's result is its own request's.                                   *)
LEMMA ResultOKStep ==
  ASSUME TypeOK, IdsOK, CallerOK, OwnerOK, GiveOK, ResultOK, Next
  PROVE  ResultOK'
<1>1. ASSUME NEW c \in Callers, CallerActs(c), NEW s \in Slots
      PROVE  ResultSlot(s)'
  <2>1. CASE s # at[c]
    BY <1>1, <2>1, CallerFrame DEF ResultOK, ResultSlot, SameSlot
  <2>2. CASE s = at[c]
    <3>1. CASE Opens(c)
      BY Typed, <2>2, <3>1
         DEF Opens, Call, CallRefused, Claim, SkipBusySlot, NoSlot, Prepare, Publish,
             StoreSecret, Send, SendTimeout, CallerOK, CallerSlot, InSlot, Ended,
             ResultOK, ResultSlot, W, Free, Holds, SetWord, Go, OwnerGo, slotVars,
             callerVars, ownerVars, history
    <3>2. CASE Waits(c)
      BY Typed, <2>2, <3>2
         DEF Waits, Take, WaitTimeout, Woken, Cancel, Wipe, CallerOK, CallerSlot,
             InSlot, Ended, ResultOK, ResultSlot, W, Free, Holds, SetWord, Go,
             OwnerGo, slotVars, callerVars, ownerVars, history
    <3>3. CASE Ends(c)
      BY Typed, <2>2, <3>3
         DEF Ends, ReleaseCancelled, CancelLost, Await, ReadResult, Return,
             DeadlinePasses, CallerOK, CallerSlot, InSlot, Ended, ResultOK,
             ResultSlot, W, Free, Holds, SetWord, Go, OwnerGo, slotVars, callerVars,
             ownerVars, history
    <3>4. QED
      BY <1>1, <3>1, <3>2, <3>3, CallerSplit
  <2>3. QED
    BY <2>1, <2>2
<1>2. ASSUME NEW c \in Callers, CallerActs(c), NEW d \in Callers, pc'[d] = "return"
      PROVE  got'[d] = result'[at'[d]]
  <2>1. CASE d # c
    BY <1>2, <2>1, OthersSame DEF ResultOK, Own, SameCall, SameSlot
  <2>2. CASE d = c
    <3>1. CASE Opens(c)
      BY Typed, <1>2, <2>2, <3>1
         DEF Opens, Call, CallRefused, Claim, SkipBusySlot, NoSlot, Prepare, Publish,
             StoreSecret, Send, SendTimeout, ResultOK, W, Free, Holds, SetWord, Go,
             OwnerGo, slotVars, callerVars, ownerVars, history
    <3>2. CASE Waits(c)
      BY Typed, <1>2, <2>2, <3>2
         DEF Waits, Take, WaitTimeout, Woken, Cancel, Wipe, ResultOK, W, Free, Holds,
             SetWord, Go, OwnerGo, slotVars, callerVars, ownerVars, history
    <3>3. CASE Ends(c)
      BY Typed, <1>2, <2>2, <3>3
         DEF Ends, ReleaseCancelled, CancelLost, Await, ReadResult, Return,
             DeadlinePasses, ResultOK, W, Free, Holds, SetWord, Go, OwnerGo, slotVars,
             callerVars, ownerVars, history
    <3>4. QED
      BY <1>2, <3>1, <3>2, <3>3, CallerSplit
  <2>3. QED
    BY <2>1, <2>2
<1>3. ASSUME NEW c \in Callers, CallerActs(c), ownerPc' = "seal"
      PROVE  result'[cmd'.slot] = cmd'.id
  <2>1. CASE cmd.slot # at[c]
    BY <1>3, <2>1, CallerFrame, Facts DEF ResultOK, SameSlot
  <2>2. CASE cmd.slot = at[c]
    <3>1. ownerPc = "seal" /\ cmd' = cmd
      BY <1>3, CallerFrame
    <3>2. word[at[c]] = W(cmd.id, "ADMITTED") /\ result[cmd.slot] = cmd.id
      BY <2>2, <3>1 DEF OwnerOK, ResultOK
    <3>3. ~Prepare(c)
      BY <3>2 DEF Prepare, CallerOK, CallerSlot, InSlot, W
    <3>4. QED
      BY <1>3, <3>1, <3>2, <3>3, CallerTouches
  <2>3. QED
    BY <2>1, <2>2
<1>4. ASSUME OwnerActs, NEW s \in Slots
      PROVE  ResultSlot(s)'
  <2>1. CASE Receives
    BY Typed, <2>1
       DEF Receives, PostAsync, Dequeue, Match, Expire, Expired, OwnerOK, ResultOK,
           ResultSlot, W, Free, Holds, SetWord, Go, OwnerGo, slotVars, callerVars,
           ownerVars, history
  <2>2. CASE Serves
    BY Typed, <2>2
       DEF Serves, Admit, Run, RunAsync, Reply, Seal, Give, OwnerOK, ResultOK,
           ResultSlot, W, Free, Holds, SetWord, Go, OwnerGo, slotVars, callerVars,
           ownerVars, history
  <2>3. QED
    BY <1>4, <2>1, <2>2, OwnerSplit
<1>5. ASSUME OwnerActs
      PROVE  (ownerPc = "seal" => result[cmd.slot] = cmd.id)'
  <2>1. CASE Receives
    BY Typed, <2>1
       DEF Receives, PostAsync, Dequeue, Match, Expire, Expired, OwnerOK, ResultOK, W,
           Free, Holds, SetWord, Go, OwnerGo, slotVars, callerVars, ownerVars, history
  <2>2. CASE Serves
    BY Typed, <2>2
       DEF Serves, Admit, Run, RunAsync, Reply, Seal, Give, OwnerOK, ResultOK, W,
           Free, Holds, SetWord, Go, OwnerGo, slotVars, callerVars, ownerVars, history
  <2>3. QED
    BY <1>5, <2>1, <2>2, OwnerSplit
<1>6. ASSUME OwnerActs, NEW d \in Callers, pc'[d] = "return"
      PROVE  got'[d] = result'[at'[d]]
  <2>1. CASE PostAsync
    BY Typed, <1>6, <2>1
       DEF PostAsync, CallerOK, CallerSlot, InSlot, Ended, OwnerOK, GiveOK,
           TakenBy, Signalling, ResultOK, W, Free, Holds, SetWord, Go,
           OwnerGo, slotVars, callerVars, ownerVars, history
  <2>2. CASE Dequeue
    BY Typed, <1>6, <2>2
       DEF Dequeue, CallerOK, CallerSlot, InSlot, Ended, OwnerOK, GiveOK,
           TakenBy, Signalling, ResultOK, W, Free, Holds, SetWord, Go,
           OwnerGo, slotVars, callerVars, ownerVars, history
  <2>3. CASE Match
    BY Typed, <1>6, <2>3
       DEF Match, CallerOK, CallerSlot, InSlot, Ended, OwnerOK, GiveOK,
           TakenBy, Signalling, ResultOK, W, Free, Holds, SetWord, Go,
           OwnerGo, slotVars, callerVars, ownerVars, history
  <2>4. CASE Expire
    BY Typed, <1>6, <2>4
       DEF Expire, CallerOK, CallerSlot, InSlot, Ended, OwnerOK, GiveOK,
           TakenBy, Signalling, ResultOK, W, Free, Holds, SetWord, Go,
           OwnerGo, slotVars, callerVars, ownerVars, history
  <2>5. CASE Expired
    BY Typed, <1>6, <2>5
       DEF Expired, CallerOK, CallerSlot, InSlot, Ended, OwnerOK, GiveOK,
           TakenBy, Signalling, ResultOK, W, Free, Holds, SetWord, Go,
           OwnerGo, slotVars, callerVars, ownerVars, history
  <2>6. CASE Admit
    BY Typed, <1>6, <2>6
       DEF Admit, CallerOK, CallerSlot, InSlot, Ended, OwnerOK, GiveOK,
           TakenBy, Signalling, ResultOK, W, Free, Holds, SetWord, Go,
           OwnerGo, slotVars, callerVars, ownerVars, history
  <2>7. CASE Run
    BY Typed, <1>6, <2>7
       DEF Run, CallerOK, CallerSlot, InSlot, Ended, OwnerOK, GiveOK, TakenBy,
           Signalling, ResultOK, W, Free, Holds, SetWord, Go, OwnerGo,
           slotVars, callerVars, ownerVars, history
  <2>8. CASE RunAsync
    BY Typed, <1>6, <2>8
       DEF RunAsync, CallerOK, CallerSlot, InSlot, Ended, OwnerOK, GiveOK,
           TakenBy, Signalling, ResultOK, W, Free, Holds, SetWord, Go,
           OwnerGo, slotVars, callerVars, ownerVars, history
  <2>9. CASE Reply
    BY Typed, <1>6, <2>9
       DEF Reply, CallerOK, CallerSlot, InSlot, Ended, OwnerOK, GiveOK,
           TakenBy, Signalling, ResultOK, W, Free, Holds, SetWord, Go,
           OwnerGo, slotVars, callerVars, ownerVars, history
  <2>10. CASE Seal
    BY Typed, <1>6, <2>10
       DEF Seal, CallerOK, CallerSlot, InSlot, Ended, OwnerOK, GiveOK,
           TakenBy, Signalling, ResultOK, W, Free, Holds, SetWord, Go,
           OwnerGo, slotVars, callerVars, ownerVars, history
  <2>11. CASE Give
    BY Typed, <1>6, <2>11
       DEF Give, CallerOK, CallerSlot, InSlot, Ended, OwnerOK, GiveOK,
           TakenBy, Signalling, ResultOK, W, Free, Holds, SetWord, Go,
           OwnerGo, slotVars, callerVars, ownerVars, history
  <2>12. QED
    BY <1>6, <2>1, <2>2, <2>3, <2>4, <2>5, <2>6, <2>7, <2>8, <2>9, <2>10,
       <2>11
       DEF OwnerActs, OwnerStep
<1>7. QED
  BY <1>1, <1>2, <1>3, <1>4, <1>5, <1>6 DEF ResultOK, Next, CallerActs, OwnerActs

(* The command the owner runs belongs to a call in progress.               *)
LEMMA OwnerRunsItsCall ==
  ASSUME TypeOK, IdsOK, CallerOK, HeldOK, OwnerOK, Run
  PROVE  \E d \in Callers :
           /\ Own(d) /\ at[d] = cmd.slot /\ id[d] = cmd.id /\ cmd.id # 0 /\ cmd.id \in Ids
           /\ cmd.id \notin timedOut /\ answer[cmd.id] = 0 /\ cmd.id \in 1 .. nextId
           /\ \A s \in Slots : word[s].id = cmd.id => s = cmd.slot
           /\ \A e \in Callers : Calling(e) /\ id[e] = cmd.id => e = d
<1>1. word[cmd.slot].id = cmd.id /\ cmd.id # 0 /\ cmd.slot \in Slots
  BY Facts DEF Run, OwnerOK, W
<1>2. PICK d \in Callers : Own(d) /\ at[d] = cmd.slot /\ id[d] = cmd.id
  BY <1>1 DEF HeldOK, HeldSlot
<1>3. Calling(d)
  BY <1>2 DEF Own, Calling
<1>4. \A s \in Slots : word[s].id = cmd.id => s = cmd.slot
  <2>1. SUFFICES ASSUME NEW s \in Slots, word[s].id = cmd.id PROVE s = cmd.slot
    OBVIOUS
  <2>2. PICK e \in Callers : Own(e) /\ at[e] = s /\ id[e] = cmd.id
    BY <1>1, <2>1 DEF HeldOK, HeldSlot
  <2>3. QED
    BY <1>2, <1>3, <2>2 DEF IdsOK, Own, Calling
<1>5. QED
  BY <1>1, <1>2, <1>3, <1>4, IdRange DEF IdsOK, CallId

(* What a call returns is its own answer, or none.                         *)
LEMMA ReturnsItsOwn ==
  ASSUME TypeOK, IdsOK, CallerOK, GiveOK, ResultOK, RanOK, NEW c \in Callers, pc[c] = "return"
  PROVE  \/ got[c] = 0 /\ id[c] \notin ran
         \/ got[c] = id[c] /\ id[c] # 0 /\ id[c] \in ran
<1>1. Own(c) /\ at[c] \in Slots /\ id[c] # 0 /\ word[at[c]].id = id[c]
  BY Exclusive DEF Own
<1>2. /\ word[at[c]].state \in {"COMPLETED", "OWNER_EXPIRED"}
      /\ ~Signalling(at[c])
      /\ got[c] = result[at[c]]
  BY DEF CallerOK, CallerSlot, InSlot, Ended, GiveOK, TakenBy, ResultOK
<1>3. QED
  BY <1>1, <1>2 DEF ResultOK, ResultSlot, RanOK, RanSlot, Signalling

(* A timed-out command has not run and will not.                           *)
LEMMA RanOKStep ==
  ASSUME TypeOK, IdsOK, CallerOK, HeldOK, OwnerOK, GiveOK, ResultOK, RanOK, Next
  PROVE  RanOK'
<1>1. ASSUME NEW c \in Callers, CallerActs(c), NEW s \in Slots
      PROVE  RanSlot(s)'
  <2>1. CASE s # at[c]
    BY <1>1, <2>1, CallerFrame DEF RanOK, RanSlot, SameSlot
  <2>2. CASE s = at[c]
    <3>1. CASE Opens(c)
      BY Typed, <2>2, <3>1
         DEF Opens, Call, CallRefused, Claim, SkipBusySlot, NoSlot, Prepare, Publish,
             StoreSecret, Send, SendTimeout, CallerOK, CallerSlot, InSlot, Ended,
             RanOK, RanSlot, W, Free, Holds, SetWord, Go, OwnerGo, slotVars,
             callerVars, ownerVars, history
    <3>2. CASE Waits(c)
      BY Typed, <2>2, <3>2
         DEF Waits, Take, WaitTimeout, Woken, Cancel, Wipe, CallerOK, CallerSlot,
             InSlot, Ended, RanOK, RanSlot, W, Free, Holds, SetWord, Go, OwnerGo,
             slotVars, callerVars, ownerVars, history
    <3>3. CASE Ends(c)
      BY Typed, <2>2, <3>3
         DEF Ends, ReleaseCancelled, CancelLost, Await, ReadResult, Return,
             DeadlinePasses, CallerOK, CallerSlot, InSlot, Ended, RanOK, RanSlot, W,
             Free, Holds, SetWord, Go, OwnerGo, slotVars, callerVars, ownerVars,
             history
    <3>4. QED
      BY <1>1, <3>1, <3>2, <3>3, CallerSplit
  <2>3. QED
    BY <2>1, <2>2
<1>2. ASSUME NEW c \in Callers, CallerActs(c), NEW d \in Callers, pc'[d] = "scan"
      PROVE  id'[d] \notin ran'
  <2>1. CASE d # c
    BY <1>2, <2>1, OthersSame, CallerFrame DEF RanOK, SameCall
  <2>2. CASE d = c
    <3>1. CASE Opens(c)
      BY Typed, <1>2, <2>2, TypeParts, NumberTyped, <3>1
         DEF Opens, Call, CallRefused, Claim, SkipBusySlot, NoSlot, Prepare, Publish,
             StoreSecret, Send, SendTimeout, RanOK, IdsOK, CallTypes, Numbers, W,
             Free, Holds, SetWord, Go, OwnerGo, slotVars, callerVars, ownerVars,
             history
    <3>2. CASE Waits(c)
      BY Typed, <1>2, <2>2, TypeParts, NumberTyped, <3>2
         DEF Waits, Take, WaitTimeout, Woken, Cancel, Wipe, RanOK, IdsOK, CallTypes,
             Numbers, W, Free, Holds, SetWord, Go, OwnerGo, slotVars, callerVars,
             ownerVars, history
    <3>3. CASE Ends(c)
      BY Typed, <1>2, <2>2, TypeParts, NumberTyped, <3>3
         DEF Ends, ReleaseCancelled, CancelLost, Await, ReadResult, Return,
             DeadlinePasses, RanOK, IdsOK, CallTypes, Numbers, W, Free, Holds,
             SetWord, Go, OwnerGo, slotVars, callerVars, ownerVars, history
    <3>4. QED
      BY <1>2, <3>1, <3>2, <3>3, CallerSplit
  <2>3. QED
    BY <2>1, <2>2
<1>3. ASSUME NEW c \in Callers, CallerActs(c)
      PROVE  /\ \A n \in ran' : n \notin timedOut'
             /\ \A n \in Ids : answer'[n] # 0 => answer'[n] = n /\ n \in ran'
  <2>1. CASE CallRefused(c) \/ Claim(c) \/ SkipBusySlot(c) \/ NoSlot(c) \/
             Prepare(c) \/ Publish(c) \/ StoreSecret(c) \/ Send(c) \/
             SendTimeout(c) \/ Take(c) \/ WaitTimeout(c) \/ Woken(c) \/
             Cancel(c) \/ Wipe(c) \/ CancelLost(c) \/ Await(c) \/
             ReadResult(c) \/ DeadlinePasses(c)
    BY Typed, <2>1
       DEF CallRefused, Claim, SkipBusySlot, NoSlot, Prepare, Publish,
           StoreSecret, Send, SendTimeout, Take, WaitTimeout, Woken, Cancel,
           Wipe, CancelLost, Await, ReadResult, DeadlinePasses, RanOK,
           RanSlot, W, Free, Holds, SetWord, Go, OwnerGo, slotVars,
           callerVars, ownerVars, history
  <2>2. CASE Call(c)
    BY <2>2 DEF Call, RanOK, history
  <2>3. CASE ReleaseCancelled(c)
    BY <2>3, Typed, Exclusive
       DEF ReleaseCancelled, CallerOK, CallerSlot, InSlot, Own, RanOK, RanSlot
  <2>4. CASE Return(c)
    BY <2>4, ReturnsItsOwn, IdRange, TypeParts DEF Return, RanOK, PastTypes, Calling
  <2>5. QED
    BY <1>3, <2>1, <2>2, <2>3, <2>4 DEF CallerActs, CallerStep
<1>4. ASSUME OwnerActs, NEW s \in Slots
      PROVE  RanSlot(s)'
  <2>1. CASE PostAsync \/ Dequeue \/ Match \/ Expire \/ Expired \/ Admit \/
             RunAsync \/ Reply \/ Seal \/ Give
    BY Typed, <2>1
       DEF PostAsync, Dequeue, Match, Expire, Expired, Admit, RunAsync, Reply,
           Seal, Give, OwnerOK, RanOK, RanSlot, W, Free, Holds, SetWord, Go,
           OwnerGo, slotVars, callerVars, ownerVars, history
  <2>2. CASE Run
    BY Typed, <2>2, OwnerRunsItsCall DEF Run, OwnerOK, RanOK, RanSlot, W
  <2>3. QED
    BY <1>4, <2>1, <2>2 DEF OwnerActs, OwnerStep
<1>5. ASSUME OwnerActs
      PROVE  /\ \A n \in ran' : n \notin timedOut'
             /\ \A n \in Ids : answer'[n] # 0 => answer'[n] = n /\ n \in ran'
             /\ \A d \in Callers : pc'[d] = "scan" => id'[d] \notin ran'
             /\ ownerPc' \in {"reply", "seal"} => cmd'.id \in ran'
  <2>1. CASE PostAsync \/ Dequeue \/ Match \/ Expire \/ Expired \/ Admit \/
             RunAsync \/ Reply \/ Seal \/ Give
    BY Typed, <2>1
       DEF PostAsync, Dequeue, Match, Expire, Expired, Admit, RunAsync, Reply,
           Seal, Give, OwnerOK, RanOK, W, Free, Holds, SetWord, Go, OwnerGo,
           slotVars, callerVars, ownerVars, history
  <2>2. CASE Run
    BY <2>2, OwnerRunsItsCall, OwnerFrame
       DEF Run, OwnerActs, OwnerStep, RanOK, Own, Calling, OwnerGo
  <2>3. QED
    BY <1>5, <2>1, <2>2 DEF OwnerActs, OwnerStep
<1>6. ASSUME NEW c \in Callers, CallerActs(c)
      PROVE  ownerPc' \in {"reply", "seal"} => cmd'.id \in ran'
  BY <1>6, CallerFrame DEF RanOK
<1>7. QED
  BY <1>1, <1>2, <1>3, <1>4, <1>5, <1>6 DEF RanOK, Next, CallerActs, OwnerActs

(* Once sent, always sent.                                                 *)
LEMMA SentStable ==
  ASSUME TypeOK, IdsOK, CallerOK, QueueOK, Next, NEW n \in Numbers, Sent(n)
  PROVE  Sent(n)'
<1>1. ASSUME NEW c \in Callers, CallerActs(c), NEW d \in Callers, id'[d] = n
      PROVE  pc'[d] \notin Unsent
  <2>1. CASE d # c
    BY <1>1, <2>1, OthersSame DEF Sent, SameCall
  <2>2. CASE d = c
    <3>1. CASE Opens(c)
      BY Typed, TypeParts, SlotAssumption, <1>1, <2>2, <3>1
         DEF Opens, Call, CallRefused, Claim, SkipBusySlot, NoSlot, Prepare, Publish,
             StoreSecret, Send, SendTimeout, Sent, Unsent, CallTypes, Numbers, W,
             Free, Holds, SetWord, Go, OwnerGo, slotVars, callerVars, ownerVars,
             history
    <3>2. CASE Waits(c)
      BY Typed, TypeParts, SlotAssumption, <1>1, <2>2, <3>2
         DEF Waits, Take, WaitTimeout, Woken, Cancel, Wipe, Sent, Unsent, CallTypes,
             Numbers, W, Free, Holds, SetWord, Go, OwnerGo, slotVars, callerVars,
             ownerVars, history
    <3>3. CASE Ends(c)
      BY Typed, TypeParts, SlotAssumption, <1>1, <2>2, <3>3
         DEF Ends, ReleaseCancelled, CancelLost, Await, ReadResult, Return,
             DeadlinePasses, Sent, Unsent, CallTypes, Numbers, W, Free, Holds,
             SetWord, Go, OwnerGo, slotVars, callerVars, ownerVars, history
    <3>4. QED
      BY <1>1, <3>1, <3>2, <3>3, CallerSplit
  <2>3. QED
    BY <2>1, <2>2
<1>2. nextId \in Nat /\ (nextId' = nextId \/ nextId' = nextId + 1)
  <2>. nextId \in Nat
    BY TypeParts, SlotAssumption DEF CallTypes, Numbers
  <2>1. ASSUME NEW c \in Callers,
                CallRefused(c) \/ Claim(c) \/ SkipBusySlot(c) \/ NoSlot(c) \/
                Prepare(c) \/ Publish(c) \/ StoreSecret(c) \/ Send(c) \/
                SendTimeout(c) \/ Take(c) \/ WaitTimeout(c) \/ Woken(c) \/
                Cancel(c) \/ Wipe(c) \/ ReleaseCancelled(c) \/
                CancelLost(c) \/ Await(c) \/ ReadResult(c) \/ Return(c) \/
                DeadlinePasses(c)
        PROVE  nextId' = nextId \/ nextId' = nextId + 1
    BY <2>1
       DEF CallRefused, Claim, SkipBusySlot, NoSlot, Prepare, Publish,
           StoreSecret, Send, SendTimeout, Take, WaitTimeout, Woken, Cancel,
           Wipe, ReleaseCancelled, CancelLost, Await, ReadResult, Return,
           DeadlinePasses, callerVars
  <2>2. ASSUME NEW c \in Callers, Call(c) PROVE nextId' = nextId \/ nextId' = nextId + 1
    BY <2>2 DEF Call
  <2>3. CASE OwnerActs
    BY <2>3
       DEF OwnerActs, OwnerStep, PostAsync, Dequeue, Match, Expire, Expired,
           Admit, Run, RunAsync, Reply, Seal, Give, callerVars
  <2>4. QED
    BY <2>1, <2>2, <2>3 DEF Next, CallerActs, OwnerActs, CallerStep, OwnerStep
<1>3. n <= nextId'
  BY <1>2, SlotAssumption DEF Sent, Numbers
<1>4. QED
  BY <1>1, <1>3, OwnerFrame DEF Next, CallerActs, OwnerActs, Sent

(* Only sent commands are in the queue.                                    *)
LEMMA QueueOKStep ==
  ASSUME TypeOK, IdsOK, CallerOK, QueueOK, Next
  PROVE  QueueOK'
<1>. DEFINE After(n) == n <= nextId' /\ \A c \in Callers : id'[c] = n => pc'[c] \notin Unsent
<1>0. queue \in Seq(Commands) /\ \A i \in 1 .. Len(queue) : queue[i] \in Commands
  BY TypeParts DEF QueueType
<1>1. \A i \in 1 .. Len(queue) : queue[i].id \in Numbers
  BY <1>0 DEF Commands, Numbers
<1>2. \A n \in Numbers : Sent(n) => After(n)
  BY SentStable DEF Sent
<1>3. /\ \A i \in 1 .. Len(queue) : After(queue[i].id)
      /\ After(cmd.id)
  BY <1>1, <1>2, Facts DEF QueueOK
<1>q. QueueOK' <=> (\A i \in 1 .. Len(queue') : After(queue'[i].id)) /\ After(cmd'.id)
  BY DEF QueueOK, Sent
<1>. HIDE DEF After
<1>4. CASE queue' = queue /\ cmd' = cmd
  BY <1>3, <1>4, <1>q
<1>5. ASSUME NEW c \in Callers, Send(c) PROVE QueueOK'
  <2>1. /\ queue' = Append(queue, Command(id[c], at[c]))
        /\ cmd' = cmd
        /\ id[c] \in Numbers
        /\ Command(id[c], at[c]).id = id[c]
    BY <1>5, Typed DEF Send, ownerVars, Command
  <2>2. After(id[c])
    <3>1. id[c] \in 1 .. nextId /\ nextId' = nextId /\ id' = id /\ nextId \in Nat
      BY <1>5, SlotAssumption, TypeParts
         DEF Send, IdsOK, CallId, Calling, CallTypes, Numbers
    <3>2. pc'[c] = "wait" /\ \A d \in Callers : d # c => pc'[d] = pc[d]
      BY <1>5, Typed DEF Send, Go
    <3>3. ASSUME NEW d \in Callers, id[d] = id[c], d # c PROVE pc[d] = "idle"
      BY <1>5, <3>3 DEF Send, IdsOK, Calling
    <3>4. QED
      BY <3>1, <3>2, <3>3 DEF After, Unsent
  <2>3. QED
    BY <1>0, <1>3, <1>q, <2>1, <2>2
<1>6. CASE PostAsync
  <2>1. queue' = Append(queue, NoCommand) /\ cmd' = cmd /\ NoCommand.id = 0
    BY <1>6 DEF PostAsync, ownerVars, NoCommand, Command
  <2>2. Sent(0) /\ After(0)
    <3>1. Sent(0)
      BY IdRange, TypeParts, Typed, SlotAssumption
         DEF Sent, Unsent, Calling, CallTypes, Numbers
    <3>2. QED
      BY <3>1, <1>2, NumberTyped
  <2>3. QED
    BY <1>0, <1>3, <1>q, <2>1, <2>2
<1>7. CASE Dequeue
  <2>1. queue # <<>> /\ cmd' = queue[1] /\ queue' = Tail(queue)
    BY <1>0, <1>7 DEF Dequeue
  <2>2. Len(queue') = Len(queue) - 1 /\ 1 \in 1 .. Len(queue)
        /\ \A i \in 1 .. Len(queue') : queue'[i] = queue[i + 1] /\ i + 1 \in 1 .. Len(queue)
    BY <1>0, <2>1
  <2>3. QED
    BY <1>3, <1>q, <2>1, <2>2
<1>8. ASSUME NEW c \in Callers,
              Call(c) \/ CallRefused(c) \/ Claim(c) \/ SkipBusySlot(c) \/
              NoSlot(c) \/ Prepare(c) \/ Publish(c) \/ StoreSecret(c) \/
              SendTimeout(c) \/ Take(c) \/ WaitTimeout(c) \/ Woken(c) \/
              Cancel(c) \/ Wipe(c) \/ ReleaseCancelled(c) \/ CancelLost(c) \/
              Await(c) \/ ReadResult(c) \/ Return(c) \/ DeadlinePasses(c)
      PROVE  QueueOK'
  BY <1>4, <1>8
     DEF Call, CallRefused, Claim, SkipBusySlot, NoSlot, Prepare, Publish,
         StoreSecret, SendTimeout, Take, WaitTimeout, Woken, Cancel, Wipe,
         ReleaseCancelled, CancelLost, Await, ReadResult, Return,
         DeadlinePasses, ownerVars
<1>9. CASE Match \/ Expire \/ Expired \/ Admit \/ Run \/ RunAsync \/ Reply \/
           Seal \/ Give
  BY <1>4, <1>9
     DEF Match, Expire, Expired, Admit, Run, RunAsync, Reply, Seal, Give,
         ownerVars
<1>10. QED
  BY <1>5, <1>6, <1>7, <1>8, <1>9 DEF Next, CallerActs, OwnerActs, CallerStep, OwnerStep

(* Only Call adds an admin request.                                        *)
LEMMA AdminSame ==
  ASSUME TypeOK, IdsOK, QueueOK, NEW c \in Callers, CallerActs(c)
  PROVE  /\ \A d \in Callers : Own(d) => (id[d] \in admin' <=> id[d] \in admin)
         /\ cmd.id \in admin' <=> cmd.id \in admin
<1>1. admin' = admin \/ admin' = admin \cup {nextId + 1}
  <2>1. CASE CallerActs(c)
    BY <2>1
       DEF CallerActs, CallerStep, Call, CallRefused, Claim, SkipBusySlot,
           NoSlot, Prepare, Publish, StoreSecret, Send, SendTimeout, Take,
           WaitTimeout, Woken, Cancel, Wipe, ReleaseCancelled, CancelLost,
           Await, ReadResult, Return, DeadlinePasses, callerVars
  <2>2. QED
    BY <2>1 DEF CallerActs, CallerStep
<1>2. nextId + 1 # cmd.id /\ \A d \in Callers : Own(d) => id[d] # nextId + 1
  BY TypeParts, SlotAssumption, Facts
     DEF QueueOK, Sent, IdsOK, CallId, Own, Calling, CallTypes, Numbers
<1>3. QED
  BY <1>1, <1>2

(* A secret lies only in the slot of its own request.                      *)
LEMMA SecretOKStep ==
  ASSUME TypeOK, IdsOK, CallerOK, HeldOK, OwnerOK, QueueOK, SecretOK, Next
  PROVE  SecretOK'
<1>1. ASSUME NEW c \in Callers, CallerActs(c), NEW s \in Slots
      PROVE  SecretSlot(s)'
  <2>1. CASE s # at[c]
    BY <1>1, <2>1, CallerFrame DEF SecretOK, SecretSlot, SameSlot
  <2>2. CASE s = at[c]
    <3>1. CASE Opens(c)
      BY Typed, <2>2, <3>1
         DEF Opens, Call, CallRefused, Claim, SkipBusySlot, NoSlot, Prepare, Publish,
             StoreSecret, Send, SendTimeout, CallerOK, CallerSlot, InSlot, Ended,
             SecretOK, SecretSlot, SecretOf, W, Free, Holds, SetWord, Go, OwnerGo,
             slotVars, callerVars, ownerVars, history
    <3>2. CASE Waits(c)
      BY Typed, <2>2, <3>2
         DEF Waits, Take, WaitTimeout, Woken, Cancel, Wipe, CallerOK, CallerSlot,
             InSlot, Ended, SecretOK, SecretSlot, SecretOf, W, Free, Holds, SetWord,
             Go, OwnerGo, slotVars, callerVars, ownerVars, history
    <3>3. CASE Ends(c)
      BY Typed, <2>2, <3>3
         DEF Ends, ReleaseCancelled, CancelLost, Await, ReadResult, Return,
             DeadlinePasses, CallerOK, CallerSlot, InSlot, Ended, SecretOK,
             SecretSlot, SecretOf, W, Free, Holds, SetWord, Go, OwnerGo, slotVars,
             callerVars, ownerVars, history
    <3>4. QED
      BY <1>1, <3>1, <3>2, <3>3, CallerSplit
  <2>3. QED
    BY <2>1, <2>2
<1>2. ASSUME NEW c \in Callers, CallerActs(c), NEW d \in Callers
      PROVE  SecretOf(d)'
  <2>1. CASE d # c
    BY <1>2, <2>1, OthersSame, AdminSame DEF SecretOK, SecretOf, Own, SameCall, SameSlot
  <2>2. CASE d = c
    <3>. SUFFICES SecretOf(c)'
      BY <2>2
    <3>1. CASE Opens(c)
      BY Typed, <3>1
         DEF Opens, Call, CallRefused, Claim, SkipBusySlot, NoSlot, Prepare, Publish,
             StoreSecret, Send, SendTimeout, CallerOK, CallerSlot, InSlot, Ended,
             Signalled, SecretOK, SecretOf, W, Free, Holds, SetWord, Go, OwnerGo,
             slotVars, callerVars, ownerVars, history
    <3>2. CASE Waits(c)
      BY Typed, <3>2
         DEF Waits, Take, WaitTimeout, Woken, Cancel, Wipe, CallerOK, CallerSlot,
             InSlot, Ended, Signalled, SecretOK, SecretOf, W, Free, Holds, SetWord,
             Go, OwnerGo, slotVars, callerVars, ownerVars, history
    <3>3. CASE Ends(c)
      BY Typed, <3>3
         DEF Ends, ReleaseCancelled, CancelLost, Await, ReadResult, Return,
             DeadlinePasses, CallerOK, CallerSlot, InSlot, Ended, Signalled, SecretOK,
             SecretOf, W, Free, Holds, SetWord, Go, OwnerGo, slotVars, callerVars,
             ownerVars, history
    <3>4. QED
      BY <1>2, <3>1, <3>2, <3>3, CallerSplit
  <2>3. QED
    BY <2>1, <2>2
<1>3. ASSUME NEW c \in Callers, CallerActs(c), ownerPc = "run", cmd.id \in admin'
      PROVE  secret'[cmd.slot] = cmd.id
  <2>1. CASE cmd.slot # at[c]
    BY <1>3, <2>1, CallerFrame, AdminSame, Facts DEF SecretOK, SameSlot
  <2>2. CASE cmd.slot = at[c]
    <3>. secret[cmd.slot] = cmd.id /\ word[cmd.slot] = W(cmd.id, "ADMITTED")
      BY <1>3, AdminSame, Facts DEF SecretOK, OwnerOK, IdsOK
    <3>1. ~Prepare(c) /\ ~StoreSecret(c) /\ ~Wipe(c) /\ ~Return(c)
      BY <2>2 DEF Prepare, StoreSecret, Wipe, Return, Holds, CallerOK,
                  CallerSlot, InSlot, W, Signalled
    <3>2. QED
      BY <1>3, <3>1, CallerTouches
  <2>3. QED
    BY <2>1, <2>2
<1>4. ASSUME OwnerActs, NEW s \in Slots
      PROVE  SecretSlot(s)'
  <2>1. CASE Receives
    BY Typed, <2>1
       DEF Receives, PostAsync, Dequeue, Match, Expire, Expired, OwnerOK, SecretOK,
           SecretSlot, W, Free, Holds, SetWord, Go, OwnerGo, slotVars, callerVars,
           ownerVars, history
  <2>2. CASE Serves
    BY Typed, <2>2
       DEF Serves, Admit, Run, RunAsync, Reply, Seal, Give, OwnerOK, SecretOK,
           SecretSlot, W, Free, Holds, SetWord, Go, OwnerGo, slotVars, callerVars,
           ownerVars, history
  <2>3. QED
    BY <1>4, <2>1, <2>2, OwnerSplit
<1>5. ASSUME OwnerActs, NEW d \in Callers
      PROVE  SecretOf(d)'
  <2>1. CASE Receives
    BY Typed, <2>1
       DEF Receives, PostAsync, Dequeue, Match, Expire, Expired, CallerOK, CallerSlot,
           InSlot, OwnerOK, SecretOK, SecretOf, W, Free, Holds, SetWord, Go, OwnerGo,
           slotVars, callerVars, ownerVars, history
  <2>2. CASE Serves
    BY Typed, <2>2
       DEF Serves, Admit, Run, RunAsync, Reply, Seal, Give, CallerOK, CallerSlot,
           InSlot, OwnerOK, SecretOK, SecretOf, W, Free, Holds, SetWord, Go, OwnerGo,
           slotVars, callerVars, ownerVars, history
  <2>3. QED
    BY <1>5, <2>1, <2>2, OwnerSplit
<1>6. ASSUME OwnerActs, ownerPc' = "run", cmd'.id \in admin'
      PROVE  secret'[cmd'.slot] = cmd'.id
  <2>1. CASE PostAsync
    BY Typed, <1>6, <2>1
       DEF PostAsync, CallerOK, CallerSlot, InSlot, Ended, OwnerOK, QueueOK,
           Sent, Unsent, SecretOK, W, Free, Holds, SetWord, Go, OwnerGo,
           slotVars, callerVars, ownerVars, history
  <2>2. CASE Dequeue
    BY Typed, <1>6, <2>2
       DEF Dequeue, CallerOK, CallerSlot, InSlot, Ended, OwnerOK, QueueOK,
           Sent, Unsent, SecretOK, W, Free, Holds, SetWord, Go, OwnerGo,
           slotVars, callerVars, ownerVars, history
  <2>3. CASE Match
    BY <1>6, <2>3 DEF Match, IdsOK, callerVars, OwnerGo, SecretOK
  <2>4. CASE Expire
    BY Typed, <1>6, <2>4
       DEF Expire, CallerOK, CallerSlot, InSlot, Ended, OwnerOK, QueueOK,
           Sent, Unsent, SecretOK, W, Free, Holds, SetWord, Go, OwnerGo,
           slotVars, callerVars, ownerVars, history
  <2>5. CASE Expired
    BY Typed, <1>6, <2>5
       DEF Expired, CallerOK, CallerSlot, InSlot, Ended, OwnerOK, QueueOK,
           Sent, Unsent, SecretOK, W, Free, Holds, SetWord, Go, OwnerGo,
           slotVars, callerVars, ownerVars, history
  <2>6. CASE Admit
    <3>1. Holds(cmd.slot, cmd.id, "PENDING") /\ cmd.id \in admin /\ cmd.id # 0
             /\ secret' = secret /\ cmd' = cmd
      BY <1>6, <2>6 DEF Admit, OwnerOK, callerVars, OwnerGo
    <3>2. PICK d \in Callers : Own(d) /\ at[d] = cmd.slot /\ id[d] = cmd.id
      BY <3>1, Facts DEF Holds, W, HeldOK, HeldSlot
    <3>3. word[at[d]].state = "PENDING" /\ pc[d] \notin Unsent
      BY <3>1, <3>2 DEF Holds, W, QueueOK, Sent
    <3>4. pc[d] \in {"wait", "cancel"}
      BY <3>2, <3>3, Typed DEF CallerOK, CallerSlot, InSlot, Ended, Own, Unsent, CallerSteps
    <3>5. QED
      BY <3>1, <3>2, <3>3, <3>4 DEF SecretOK, SecretOf
  <2>7. CASE Run
    BY Typed, <1>6, <2>7
       DEF Run, CallerOK, CallerSlot, InSlot, Ended, OwnerOK, QueueOK, Sent,
           Unsent, SecretOK, W, Free, Holds, SetWord, Go, OwnerGo, slotVars,
           callerVars, ownerVars, history
  <2>8. CASE RunAsync
    BY Typed, <1>6, <2>8
       DEF RunAsync, CallerOK, CallerSlot, InSlot, Ended, OwnerOK, QueueOK,
           Sent, Unsent, SecretOK, W, Free, Holds, SetWord, Go, OwnerGo,
           slotVars, callerVars, ownerVars, history
  <2>9. CASE Reply
    BY Typed, <1>6, <2>9
       DEF Reply, CallerOK, CallerSlot, InSlot, Ended, OwnerOK, QueueOK, Sent,
           Unsent, SecretOK, W, Free, Holds, SetWord, Go, OwnerGo, slotVars,
           callerVars, ownerVars, history
  <2>10. CASE Seal
    BY Typed, <1>6, <2>10
       DEF Seal, CallerOK, CallerSlot, InSlot, Ended, OwnerOK, QueueOK, Sent,
           Unsent, SecretOK, W, Free, Holds, SetWord, Go, OwnerGo, slotVars,
           callerVars, ownerVars, history
  <2>11. CASE Give
    BY Typed, <1>6, <2>11
       DEF Give, CallerOK, CallerSlot, InSlot, Ended, OwnerOK, QueueOK, Sent,
           Unsent, SecretOK, W, Free, Holds, SetWord, Go, OwnerGo, slotVars,
           callerVars, ownerVars, history
  <2>12. QED
    BY <1>6, <2>1, <2>2, <2>3, <2>4, <2>5, <2>6, <2>7, <2>8, <2>9, <2>10,
       <2>11
       DEF OwnerActs, OwnerStep
<1>7. QED
  BY <1>1, <1>2, <1>3, <1>4, <1>5, <1>6, CallerFrame
     DEF SecretOK, Next, CallerActs, OwnerActs

(* The owner takes the secret of the command it runs.                      *)
LEMMA RunsWithOwnSecretStep ==
  ASSUME TypeOK, IdsOK, OwnerOK, QueueOK, SecretOK, RunsWithOwnSecret, Next
  PROVE  RunsWithOwnSecret'
<1>1. ASSUME NEW c \in Callers, CallerActs(c)
      PROVE  RunsWithOwnSecret'
  BY Typed, IdRange, TypeParts, <1>1
     DEF CallerActs, CallerStep, Call, CallRefused, Claim, SkipBusySlot,
         NoSlot, Prepare, Publish, StoreSecret, Send, SendTimeout, Take,
         WaitTimeout, Woken, Cancel, Wipe, ReleaseCancelled, CancelLost,
         Await, ReadResult, Return, DeadlinePasses, RunsWithOwnSecret,
         SecretOK, OwnerOK, QueueOK, Sent, IdsOK, CallTypes, Numbers, W, Free,
         Holds, SetWord, Go, OwnerGo, slotVars, callerVars, ownerVars, history
<1>2. CASE OwnerActs
  BY Typed, IdRange, TypeParts, <1>2
     DEF OwnerActs, OwnerStep, PostAsync, Dequeue, Match, Expire, Expired,
         Admit, Run, RunAsync, Reply, Seal, Give, RunsWithOwnSecret, SecretOK,
         OwnerOK, QueueOK, Sent, IdsOK, CallTypes, Numbers, W, Free, Holds,
         SetWord, Go, OwnerGo, slotVars, callerVars, ownerVars, history
<1>3. QED
  BY <1>1, <1>2 DEF Next, CallerActs, OwnerActs, CallerStep, OwnerStep


-----------------------------------------------------------------------------
(* The inductive invariant.                                                *)

(* The invariant holds at start.                                           *)
LEMMA InitInv == Init => IInv
<1>. SUFFICES ASSUME Init PROVE IInv
  OBVIOUS
<1>. USE SlotAssumption DEF Init
<1>1. TypeOK
  BY NumberTyped, WordTyped, TypeParts
     DEF WordType, GivenType, SlotTypes, PcType, CallTypes, QueueType, OwnerTypes,
         PastTypes, CallerSteps, OwnerSteps, Commands, NoCommand, Command, Numbers, Ids, Slots
<1>2. IdsOK /\ CallerOK
  BY DEF IdsOK, CallId, Calling, CallerOK, CallerSlot, Ended
<1>3. HeldOK /\ GiveOK /\ OwnerOK /\ QueueOK
  BY DEF HeldOK, HeldSlot, Free, W, GiveOK, GivenSlot, TakenBy, Ended, OwnerOK, QueueOK,
         Sent, Unsent, NoCommand, Command
<1>4. ResultOK /\ RanOK /\ SecretOK /\ RunsWithOwnSecret
  BY DEF ResultOK, ResultSlot, RanOK, RanSlot, SecretOK, SecretSlot, SecretOf,
         RunsWithOwnSecret, Free, W
<1>5. QED
  BY <1>1, <1>2, <1>3, <1>4 DEF IInv

(* Every step keeps the invariant.                                         *)
LEMMA StepInv == IInv /\ [Next]_vars => IInv'
<1>. SUFFICES ASSUME IInv, [Next]_vars PROVE IInv'
  OBVIOUS
<1>1. CASE Next
  <2>. /\ TypeOK /\ IdsOK /\ CallerOK /\ HeldOK /\ OwnerOK /\ GiveOK
       /\ ResultOK /\ RanOK /\ QueueOK /\ SecretOK /\ RunsWithOwnSecret
    BY DEF IInv
  <2>1. TypeOK'
    BY <1>1, TypeParts, WordTypeStep, GivenTypeStep, SlotTypesStep, PcTypeStep,
       CallTypesStep, QueueTypeStep, OwnerTypesStep, PastTypesStep
  <2>2. IdsOK' /\ CallerOK' /\ HeldOK' /\ OwnerOK' /\ GiveOK'
    BY <1>1, IdsOKStep, CallerOKStep, HeldOKStep, OwnerOKStep, GiveOKStep
  <2>3. ResultOK' /\ RanOK' /\ QueueOK' /\ SecretOK' /\ RunsWithOwnSecret'
    BY <1>1, ResultOKStep, RanOKStep, QueueOKStep, SecretOKStep, RunsWithOwnSecretStep
  <2>4. QED
    BY <2>1, <2>2, <2>3 DEF IInv
<1>2. CASE UNCHANGED vars
  <2>. USE <1>2 DEF vars, slotVars, callerVars, ownerVars, history
  <2>1. TypeOK' /\ IdsOK' /\ CallerOK' /\ HeldOK'
    <3>1. TypeOK'
      BY DEF IInv, TypeOK
    <3>2. IdsOK'
      BY DEF IInv, IdsOK, CallId, Calling, Own
    <3>3. CallerOK'
      BY DEF IInv, CallerOK, CallerSlot, InSlot
    <3>4. HeldOK'
      BY DEF IInv, HeldOK, HeldSlot, Own
    <3>5. QED
      BY <3>1, <3>2, <3>3, <3>4
  <2>2. OwnerOK' /\ GiveOK'
    BY DEF IInv, OwnerOK, GiveOK, GivenSlot, TakenBy, Signalling
  <2>3. ResultOK' /\ RanOK'
    BY DEF IInv, ResultOK, ResultSlot, RanOK, RanSlot
  <2>4. QueueOK' /\ RunsWithOwnSecret'
    BY DEF IInv, QueueOK, Sent, RunsWithOwnSecret
  <2>5. SecretOK'
    BY DEF IInv, SecretOK, SecretSlot, SecretOf
  <2>6. QED
    BY <2>1, <2>2, <2>3, <2>4, <2>5 DEF IInv
<1>3. QED
  BY <1>1, <1>2

(* The invariant holds in every reachable state.                           *)
LEMMA Inductive == Spec => []IInv
BY InitInv, StepInv, PTL DEF Spec

(* Every variable keeps its type.                                          *)
THEOREM TypeCorrect == Spec => []TypeOK
<1>1. IInv => TypeOK
  BY DEF IInv
<1>2. QED
  BY <1>1, Inductive, PTL

(* No slot leaks and none is shared, for any number of callers and slots   *)
(* and any interleaving of claims, timeouts, admissions and expiries; and  *)
(* a late give never reaches the next request of its slot.                 *)
THEOREM SlotsNeverLeak == Spec => []SlotsOwned
<1>1. IInv => SlotsOwned
  <2>. SUFFICES ASSUME IInv PROVE SlotsOwned
    OBVIOUS
  <2>1. \A s \in Slots : word[s] # Free => \E c \in Callers : Owns(c, s) /\ id[c] = word[s].id
    BY DEF IInv, HeldOK, HeldSlot, Own, Owns
  <2>2. \A s \in Slots, c, d \in Callers : Owns(c, s) /\ Owns(d, s) => c = d
    BY Exclusive DEF IInv, Own, Owns
  <2>3. \A s \in Slots : given[s] => word[s].state \in Signalled
    BY DEF IInv, GiveOK, GivenSlot
  <2>4. QED
    BY <2>1, <2>2, <2>3 DEF SlotsOwned
<1>2. QED
  BY <1>1, Inductive, PTL

(* An admin password never outlives its request in a slot.                 *)
THEOREM SecretsStayConfined == Spec => []SecretConfined
<1>1. IInv => SecretConfined
  BY DEF IInv, SecretOK, SecretSlot, SecretConfined
<1>2. QED
  BY <1>1, Inductive, PTL

(* An admin command runs with its own password.                            *)
THEOREM AdminRunsWithItsOwn == Spec => []RunsWithOwnSecret
<1>1. IInv => RunsWithOwnSecret
  BY DEF IInv
<1>2. QED
  BY <1>1, Inductive, PTL

-----------------------------------------------------------------------------
(* The slots implement the promise: every step is a step of SyncCall or    *)
(* leaves its variables alone.                                             *)

StatusOf(n) == IF n > nextId THEN "unused"
               ELSE IF n \in timedOut \cap ran THEN "broken"
               ELSE IF n \in timedOut THEN "timedout"
               ELSE IF answer[n] # 0 THEN "answered"
               ELSE IF n \in ran THEN "ran"
               ELSE "open"

(* Status, pointwise.                                                      *)
LEMMA StatusIs ==
  /\ Status = [n \in Ids |-> StatusOf(n)]
  /\ Status' = [n \in Ids |-> StatusOf(n)']
BY DEF Status, StatusOf

(* A step that changes one status is a move.                               *)
LEMMA StatusMoves ==
  ASSUME NEW n \in Ids, \A m \in Ids : m # n => StatusOf(m)' = StatusOf(m),
         NEW to, StatusOf(n)' = to
  PROVE  Status' = [Status EXCEPT ![n] = to]
BY StatusIs

(* A step that leaves the history alone stutters.                          *)
LEMMA StatusStays ==
  ASSUME UNCHANGED <<nextId, ran, timedOut, answer>>
  PROVE  UNCHANGED <<Status, answer>>
BY StatusIs DEF StatusOf

(* Each action that changes the history is a step of SyncCall.             *)
LEMMA CallStep ==
  ASSUME IInv, NEW c \in Callers, Call(c)
  PROVE  \E n \in Ids : Promise!Begin(n)
<1>0. /\ nextId \in Nat /\ nextId + 1 \in Ids /\ nextId' = nextId + 1
      /\ ran' = ran /\ timedOut' = timedOut /\ answer' = answer
  BY NumberTyped, SlotAssumption, TypeParts DEF IInv, Call, CallTypes, Numbers, history
<1>1. PICK n \in Ids : n = nextId + 1
  BY <1>0
<1>2. n \notin ran /\ n \notin timedOut /\ answer[n] = 0
  BY <1>0, <1>1 DEF IInv, IdsOK
<1>3. \A m \in Ids : m # n => StatusOf(m)' = StatusOf(m)
  BY <1>0, <1>1 DEF StatusOf, Ids
<1>4. StatusOf(n) = "unused" /\ StatusOf(n)' = "open"
  BY <1>0, <1>1, <1>2 DEF StatusOf
<1>5. Status' = [Status EXCEPT ![n] = "open"]
  BY <1>3, <1>4, StatusMoves
<1>6. QED
  BY <1>0, <1>4, <1>5, StatusIs DEF Promise!Begin, Promise!Move

LEMMA TimeOutStep ==
  ASSUME IInv, NEW n \in Ids, n \in 1 .. nextId, n \notin ran, n \notin timedOut, answer[n] = 0,
         timedOut' = timedOut \cup {n}, UNCHANGED <<nextId, ran, answer>>
  PROVE  Promise!TimeOut(n)
<1>0. nextId \in Nat
  BY TypeParts, SlotAssumption DEF IInv, CallTypes, Numbers
<1>1. \A m \in Ids : m # n => StatusOf(m)' = StatusOf(m)
  BY DEF StatusOf
<1>2. StatusOf(n) = "open" /\ StatusOf(n)' = "timedout"
  BY <1>0 DEF StatusOf
<1>3. Status' = [Status EXCEPT ![n] = "timedout"]
  BY <1>1, <1>2, StatusMoves
<1>4. QED
  BY <1>2, <1>3, StatusIs DEF Promise!TimeOut, Promise!Move

LEMMA AnswerStep ==
  ASSUME IInv, NEW n \in Ids, n \in 1 .. nextId, n \in ran, n \notin timedOut, answer[n] = 0,
         answer' = [answer EXCEPT ![n] = n], UNCHANGED <<nextId, ran, timedOut>>
  PROVE  Promise!Answer(n)
<1>0. nextId \in Nat /\ answer \in [Ids -> Numbers] /\ n # 0
  BY TypeParts, SlotAssumption DEF IInv, CallTypes, Numbers, PastTypes, Ids
<1>1. \A m \in Ids : m # n => StatusOf(m)' = StatusOf(m)
  BY <1>0 DEF StatusOf
<1>2. StatusOf(n) = "ran" /\ StatusOf(n)' = "answered"
  BY <1>0 DEF StatusOf
<1>3. Status' = [Status EXCEPT ![n] = "answered"]
  BY <1>1, <1>2, StatusMoves
<1>4. QED
  BY <1>2, <1>3, StatusIs DEF Promise!Answer, Promise!Move

LEMMA RunStep ==
  ASSUME IInv, Run
  PROVE  UNCHANGED <<Status, answer>> \/ \E n \in Ids : Promise!Run(n)
<1>0. PICK d \in Callers :
        /\ cmd.id \in Ids
        /\ cmd.id \in 1 .. nextId
        /\ cmd.id \notin timedOut
        /\ answer[cmd.id] = 0
  BY OwnerRunsItsCall DEF IInv
<1>1. /\ nextId \in Nat /\ ran' = ran \cup {cmd.id}
      /\ UNCHANGED <<nextId, timedOut, answer>>
  BY TypeParts, SlotAssumption DEF IInv, CallTypes, Numbers, Run, callerVars
<1>2. CASE cmd.id \in ran
  BY <1>1, <1>2, StatusStays
<1>3. CASE cmd.id \notin ran
  <2>1. \A m \in Ids : m # cmd.id => StatusOf(m)' = StatusOf(m)
    BY <1>1 DEF StatusOf
  <2>2. StatusOf(cmd.id) = "open" /\ Status[cmd.id] = "open"
    BY <1>0, <1>1, <1>3, StatusIs DEF StatusOf
  <2>3. cmd' = cmd
    BY DEF Run
  <2>4. Status' = [Status EXCEPT ![cmd.id] = "ran"]
    <3>1. StatusOf(cmd.id)' = "ran"
      BY <1>0, <1>1, <2>3 DEF StatusOf
    <3>2. QED
      BY <1>0, <2>1, <2>3, <3>1, StatusIs
  <2>5. Promise!Run(cmd.id)
    BY <1>1, <2>2, <2>4 DEF Promise!Run, Promise!Move
  <2>6. QED
    BY <1>0, <2>5
<1>4. QED
  BY <1>2, <1>3

LEMMA PromiseStep == IInv /\ Next => [Promise!Next]_<<Status, answer>>
<1>. SUFFICES ASSUME IInv, Next PROVE UNCHANGED <<Status, answer>> \/ Promise!Next
  OBVIOUS
<1>. USE DEF Promise!Next
<1>0. \A c \in Callers : Calling(c) =>
        id[c] \in Ids /\ id[c] \in 1 .. nextId /\ id[c] \notin timedOut /\ answer[id[c]] = 0
  BY IdRange DEF IInv, IdsOK, CallId
<1>1. ASSUME NEW c \in Callers,
              CallRefused(c) \/ Claim(c) \/ SkipBusySlot(c) \/ Prepare(c) \/
              Publish(c) \/ StoreSecret(c) \/ Send(c) \/ SendTimeout(c) \/
              Take(c) \/ WaitTimeout(c) \/ Woken(c) \/ Cancel(c) \/ Wipe(c) \/
              CancelLost(c) \/ Await(c) \/ ReadResult(c) \/ DeadlinePasses(c)
      PROVE  UNCHANGED <<Status, answer>> \/ Promise!Next
  BY StatusStays, <1>1
     DEF CallRefused, Claim, SkipBusySlot, Prepare, Publish, StoreSecret,
         Send, SendTimeout, Take, WaitTimeout, Woken, Cancel, Wipe,
         CancelLost, Await, ReadResult, DeadlinePasses, callerVars, history
<1>2. ASSUME NEW c \in Callers, Call(c) PROVE UNCHANGED <<Status, answer>> \/ Promise!Next
  BY <1>2, CallStep
<1>3. ASSUME NEW c \in Callers, NoSlot(c) PROVE UNCHANGED <<Status, answer>> \/ Promise!Next
  <2>1. id[c] \notin ran
    BY <1>3 DEF NoSlot, IInv, RanOK
  <2>2. Promise!TimeOut(id[c])
    BY <1>3, <1>0, <2>1, TimeOutStep DEF NoSlot, Calling, callerVars
  <2>3. QED
    BY <1>3, <1>0, <2>2 DEF NoSlot, Calling
<1>4. ASSUME NEW c \in Callers, ReleaseCancelled(c)
      PROVE  UNCHANGED <<Status, answer>> \/ Promise!Next
  <2>1. id[c] \notin ran
    BY <1>4, Facts DEF ReleaseCancelled, Holds, W, IInv, RanOK, RanSlot
  <2>2. Promise!TimeOut(id[c])
    BY <1>4, <1>0, <2>1, TimeOutStep DEF ReleaseCancelled, Calling
  <2>3. QED
    BY <1>4, <1>0, <2>2 DEF ReleaseCancelled, Calling
<1>5. ASSUME NEW c \in Callers, Return(c) PROVE UNCHANGED <<Status, answer>> \/ Promise!Next
  <2>0. Calling(c) /\ UNCHANGED <<nextId, ran>>
    BY <1>5 DEF Return, Calling
  <2>1. CASE got[c] = 0
    <3>1. id[c] \notin ran
      BY <1>5, <2>1, ReturnsItsOwn DEF Return, IInv
    <3>2. Promise!TimeOut(id[c])
      BY <1>5, <1>0, <2>0, <2>1, <3>1, TimeOutStep DEF Return
    <3>3. QED
      BY <1>0, <2>0, <3>2
  <2>2. CASE got[c] # 0
    <3>1. got[c] = id[c] /\ id[c] \in ran
      BY <1>5, <2>2, ReturnsItsOwn DEF Return, IInv
    <3>2. Promise!Answer(id[c])
      BY <1>5, <1>0, <2>0, <2>2, <3>1, AnswerStep DEF Return
    <3>3. QED
      BY <1>0, <2>0, <3>2
  <2>3. QED
    BY <2>1, <2>2
<1>6. CASE PostAsync \/ Dequeue \/ Match \/ Expire \/ Expired \/ Admit \/
           RunAsync \/ Reply \/ Seal \/ Give
  BY StatusStays, <1>6
     DEF PostAsync, Dequeue, Match, Expire, Expired, Admit, RunAsync, Reply,
         Seal, Give, callerVars, history
<1>7. CASE Run
  BY <1>7, RunStep
<1>8. QED
  BY <1>1, <1>2, <1>3, <1>4, <1>5, <1>6, <1>7
     DEF Next, CallerActs, OwnerActs, CallerStep, OwnerStep

(* Every caller gets what SyncCall promises: its own answer, or a timeout  *)
(* for a command that has not run and never will, for any number of        *)
(* callers, slots and ids.                                                 *)
THEOREM Implements == Spec => PromiseKept
<1>1. Init => Promise!Init
  BY SlotAssumption, StatusIs DEF Init, Promise!Init, StatusOf, Ids
<1>2. IInv /\ [Next]_vars => [Promise!Next]_<<Status, answer>>
  <2>1. UNCHANGED vars => UNCHANGED <<Status, answer>>
    BY StatusStays DEF vars, callerVars, history
  <2>2. QED
    BY <2>1, PromiseStep
<1>3. QED
  BY <1>1, <1>2, Inductive, PTL DEF Spec, PromiseKept, Promise!Spec

============================================================
