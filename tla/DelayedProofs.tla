--------------------------- MODULE DelayedProofs ---------------------------
(***************************************************************************)
(* Proofs about the two delayed queues, for any messages, IDs and callers, *)
(* any finite number of Redis instances and any number of faults.          *)
(***************************************************************************)
EXTENDS MemoryDelayed, RedisDelayed, FiniteSetTheorems, TLAPS
-----------------------------------------------------------------------------
(* The memory queue.  A message is in one place at a time: with its caller *)
(* before ScheduleAdd, in the heap, popped, or appended.  While it waits   *)
(* in the heap its ID has a plan for Cancel to find, unless it is exposed. *)

OnePlace ==
  \A v \in Versions :
    /\ appended[v] <= 1
    /\ outcome[v] \in {"new", "refused"} => appended[v] = 0 /\ v \notin heap /\ firing # v
    /\ v \in heap => appended[v] = 0 /\ firing # v
    /\ firing = v => appended[v] = 0

Scheduling(c) == cpc[c] \in {"replace", "add", "store"}

CallerHolds ==
  \A c \in Callers :
    /\ Scheduling(c) => arg[c] \in Versions /\ outcome[arg[c]] = "called"
    /\ cpc[c] \in {"replace", "add"} =>
         appended[arg[c]] = 0 /\ arg[c] \notin heap /\ firing # arg[c]
    /\ cpc[c] = "cancel" => arg[c] \in Ids

OwnMessage ==
  \A c, d \in Callers : c # d /\ Scheduling(c) /\ Scheduling(d) => arg[c] # arg[d]

Cancelling(i) == \E c \in Callers : cpc[c] = "cancel" /\ arg[c] = i

Findable ==
  /\ stopped => heap = {}
  /\ \A v \in heap \ exposed : outcome[v] = "ok" => IdOf[v] \in plans \/ Cancelling(IdOf[v])

MemoryIInv == /\ MemoryTypeOK /\ OnePlace /\ CallerHolds /\ OwnMessage
              /\ Findable /\ CancelIsFinal

LEMMA MemoryInitial == MemoryInit => MemoryIInv
<1> SUFFICES ASSUME MemoryInit PROVE MemoryIInv
  OBVIOUS
<1> USE DEF MemoryInit
<1>1. MemoryTypeOK
  BY DEF MemoryTypeOK
<1>2. \A v \in Versions : appended[v] = 0 /\ firing # v /\ v \notin heap
  BY NoneIsFresh
<1>3. OnePlace
  <2> SUFFICES ASSUME NEW v \in Versions
               PROVE  /\ appended[v] <= 1
                      /\ outcome[v] \in {"new", "refused"}
                           => appended[v] = 0 /\ v \notin heap /\ firing # v
                      /\ v \in heap => appended[v] = 0 /\ firing # v
                      /\ firing = v => appended[v] = 0
    BY DEF OnePlace
  <2> QED BY ONLY <1>2
<1>4. CallerHolds /\ OwnMessage
  BY DEF CallerHolds, OwnMessage, Scheduling
<1>5. Findable /\ CancelIsFinal
  BY DEF Findable, CancelIsFinal
<1> QED BY <1>1, <1>3, <1>4, <1>5 DEF MemoryIInv

\* One step per action; the parts of MemoryIInv below each.
LEMMA MemoryPreserved == MemoryIInv /\ [MemoryNext]_memoryVars => MemoryIInv'
<1> SUFFICES ASSUME MemoryIInv, [MemoryNext]_memoryVars PROVE MemoryIInv'
  OBVIOUS
<1> USE IdOfVersion, NoneIsFresh DEF MemoryIInv
<1>1. ASSUME NEW c \in Callers, NEW v \in Versions, MemorySchedule(c, v)
      PROVE  MemoryIInv'
  <2> USE <1>1 DEF MemorySchedule, Goto, timer
  <2>0. v # None /\ v \notin heap /\ IdOf[v] \in Ids
    BY DEF MemoryTypeOK, OnePlace
  <2>1. MemoryTypeOK'
    BY DEF MemoryTypeOK
  <2>2. OnePlace'
    BY DEF MemoryTypeOK, OnePlace
  <2>3. CallerHolds' /\ OwnMessage'
    BY DEF MemoryTypeOK, OnePlace, CallerHolds, OwnMessage, Scheduling
  <2>4. Findable'
    BY DEF MemoryTypeOK, CallerHolds, Scheduling, Findable, Cancelling
  <2>5. CancelIsFinal'
    BY DEF MemoryTypeOK, OnePlace, CallerHolds, Findable, CancelIsFinal
  <2> QED BY <2>1, <2>2, <2>3, <2>4, <2>5
<1>2. ASSUME NEW c \in Callers, ScheduleReplace(c) PROVE MemoryIInv'
  <2> USE <1>2 DEF ScheduleReplace, Goto, WithId
  <2>1. MemoryTypeOK'
    BY DEF MemoryTypeOK, CallerHolds, Scheduling
  <2>2. OnePlace'
    BY DEF MemoryTypeOK, OnePlace
  <2>3. CallerHolds' /\ OwnMessage'
    BY DEF MemoryTypeOK, CallerHolds, OwnMessage, Scheduling
  <2>4. Findable'
    BY DEF MemoryTypeOK, CallerHolds, Scheduling, Findable, Cancelling
  <2>5. CancelIsFinal'
    BY DEF MemoryTypeOK, OnePlace, CallerHolds, Findable, CancelIsFinal
  <2> QED BY <2>1, <2>2, <2>3, <2>4, <2>5
<1>3. ASSUME NEW c \in Callers, ScheduleAdd(c) PROVE MemoryIInv'
  <2> USE <1>3 DEF ScheduleAdd, Goto
  <2>0. /\ arg[c] \in Versions /\ outcome[arg[c]] = "called"
        /\ appended[arg[c]] = 0 /\ arg[c] \notin heap /\ firing # arg[c]
    BY DEF CallerHolds, Scheduling
  <2>1. MemoryTypeOK'
    BY <2>0 DEF MemoryTypeOK
  <2>2. OnePlace'
    BY <2>0 DEF MemoryTypeOK, OnePlace
  <2>3. CallerHolds' /\ OwnMessage'
    BY <2>0 DEF MemoryTypeOK, CallerHolds, OwnMessage, Scheduling
  <2>4. Findable'
    BY <2>0 DEF MemoryTypeOK, CallerHolds, Scheduling, Findable, Cancelling
  <2>5. CancelIsFinal'
    BY <2>0 DEF MemoryTypeOK, OnePlace, CallerHolds, Findable, CancelIsFinal
  <2> QED BY <2>1, <2>2, <2>3, <2>4, <2>5
<1>4. ASSUME NEW c \in Callers, ScheduleStore(c) PROVE MemoryIInv'
  <2> USE <1>4 DEF ScheduleStore, Goto, timer
  <2>0. arg[c] \in Versions /\ outcome[arg[c]] = "called"
    BY DEF CallerHolds, Scheduling
  <2>1. MemoryTypeOK'
    BY <2>0 DEF MemoryTypeOK
  <2>2. OnePlace'
    BY <2>0 DEF MemoryTypeOK, OnePlace
  <2>3. CallerHolds' /\ OwnMessage'
    BY <2>0 DEF MemoryTypeOK, CallerHolds, OwnMessage, Scheduling
  <2>4. Findable'
    BY <2>0 DEF MemoryTypeOK, CallerHolds, Scheduling, Findable, Cancelling
  <2>5. CancelIsFinal'
    BY <2>0 DEF MemoryTypeOK, OnePlace, CallerHolds, Findable, CancelIsFinal
  <2> QED BY <2>1, <2>2, <2>3, <2>4, <2>5
<1>5. ASSUME NEW c \in Callers, NEW i \in Ids, MemoryCancel(c, i) PROVE MemoryIInv'
  <2> USE <1>5 DEF MemoryCancel, CancelReturns, Accepted, WithId, Goto, timer
  <2>1. MemoryTypeOK'
    BY DEF MemoryTypeOK
  <2>2. OnePlace'
    BY DEF MemoryTypeOK, OnePlace
  <2>3. CallerHolds' /\ OwnMessage'
    BY DEF MemoryTypeOK, CallerHolds, OwnMessage, Scheduling
  <2>4. Findable'
    BY DEF MemoryTypeOK, CallerHolds, Scheduling, Findable, Cancelling
  <2>5. CancelIsFinal'
    <3>1. CASE i \in plans
      BY <3>1 DEF CancelIsFinal
    <3>2. CASE i \notin plans
      <4> SUFFICES ASSUME NEW v \in Versions, v \notin exposed', outcome'[v] = "cancelled"
                   PROVE  v \notin heap /\ firing # v /\ appended[v] = 0
        BY <3>2 DEF CancelIsFinal
      <4>1. CASE outcome[v] = "cancelled"
        BY <3>2, <4>1 DEF CancelIsFinal
      <4>2. CASE outcome[v] = "ok" /\ IdOf[v] = i /\ appended[v] = 0 /\ firing # v
        BY <3>2, <4>2 DEF Findable, Cancelling
      <4> QED BY <3>2, <4>1, <4>2 DEF MemoryTypeOK
    <3> QED BY <3>1, <3>2
  <2> QED BY <2>1, <2>2, <2>3, <2>4, <2>5
<1>6. ASSUME NEW c \in Callers, CancelRemove(c) PROVE MemoryIInv'
  <2> USE <1>6 DEF CancelRemove, CancelReturns, Goto, WithId
  <2>1. MemoryTypeOK'
    BY DEF MemoryTypeOK
  <2>2. OnePlace'
    BY DEF MemoryTypeOK, OnePlace
  <2>3. CallerHolds' /\ OwnMessage'
    BY DEF MemoryTypeOK, CallerHolds, OwnMessage, Scheduling
  <2>4. Findable'
    BY DEF MemoryTypeOK, CallerHolds, Scheduling, Findable, Cancelling
  <2>5. CancelIsFinal'
    BY DEF MemoryTypeOK, OnePlace, CallerHolds, Findable, CancelIsFinal
  <2> QED BY <2>1, <2>2, <2>3, <2>4, <2>5
<1>7. ASSUME NEW v \in Versions, Pop(v) PROVE MemoryIInv'
  <2> USE <1>7 DEF Pop
  <2>1. MemoryTypeOK' /\ OnePlace' /\ CallerHolds' /\ OwnMessage'
    BY DEF MemoryTypeOK, OnePlace, CallerHolds, OwnMessage, Scheduling
  <2>2. Findable' /\ CancelIsFinal'
    BY DEF MemoryTypeOK, OnePlace, Findable, Cancelling, CancelIsFinal
  <2> QED BY <2>1, <2>2
<1>8. ASSUME CallbackClear PROVE MemoryIInv'
  <2> USE <1>8 DEF CallbackClear, Accepted, WithId
  <2>1. MemoryTypeOK' /\ OnePlace' /\ CallerHolds' /\ OwnMessage'
    BY DEF MemoryTypeOK, OnePlace, CallerHolds, OwnMessage, Scheduling
  <2>2. Findable' /\ CancelIsFinal'
    BY DEF MemoryTypeOK, OnePlace, Findable, Cancelling, CancelIsFinal
  <2> QED BY <2>1, <2>2
<1>9. ASSUME CallbackAppend PROVE MemoryIInv'
  <2> USE <1>9 DEF CallbackAppend
  <2>0. firing \in Versions /\ appended[firing] = 0
    BY DEF MemoryTypeOK, OnePlace
  <2>1. appended' \in [Versions -> Nat]
    BY <2>0 DEF MemoryTypeOK
  <2>2. MemoryTypeOK'
    BY <2>1 DEF MemoryTypeOK
  <2>3. OnePlace'
    BY <2>0 DEF MemoryTypeOK, OnePlace
  <2>4. CallerHolds' /\ OwnMessage'
    BY <2>0 DEF MemoryTypeOK, CallerHolds, OwnMessage, Scheduling
  <2>5. Findable' /\ CancelIsFinal'
    BY <2>0 DEF MemoryTypeOK, OnePlace, Findable, Cancelling, CancelIsFinal
  <2> QED BY <2>2, <2>3, <2>4, <2>5
<1>10. CASE Shutdown \/ ShutdownStopsTimer \/ UNCHANGED memoryVars
  <2> USE <1>10 DEF Shutdown, ShutdownStopsTimer, memoryVars, timer
  <2>1. MemoryTypeOK' /\ OnePlace' /\ CallerHolds' /\ OwnMessage'
    BY DEF MemoryTypeOK, OnePlace, CallerHolds, OwnMessage, Scheduling
  <2>2. Findable' /\ CancelIsFinal'
    BY DEF Findable, Cancelling, CancelIsFinal
  <2> QED BY <2>1, <2>2
<1> QED BY <1>1, <1>2, <1>3, <1>4, <1>5, <1>6, <1>7, <1>8, <1>9, <1>10
        DEF MemoryNext, CallerStep, LoopStep

(* Whoever schedules, replaces, cancels and pops meanwhile: a message that *)
(* Cancel answered for stays out of the timer and is never appended, for   *)
(* while it waits its ID has a plan that Cancel takes before it removes    *)
(* the task, unless an older callback deleted the plan or another Cancel   *)
(* holds it.                                                               *)
THEOREM CancelKept == MemorySpec => [](MemoryTypeOK /\ CancelIsFinal)
<1>1. MemoryIInv => MemoryTypeOK /\ CancelIsFinal
  BY DEF MemoryIInv
<1> QED BY <1>1, MemoryInitial, MemoryPreserved, PTL DEF MemorySpec
-----------------------------------------------------------------------------
(* The Redis queue.                                                        *)

Holders(i) == {d \in Dispatchers : member[d] = i}
Active(i) == {d \in Holders(i) : pc[d] # "appended"}
Readers(v) == {d \in Dispatchers : raw[d] = v}

\* 1 if nobody who works on i owns its lock, so that Claim can let one more in.
Free(i) == IF lock[i] = None \/ Orphaned(i) THEN 1 ELSE 0

\* A plan that a newer one overtook is in overlapped before RemovePlan can take it.
OlderInHand ==
  \A d \in Dispatchers : \A v \in Versions \ overlapped :
    /\ pc[d] = "empty" => payload[member[d]] # v
    /\ pc[d] = "read" /\ payload[member[d]] = v => raw[d] = v
    /\ pc[d] = "appended" /\ payload[member[d]] = v => delivered[v] > 0

OwnId == /\ \A i \in Ids : payload[i] # None => IdOf[payload[i]] = i
         /\ \A d \in Dispatchers : raw[d] # None => IdOf[raw[d]] = member[d]

Untouched ==
  \A v \in Versions : fate[v] = "new" => /\ delivered[v] = 0
                                         /\ \A i \in Ids : payload[i] # v
                                         /\ \A d \in Dispatchers : raw[d] # v

\* Everyone who works on i and everyone who may start to is paid for.
HoldersPaid == \A i \in Ids : Cardinality(Holders(i)) + Free(i) <= 1 + faults

\* So is every delivery of a waiting plan, past and possible.
PlanPaid ==
  \A v \in Versions :
    payload[IdOf[v]] = v =>
      delivered[v] + Cardinality(Active(IdOf[v])) + Free(IdOf[v]) <= 1 + faults

ReadersPaid ==
  \A v \in Versions : delivered[v] + Cardinality(Readers(v)) <= 1 + faults

IInv == /\ TypeOK /\ NothingLost /\ OlderInHand
        /\ OwnId /\ Untouched /\ HoldersPaid /\ PlanPaid /\ ReadersPaid
-----------------------------------------------------------------------------

LEMMA Initial == Init => IInv
<1> SUFFICES ASSUME Init PROVE IInv
  OBVIOUS
<1> USE DEF Init
<1>1. TypeOK
  BY FaultBound DEF TypeOK, Busy
<1>2. NothingLost /\ OlderInHand
  BY DEF NothingLost, OlderInHand
<1>3. OwnId /\ Untouched
  BY IdOfVersion, NoneIsFresh DEF OwnId, Untouched
<1>4. /\ \A i \in Ids : Holders(i) = {} /\ Active(i) = {} /\ Free(i) = 1
      /\ \A v \in Versions : Readers(v) = {}
  BY NoneIsFresh DEF Holders, Active, Readers, Free
<1>5. /\ \A i \in Ids : Cardinality(Holders(i)) = 0
      /\ \A v \in Versions : Cardinality(Readers(v)) = 0 /\ payload[IdOf[v]] # v
  BY <1>4, FS_EmptySet, IdOfVersion, NoneIsFresh
<1>6. HoldersPaid
  BY <1>4, <1>5 DEF HoldersPaid
<1>7. PlanPaid
  BY <1>5 DEF PlanPaid
<1>8. ReadersPaid
  <2> SUFFICES ASSUME NEW v \in Versions
               PROVE  delivered[v] + Cardinality(Readers(v)) <= 1 + faults
    BY DEF ReadersPaid
  <2>1. delivered[v] = 0 /\ faults = 0 /\ Cardinality(Readers(v)) = 0
    BY <1>5
  <2> QED BY ONLY <2>1
<1> QED BY <1>1, <1>2, <1>3, <1>6, <1>7, <1>8 DEF IInv

\* TypeOK, NothingLost and OlderInHand, OwnId and Untouched: no counting.
DataInv == TypeOK /\ NothingLost /\ OlderInHand /\ OwnId /\ Untouched

LEMMA ScheduleData ==
  ASSUME DataInv, NEW v \in Versions, Schedule(v)
  PROVE  DataInv'
<1> DEFINE i == IdOf[v]
<1> USE IdOfVersion, NoneIsFresh DEF DataInv, Schedule, Withdraw, AboutToRemove, dispatcher
<1>0. i \in Ids /\ None \notin Versions
  OBVIOUS
<1>1. TypeOK'
  BY <1>0 DEF TypeOK
<1>2. NothingLost'
  BY <1>0 DEF TypeOK, NothingLost, Waiting
<1>3. OlderInHand'
  BY <1>0 DEF TypeOK, OlderInHand, Busy
<1>4. OwnId' /\ Untouched'
  BY <1>0 DEF TypeOK, OwnId, Untouched
<1> QED BY <1>1, <1>2, <1>3, <1>4

LEMMA CancelData ==
  ASSUME DataInv, NEW i \in Ids, Cancel(i)
  PROVE  DataInv'
<1> USE NoneIsFresh DEF DataInv, Cancel, Withdraw, dispatcher
<1>1. TypeOK'
  BY DEF TypeOK
<1>2. NothingLost'
  BY DEF TypeOK, NothingLost, Waiting
<1>3. OlderInHand'
  BY DEF TypeOK, OlderInHand, Busy
<1>4. OwnId' /\ Untouched'
  BY DEF TypeOK, OwnId, Untouched
<1> QED BY <1>1, <1>2, <1>3, <1>4

LEMMA DispatchData ==
  ASSUME DataInv, NEW d \in Dispatchers, DispatchStep(d)
  PROVE  DataInv'
<1> USE NoneIsFresh DEF DataInv, redis, history, dispatcher, Busy
<1>1. CASE Scan(d) \/ EndOfBatch(d) \/ Unlock(d)
  <2> USE <1>1 DEF Scan, EndOfBatch, Unlock
  <2>1. TypeOK'
    BY DEF TypeOK
  <2>2. NothingLost'
    BY DEF TypeOK, NothingLost, Waiting
  <2>3. OlderInHand'
    BY DEF TypeOK, OlderInHand
  <2>4. OwnId' /\ Untouched'
    BY DEF TypeOK, OwnId, Untouched
  <2> QED BY <2>1, <2>2, <2>3, <2>4
<1>2. ASSUME NEW i \in Ids, Claim(d, i) PROVE DataInv'
  <2> USE <1>2 DEF Claim
  <2>1. TypeOK'
    BY DEF TypeOK
  <2>2. NothingLost'
    BY DEF TypeOK, NothingLost, Waiting
  <2>3. OlderInHand'
    BY DEF TypeOK, OlderInHand
  <2>4. OwnId' /\ Untouched'
    BY DEF TypeOK, OwnId, Untouched
  <2> QED BY <2>1, <2>2, <2>3, <2>4
<1>3. CASE Read(d)
  <2> USE <1>3 DEF Read
  <2>0. member[d] \in Ids
    BY DEF TypeOK
  <2>1. TypeOK'
    BY <2>0 DEF TypeOK
  <2>2. NothingLost'
    BY <2>0 DEF TypeOK, NothingLost, Waiting
  <2>3. OlderInHand'
    BY <2>0 DEF TypeOK, OlderInHand
  <2>4. OwnId' /\ Untouched'
    BY <2>0 DEF TypeOK, OwnId, Untouched
  <2> QED BY <2>1, <2>2, <2>3, <2>4
<1>4. CASE AppendToStream(d)
  <2> USE <1>4 DEF AppendToStream
  <2>0. raw[d] \in Versions
    BY DEF TypeOK
  <2>1. TypeOK'
    BY <2>0 DEF TypeOK
  <2>2. NothingLost'
    BY <2>0 DEF TypeOK, NothingLost, Waiting
  <2>3. OlderInHand'
    BY <2>0 DEF TypeOK, OlderInHand
  <2>4. OwnId' /\ Untouched'
    BY <2>0 DEF TypeOK, OwnId, Untouched
  <2> QED BY <2>1, <2>2, <2>3, <2>4
<1>5. CASE RemovePlan(d)
  <2> USE <1>5 DEF RemovePlan
  <2>0. member[d] \in Ids
    BY DEF TypeOK
  <2>1. TypeOK'
    BY <2>0 DEF TypeOK
  <2>2. NothingLost'
    BY <2>0 DEF TypeOK, NothingLost, OlderInHand, Waiting
  <2>3. OlderInHand'
    BY <2>0 DEF TypeOK, OlderInHand
  <2>4. OwnId' /\ Untouched'
    BY <2>0 DEF TypeOK, OwnId, Untouched
  <2> QED BY <2>1, <2>2, <2>3, <2>4
<1>6. CASE DropScore(d)
  <2> USE <1>6 DEF DropScore
  <2>0. member[d] \in Ids
    BY DEF TypeOK
  <2>1. TypeOK'
    BY <2>0 DEF TypeOK
  <2>2. NothingLost'
    BY <2>0 DEF TypeOK, NothingLost, OlderInHand, Waiting
  <2>3. OlderInHand'
    BY <2>0 DEF TypeOK, OlderInHand
  <2>4. OwnId' /\ Untouched'
    BY <2>0 DEF TypeOK, OwnId, Untouched
  <2> QED BY <2>1, <2>2, <2>3, <2>4
<1> QED BY <1>1, <1>2, <1>3, <1>4, <1>5, <1>6 DEF DispatchStep

LEMMA FaultData ==
  ASSUME DataInv,
         \/ \E d \in Dispatchers : Fail(d)
         \/ \E i \in Ids : ComeDue(i) \/ LockExpires(i)
         \/ UNCHANGED vars
  PROVE  DataInv'
<1> USE FaultBound, NoneIsFresh DEF DataInv, redis, history, dispatcher, Busy
<1>1. ASSUME NEW d \in Dispatchers, Fail(d) PROVE DataInv'
  <2> USE <1>1 DEF Fail
  <2>1. TypeOK'
    BY DEF TypeOK
  <2>2. NothingLost'
    BY DEF TypeOK, NothingLost, Waiting
  <2>3. OlderInHand'
    BY DEF TypeOK, OlderInHand
  <2>4. OwnId' /\ Untouched'
    BY DEF TypeOK, OwnId, Untouched
  <2> QED BY <2>1, <2>2, <2>3, <2>4
<1>2. ASSUME NEW i \in Ids, ComeDue(i) \/ LockExpires(i) PROVE DataInv'
  <2> USE <1>2 DEF ComeDue, LockExpires
  <2>1. TypeOK'
    BY DEF TypeOK
  <2>2. NothingLost' /\ OlderInHand'
    BY DEF NothingLost, Waiting, OlderInHand
  <2>3. OwnId' /\ Untouched'
    BY DEF OwnId, Untouched
  <2> QED BY <2>1, <2>2, <2>3
<1>3. CASE UNCHANGED vars
  BY <1>3 DEF vars, TypeOK, NothingLost, Waiting, OlderInHand, OwnId, Untouched
<1> QED BY <1>1, <1>2, <1>3
-----------------------------------------------------------------------------
(* Counting dispatchers. *)

LEMMA Sizes ==
  /\ \A S \in SUBSET Dispatchers : IsFiniteSet(S) /\ Cardinality(S) \in Nat
  /\ \A T \in SUBSET Dispatchers : \A S \in SUBSET T : Cardinality(S) <= Cardinality(T)
  /\ \A S \in SUBSET Dispatchers : \A d \in Dispatchers \ S :
       Cardinality(S \cup {d}) = Cardinality(S) + 1
  /\ \A S \in SUBSET Dispatchers : \A d \in S :
       Cardinality(S \ {d}) = Cardinality(S) - 1
<1>1. \A S \in SUBSET Dispatchers : IsFiniteSet(S) /\ Cardinality(S) \in Nat
  BY InstancesAreFinite, FS_Subset, FS_CardinalityType
<1> QED BY <1>1, FS_Subset, FS_AddElement, FS_RemoveElement

LEMMA Sets ==
  /\ \A i : Holders(i) \in SUBSET Dispatchers /\ Active(i) \in SUBSET Holders(i)
  /\ \A i : Active(i) \in SUBSET Dispatchers /\ Free(i) \in 0..1
  /\ \A v : Readers(v) \in SUBSET Dispatchers
BY DEF Holders, Active, Readers, Free

PaidInv == HoldersPaid /\ PlanPaid /\ ReadersPaid

\* A step that delivers nothing and stores no plan pays with e faults for
\* e more dispatchers that work on an ID or may start to.
LEMMA PaidByFaults ==
  ASSUME TypeOK, PaidInv, NEW e \in 0..1, faults' = faults + e,
         UNCHANGED delivered,
         \A i \in Ids :
           /\ payload'[i] \in {payload[i], None}
           /\ Cardinality(Holders(i)') + Free(i)' <= Cardinality(Holders(i)) + Free(i) + e
           /\ payload'[i] # None =>
                Cardinality(Active(i)') + Free(i)' <= Cardinality(Active(i)) + Free(i) + e,
         \A v \in Versions : Cardinality(Readers(v)') <= Cardinality(Readers(v))
  PROVE  PaidInv'
<1>1. faults \in Nat /\ delivered \in [Versions -> Nat]
  BY FaultBound DEF TypeOK
<1>2. /\ \A i : Cardinality(Holders(i)) \in Nat /\ Cardinality(Active(i)) \in Nat
      /\ \A i : Cardinality(Holders(i)') \in Nat /\ Cardinality(Active(i)') \in Nat
      /\ \A i : Free(i) \in 0..1 /\ Free(i)' \in 0..1
      /\ \A v : Cardinality(Readers(v)) \in Nat /\ Cardinality(Readers(v)') \in Nat
  <2>1. /\ \A i : Holders(i)' \in SUBSET Dispatchers /\ Active(i)' \in SUBSET Dispatchers
        /\ \A i : Free(i)' \in 0..1
        /\ \A v : Readers(v)' \in SUBSET Dispatchers
    BY DEF Holders, Active, Readers, Free
  <2> QED BY <2>1, Sizes, Sets
<1>3. HoldersPaid'
  BY <1>1, <1>2 DEF PaidInv, HoldersPaid
<1>4. PlanPaid'
  <2> SUFFICES ASSUME NEW v \in Versions, payload'[IdOf[v]] = v
               PROVE  delivered[v] + Cardinality(Active(IdOf[v])') + Free(IdOf[v])' <= 1 + faults'
    BY DEF PlanPaid
  <2>1. IdOf[v] \in Ids /\ payload[IdOf[v]] = v /\ payload'[IdOf[v]] # None
    BY IdOfVersion, NoneIsFresh
  <2>2. delivered[v] + Cardinality(Active(IdOf[v])) + Free(IdOf[v]) <= 1 + faults
    BY <2>1 DEF PaidInv, PlanPaid
  <2> QED BY <1>1, <1>2, <2>1, <2>2
<1>5. ReadersPaid'
  BY <1>1, <1>2 DEF PaidInv, ReadersPaid
<1> QED BY <1>3, <1>4, <1>5 DEF PaidInv

LEMMA SchedulePaid ==
  ASSUME DataInv, PaidInv, NEW v \in Versions, Schedule(v)
  PROVE  PaidInv'
<1> DEFINE i == IdOf[v]
<1> USE DEF Schedule, dispatcher
<1>1. /\ i \in Ids /\ faults \in Nat /\ delivered \in [Versions -> Nat]
      /\ payload \in [Ids -> Versions \cup {None}] /\ delivered[v] = 0
  BY IdOfVersion, FaultBound DEF DataInv, TypeOK, Untouched
<1>2. /\ UNCHANGED <<delivered, faults>>
      /\ \A j : UNCHANGED <<Holders(j), Active(j), Free(j)>>
      /\ \A w : UNCHANGED Readers(w)
  BY DEF Holders, Active, Free, Orphaned, Readers
<1>3. HoldersPaid' /\ ReadersPaid'
  BY <1>2 DEF PaidInv, HoldersPaid, ReadersPaid
<1>4. PlanPaid'
  <2> SUFFICES ASSUME NEW w \in Versions, payload'[IdOf[w]] = w
               PROVE  delivered[w] + Cardinality(Active(IdOf[w])) + Free(IdOf[w]) <= 1 + faults
    BY <1>2 DEF PlanPaid
  <2>1. CASE w = v
    <3>1. /\ Cardinality(Active(i)) \in Nat /\ Cardinality(Holders(i)) \in Nat
          /\ Cardinality(Active(i)) <= Cardinality(Holders(i)) /\ Free(i) \in 0..1
      BY Sizes, Sets
    <3>2. Cardinality(Holders(i)) + Free(i) <= 1 + faults
      BY <1>1 DEF PaidInv, HoldersPaid
    <3> QED BY <1>1, <2>1, <3>1, <3>2
  <2>2. CASE w # v
    <3>1. payload[IdOf[w]] = w
      BY <1>1, <2>2, IdOfVersion
    <3> QED BY <3>1 DEF PaidInv, PlanPaid
  <2> QED BY <2>1, <2>2
<1> QED BY <1>3, <1>4 DEF PaidInv

LEMMA CancelPaid ==
  ASSUME DataInv, PaidInv, NEW i \in Ids, Cancel(i) \/ ComeDue(i)
  PROVE  PaidInv'
<1>1. /\ UNCHANGED <<member, pc, lock, raw, delivered, faults>>
      /\ \A j \in Ids : payload'[j] \in {payload[j], None}
  BY DEF Cancel, ComeDue, dispatcher, history, DataInv, TypeOK
<1>2. /\ \A j : UNCHANGED <<Holders(j), Active(j), Free(j)>>
      /\ \A w : UNCHANGED Readers(w)
  BY <1>1 DEF Holders, Active, Free, Orphaned, Readers
<1>3. faults \in Nat /\ \A j : Free(j) \in 0..1
  BY Sets, FaultBound DEF DataInv, TypeOK
<1>4. TypeOK
  BY DEF DataInv
<1>5. \A S \in SUBSET Dispatchers : Cardinality(S) \in Nat
  BY Sizes
<1> QED BY <1>1, <1>2, <1>3, <1>4, <1>5, Sets, PaidByFaults

\* Whoever starts on an ID takes the one place its lock had free.
LEMMA ClaimPaid ==
  ASSUME DataInv, PaidInv, NEW d \in Dispatchers, NEW i \in Ids, Claim(d, i)
  PROVE  PaidInv'
<1> USE DEF Claim, redis, history
<1>0. TypeOK /\ faults \in Nat
  BY FaultBound DEF DataInv, TypeOK
<1>1. /\ UNCHANGED <<payload, raw, delivered, faults>> /\ pc[d] = "scan" /\ member[d] = None
      /\ \A w : UNCHANGED Readers(w)
  BY DEF DataInv, TypeOK, Busy, Readers
<1>2. /\ \A j : Cardinality(Holders(j)) \in Nat /\ Cardinality(Active(j)) \in Nat
      /\ \A j : Free(j) \in 0..1
      /\ \A w : Cardinality(Readers(w)) \in Nat
  BY Sizes, Sets
<1>3. CASE lock[i] # None
  <2>1. \A j : UNCHANGED <<Holders(j), Active(j), Free(j)>>
    BY <1>3 DEF Holders, Active, Free, Orphaned
  <2> QED BY <1>0, <1>1, <1>2, <2>1, PaidByFaults
<1>4. CASE lock[i] = None
  <2>0. None \notin Ids /\ None \notin Dispatchers
    BY NoneIsFresh, InstancesAreFinite
  <2>1. /\ d \notin Holders(i) /\ d \notin Active(i)
        /\ Holders(i)' = Holders(i) \cup {d}
        /\ Active(i)' = Active(i) \cup {d}
    BY <1>0, <1>1, <1>4, <2>0 DEF TypeOK, Holders, Active
  <2>2. Free(i) = 1 /\ Free(i)' = 0
    BY <1>0, <1>4, <2>0 DEF TypeOK, Free, Orphaned
  <2>3. \A j \in Ids \ {i} : UNCHANGED <<Holders(j), Active(j), Free(j)>>
    BY <1>0, <1>1, <1>4, <2>0 DEF TypeOK, Holders, Active, Free, Orphaned
  <2>4. /\ Cardinality(Holders(i)') = Cardinality(Holders(i)) + 1
        /\ Cardinality(Active(i)') = Cardinality(Active(i)) + 1
    BY <2>1, Sizes, Sets
  <2> QED BY <1>0, <1>1, <1>2, <2>2, <2>3, <2>4, PaidByFaults
<1> QED BY <1>3, <1>4

LEMMA PollPaid ==
  ASSUME DataInv, PaidInv, NEW d \in Dispatchers, Scan(d) \/ EndOfBatch(d)
  PROVE  PaidInv'
<1>0. TypeOK /\ faults \in Nat /\ None \notin Ids
  BY FaultBound, NoneIsFresh DEF DataInv, TypeOK
<1>1. /\ UNCHANGED <<member, lock, raw, payload, delivered, faults>>
      /\ member[d] = None /\ \A c \in Dispatchers \ {d} : pc'[c] = pc[c]
  BY <1>0 DEF Scan, EndOfBatch, redis, history, TypeOK, Busy
<1>2. /\ \A j \in Ids : UNCHANGED <<Holders(j), Active(j), Free(j)>>
      /\ \A w : UNCHANGED Readers(w)
  BY <1>0, <1>1 DEF Holders, Active, Free, Orphaned, Readers
<1>3. /\ \A j : Cardinality(Holders(j)) \in Nat /\ Cardinality(Active(j)) \in Nat
      /\ \A j : Free(j) \in 0..1
      /\ \A w : Cardinality(Readers(w)) \in Nat
  BY Sizes, Sets
<1> QED BY <1>0, <1>1, <1>2, <1>3, PaidByFaults

\* The reader of a plan was among those its deliveries were paid for.
LEMMA ReadPaid ==
  ASSUME DataInv, PaidInv, NEW d \in Dispatchers, Read(d)
  PROVE  PaidInv'
<1> DEFINE i == member[d]
<1> DEFINE v == payload[i]
<1> USE DEF Read, redis, history
<1>0. /\ TypeOK /\ faults \in Nat /\ None \notin Ids /\ None \notin Versions
      /\ i \in Ids /\ raw[d] = None /\ pc[d] = "claimed"
      /\ delivered \in [Versions -> Nat]
  BY FaultBound, NoneIsFresh DEF DataInv, TypeOK, Busy
<1>1. /\ UNCHANGED <<payload, delivered, faults>>
      /\ \A j : UNCHANGED <<Holders(j), Active(j), Free(j)>>
  BY <1>0 DEF TypeOK, Holders, Active, Free, Orphaned
<1>2. /\ \A j : Cardinality(Holders(j)) \in Nat /\ Cardinality(Active(j)) \in Nat
      /\ \A j : Free(j) \in 0..1
      /\ \A w : Cardinality(Readers(w)) \in Nat
  BY Sizes, Sets
<1>3. CASE v = None
  <2>1. \A w : UNCHANGED Readers(w)
    BY <1>0, <1>3 DEF TypeOK, Readers
  <2> QED BY <1>0, <1>1, <1>2, <2>1, PaidByFaults
<1>4. CASE v # None
  <2>1. v \in Versions /\ IdOf[v] = i
    BY <1>0, <1>4 DEF DataInv, TypeOK, OwnId
  <2>2. Readers(v)' = Readers(v) \cup {d} /\ d \notin Readers(v)
    BY <1>0, <1>4, <2>1 DEF TypeOK, Readers
  <2>3. \A w \in Versions \ {v} : UNCHANGED Readers(w)
    BY <1>0, <1>4 DEF TypeOK, Readers
  <2>4. Readers(v) \cup {d} \in SUBSET Active(i)
    BY <1>0, <2>1 DEF DataInv, TypeOK, OwnId, Readers, Active, Holders
  <2>5. delivered[v] + Cardinality(Active(i)) + Free(i) <= 1 + faults
    BY <2>1 DEF PaidInv, PlanPaid
  <2>6. Cardinality(Readers(v)') <= Cardinality(Active(i))
    BY <2>2, <2>4, Sizes, Sets
  <2>7. Cardinality(Readers(v)') \in Nat
    BY <2>2, Sizes, Sets
  <2>8. ReadersPaid'
    <3> SUFFICES ASSUME NEW w \in Versions
                 PROVE  delivered[w] + Cardinality(Readers(w)') <= 1 + faults
      BY <1>1 DEF ReadersPaid
    <3>1. CASE w = v
      BY <1>0, <1>2, <2>1, <2>5, <2>6, <2>7, <3>1
    <3>2. CASE w # v
      BY <2>3, <3>2 DEF PaidInv, ReadersPaid
    <3> QED BY <3>1, <3>2
  <2>9. HoldersPaid' /\ PlanPaid'
    BY <1>1 DEF PaidInv, HoldersPaid, PlanPaid
  <2> QED BY <2>8, <2>9 DEF PaidInv
<1> QED BY <1>3, <1>4

\* A delivery leaves one dispatcher less that could deliver.
LEMMA AppendPaid ==
  ASSUME DataInv, PaidInv, NEW d \in Dispatchers, AppendToStream(d)
  PROVE  PaidInv'
<1> USE DEF AppendToStream, redis
<1> PICK v \in Versions, i \in Ids : v = raw[d] /\ i = member[d]
  BY NoneIsFresh DEF DataInv, TypeOK, Busy
<1>0. /\ None \notin Versions /\ IdOf[v] = i
      /\ faults \in Nat /\ delivered \in [Versions -> Nat] /\ pc[d] = "read"
  BY FaultBound, NoneIsFresh DEF DataInv, TypeOK, OwnId, Busy
<1>1. /\ UNCHANGED <<payload, faults>>
      /\ \A j : UNCHANGED <<Holders(j), Free(j)>>
      /\ \A j \in Ids \ {i} : UNCHANGED Active(j)
  BY <1>0 DEF DataInv, TypeOK, Holders, Active, Free, Orphaned
<1>2. /\ d \in Active(i) /\ Active(i)' = Active(i) \ {d}
      /\ d \in Readers(v) /\ Readers(v)' = Readers(v) \ {d}
      /\ \A w \in Versions \ {v} : UNCHANGED Readers(w)
  BY <1>0 DEF DataInv, TypeOK, Holders, Active, Readers
<1>3. /\ \A j : Cardinality(Active(j)) \in Nat /\ Free(j) \in 0..1
      /\ \A w : Cardinality(Readers(w)) \in Nat
      /\ Cardinality(Active(i)') = Cardinality(Active(i)) - 1
      /\ Cardinality(Readers(v)') = Cardinality(Readers(v)) - 1
  BY <1>2, Sizes, Sets
<1>4. delivered'[v] = delivered[v] + 1 /\ \A w \in Versions \ {v} : delivered'[w] = delivered[w]
  BY <1>0
<1>5. HoldersPaid'
  BY <1>1 DEF PaidInv, HoldersPaid
<1>6. PlanPaid'
  <2> SUFFICES ASSUME NEW w \in Versions, payload[IdOf[w]] = w
               PROVE  delivered'[w] + Cardinality(Active(IdOf[w])') + Free(IdOf[w]) <= 1 + faults
    BY <1>1 DEF PlanPaid
  <2>1. /\ delivered[w] + Cardinality(Active(IdOf[w])) + Free(IdOf[w]) <= 1 + faults
        /\ IdOf[w] \in Ids /\ delivered[w] \in Nat
    BY <1>0, IdOfVersion DEF PaidInv, PlanPaid
  <2>2. CASE w = v
    BY <1>0, <1>3, <1>4, <2>1, <2>2
  <2>3. CASE w # v
    BY <1>0, <1>1, <1>3, <1>4, <2>1, <2>3
  <2> QED BY <2>2, <2>3
<1>7. ReadersPaid'
  <2> SUFFICES ASSUME NEW w \in Versions
               PROVE  delivered'[w] + Cardinality(Readers(w)') <= 1 + faults
    BY <1>1 DEF ReadersPaid
  <2>1. delivered[w] + Cardinality(Readers(w)) <= 1 + faults /\ delivered[w] \in Nat
    BY <1>0 DEF PaidInv, ReadersPaid
  <2>2. CASE w = v
    BY <1>0, <1>3, <1>4, <2>1, <2>2
  <2>3. CASE w # v
    BY <1>0, <1>2, <1>4, <2>1, <2>3
  <2> QED BY <2>2, <2>3
<1> QED BY <1>5, <1>6, <1>7 DEF PaidInv

LEMMA DropPaid ==
  ASSUME DataInv, PaidInv, NEW d \in Dispatchers, DropScore(d)
  PROVE  PaidInv'
<1>0. TypeOK /\ faults \in Nat
  BY FaultBound DEF DataInv, TypeOK
<1>1. /\ UNCHANGED <<payload, delivered, faults>>
      /\ \A j : UNCHANGED <<Holders(j), Active(j), Free(j)>>
      /\ \A w : UNCHANGED Readers(w)
  BY <1>0 DEF DropScore, history, TypeOK, Holders, Active, Free, Orphaned, Readers
<1>2. /\ \A j : Cardinality(Holders(j)) \in Nat /\ Cardinality(Active(j)) \in Nat
      /\ \A j : Free(j) \in 0..1
      /\ \A w : Cardinality(Readers(w)) \in Nat
  BY Sizes, Sets
<1> QED BY <1>0, <1>1, <1>2, PaidByFaults

LEMMA RemovePaid ==
  ASSUME DataInv, PaidInv, NEW d \in Dispatchers, RemovePlan(d)
  PROVE  PaidInv'
<1> USE DEF RemovePlan, history
<1>0. /\ TypeOK /\ faults \in Nat /\ member[d] \in Ids
      /\ \A j \in Ids : payload'[j] \in {payload[j], None}
      /\ payload'[member[d]] = None
  BY FaultBound, NoneIsFresh DEF DataInv, TypeOK, Busy
<1>1. /\ UNCHANGED <<delivered, faults>>
      /\ \A j : UNCHANGED <<Holders(j), Free(j)>>
      /\ \A w : UNCHANGED Readers(w)
  BY DEF Holders, Free, Orphaned, Readers
<1>2. \A j \in Ids : payload'[j] # None => UNCHANGED Active(j)
  BY <1>0 DEF TypeOK, Holders, Active
<1>3. /\ \A j : Cardinality(Holders(j)) \in Nat /\ Cardinality(Active(j)) \in Nat
      /\ \A j : Free(j) \in 0..1
      /\ \A w : Cardinality(Readers(w)) \in Nat
  BY Sizes, Sets
<1> QED BY <1>0, <1>1, <1>2, <1>3, PaidByFaults

\* The lock is given back with the place of its holder.
LEMMA UnlockPaid ==
  ASSUME DataInv, PaidInv, NEW d \in Dispatchers, Unlock(d)
  PROVE  PaidInv'
<1> USE DEF Unlock, redis, history
<1>0. /\ TypeOK /\ faults \in Nat /\ None \notin Ids
  BY FaultBound, NoneIsFresh DEF DataInv, TypeOK
<1> PICK i \in Ids : i = member[d]
  BY <1>0 DEF TypeOK, Busy
<1>1. /\ UNCHANGED <<payload, delivered, faults>>
      /\ \A w : UNCHANGED Readers(w)
  BY DEF Readers
<1>2. /\ d \in Holders(i) /\ Holders(i)' = Holders(i) \ {d}
      /\ d \in Active(i) /\ Active(i)' = Active(i) \ {d}
  BY <1>0 DEF TypeOK, Holders, Active
<1>3. \A j \in Ids \ {i} : UNCHANGED <<Holders(j), Active(j), Free(j)>>
  BY <1>0 DEF TypeOK, Holders, Active, Free, Orphaned
<1>4. /\ \A j : Cardinality(Holders(j)) \in Nat /\ Cardinality(Active(j)) \in Nat
      /\ \A j : Free(j) \in 0..1
      /\ \A w : Cardinality(Readers(w)) \in Nat
      /\ Cardinality(Holders(i)') = Cardinality(Holders(i)) - 1
      /\ Cardinality(Active(i)') = Cardinality(Active(i)) - 1
  BY <1>2, Sizes, Sets
<1>5. Free(i)' \in 0..1
  BY DEF Free
<1> QED BY <1>0, <1>1, <1>3, <1>4, <1>5, PaidByFaults

\* A failed round may free its lock, and is a fault.
LEMMA FailPaid ==
  ASSUME DataInv, PaidInv, NEW d \in Dispatchers, Fail(d)
  PROVE  PaidInv'
<1> USE DEF Fail, redis, history
<1>0. /\ TypeOK /\ faults \in Nat /\ None \notin Ids /\ None \notin Versions
      /\ faults' = faults + 1
  BY FaultBound, NoneIsFresh DEF DataInv, TypeOK
<1> PICK i \in Ids : i = member[d]
  BY <1>0 DEF TypeOK
<1>1. /\ UNCHANGED <<payload, delivered>>
      /\ \A w \in Versions : Readers(w)' \in SUBSET Readers(w)
  BY <1>0 DEF Readers, TypeOK
<1>2. \A j \in Ids : Holders(j)' \in SUBSET Holders(j) /\ Active(j)' \in SUBSET Active(j)
  BY <1>0 DEF TypeOK, Holders, Active
<1>3. \A j \in Ids \ {i} : UNCHANGED Free(j)
  BY <1>0 DEF TypeOK, Free, Orphaned
<1>4. /\ \A j : Cardinality(Holders(j)) \in Nat /\ Cardinality(Active(j)) \in Nat
      /\ \A j : Free(j) \in 0..1
      /\ \A w : Cardinality(Readers(w)) \in Nat
      /\ \A j \in Ids : Cardinality(Holders(j)') <= Cardinality(Holders(j))
      /\ \A j \in Ids : Cardinality(Active(j)') <= Cardinality(Active(j))
      /\ \A w \in Versions : Cardinality(Readers(w)') <= Cardinality(Readers(w))
  BY <1>1, <1>2, Sizes, Sets
<1>5. /\ Free(i)' \in 0..1
      /\ \A j \in Ids : Cardinality(Holders(j)') \in Nat /\ Cardinality(Active(j)') \in Nat
  <2>1. \A j \in Ids : Holders(j)' \in SUBSET Dispatchers /\ Active(j)' \in SUBSET Dispatchers
    BY <1>2, Sets
  <2> QED BY <2>1, Sizes DEF Free
<1>6. \A j \in Ids :
        /\ Cardinality(Holders(j)') + Free(j)' <= Cardinality(Holders(j)) + Free(j) + 1
        /\ Cardinality(Active(j)') + Free(j)' <= Cardinality(Active(j)) + Free(j) + 1
  <2> SUFFICES ASSUME NEW j \in Ids
               PROVE  Free(j)' \in 0..1 /\ Free(j)' <= Free(j) + 1
    BY <1>4, <1>5
  <2> QED BY <1>3, <1>4, <1>5
<1> QED BY <1>0, <1>1, <1>4, <1>6, PaidByFaults

\* Only the lock of a live holder costs a fault when it expires.
LEMMA ExpiryPaid ==
  ASSUME DataInv, PaidInv, NEW i \in Ids, LockExpires(i)
  PROVE  PaidInv'
<1> USE DEF LockExpires, redis, dispatcher, history
<1>0. TypeOK /\ faults \in Nat
  BY FaultBound DEF DataInv, TypeOK
<1>1. /\ UNCHANGED <<payload, delivered>>
      /\ \A j : UNCHANGED <<Holders(j), Active(j)>>
      /\ \A w : UNCHANGED Readers(w)
  BY DEF Holders, Active, Readers
<1>2. Free(i)' = 1 /\ \A j \in Ids \ {i} : UNCHANGED Free(j)
  BY <1>0 DEF TypeOK, Free, Orphaned
<1>3. /\ \A j : Cardinality(Holders(j)) \in Nat /\ Cardinality(Active(j)) \in Nat
      /\ \A j : Free(j) \in 0..1
      /\ \A w : Cardinality(Readers(w)) \in Nat
  BY Sizes, Sets
<1>4. CASE Orphaned(i) /\ UNCHANGED faults
  <2>1. Free(i) = 1
    BY <1>4 DEF Free
  <2> QED BY <1>0, <1>1, <1>2, <1>3, <1>4, <2>1, PaidByFaults
<1>5. CASE faults' = faults + 1
  BY <1>0, <1>1, <1>2, <1>3, <1>5, PaidByFaults
<1> QED BY <1>4, <1>5

LEMMA Preserved == IInv /\ [Next]_vars => IInv'
<1> SUFFICES ASSUME IInv, [Next]_vars PROVE IInv'
  OBVIOUS
<1>1. DataInv /\ PaidInv
  BY DEF IInv, DataInv, PaidInv
<1>2. DataInv'
  BY <1>1, ScheduleData, CancelData, DispatchData, FaultData DEF Next
<1>3. PaidInv'
  <2>1. CASE UNCHANGED vars
    BY <1>1, <2>1 DEF vars, redis, dispatcher, history, PaidInv, HoldersPaid, PlanPaid,
                      ReadersPaid, Holders, Active, Readers, Free, Orphaned
  <2>2. ASSUME NEW d \in Dispatchers, DispatchStep(d) PROVE PaidInv'
    BY <1>1, <2>2, PollPaid, ClaimPaid, ReadPaid, DropPaid, AppendPaid, RemovePaid, UnlockPaid
       DEF DispatchStep
  <2> QED BY <1>1, <2>1, <2>2, SchedulePaid, CancelPaid, FailPaid, ExpiryPaid DEF Next
<1> QED BY <1>2, <1>3 DEF IInv, DataInv, PaidInv

LEMMA Invariance == Spec => []IInv
BY Initial, Preserved, PTL DEF Spec

(* No crash, error or expired lock loses a plan: RemovePlan takes only     *)
(* what AppendToStream has delivered and DropScore only a score without a  *)
(* payload, or what was stored after the HGet before them.                 *)
THEOREM PlansKept == Spec => [](TypeOK /\ NothingLost)
<1>1. IInv => TypeOK /\ NothingLost
  BY DEF IInv
<1> QED BY <1>1, Invariance, PTL

(* However many instances poll one set of plans, the SET NX lock keeps     *)
(* them from delivering a message more often than faults explain.          *)
THEOREM DeliveriesPaid == Spec => []DuplicatesNeedFaults
<1>1. IInv => DuplicatesNeedFaults
  <2> SUFFICES ASSUME IInv, NEW v \in Versions PROVE delivered[v] <= 1 + faults
    BY DEF DuplicatesNeedFaults
  <2>1. delivered[v] \in Nat /\ faults \in Nat
    BY FaultBound DEF IInv, TypeOK
  <2>2. Cardinality(Readers(v)) \in Nat
    BY Sizes, Sets
  <2>3. delivered[v] + Cardinality(Readers(v)) <= 1 + faults
    BY DEF IInv, ReadersPaid
  <2> QED BY <2>1, <2>2, <2>3
<1> QED BY <1>1, Invariance, PTL
=============================================================================
