---------------------------- MODULE LockerProofs ----------------------------
(***************************************************************************)
(* Proofs about the lockers, for any goroutines, keys, addresses, leases   *)
(* and terms.  In the memory locker a map entry lives while somebody is    *)
(* counted in for its key, so that all who use a key share one slot.  In   *)
(* Redis a lease that is renewed at a third of its term never loses its    *)
(* key, provided that no answer takes as long as that third.  Whichever    *)
(* NewLocker makes keeps what is proved of it.                             *)
(***************************************************************************)
EXTENDS Locker, FiniteSetTheorems, TLAPS

(* locker/memory *)

CountedPointsToEntry ==
  \A p \in Procs : pc[p] \in Counted => cur[p] \in Objs /\ locks[key[p]] = cur[p]

EntriesDistinct ==
  \A k, l \in Keys : locks[k] = locks[l] /\ locks[k] # None => k = l

RefsExact == \A o \in Objs : refs[o] = Cardinality(Users(o))

EntryUsed == \A k \in Keys, o \in Objs : locks[k] = o => Users(o) # {}

OneHolder == \A p, q \in Procs :
  pc[p] = "held" /\ pc[q] = "held" /\ cur[p] = cur[q] => p = q

SlotMeansHolder == \A k \in Keys :
  locks[k] # None /\ sem[locks[k]]
    => \E p \in Procs : pc[p] = "held" /\ cur[p] = locks[k]

IInv == /\ TypeOK
        /\ CountedPointsToEntry
        /\ EntriesDistinct
        /\ RefsExact
        /\ EntryUsed
        /\ ReleaseNeverBlocks
        /\ OneHolder
        /\ SlotMeansHolder
-----------------------------------------------------------------------------
(* The users of a lock are finitely many. *)
LEMMA UsersFinite == \A o : IsFiniteSet(Users(o))
  <1> TAKE o
  <1>1. Users(o) \in SUBSET Procs
    BY DEF Users
  <1> QED
    BY <1>1, ProcsFinite, FS_Subset, Zenon

(* A goroutine that counts itself in adds one to the count of its lock. *)
LEMMA CountIn ==
  ASSUME NEW o, NEW p \in Procs, p \notin Users(o), Users(o)' = Users(o) \cup {p}
  PROVE  Cardinality(Users(o)') = Cardinality(Users(o)) + 1
  BY UsersFinite, FS_AddElement, Zenon

(* A goroutine that counts itself out takes one from it. *)
LEMMA CountedOut ==
  ASSUME NEW o, NEW p \in Procs, p \in Users(o), Users(o)' = Users(o) \ {p}
  PROVE  Cardinality(Users(o)') = Cardinality(Users(o)) - 1
  BY UsersFinite, FS_RemoveElement, Zenon

(* A count of one means that the goroutine at hand is the only user. *)
LEMMA LastUser ==
  ASSUME NEW o, NEW p \in Procs, p \in Users(o)
  PROVE  Cardinality(Users(o)) = 1 <=> Users(o) = {p}
  <1>1. IsFiniteSet(Users(o))
    BY UsersFinite
  <1>2. Cardinality(Users(o)) = 1 <=> \E x : Users(o) = {x}
    BY <1>1, FS_Singleton, Zenon
  <1> QED
    BY <1>2, Zenon

LEMMA InitIInv == Init => IInv
  <1> SUFFICES ASSUME Init PROVE IInv
    OBVIOUS
  <1>1. \A o : Users(o) = {}
    BY DEF Init, Users, Counted
  <1>2. RefsExact
    BY <1>1, FS_EmptySet DEF Init, RefsExact
  <1> QED
    BY <1>1, <1>2, NoneIsFresh
       DEF Init, IInv, TypeOK, Counted, CountedPointsToEntry, EntriesDistinct,
          EntryUsed, ReleaseNeverBlocks, OneHolder, SlotMeansHolder

(* Acquire finds the entry of its key. *)
LEMMA AcquireExistingIInv ==
  ASSUME IInv, NEW p \in Procs, NEW k \in Keys, AcquireExisting(p, k)
  PROVE  IInv'
  <1> USE DEF IInv, AcquireExisting
  <1>1. PICK o \in Objs : o = locks[k]
    BY DEF TypeOK
  <1>2. TypeOK'
    BY <1>1 DEF TypeOK, Counted
  <1>3. Users(o)' = Users(o) \cup {p} /\ p \notin Users(o)
    BY <1>1 DEF Users, Counted, TypeOK
  <1>4. \A x : x # o => Users(x)' = Users(x)
    BY <1>1 DEF Users, Counted, TypeOK
  <1>5. RefsExact'
    <2> SUFFICES ASSUME NEW x \in Objs PROVE refs'[x] = Cardinality(Users(x)')
      BY DEF RefsExact
    <2>1. CASE x = o
      BY <1>1, <1>3, <2>1, CountIn DEF RefsExact, TypeOK
    <2>2. CASE x # o
      BY <1>1, <1>4, <2>2 DEF RefsExact, TypeOK
    <2> QED BY <2>1, <2>2
  <1>6. CountedPointsToEntry'
    BY <1>1 DEF CountedPointsToEntry, Counted, TypeOK
  <1>7. EntriesDistinct'
    BY DEF EntriesDistinct
  <1>8. EntryUsed'
    BY <1>3, <1>4 DEF EntryUsed
  <1>9. ReleaseNeverBlocks' /\ OneHolder' /\ SlotMeansHolder'
    BY DEF ReleaseNeverBlocks, OneHolder, SlotMeansHolder, TypeOK
  <1> QED
    BY <1>2, <1>5, <1>6, <1>7, <1>8, <1>9

(* Acquire allocates an entry at an address nothing points to. *)
LEMMA AcquireNewIInv ==
  ASSUME IInv, NEW p \in Procs, NEW k \in Keys, AcquireNew(p, k)
  PROVE  IInv'
  <1> USE DEF IInv
  <1>1. PICK o \in Objs \ Reachable :
           /\ locks' = [locks EXCEPT ![k] = o]
           /\ refs' = [refs EXCEPT ![o] = 1]
           /\ sem' = [sem EXCEPT ![o] = FALSE]
           /\ cur' = [cur EXCEPT ![p] = o]
    BY DEF AcquireNew
  <1>2. /\ pc[p] = "idle" /\ locks[k] = None
        /\ key' = [key EXCEPT ![p] = k]
        /\ pc' = [pc EXCEPT ![p] = "select"]
    BY DEF AcquireNew
  <1>3. /\ o \in Objs /\ o # None
        /\ \A l \in Keys : locks[l] # o
        /\ \A q \in Procs : cur[q] # o
    BY <1>1, NoneIsFresh DEF Reachable
  <1>4. TypeOK'
    BY <1>1, <1>2 DEF TypeOK, Counted
  <1>5. Users(o)' = {p}
    BY <1>1, <1>2, <1>3 DEF Users, Counted, TypeOK
  <1>6. \A x : x # o => Users(x)' = Users(x)
    BY <1>1, <1>2 DEF Users, Counted, TypeOK
  <1>7. RefsExact'
    <2> SUFFICES ASSUME NEW x \in Objs PROVE refs'[x] = Cardinality(Users(x)')
      BY DEF RefsExact
    <2>1. CASE x = o
      BY <1>1, <1>5, <2>1, FS_Singleton DEF TypeOK
    <2>2. CASE x # o
      BY <1>1, <1>6, <2>2 DEF RefsExact, TypeOK
    <2> QED BY <2>1, <2>2
  <1>8. CountedPointsToEntry'
    <2> SUFFICES ASSUME NEW q \in Procs, pc'[q] \in Counted
                 PROVE  cur'[q] \in Objs /\ locks'[key'[q]] = cur'[q]
      BY DEF CountedPointsToEntry
    <2>1. CASE q = p
      BY <1>1, <1>2, <1>3, <2>1 DEF TypeOK
    <2>2. CASE q # p
      <3>1. cur[q] \in Objs /\ locks[key[q]] = cur[q]
        BY <1>2, <2>2 DEF CountedPointsToEntry, TypeOK
      <3>2. key[q] # k
        BY <1>2, <3>1, NoneIsFresh
      <3> QED BY <1>1, <1>2, <2>2, <3>1, <3>2 DEF TypeOK
    <2> QED BY <2>1, <2>2
  <1>9. EntriesDistinct'
    BY <1>1, <1>3 DEF EntriesDistinct, TypeOK
  <1>10. EntryUsed'
    BY <1>1, <1>3, <1>5, <1>6 DEF EntryUsed, TypeOK
  <1>11. ReleaseNeverBlocks' /\ OneHolder'
    BY <1>1, <1>2, <1>3 DEF ReleaseNeverBlocks, OneHolder, CountedPointsToEntry, Counted, TypeOK
  <1>12. SlotMeansHolder'
    <2> SUFFICES ASSUME NEW l \in Keys, locks'[l] # None, sem'[locks'[l]]
                 PROVE  \E q \in Procs : pc'[q] = "held" /\ cur'[q] = locks'[l]
      BY DEF SlotMeansHolder
    <2>1. l # k
      BY <1>1 DEF TypeOK
    <2>2. locks'[l] = locks[l] /\ locks[l] \in Objs /\ sem[locks[l]]
      BY <1>1, <1>3, <2>1 DEF TypeOK
    <2>3. PICK q \in Procs : pc[q] = "held" /\ cur[q] = locks[l]
      BY <2>2 DEF SlotMeansHolder
    <2> QED BY <1>1, <1>2, <2>2, <2>3 DEF TypeOK
  <1> QED
    BY <1>4, <1>7, <1>8, <1>9, <1>10, <1>11, <1>12

(* The select takes or misses the slot; Release empties it. *)
LEMMA SlotIInv ==
  ASSUME IInv, NEW p \in Procs, Take(p) \/ Busy(p) \/ ReleaseDrain(p)
  PROVE  IInv'
  <1> USE DEF IInv
  <1>1. \A o : Users(o)' = Users(o)
    BY DEF Users, Counted, Take, Busy, ReleaseDrain, TypeOK
  <1>2. PICK o \in Objs : o = cur[p] /\ locks[key[p]] = o
    BY DEF CountedPointsToEntry, Counted, Take, Busy, ReleaseDrain
  <1>3. TypeOK'
    BY <1>2 DEF TypeOK, Counted, Take, Busy, ReleaseDrain
  <1>4. RefsExact' /\ EntryUsed' /\ EntriesDistinct'
    BY <1>1 DEF RefsExact, EntryUsed, EntriesDistinct, Take, Busy, ReleaseDrain
  <1>5. CountedPointsToEntry'
    BY DEF CountedPointsToEntry, Counted, Take, Busy, ReleaseDrain, TypeOK
  <1>6. ReleaseNeverBlocks' /\ OneHolder' /\ SlotMeansHolder'
    <2>1. CASE Take(p)
      BY <1>2, <2>1 DEF Take, ReleaseNeverBlocks, OneHolder, SlotMeansHolder,
                        CountedPointsToEntry, Counted, TypeOK
    <2>2. CASE Busy(p)
      BY <1>2, <2>2 DEF Busy, ReleaseNeverBlocks, OneHolder, SlotMeansHolder, TypeOK
    <2>3. CASE ReleaseDrain(p)
      BY <1>2, <2>3 DEF ReleaseDrain, ReleaseNeverBlocks, OneHolder, SlotMeansHolder,
                        CountedPointsToEntry, Counted, TypeOK
    <2> QED BY <2>1, <2>2, <2>3
  <1> QED
    BY <1>3, <1>4, <1>5, <1>6

(* The last user of a lock removes its entry; anyone else leaves it. *)
LEMMA CountOutIInv ==
  ASSUME IInv, NEW p \in Procs, NotObtained(p) \/ ReleaseCountOut(p)
  PROVE  IInv'
  <1> USE DEF IInv
  <1>1. PICK o \in Objs : o = cur[p] /\ locks[key[p]] = o
    BY DEF CountedPointsToEntry, Counted, NotObtained, ReleaseCountOut
  <1>2. /\ pc[p] \in {"failed", "drained"}
        /\ \E c \in {"idle", "released"} : pc' = [pc EXCEPT ![p] = c]
        /\ cur' = cur \/ cur' = [cur EXCEPT ![p] = None]
        /\ sem' = sem /\ key' = key
        /\ refs' = [refs EXCEPT ![o] = @ - 1]
        /\ locks' = IF refs[o] = 1 THEN [locks EXCEPT ![key[p]] = None] ELSE locks
    BY <1>1 DEF NotObtained, ReleaseCountOut, CountOut
  <1>3. p \in Users(o) /\ Users(o)' = Users(o) \ {p}
    BY <1>1, <1>2 DEF Users, Counted, TypeOK
  <1>4. \A x : x # o => Users(x)' = Users(x)
    BY <1>1, <1>2, NoneIsFresh DEF Users, Counted, TypeOK
  <1>5. refs[o] = 1 <=> Users(o) = {p}
    BY <1>3, LastUser DEF RefsExact
  <1>6. RefsExact'
    <2> SUFFICES ASSUME NEW x \in Objs PROVE refs'[x] = Cardinality(Users(x)')
      BY DEF RefsExact
    <2>1. CASE x = o
      BY <1>2, <1>3, <2>1, CountedOut DEF RefsExact, TypeOK
    <2>2. CASE x # o
      BY <1>2, <1>4, <2>2 DEF RefsExact, TypeOK
    <2> QED BY <2>1, <2>2
  <1>7. refs[o] # 0
    <2>1. IsFiniteSet(Users(o))
      BY UsersFinite
    <2>2. Cardinality(Users(o)) # 0
      BY <1>3, <2>1, FS_EmptySet
    <2> QED BY <2>2 DEF RefsExact
  <1>8. TypeOK'
    BY <1>2, <1>7 DEF TypeOK, Counted
  <1>9. \A q \in Procs : pc'[q] \in Counted =>
           q # p /\ pc'[q] = pc[q] /\ cur'[q] = cur[q] /\ locks'[key'[q]] = locks[key[q]]
    <2> SUFFICES ASSUME NEW q \in Procs, pc'[q] \in Counted
                 PROVE q # p /\ pc'[q] = pc[q] /\ cur'[q] = cur[q] /\ locks'[key'[q]] = locks[key[q]]
      OBVIOUS
    <2>1. q # p /\ pc'[q] = pc[q] /\ cur'[q] = cur[q]
      BY <1>2 DEF Counted, TypeOK
    <2>2. locks[key[q]] = cur[q]
      BY <2>1 DEF CountedPointsToEntry
    <2>3. Users(o) = {p} => cur[q] # o
      BY <2>1 DEF Users
    <2> QED BY <1>1, <1>2, <1>5, <2>1, <2>2, <2>3 DEF TypeOK
  <1>10. CountedPointsToEntry'
    BY <1>9 DEF CountedPointsToEntry
  <1>11. EntriesDistinct'
    BY <1>2 DEF EntriesDistinct, TypeOK
  <1>12. EntryUsed'
    <2> SUFFICES ASSUME NEW l \in Keys, NEW x \in Objs, locks'[l] = x PROVE Users(x)' # {}
      BY DEF EntryUsed
    <2>1. locks[l] = x
      BY <1>2, NoneIsFresh DEF TypeOK
    <2>2. CASE x = o
      <3>1. l = key[p]
        BY <1>1, <2>1, <2>2, NoneIsFresh DEF EntriesDistinct, TypeOK
      <3>2. refs[o] # 1
        BY <1>2, <3>1, NoneIsFresh DEF TypeOK
      <3> QED BY <1>3, <1>5, <2>2, <3>2
    <2>3. CASE x # o
      BY <1>4, <2>1, <2>3 DEF EntryUsed
    <2> QED BY <2>2, <2>3
  <1>13. ReleaseNeverBlocks' /\ OneHolder'
    BY <1>2, <1>9 DEF ReleaseNeverBlocks, OneHolder, Counted
  <1>14. SlotMeansHolder'
    <2> SUFFICES ASSUME NEW l \in Keys, locks'[l] # None, sem'[locks'[l]]
                 PROVE  \E q \in Procs : pc'[q] = "held" /\ cur'[q] = locks'[l]
      BY DEF SlotMeansHolder
    <2>1. locks'[l] = locks[l] /\ sem[locks[l]]
      BY <1>2 DEF TypeOK
    <2>2. PICK q \in Procs : pc[q] = "held" /\ cur[q] = locks[l]
      BY <2>1 DEF SlotMeansHolder
    <2> QED BY <1>2, <2>1, <2>2 DEF TypeOK
  <1> QED
    BY <1>6, <1>8, <1>10, <1>11, <1>12, <1>13, <1>14

(* Dropping a released lease, or releasing it twice, changes no lock. *)
LEMMA LeaseGoneIInv ==
  ASSUME IInv, NEW p \in Procs, ReleaseAgain(p) \/ Forget(p)
  PROVE  IInv'
  <1> USE DEF IInv
  <1>1. \A o : Users(o)' = Users(o)
    BY DEF Users, Counted, ReleaseAgain, Forget, TypeOK, vars
  <1> QED
    BY <1>1 DEF ReleaseAgain, Forget, vars, TypeOK, Counted, CountedPointsToEntry,
         EntriesDistinct, RefsExact, EntryUsed, ReleaseNeverBlocks, OneHolder, SlotMeansHolder

(* The invariant is inductive. *)
LEMMA NextIInv == IInv /\ [Next]_vars => IInv'
  <1> SUFFICES ASSUME IInv, [Next]_vars PROVE IInv'
    OBVIOUS
  <1>1. CASE UNCHANGED vars
    BY <1>1 DEF vars, IInv, TypeOK, Counted, CountedPointsToEntry, EntriesDistinct, Users,
         RefsExact, EntryUsed, ReleaseNeverBlocks, OneHolder, SlotMeansHolder
  <1>2. CASE Next
    BY <1>2, AcquireExistingIInv, AcquireNewIInv, SlotIInv, CountOutIInv, LeaseGoneIInv DEF Next
  <1> QED
    BY <1>1, <1>2

(* locker/memory keeps the inductive invariant in every reachable state. *)
THEOREM Invariance == Spec => []IInv
  BY InitIInv, NextIInv, PTL DEF Spec
-----------------------------------------------------------------------------
(* The invariant gives mutual exclusion per key: two holders of a key      *)
(* point to the one lock the map has for it.                               *)
LEMMA HoldersMeet == IInv => MutualExclusion
  BY DEF IInv, MutualExclusion, CountedPointsToEntry, OneHolder, Counted

(* Every lease and every waiter is counted where its key points. *)
LEMMA EntriesCounted == IInv => EntryWhileCounted
  <1> SUFFICES ASSUME IInv PROVE EntryWhileCounted
    OBVIOUS
  <1> USE DEF IInv
  <1>1. \A o \in Objs : refs[o] = Cardinality(Users(o))
    BY DEF RefsExact
  <1>2. ASSUME NEW k \in Keys, locks[k] # None
        PROVE  \E p \in Procs : pc[p] \in Counted /\ key[p] = k
    <2>1. PICK o \in Objs : o = locks[k]
      BY <1>2 DEF TypeOK
    <2>2. PICK p \in Procs : pc[p] \in Counted /\ cur[p] = o
      BY <2>1 DEF EntryUsed, Users
    <2>3. locks[key[p]] = locks[k] /\ key[p] \in Keys
      BY <2>1, <2>2 DEF CountedPointsToEntry, TypeOK
    <2> QED BY <1>2, <2>2, <2>3 DEF EntriesDistinct
  <1>3. ASSUME NEW p \in Procs, pc[p] \in Counted PROVE locks[key[p]] # None
    BY <1>3, NoneIsFresh DEF CountedPointsToEntry
  <1> QED
    BY <1>1, <1>2, <1>3 DEF EntryWhileCounted

(* Two live leases never have the same key. *)
THEOREM Exclusion == Spec => []MutualExclusion
  BY Invariance, HoldersMeet, PTL

(* No entry of the map is leaked and none is dropped while in use. *)
THEOREM EntryLifetime == Spec => []EntryWhileCounted
  BY Invariance, EntriesCounted, PTL

(* The receive in releaseFn always finds the slot taken. *)
THEOREM ReleaseReady == Spec => []ReleaseNeverBlocks
  <1>1. IInv => ReleaseNeverBlocks
    BY DEF IInv
  <1> QED
    BY Invariance, <1>1, PTL

(* Acquire fails only while another goroutine's lease on the key is live. *)
THEOREM RefusalJustified == Spec => RefusedOnlyWhenHeld
  <1> DEFINE Justified == \A p \in Procs :
       pc[p] = "select" /\ pc'[p] = "failed"
         => \E q \in Procs : q # p /\ key[q] = key[p] /\ pc[q] = "held"
  <1>1. IInv /\ [Next]_vars => [Justified]_vars
    <2> SUFFICES ASSUME IInv, Next, NEW p \in Procs, pc[p] = "select", pc'[p] = "failed"
                 PROVE  \E q \in Procs : q # p /\ key[q] = key[p] /\ pc[q] = "held"
      OBVIOUS
    <2> USE DEF IInv
    <2>1. sem[cur[p]]
      BY DEF Next, AcquireExisting, AcquireNew, Take, Busy, NotObtained, ReleaseDrain,
             ReleaseCountOut, ReleaseAgain, Forget, vars, TypeOK
    <2>2. cur[p] \in Objs /\ locks[key[p]] = cur[p] /\ key[p] \in Keys
      BY DEF CountedPointsToEntry, Counted, TypeOK
    <2>3. PICK q \in Procs : pc[q] = "held" /\ cur[q] = locks[key[p]]
      BY <2>1, <2>2, NoneIsFresh DEF SlotMeansHolder
    <2>4. key[q] = key[p]
      BY <2>2, <2>3, NoneIsFresh DEF CountedPointsToEntry, Counted, EntriesDistinct, TypeOK
    <2> QED BY <2>3, <2>4
  <1> QED
    BY <1>1, Invariance, PTL DEF Spec, RefusedOnlyWhenHeld
-----------------------------------------------------------------------------
(* A key whose holders do not change keeps its owner. *)
LEMMA SameHolderSameOwner ==
  ASSUME IInv, IInv', NEW k \in Keys,
         \A p \in Procs : pc[p] = "held" /\ key[p] = k <=> pc'[p] = "held" /\ key'[p] = k
  PROVE  owner'[k] = owner[k]
  <1>1. MutualExclusion /\ MutualExclusion'
    BY HoldersMeet, PTL
  <1>2. CASE \A p \in Procs : ~(pc[p] = "held" /\ key[p] = k)
    <2>1. owner[k] = None
      BY <1>2, Zenon DEF owner
    <2>2. owner'[k] = None
      BY <1>2, Zenon DEF owner
    <2> QED BY <2>1, <2>2
  <1>3. CASE \E p \in Procs : pc[p] = "held" /\ key[p] = k
    <2>1. PICK p \in Procs : pc[p] = "held" /\ key[p] = k
      BY <1>3
    <2>2. \A q \in Procs : pc[q] = "held" /\ key[q] = k => q = p
      BY <1>1, <2>1 DEF MutualExclusion
    <2>3. \A q \in Procs : pc'[q] = "held" /\ key'[q] = k => q = p
      BY <2>2
    <2>4. owner[k] = p
      BY <2>1, <2>2, Zenon DEF owner
    <2>5. owner'[k] = p
      BY <2>1, <2>3, Zenon DEF owner
    <2> QED BY <2>4, <2>5
  <1> QED
    BY <1>2, <1>3

(* Taking the slot obtains the key in the abstract lock. *)
LEMMA TakeObtains ==
  ASSUME IInv, IInv', NEW p \in Procs, Take(p)
  PROVE  Abstract!Next
  <1>1. PICK k \in Keys : k = key[p]
    BY DEF IInv, TypeOK
  <1>2. \A q \in Procs : ~(pc[q] = "held" /\ key[q] = k)
    BY <1>1 DEF Take, IInv, ReleaseNeverBlocks, CountedPointsToEntry, Counted
  <1>3. owner[k] = None
    BY <1>2, Zenon DEF owner
  <1>4. pc'[p] = "held" /\ key'[p] = k /\ \A q \in Procs : pc'[q] = "held" /\ key'[q] = k => q = p
    BY <1>1, <1>2 DEF Take, IInv, TypeOK
  <1>5. owner'[k] = p
    BY <1>4, Zenon DEF owner
  <1>6. ASSUME NEW l \in Keys, l # k PROVE owner'[l] = owner[l]
    <2>1. \A q \in Procs : pc[q] = "held" /\ key[q] = l <=> pc'[q] = "held" /\ key'[q] = l
      BY <1>1, <1>6 DEF Take, IInv, TypeOK
    <2> QED BY <2>1, SameHolderSameOwner
  <1>7. owner' = [owner EXCEPT ![k] = p]
    <2>1. owner = [l \in Keys |-> owner[l]] /\ owner' = [l \in Keys |-> owner'[l]]
      BY DEF owner
    <2> HIDE DEF owner
    <2> QED BY <1>5, <1>6, <2>1
  <1> QED
    BY <1>3, <1>7 DEF Abstract!Next, Abstract!Obtain

(* Emptying the slot gives the key up in the abstract lock. *)
LEMMA DrainGivesUp ==
  ASSUME IInv, IInv', NEW p \in Procs, ReleaseDrain(p)
  PROVE  Abstract!Next
  <1>1. PICK k \in Keys : k = key[p]
    BY DEF IInv, TypeOK
  <1>2. MutualExclusion
    BY HoldersMeet
  <1>3. \A q \in Procs : pc[q] = "held" /\ key[q] = k => q = p
    BY <1>1, <1>2 DEF MutualExclusion, ReleaseDrain
  <1>4. owner[k] = p
    BY <1>1, <1>3, Zenon DEF owner, ReleaseDrain
  <1>5. \A q \in Procs : ~(pc'[q] = "held" /\ key'[q] = k)
    BY <1>3 DEF ReleaseDrain, IInv, TypeOK
  <1>6. owner'[k] = None
    BY <1>5, Zenon DEF owner
  <1>7. ASSUME NEW l \in Keys, l # k PROVE owner'[l] = owner[l]
    <2>1. \A q \in Procs : pc[q] = "held" /\ key[q] = l <=> pc'[q] = "held" /\ key'[q] = l
      BY <1>1, <1>7 DEF ReleaseDrain, IInv, TypeOK
    <2> QED BY <2>1, SameHolderSameOwner
  <1>8. owner' = [owner EXCEPT ![k] = None]
    <2>1. owner = [l \in Keys |-> owner[l]] /\ owner' = [l \in Keys |-> owner'[l]]
      BY DEF owner
    <2> HIDE DEF owner
    <2> QED BY <1>6, <1>7, <2>1
  <1> QED
    BY <1>4, <1>8 DEF Abstract!Next, Abstract!GiveUp

(* Every other step leaves the holders, and so the abstract lock, alone. *)
LEMMA OtherStepsStutter ==
  ASSUME IInv, IInv', [Next]_vars, \A p \in Procs : ~Take(p) /\ ~ReleaseDrain(p)
  PROVE  owner' = owner
  <1>1. ASSUME NEW q \in Procs, NEW k \in Keys
        PROVE  pc[q] = "held" /\ key[q] = k <=> pc'[q] = "held" /\ key'[q] = k
    BY DEF Next, AcquireExisting, AcquireNew, Busy, NotObtained, ReleaseCountOut,
           ReleaseAgain, Forget, vars, IInv, TypeOK
  <1>2. ASSUME NEW k \in Keys PROVE owner'[k] = owner[k]
    BY <1>1, SameHolderSameOwner
  <1>3. owner = [k \in Keys |-> owner[k]] /\ owner' = [k \in Keys |-> owner'[k]]
    BY DEF owner
  <1> HIDE DEF owner
  <1> QED
    BY <1>2, <1>3

(* The in-process locker implements the contract of module TryLock. *)
THEOREM Refinement == Spec => ImplementsTryLock
  <1>1. Init => Abstract!Init
    <2> SUFFICES ASSUME Init PROVE Abstract!Init
      OBVIOUS
    <2>1. \A p \in Procs : pc[p] # "held"
      BY DEF Init
    <2> QED BY <2>1, Zenon DEF owner, Abstract!Init
  <1>2. IInv /\ IInv' /\ [Next]_vars => [Abstract!Next]_owner
    BY TakeObtains, DrainGivesUp, OtherStepsStutter
  <1> QED
    BY <1>1, <1>2, Invariance, PTL DEF Spec, Abstract!Spec, ImplementsTryLock
-----------------------------------------------------------------------------
(* locker/redis *)

Stages == {"idle", "asked", "held", "releasing", "deleting"}
LoopStates == {"none", "wait", "sent", "done"}
RedisTyped == /\ holder \in Leases \cup {Nobody, Gone} /\ left \in Nat
              /\ stage \in [Leases -> Stages] /\ loop \in [Leases -> LoopStates]
              /\ ttl \in [Leases -> Nat] /\ lag \in [Leases -> Nat] /\ ticker \in [Leases -> Nat]
              /\ live \subseteq Leases /\ ticked \subseteq Leases /\ prompt \in BOOLEAN

\* A live context has its goroutine, and a running goroutine its ticker.
LiveIsRenewed ==
  /\ \A l \in live : stage[l] = "held" /\ loop[l] \in {"wait", "sent"}
  /\ \A l \in Leases : /\ loop[l] \in {"wait", "sent"} =>
                              ticker[l] \in 1..Interval(ttl[l]) /\ stage[l] \in {"held", "releasing"}
                       /\ loop[l] = "none" => l \notin ticked
                       /\ stage[l] \in {"idle", "asked"} => loop[l] = "none"

\* How long the key must still live, in each state of its lease.
TimeLeft(l) ==
  /\ UnderWay(l) => lag[l] <= Patience
  /\ ~UnderWay(l) => lag[l] = 0
  /\ stage[l] = "asked" => holder = l /\ left + lag[l] >= ttl[l]
  /\ l \in live => /\ holder = l
                   /\ UnderWay(l) => left + lag[l] > Patience
                   /\ ~UnderWay(l) => left > ticker[l] + Patience
AlwaysInTime == \A l \in Leases : Served(l) => TimeLeft(l)

LInv == RedisTyped /\ LiveIsRenewed /\ AlwaysInTime
-----------------------------------------------------------------------------
LEMMA IntervalBound ==
  ASSUME NEW t \in Nat
  PROVE  /\ Interval(t) \in Nat \ {0}
         /\ t >= 3 * Second => 3 * Interval(t) <= t
  BY Units DEF Interval

LEMMA InitLInv == RedisInit => LInv
  BY HoldersDiffer, Units
     DEF RedisInit, LInv, RedisTyped, LiveIsRenewed, AlwaysInTime, TimeLeft, UnderWay, Stages,
     LoopStates

(* Every step keeps the types, and gives a live context its goroutine.     *)
LEMMA KeepsForm ==
  ASSUME RedisTyped, LiveIsRenewed, RedisNext
  PROVE  RedisTyped' /\ LiveIsRenewed'
  <1> USE Units DEF RedisTyped, LiveIsRenewed, Stages, LoopStates
  <1>1. CASE Pass
    <2>1. ticker' \in [Leases -> Nat]
      BY <1>1, IntervalBound DEF Pass, Ticking
    <2>2. left' \in Nat /\ lag' \in [Leases -> Nat]
      BY <1>1 DEF Pass
    <2>3. \A l \in Leases : loop[l] \in {"wait", "sent"} => ticker'[l] \in 1..Interval(ttl[l])
      BY <1>1, IntervalBound DEF Pass, Ticking
    <2>4. ticked' \subseteq Leases /\ \A l \in Leases : loop[l] = "none" => l \notin ticked'
      BY <1>1 DEF Pass, Ticking
    <2> QED
      BY <1>1, <2>1, <2>2, <2>3, <2>4 DEF Pass, Interval
  <1>2. ASSUME NEW k \in Leases, NEW t \in TTLs, Obtain(k, t)
        PROVE  RedisTyped' /\ LiveIsRenewed'
    BY <1>2 DEF Obtain, Interval
  <1>3. ASSUME NEW k \in Leases, NewLease(k)
        PROVE  RedisTyped' /\ LiveIsRenewed'
    BY <1>3, IntervalBound DEF NewLease, Interval
  <1>4. ASSUME NEW k \in Leases, ParentEnds(k)
        PROVE  RedisTyped' /\ LiveIsRenewed'
    BY <1>4 DEF ParentEnds, Interval
  <1>5. ASSUME NEW k \in Leases, Refresh(k)
        PROVE  RedisTyped' /\ LiveIsRenewed'
    BY <1>5 DEF Refresh, Interval
  <1>6. ASSUME NEW k \in Leases, Refreshed(k)
        PROVE  RedisTyped' /\ LiveIsRenewed'
    BY <1>6 DEF Refreshed, Interval
  <1>7. ASSUME NEW k \in Leases, RefreshFails(k)
        PROVE  RedisTyped' /\ LiveIsRenewed'
    BY <1>7 DEF RefreshFails, LoopEnds, Interval
  <1>8. ASSUME NEW k \in Leases, StopRefreshing(k)
        PROVE  RedisTyped' /\ LiveIsRenewed'
    BY <1>8 DEF StopRefreshing, LoopEnds, Interval
  <1>9. ASSUME NEW k \in Leases, Release(k)
        PROVE  RedisTyped' /\ LiveIsRenewed'
    BY <1>9 DEF Release, Interval
  <1>10. ASSUME NEW k \in Leases, Drained(k)
        PROVE  RedisTyped' /\ LiveIsRenewed'
    BY <1>10 DEF Drained, Interval
  <1>11. ASSUME NEW k \in Leases, Delete(k)
        PROVE  RedisTyped' /\ LiveIsRenewed'
    BY <1>11 DEF Delete, Ended, Interval
  <1>12. ASSUME NEW k \in Leases, Abandon(k)
        PROVE  RedisTyped' /\ LiveIsRenewed'
    BY <1>12 DEF Abandon, Ended, Interval
  <1> QED
    BY <1>1, <1>2, <1>3, <1>4, <1>5, <1>6, <1>7, <1>8, <1>9, <1>10, <1>11, <1>12 DEF RedisNext

(* A unit of time costs the key one unit of its life, and brings the next  *)
(* renewal one unit closer.                                                *)
LEMMA PassInTime ==
  ASSUME LInv, Pass, NEW l \in Leases, Served(l)'
  PROVE  TimeLeft(l)'
  <1> USE Units DEF LInv, RedisTyped, LiveIsRenewed, Served
  <1>1. Served(l) /\ TimeLeft(l)
    BY DEF Pass, AlwaysInTime
  <1>2. /\ stage' = stage /\ live' = live /\ loop' = loop /\ ttl' = ttl
        /\ left' = (IF left = 0 THEN 0 ELSE left - 1)
        /\ left' > 0 => holder' = holder
        /\ UnderWay(l) => lag[l] < Patience /\ lag'[l] = lag[l] + 1
        /\ ~UnderWay(l) => lag'[l] = lag[l]
    BY <1>1 DEF Pass
  <1>3. UnderWay(l) => UnderWay(l)'
    BY <1>2 DEF Pass, UnderWay
  <1>4. ASSUME l \in live, ~UnderWay(l)
        PROVE  /\ ticker[l] \in Nat \ {0}
               /\ UnderWay(l)' <=> l \in ticked'
               /\ l \in ticked' => ticker[l] = 1
               /\ l \notin ticked' => ticker'[l] = ticker[l] - 1
    <2>1. loop[l] = "wait" /\ l \notin ticked /\ stage[l] = "held" /\ l \in Ticking
      BY <1>4 DEF UnderWay, Ticking
    <2>2. ticker[l] \in Nat \ {0}
      BY <2>1
    <2>3. UnderWay(l)' <=> l \in ticked'
      BY <1>2, <2>1 DEF UnderWay
    <2>4. l \in ticked' <=> ticker[l] = 1
      BY <2>1 DEF Pass
    <2>5. ticker[l] # 1 => ticker'[l] = ticker[l] - 1
      BY <2>1 DEF Pass
    <2> QED
      BY <2>2, <2>3, <2>4, <2>5
  <1>5. left \in Nat /\ lag[l] \in Nat /\ ticker[l] \in Nat /\ ttl[l] \in Nat
    OBVIOUS
  <1>6. CASE UnderWay(l)
    <2>1. lag[l] < Patience /\ lag'[l] = lag[l] + 1
      BY <1>2, <1>6
    <2>2. ASSUME left + lag[l] > Patience, holder = l
          PROVE  left' + lag'[l] = left + lag[l] /\ holder' = l
      BY <1>2, <1>5, <2>1, <2>2
    <2>3. CASE stage[l] = "asked"
      <3>1. left + lag[l] >= ttl[l] /\ holder = l
        BY <1>1, <2>3 DEF TimeLeft
      <3>2. left + lag[l] > Patience
        BY <1>1, <1>5, <3>1
      <3>3. l \notin live'
        BY <1>2, <2>3
      <3> QED
        BY <1>2, <1>3, <1>5, <1>6, <2>1, <2>2, <3>1, <3>2, <3>3 DEF TimeLeft
    <2>4. CASE l \in live
      <3>1. left + lag[l] > Patience /\ holder = l
        BY <1>1, <1>6, <2>4 DEF TimeLeft
      <3>2. stage'[l] # "asked"
        BY <1>2, <2>4
      <3> QED
        BY <1>2, <1>3, <1>5, <1>6, <2>1, <2>2, <3>1, <3>2 DEF TimeLeft
    <2>5. CASE stage[l] # "asked" /\ l \notin live
      BY <1>2, <1>3, <1>5, <1>6, <2>1, <2>5 DEF TimeLeft
    <2> QED
      BY <2>3, <2>4, <2>5
  <1>7. CASE ~UnderWay(l)
    <2>1. stage'[l] # "asked" /\ lag'[l] = lag[l]
      BY <1>2, <1>7 DEF UnderWay
    <2>2. CASE l \in live
      <3>1. holder = l /\ left > ticker[l] + Patience /\ lag[l] = 0
        BY <1>1, <1>7, <2>2 DEF TimeLeft
      <3>2. left' = left - 1 /\ holder' = l
        BY <1>2, <1>4, <1>5, <1>7, <2>2, <3>1
      <3>3. ticker[l] \in Nat \ {0} /\ (UnderWay(l)' <=> l \in ticked')
        BY <1>4, <1>7, <2>2
      <3>4. CASE l \in ticked'
        <4>1. ticker[l] = 1
          BY <1>4, <1>7, <2>2, <3>4
        <4>2. left' + lag'[l] > Patience /\ lag'[l] <= Patience
          BY <1>5, <2>1, <3>1, <3>2, <4>1
        <4> QED
          BY <2>1, <3>2, <3>3, <3>4, <4>2 DEF TimeLeft
      <3>5. CASE l \notin ticked'
        <4>1. ticker'[l] = ticker[l] - 1
          BY <1>4, <1>7, <2>2, <3>5
        <4>2. left' > ticker'[l] + Patience /\ lag'[l] = 0
          BY <1>5, <2>1, <3>1, <3>2, <3>3, <4>1
        <4> QED
          BY <2>1, <3>2, <3>3, <3>5, <4>2 DEF TimeLeft
      <3> QED
        BY <3>4, <3>5
    <2>3. CASE l \notin live
      <3>1. lag'[l] = 0
        BY <1>1, <1>7, <2>1 DEF TimeLeft
      <3> QED
        BY <1>2, <2>1, <2>3, <3>1 DEF TimeLeft
    <2> QED
      BY <2>2, <2>3
  <1> QED
    BY <1>6, <1>7

(* Nobody else touches the key of a lease, and each renewal gives it more  *)
(* than it needs until the next.                                           *)
LEMMA StepInTime ==
  ASSUME LInv, RedisNext, ~Pass, NEW l \in Leases, Served(l)'
  PROVE  TimeLeft(l)'
  <1> USE Units, HoldersDiffer DEF LInv, RedisTyped, LiveIsRenewed, AlwaysInTime, Served, TimeLeft, UnderWay
  <1>1. ASSUME NEW k \in Leases, NEW t \in TTLs, Obtain(k, t)
        PROVE  TimeLeft(l)'
    BY <1>1 DEF Obtain
  <1>2. ASSUME NEW k \in Leases, NewLease(k)
        PROVE  TimeLeft(l)'
    BY <1>2, IntervalBound DEF NewLease
  <1>3. ASSUME NEW k \in Leases, ParentEnds(k)
        PROVE  TimeLeft(l)'
    BY <1>3 DEF ParentEnds
  <1>4. ASSUME NEW k \in Leases, Refresh(k)
        PROVE  TimeLeft(l)'
    BY <1>4 DEF Refresh
  <1>5. ASSUME NEW k \in Leases, Refreshed(k)
        PROVE  TimeLeft(l)'
    BY <1>5, IntervalBound DEF Refreshed
  <1>6. ASSUME NEW k \in Leases, RefreshFails(k)
        PROVE  TimeLeft(l)'
    BY <1>6 DEF RefreshFails, LoopEnds
  <1>7. ASSUME NEW k \in Leases, StopRefreshing(k)
        PROVE  TimeLeft(l)'
    BY <1>7 DEF StopRefreshing, LoopEnds
  <1>8. ASSUME NEW k \in Leases, Release(k)
        PROVE  TimeLeft(l)'
    BY <1>8 DEF Release
  <1>9. ASSUME NEW k \in Leases, Drained(k)
        PROVE  TimeLeft(l)'
    BY <1>9 DEF Drained
  <1>10. ASSUME NEW k \in Leases, Delete(k)
        PROVE  TimeLeft(l)'
    BY <1>10 DEF Delete, Ended
  <1>11. ASSUME NEW k \in Leases, Abandon(k)
        PROVE  TimeLeft(l)'
    BY <1>11 DEF Abandon, Ended
  <1> QED
    BY <1>1, <1>2, <1>3, <1>4, <1>5, <1>6, <1>7, <1>8, <1>9, <1>10, <1>11 DEF RedisNext

LEMMA NextLInv == LInv /\ [RedisNext]_redisVars => LInv'
  <1> SUFFICES ASSUME LInv, [RedisNext]_redisVars
               PROVE  LInv'
    OBVIOUS
  <1>1. CASE RedisNext
    BY <1>1, KeepsForm, PassInTime, StepInTime DEF LInv, AlwaysInTime
  <1>2. CASE UNCHANGED redisVars
    BY <1>2
       DEF redisVars, lease, LInv, RedisTyped, LiveIsRenewed, AlwaysInTime, Served, TimeLeft,
       UnderWay
  <1> QED
    BY <1>1, <1>2

THEOREM RedisInvariance == RedisInit /\ [][RedisNext]_redisVars => []LInv
  BY InitLInv, NextLInv, PTL

(* A lease with a live context owns its key, whatever other leases, their  *)
(* renewals, releases and crashes do, if its term is three seconds or more *)
(* and Redis answers within a third of it.                                 *)
THEOREM RenewalInTime == RedisInit /\ [][RedisNext]_redisVars => []LiveLeaseOwnsKey
  <1>1. LInv => LiveLeaseOwnsKey
    BY DEF LInv, RedisTyped, AlwaysInTime, Served, TimeLeft, LiveLeaseOwnsKey
  <1> QED
    BY <1>1, RedisInvariance, PTL

-----------------------------------------------------------------------------
(* Whichever locker NewLocker makes takes its own steps only, and the other *)
(* one none.                                                               *)
LEMMA EachKeepsItsSpec ==
  LockerSpec => Spec /\ RedisInit /\ [][RedisNext]_redisVars
  <1>1. NewLocker => Init /\ RedisInit
    BY DEF NewLocker
  <1>2. [LockerNext]_lockerVars => [Next]_vars /\ [RedisNext]_redisVars
    BY DEF LockerNext, lockerVars
  <1> QED
    BY <1>1, <1>2, PTL DEF LockerSpec, Spec

(* The application's locker is safe whichever implementation serves it: no *)
(* two memory leases on one key, no map entry lost or leaked, no blocked   *)
(* release, and a Redis lease that is served in time owns its key.         *)
THEOREM EitherIsSafe ==
  LockerSpec => [](MutualExclusion /\ EntryWhileCounted /\ ReleaseNeverBlocks /\ LiveLeaseOwnsKey)
  BY EachKeepsItsSpec, Exclusion, EntryLifetime, ReleaseReady, RenewalInTime, PTL

(* A lease becomes sure of its key only when Acquire returns it, which      *)
(* leaves the key alone.                                                   *)
LEMMA SureFromAcquire ==
  ASSUME LInv, RedisNext, NEW m \in sure', m \notin sure
  PROVE  holder' = holder
  <1> USE Units DEF LInv, RedisTyped, LiveIsRenewed, Served, sure
  <1>1. CASE Pass
    BY <1>1 DEF Pass
  <1>2. ASSUME NEW k \in Leases, NEW t \in TTLs, Obtain(k, t)
        PROVE  holder' = holder
    BY <1>2 DEF Obtain
  <1>3. ASSUME NEW k \in Leases, NewLease(k)
        PROVE  holder' = holder
    BY <1>3 DEF NewLease
  <1>4. ASSUME NEW k \in Leases,
               \/ ParentEnds(k) \/ Refresh(k) \/ Refreshed(k) \/ RefreshFails(k)
               \/ StopRefreshing(k) \/ Release(k) \/ Drained(k)
        PROVE  holder' = holder
    BY <1>4 DEF ParentEnds, Refresh, Refreshed, RefreshFails, StopRefreshing, LoopEnds, Release, Drained
  <1>5. ASSUME NEW k \in Leases, Delete(k) \/ Abandon(k)
        PROVE  holder' = holder
    <2>1. live' = live \ {k} /\ ttl' = [ttl EXCEPT ![k] = 0] /\ prompt' = prompt
      BY <1>5 DEF Delete, Abandon, Ended
    <2>2. m \in live' /\ m # k
      BY <2>1
    <2>3. m \in Leases /\ ttl'[m] = ttl[m]
      BY <2>1, <2>2
    <2>4. Served(m)'
      OBVIOUS
    <2>5. m \in sure
      BY ONLY <2>1, <2>2, <2>3, <2>4 DEF Served, sure
    <2> QED BY <2>5
  <1> QED
    BY <1>1, <1>2, <1>3, <1>4, <1>5 DEF RedisNext

(* Only the lease whose token the key has is sure of it, so the leased lock *)
(* passes from nobody to a lease and back.                                 *)
LEMMA SureComesAndGoes ==
  ASSUME LInv, LInv', [RedisNext]_redisVars
  PROVE  \/ sure' = sure
         \/ \E l \in Leases : sure = {} /\ sure' = {l}
         \/ \E l \in Leases : sure = {l} /\ sure' = {}
  <1>1. /\ sure \subseteq Leases /\ \A l \in sure : holder = l
        /\ sure' \subseteq Leases /\ \A l \in sure' : holder' = l
    BY DEF LInv, RedisTyped, AlwaysInTime, TimeLeft, sure
  <1>2. CASE UNCHANGED redisVars
    BY <1>2 DEF redisVars, lease, sure, Served
  <1>3. CASE RedisNext
    <2>1. \A m \in sure' : m \notin sure => holder' = holder
      BY <1>3, SureFromAcquire
    <2> HIDE DEF sure
    <2>2. CASE sure = {} \/ sure' = {}
      BY <1>1, <2>2
    <2>3. CASE sure # {} /\ sure' # {}
      BY <1>1, <2>1, <2>3
    <2> QED BY <2>2, <2>3
  <1> QED BY <1>2, <1>3

(* The contract's lock in Redis mode, for a step of the leased lock.       *)
LEMMA RedisStepKeepsContract ==
  ASSUME LInv, LInv', [RedisNext]_redisVars, mode = "redis", mode' = mode
  PROVE  [Contract!Next]_leaseOf
  <1> DEFINE F(S) == [k \in Keys |-> IF k = LeaseKey /\ S # {} THEN CHOOSE l \in S : TRUE ELSE None]
  <1>1. leaseOf = F(sure) /\ leaseOf' = F(sure')
    BY DEF leaseOf
  <1>2. CASE sure' = sure
    BY <1>1, <1>2
  <1>3. CASE LeaseKey \notin Keys
    <2>1. F(sure) = [k \in Keys |-> None] /\ F(sure') = [k \in Keys |-> None]
      BY <1>3
    <2> QED BY <1>1, <2>1
  <1>4. ASSUME LeaseKey \in Keys, NEW l \in Leases, sure = {}, sure' = {l}
        PROVE  Contract!Next
    <2>1. (CHOOSE x \in {l} : TRUE) = l
      OBVIOUS
    <2>2. leaseOf = [k \in Keys |-> None]
      BY <1>1, <1>4
    <2>3. leaseOf' = [k \in Keys |-> IF k = LeaseKey THEN l ELSE None]
      BY <1>1, <1>4, <2>1
    <2>4. leaseOf[LeaseKey] = None /\ leaseOf' = [leaseOf EXCEPT ![LeaseKey] = l]
      BY <1>4, <2>2, <2>3
    <2> QED BY <1>4, <2>4 DEF Contract!Next, Contract!Obtain
  <1>5. ASSUME LeaseKey \in Keys, NEW l \in Leases, sure = {l}, sure' = {}
        PROVE  Contract!Next
    <2>1. (CHOOSE x \in {l} : TRUE) = l
      OBVIOUS
    <2>2. leaseOf' = [k \in Keys |-> None]
      BY <1>1, <1>5
    <2>3. leaseOf = [k \in Keys |-> IF k = LeaseKey THEN l ELSE None]
      BY <1>1, <1>5, <2>1
    <2>4. leaseOf[LeaseKey] = l /\ leaseOf' = [leaseOf EXCEPT ![LeaseKey] = None]
      BY <1>5, <2>2, <2>3
    <2> QED BY <1>5, <2>4 DEF Contract!Next, Contract!GiveUp
  <1> QED
    BY <1>2, <1>3, <1>4, <1>5, SureComesAndGoes

(* And of the memory lock, by what is proved of it alone.                  *)
LEMMA MemoryStepKeepsContract ==
  ASSUME IInv, IInv', [Next]_vars, mode = "memory", mode' = mode
  PROVE  [Contract!Next]_leaseOf
  <1>1. leaseOf = owner /\ leaseOf' = owner'
    BY DEF leaseOf
  <1>2. [Abstract!Next]_owner
    BY TakeObtains, DrainGivesUp, OtherStepsStutter
  <1>3. ASSUME NEW p \in Procs, NEW k \in Keys, Abstract!Obtain(p, k)
        PROVE  Contract!Next
    BY <1>1, <1>3 DEF Abstract!Obtain, Contract!Next, Contract!Obtain
  <1>4. ASSUME NEW p \in Procs, NEW k \in Keys, Abstract!GiveUp(p, k)
        PROVE  Contract!Next
    BY <1>1, <1>4 DEF Abstract!GiveUp, Contract!Next, Contract!GiveUp
  <1> QED BY <1>1, <1>2, <1>3, <1>4 DEF Abstract!Next

(* Whichever locker NewLocker makes implements the contract of TryLock: a   *)
(* lease of the memory lock, or one of the leased lock that is served in    *)
(* time, appears only on a key that no other such lease has, and is never   *)
(* passed on.                                                              *)
THEOREM EitherKeepsContract == LockerSpec => ImplementsContract
  <1>1. NewLocker => Contract!Init
    <2> SUFFICES ASSUME NewLocker PROVE leaseOf = [k \in Keys |-> None]
      BY DEF Contract!Init
    <2>1. \A p \in Procs : pc[p] # "held"
      BY DEF NewLocker, Init
    <2>2. owner = [k \in Keys |-> None]
      BY <2>1, Zenon DEF owner
    <2>3. sure = {}
      BY DEF NewLocker, RedisInit, sure
    <2> QED BY <2>2, <2>3 DEF leaseOf
  <1>2. NewLocker => mode \in {"memory", "redis"}
    BY DEF NewLocker
  <1>3. mode \in {"memory", "redis"} /\ [LockerNext]_lockerVars => (mode \in {"memory", "redis"})'
    BY DEF LockerNext, lockerVars
  <1>4. /\ mode \in {"memory", "redis"} /\ IInv /\ IInv' /\ LInv /\ LInv'
        /\ [LockerNext]_lockerVars
        => [Contract!Next]_leaseOf
    <2> SUFFICES ASSUME mode \in {"memory", "redis"}, IInv, IInv', LInv, LInv', [LockerNext]_lockerVars
                 PROVE  [Contract!Next]_leaseOf
      OBVIOUS
    <2>1. [Next]_vars /\ [RedisNext]_redisVars /\ mode' = mode
      BY DEF LockerNext, lockerVars
    <2> QED BY <2>1, MemoryStepKeepsContract, RedisStepKeepsContract
  <1> QED
    BY <1>1, <1>2, <1>3, <1>4, EachKeepsItsSpec, Invariance, RedisInvariance, PTL
       DEF LockerSpec, Contract!Spec, ImplementsContract
=============================================================================
