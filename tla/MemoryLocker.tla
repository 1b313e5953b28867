---------------------------- MODULE MemoryLocker ----------------------------
(***************************************************************************)
(* locker/memory: the in-process Locker.  A map under one mutex holds, per *)
(* key, a reference-counted keyLock whose one-slot channel is the lock.    *)
(* The mutex sections and the channel operations are the atomic steps; a   *)
(* goroutine may be preempted between any two of them.                     *)
(***************************************************************************)
EXTENDS Naturals, FiniteSets

CONSTANTS Procs,   \* goroutines; each works with one lease at a time
          Keys,    \* lock keys
          Objs,    \* addresses a *keyLock may be allocated at
          None     \* nil pointer / no owner

ASSUME ProcsFinite == IsFiniteSet(Procs)
ASSUME NoneIsFresh == None \notin Objs /\ None \notin Procs

VARIABLES locks,   \* Locker.locks: the keyLock of each key, or None
          refs,    \* keyLock.refs
          sem,     \* keyLock.sem: TRUE when its slot is taken
          pc,      \* where each goroutine is
          key,     \* the key argument of the goroutine's Acquire
          cur      \* the pointer `current` captured by Acquire and its lease

vars == <<locks, refs, sem, pc, key, cur>>

\* A goroutine at one of these points has counted itself in cur's refs.
Counted == {"select", "failed", "held", "drained"}

Users(o) == {p \in Procs : pc[p] \in Counted /\ cur[p] = o}

\* The garbage collector keeps an object that the map or a closure points to.
Reachable == {locks[k] : k \in Keys} \cup {cur[p] : p \in Procs}

TypeOK == /\ locks \in [Keys -> Objs \cup {None}]
          /\ refs \in [Objs -> Nat]
          /\ sem \in [Objs -> BOOLEAN]
          /\ pc \in [Procs -> Counted \cup {"idle", "released"}]
          /\ key \in [Procs -> Keys]
          /\ cur \in [Procs -> Objs \cup {None}]

Init == /\ locks = [k \in Keys |-> None]
        /\ refs = [o \in Objs |-> 0]
        /\ sem = [o \in Objs |-> FALSE]
        /\ pc = [p \in Procs |-> "idle"]
        /\ key \in [Procs -> Keys]
        /\ cur = [p \in Procs |-> None]
-----------------------------------------------------------------------------
(* Acquire, up to the unlock: find the key's lock or allocate it, count in. *)

AcquireUncounted(p, k) ==      \* mutant: the waiter is not counted in
  /\ pc[p] = "idle"
  /\ locks[k] # None
  /\ cur' = [cur EXCEPT ![p] = locks[k]]
  /\ key' = [key EXCEPT ![p] = k]
  /\ pc' = [pc EXCEPT ![p] = "select"]
  /\ UNCHANGED <<locks, refs, sem>>

AcquireExisting(p, k) ==
  /\ pc[p] = "idle"
  /\ locks[k] # None
  /\ refs' = [refs EXCEPT ![locks[k]] = @ + 1]
  /\ cur' = [cur EXCEPT ![p] = locks[k]]
  /\ key' = [key EXCEPT ![p] = k]
  /\ pc' = [pc EXCEPT ![p] = "select"]
  /\ UNCHANGED <<locks, sem>>

AcquireNew(p, k) ==
  /\ pc[p] = "idle"
  /\ locks[k] = None
  /\ \E o \in Objs \ Reachable :
       /\ locks' = [locks EXCEPT ![k] = o]
       /\ refs' = [refs EXCEPT ![o] = 1]
       /\ sem' = [sem EXCEPT ![o] = FALSE]
       /\ cur' = [cur EXCEPT ![p] = o]
  /\ key' = [key EXCEPT ![p] = k]
  /\ pc' = [pc EXCEPT ![p] = "select"]

TakeUnchecked(p) ==            \* mutant: the slot is taken twice
  /\ pc[p] = "select"
  /\ sem' = [sem EXCEPT ![cur[p]] = TRUE]
  /\ pc' = [pc EXCEPT ![p] = "held"]
  /\ UNCHANGED <<locks, refs, key, cur>>

(* The non-blocking select on current.sem. *)
Take(p) ==
  /\ pc[p] = "select"
  /\ ~sem[cur[p]]
  /\ sem' = [sem EXCEPT ![cur[p]] = TRUE]
  /\ pc' = [pc EXCEPT ![p] = "held"]
  /\ UNCHANGED <<locks, refs, key, cur>>

Busy(p) ==
  /\ pc[p] = "select"
  /\ sem[cur[p]]
  /\ pc' = [pc EXCEPT ![p] = "failed"]
  /\ UNCHANGED <<locks, refs, sem, key, cur>>

CountOutAndDelete(p) ==        \* mutant: the entry goes although others use it
  /\ refs' = [refs EXCEPT ![cur[p]] = @ - 1]
  /\ locks' = [locks EXCEPT ![key[p]] = None]

CountOutAndKeep(p) ==          \* mutant: the entry of an unused lock stays
  /\ refs' = [refs EXCEPT ![cur[p]] = @ - 1]
  /\ UNCHANGED locks

\* refs--, and drop the map entry if this was the last user of the current lock.
CountOut(p) ==
  LET o == cur[p] IN
  /\ refs' = [refs EXCEPT ![o] = @ - 1]
  /\ locks' = IF refs[o] = 1 /\ locks[key[p]] = o
                THEN [locks EXCEPT ![key[p]] = None]
                ELSE locks

(* The default branch returns ErrNotObtained after counting out. *)
NotObtained(p) ==
  /\ pc[p] = "failed"
  /\ CountOut(p)
  /\ pc' = [pc EXCEPT ![p] = "idle"]
  /\ cur' = [cur EXCEPT ![p] = None]
  /\ UNCHANGED <<sem, key>>

ReleaseWithoutDrain(p) ==      \* mutant: the slot is not given back
  /\ pc[p] = "held"
  /\ pc' = [pc EXCEPT ![p] = "drained"]
  /\ UNCHANGED <<locks, refs, sem, key, cur>>

(* lease.Release: sync.Once, then receive from sem, then count out. *)
ReleaseDrain(p) ==
  /\ pc[p] = "held"
  /\ sem[cur[p]]
  /\ sem' = [sem EXCEPT ![cur[p]] = FALSE]
  /\ pc' = [pc EXCEPT ![p] = "drained"]
  /\ UNCHANGED <<locks, refs, key, cur>>

ReleaseCountOut(p) ==
  /\ pc[p] = "drained"
  /\ CountOut(p)
  /\ pc' = [pc EXCEPT ![p] = "released"]
  /\ UNCHANGED <<sem, key, cur>>

ReleaseTwice(p) ==             \* mutant: the lease has no sync.Once
  /\ pc[p] = "released"
  /\ sem[cur[p]]
  /\ sem' = [sem EXCEPT ![cur[p]] = FALSE]
  /\ UNCHANGED <<locks, refs, pc, key, cur>>

\* A second Release on the same lease finds the Once done.
ReleaseAgain(p) ==
  /\ pc[p] = "released"
  /\ UNCHANGED vars

\* The caller drops its lease; nothing points to the closure any more.
Forget(p) ==
  /\ pc[p] = "released"
  /\ pc' = [pc EXCEPT ![p] = "idle"]
  /\ cur' = [cur EXCEPT ![p] = None]
  /\ UNCHANGED <<locks, refs, sem, key>>

Next == \E p \in Procs :
          \/ \E k \in Keys : AcquireExisting(p, k) \/ AcquireNew(p, k)
          \/ Take(p) \/ Busy(p) \/ NotObtained(p)
          \/ ReleaseDrain(p) \/ ReleaseCountOut(p) \/ ReleaseAgain(p) \/ Forget(p)

Spec == Init /\ [][Next]_vars
-----------------------------------------------------------------------------
(* Two live leases never have the same key, although the map entry of a    *)
(* key comes and goes while goroutines still hold pointers to old entries  *)
(* (locker/memory Acquire and releaseFn).                                  *)
MutualExclusion ==
  \A p, q \in Procs :
    pc[p] = "held" /\ pc[q] = "held" /\ key[p] = key[q] => p = q

(* refs counts exactly the goroutines between their two mutex sections,    *)
(* and a key has a map entry exactly while someone is counted in for it:   *)
(* the map neither leaks an entry nor loses one in use.                    *)
EntryWhileCounted ==
  /\ \A o \in Objs : (\E k \in Keys : locks[k] = o) => refs[o] = Cardinality(Users(o))
  /\ \A k \in Keys : locks[k] # None <=> \E p \in Procs : pc[p] \in Counted /\ key[p] = k

(* Acquire answers ErrNotObtained only while another lease on the key is   *)
(* live, or being given up: never because of a waiter that will fail too.  *)
RefusedOnlyWhenHeld ==
  [][\A p \in Procs :
       pc[p] = "select" /\ pc'[p] = "failed"
         => \E q \in Procs : q # p /\ key[q] = key[p] /\ pc[q] = "held"]_vars

(* releaseFn's receive from sem never blocks: the slot of a live lease is  *)
(* still taken when Release runs.                                          *)
ReleaseNeverBlocks == \A p \in Procs : pc[p] = "held" => sem[cur[p]]

owner == [k \in Keys |->
            IF \E p \in Procs : pc[p] = "held" /\ key[p] = k
              THEN CHOOSE p \in Procs : pc[p] = "held" /\ key[p] = k
              ELSE None]

Abstract == INSTANCE TryLock WITH Free <- None

(* The locker implements the contract of module TryLock.                   *)
ImplementsTryLock == Abstract!Spec
=============================================================================
