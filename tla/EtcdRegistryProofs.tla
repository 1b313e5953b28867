------------------------- MODULE EtcdRegistryProofs -------------------------
(***************************************************************************)
(* Proofs about registry/etcd for any services, leases, heartbeats and     *)
(* faults.  A service stays listed under the lease of its heartbeat because *)
(* Register cancels the heartbeat before it, so that at most one is not    *)
(* cancelled, and only that one can bind a key without the key counting as *)
(* overtaken; and a lease that is kept alive never takes a key along.      *)
(***************************************************************************)
EXTENDS EtcdRegistry, TLAPS

Heartbeat == [at : {"listen", "retry", "await", "first", "done"}, service : Services,
              lease : Nat, open : BOOLEAN, cancelled : BOOLEAN, tries : Nat, attempt : Nat]

WatchState == [at : {"first", "wait", "get"}, live : BOOLEAN, event : BOOLEAN,
               view : SUBSET Services, failed : BOOLEAN]

Typed == /\ beats \in Seq(Heartbeat)
         /\ hbCancel \in 0..Len(beats)
         /\ pc \in {"idle", "grant", "put", "cancel"}
         /\ pc # "idle" => arg \in Services
         /\ leases \in Nat /\ alive \subseteq 1..leases
         /\ granted \in 0..leases
         /\ key \in [Services -> Nat]
         /\ late \subseteq Services \X Nat
         /\ watch \in WatchState

\* No heartbeat holds or tries a lease that has not been granted yet.
LeasesGranted == \A h \in Beats : beats[h].lease <= leases /\ beats[h].attempt <= leases

\* Only the heartbeat r.hbCancel stands for is not cancelled, and none is while a
\* Register is under way.
OneUncancelled == /\ \A h \in Beats : ~beats[h].cancelled => h = hbCancel
                  /\ pc \in {"grant", "put"} => hbCancel = 0

IInv == /\ Typed
        /\ LeasesGranted
        /\ OneUncancelled
        /\ ListedWhileBeating
        /\ WatcherIsCurrent
-----------------------------------------------------------------------------
LEMMA InitIInv == Init => IInv
  BY DEF Init, IInv, Typed, LeasesGranted, OneUncancelled, ListedWhileBeating, WatcherIsCurrent,
     Beats, Heartbeat, WatchState, Live, None

LEMMA BeatTypes ==
  ASSUME Typed, NEW h \in Beats
  PROVE  /\ beats[h] \in Heartbeat
         /\ beats[h].service \in Services /\ beats[h].lease \in Nat /\ beats[h].attempt \in Nat
         /\ beats[h].open \in BOOLEAN /\ beats[h].cancelled \in BOOLEAN
  <1>1. beats[h] \in Heartbeat
    BY DEF Typed, Beats
  <1> QED
    BY <1>1 DEF Heartbeat

(* A key that changes leaves no watcher with an outdated view unwarned.    *)
LEMMA SetKeyWarns ==
  ASSUME Typed, WatcherIsCurrent, NEW s \in Services, NEW l \in Nat, SetKey(s, l)
  PROVE  /\ key' = [key EXCEPT ![s] = l] /\ key' \in [Services -> Nat]
         /\ watch' \in WatchState
         /\ WatcherIsCurrent'
  <1>1. key' = [key EXCEPT ![s] = l] /\ key' \in [Services -> Nat]
    BY DEF SetKey, Typed
  <1>2. watch' = [watch EXCEPT !.event = watch.event \/ (watch.live /\ key[s] # l)]
    BY DEF SetKey
  <1>3. (watch.event \/ (watch.live /\ key[s] # l)) \in BOOLEAN
    BY DEF Typed, WatchState
  <1>4. watch' \in WatchState
    BY <1>2, <1>3 DEF Typed, WatchState
  <1>5. /\ watch'.at = watch.at /\ watch'.live = watch.live /\ watch'.view = watch.view
        /\ watch'.failed = watch.failed
        /\ watch'.event = (watch.event \/ (watch.live /\ key[s] # l))
    BY <1>2 DEF Typed, WatchState
  <1>6. key[s] = l => key' = key
    BY <1>1 DEF Typed, WatchState
  <1>7. WatcherIsCurrent'
    BY <1>5, <1>6 DEF WatcherIsCurrent, Listed
  <1> QED
    BY <1>1, <1>4, <1>7

(* Cancelling the heartbeat of the Registry changes nothing else about it. *)
LEMMA CancelOldCancels ==
  ASSUME Typed, OneUncancelled
  PROVE  /\ CancelOld \in Seq(Heartbeat) /\ Len(CancelOld) = Len(beats)
         /\ \A h \in Beats : /\ CancelOld[h].lease = beats[h].lease
                            /\ CancelOld[h].service = beats[h].service
                            /\ CancelOld[h].attempt = beats[h].attempt
                            /\ CancelOld[h].cancelled
  <1>1. CASE hbCancel = 0
    BY <1>1 DEF CancelOld, Typed, OneUncancelled, Beats, Heartbeat
  <1>2. CASE hbCancel # 0
    <2> DEFINE b == [beats[hbCancel] EXCEPT !.cancelled = TRUE]
    <2>1. hbCancel \in Beats /\ beats[hbCancel] \in Heartbeat
      BY <1>2 DEF Typed, Beats
    <2>2. b \in Heartbeat
      BY <2>1 DEF Heartbeat
    <2>3. CancelOld = [beats EXCEPT ![hbCancel] = b]
      BY <1>2 DEF CancelOld, Cancelled
    <2>4. CancelOld \in Seq(Heartbeat) /\ Len(CancelOld) = Len(beats)
      BY <2>1, <2>2, <2>3 DEF Typed, Beats
    <2>5. /\ b.lease = beats[hbCancel].lease /\ b.service = beats[hbCancel].service
          /\ b.attempt = beats[hbCancel].attempt /\ b.cancelled
      BY <2>1 DEF Heartbeat
    <2>6. \A h \in Beats : CancelOld[h] = IF h = hbCancel THEN b ELSE beats[h]
      BY <2>1, <2>3 DEF Typed, Beats
    <2>7. \A h \in Beats : h # hbCancel => beats[h].cancelled
      BY DEF OneUncancelled, Typed, Heartbeat, Beats
    <2> HIDE DEF b
    <2> QED
      BY <2>4, <2>5, <2>6, <2>7
  <1> QED
    BY <1>1, <1>2

(* What the caller's steps do to the five parts, one lemma for each step.  *)
LEMMA SwapIInv ==
  ASSUME IInv, NEW s \in Services, Swap(s), UNCHANGED overtaken
  PROVE  IInv'
  <1> USE DEF IInv, Swap
  <1>1. /\ beats' \in Seq(Heartbeat) /\ Len(beats') = Len(beats) /\ Beats' = Beats
        /\ \A h \in Beats : /\ beats'[h].lease = beats[h].lease
                           /\ beats'[h].attempt = beats[h].attempt
                           /\ beats'[h].cancelled
    BY CancelOldCancels DEF Beats, Typed
  <1>2. Typed'
    BY <1>1 DEF Typed
  <1>3. LeasesGranted'
    BY <1>1 DEF LeasesGranted
  <1>4. OneUncancelled'
    BY <1>1 DEF OneUncancelled
  <1>5. ListedWhileBeating'
    BY <1>1 DEF ListedWhileBeating, Live
  <1>6. WatcherIsCurrent'
    BY DEF WatcherIsCurrent, Listed
  <1> QED
    BY <1>2, <1>3, <1>4, <1>5, <1>6

LEMMA GrantIInv ==
  ASSUME IInv, Grant, UNCHANGED overtaken
  PROVE  IInv'
  <1> USE DEF IInv, Grant, NewLease, registry, Beats
  <1>1. Typed'
    BY DEF Typed
  <1>2. LeasesGranted'
    BY BeatTypes DEF LeasesGranted, Typed
  <1>3. OneUncancelled'
    BY DEF OneUncancelled
  <1>4. ListedWhileBeating'
    <2> SUFFICES ASSUME NEW h \in Beats, Live(h)'
                 PROVE  Live(h)
      BY DEF OneUncancelled, ListedWhileBeating, Live
    <2>1. beats[h].lease <= leases /\ beats[h].lease \in Nat
      BY BeatTypes DEF LeasesGranted
    <2> QED
      BY <2>1 DEF Live, Typed
  <1>5. WatcherIsCurrent'
    BY DEF WatcherIsCurrent, Listed
  <1> QED
    BY <1>1, <1>2, <1>3, <1>4, <1>5

(* A Register that fails leaves no heartbeat uncancelled.                  *)
LEMMA RollbackIInv ==
  ASSUME IInv, GrantFails \/ PutFails, UNCHANGED overtaken
  PROVE  IInv'
  <1> USE DEF IInv, GrantFails, PutFails, Rollback, Beats
  <1>1. Typed'
    <2>1. pc = "put" => <<arg, granted>> \in Services \X Nat
      BY DEF Typed
    <2>2. late \subseteq Services \X Nat /\ leases \in Nat
      BY DEF Typed
    <2>3. late' \subseteq Services \X Nat
      BY <2>1, <2>2
    <2>4. granted' = 0 /\ pc' = "idle" /\ UNCHANGED <<beats, hbCancel, leases, alive, key, watch>>
      OBVIOUS
    <2>5. 0 \in 0..leases
      BY <2>2
    <2> HIDE DEF GrantFails, PutFails, Rollback
    <2> QED
      BY <2>3, <2>4, <2>5 DEF Typed
  <1>2. LeasesGranted'
    BY DEF LeasesGranted
  <1>3. OneUncancelled'
    BY DEF OneUncancelled
  <1>4. ListedWhileBeating'
    BY DEF OneUncancelled, ListedWhileBeating, Live, Typed
  <1>5. WatcherIsCurrent'
    BY DEF WatcherIsCurrent, Listed
  <1> QED
    BY <1>1, <1>2, <1>3, <1>4, <1>5

(* The new heartbeat is the only one that is not cancelled, and its key is *)
(* bound to its lease.                                                     *)
LEMMA PutIInv ==
  ASSUME IInv, Put
  PROVE  IInv'
  <1> USE DEF IInv, Put, Beats
  <1>0. arg \in Services /\ granted \in Nat /\ granted <= leases /\ hbCancel = 0
    BY DEF Typed, OneUncancelled
  <1>1. /\ key' = [key EXCEPT ![arg] = granted] /\ key' \in [Services -> Nat]
        /\ watch' \in WatchState
        /\ WatcherIsCurrent'
    BY <1>0, SetKeyWarns
  <1> DEFINE b == [at |-> "listen", service |-> arg, lease |-> granted, open |-> TRUE,
                   cancelled |-> FALSE, tries |-> 0, attempt |-> 0]
  <1>2. b \in Heartbeat
    BY <1>0 DEF Heartbeat
  <1>3. /\ beats' \in Seq(Heartbeat) /\ Len(beats') = Len(beats) + 1
        /\ \A h \in 1..Len(beats') : h \in DOMAIN beats \/ h = Len(beats) + 1
        /\ DOMAIN beats' = 1..Len(beats')
        /\ \A h \in DOMAIN beats : beats'[h] = beats[h]
        /\ beats'[Len(beats) + 1] = b
    BY <1>2 DEF Typed
  <1>4. Typed'
    BY <1>0, <1>1, <1>3 DEF Typed
  <1>5. LeasesGranted'
    BY <1>0, <1>3 DEF LeasesGranted, Typed
  <1>6. OneUncancelled'
    BY <1>0, <1>3 DEF OneUncancelled
  <1>7. ListedWhileBeating'
    <2> SUFFICES ASSUME NEW h \in DOMAIN beats', Live(h)'
                 PROVE  key'[beats'[h].service] = beats'[h].lease
      BY DEF ListedWhileBeating
    <2>1. CASE h \in DOMAIN beats
      BY <2>1, <1>0, <1>3 DEF OneUncancelled, Live, Typed
    <2>2. CASE h = Len(beats) + 1
      BY <2>2, <1>0, <1>1, <1>3 DEF Typed
    <2> QED
      BY <2>1, <2>2, <1>3
  <1> QED
    BY <1>1, <1>4, <1>5, <1>6, <1>7

LEMMA DeleteIInv ==
  ASSUME IInv, NEW s \in Services, \/ Delete(s) /\ UNCHANGED overtaken
                                   \/ DeleteFails(s)
  PROVE  IInv'
  <1> USE DEF IInv, Delete, DeleteFails, registry, caller, Beats
  <1>1. \/ /\ key' = [key EXCEPT ![s] = 0] /\ key' \in [Services -> Nat]
           /\ watch' \in WatchState
           /\ WatcherIsCurrent'
        \/ key' = key /\ watch' = watch /\ WatcherIsCurrent'
    <2>1. CASE SetKey(s, 0)
      BY <2>1, SetKeyWarns
    <2>2. CASE UNCHANGED <<key, watch>>
      BY <2>2 DEF WatcherIsCurrent, Listed
    <2> QED
      BY <2>1, <2>2
  <1>2. Typed'
    BY <1>1 DEF Typed
  <1>3. LeasesGranted'
    BY DEF LeasesGranted
  <1>4. OneUncancelled'
    BY DEF OneUncancelled
  <1>5. ListedWhileBeating'
    <2> SUFFICES ASSUME NEW h \in DOMAIN beats, Live(h), beats[h].service \notin overtaken',
                        ~(pc' = "cancel" /\ arg' = beats[h].service)
                 PROVE  key'[beats[h].service] = beats[h].lease
      BY DEF ListedWhileBeating, Live
    <2>1. beats[h].service \in Services
      BY BeatTypes
    <2>2. key[beats[h].service] = beats[h].lease
      BY DEF ListedWhileBeating
    <2>3. CASE Delete(s)
      BY <2>1, <2>2, <2>3, SetKeyWarns DEF Typed, SetKey
    <2>4. CASE DeleteFails(s)
      BY <2>1, <2>2, <2>4 DEF Typed, SetKey
    <2> QED
      BY <2>3, <2>4
  <1> QED
    BY <1>1, <1>2, <1>3, <1>4, <1>5

LEMMA CancelIInv ==
  ASSUME IInv, Cancel, UNCHANGED overtaken
  PROVE  IInv'
  <1> USE DEF IInv, Cancel
  <1>1. /\ beats' \in Seq(Heartbeat) /\ Len(beats') = Len(beats) /\ Beats' = Beats
        /\ \A h \in Beats : /\ beats'[h].lease = beats[h].lease
                           /\ beats'[h].attempt = beats[h].attempt
                           /\ beats'[h].cancelled
    BY CancelOldCancels DEF Beats, Typed
  <1>2. Typed'
    BY <1>1 DEF Typed
  <1>3. LeasesGranted'
    BY <1>1 DEF LeasesGranted
  <1>4. OneUncancelled'
    BY <1>1 DEF OneUncancelled
  <1>5. ListedWhileBeating'
    BY <1>1 DEF ListedWhileBeating, Live
  <1>6. WatcherIsCurrent'
    BY DEF WatcherIsCurrent, Listed
  <1> QED
    BY <1>2, <1>3, <1>4, <1>5, <1>6
-----------------------------------------------------------------------------
LEMMA BeatChanges ==
  ASSUME Typed, NEW h \in Beats, NEW b \in Heartbeat, Beat(h, b)
  PROVE  /\ beats' \in Seq(Heartbeat) /\ Len(beats') = Len(beats) /\ Beats' = Beats
         /\ \A g \in Beats : beats'[g] = IF g = h THEN b ELSE beats[g]
  BY DEF Typed, Beat, Beats

(* A step of a heartbeat that neither makes nor moves a live one.          *)
LEMMA QuietBeatIInv ==
  ASSUME IInv, NEW h \in Beats, NEW b \in Heartbeat, Beat(h, b),
         b.service = beats[h].service, b.cancelled = beats[h].cancelled,
         b.open => beats[h].open /\ b.lease = beats[h].lease,
         b.lease <= leases', b.attempt <= leases',
         NewLease \/ UNCHANGED <<leases, alive>>,
         late' \subseteq Services \X Nat,
         UNCHANGED <<registry, caller, key, watch, overtaken>>
  PROVE  IInv'
  <1> USE DEF IInv, registry, caller
  <1>1. /\ beats' \in Seq(Heartbeat) /\ Len(beats') = Len(beats) /\ Beats' = Beats
        /\ \A g \in Beats : beats'[g] = IF g = h THEN b ELSE beats[g]
    BY BeatChanges
  <1>2. leases <= leases' /\ leases' \in Nat /\ alive' \subseteq 1..leases'
        /\ \A l \in Nat : l <= leases /\ l \in alive' => l \in alive
    <2>1. leases \in Nat /\ alive \subseteq 1..leases
      BY DEF Typed
    <2>2. CASE UNCHANGED <<leases, alive>>
      BY <2>1, <2>2
    <2>3. CASE NewLease
      <3>1. leases' = leases + 1 /\ alive' = alive \cup {leases + 1}
        BY <2>3 DEF NewLease
      <3> QED
        BY ONLY <2>1, <3>1
    <2> QED
      BY <2>2, <2>3
  <1>3. Typed'
    BY <1>1, <1>2 DEF Typed
  <1>4. LeasesGranted'
    <2>1. \A g \in Beats : /\ beats[g].lease \in Nat /\ beats[g].attempt \in Nat
                          /\ beats[g].lease <= leases /\ beats[g].attempt <= leases
      BY BeatTypes DEF LeasesGranted
    <2>2. leases \in Nat
      BY DEF Typed
    <2> QED
      BY <1>1, <1>2, <2>1, <2>2 DEF LeasesGranted
  <1>5. OneUncancelled'
    BY <1>1 DEF OneUncancelled
  <1>6. ListedWhileBeating'
    <2> SUFFICES ASSUME NEW g \in Beats, Live(g)'
                 PROVE  /\ Live(g) /\ beats'[g].service = beats[g].service
                        /\ beats'[g].lease = beats[g].lease
      BY <1>1 DEF ListedWhileBeating
    <2>1. /\ beats'[g].service = beats[g].service /\ beats'[g].lease = beats[g].lease
          /\ ~beats[g].cancelled /\ beats[g].open /\ beats[g].lease \in alive'
      BY <1>1 DEF Live
    <2>2. beats[g].lease \in Nat /\ beats[g].lease <= leases
      BY BeatTypes DEF LeasesGranted
    <2> QED
      BY <1>2, <2>1, <2>2 DEF Live
  <1>7. WatcherIsCurrent'
    BY DEF WatcherIsCurrent, Listed
  <1> QED
    BY <1>3, <1>4, <1>5, <1>6, <1>7

(* The channel ends or breaks.                                             *)
LEMMA ChannelIInv ==
  ASSUME IInv, NEW h \in Beats, UNCHANGED <<registry, caller, overtaken>>,
         ChannelEnds(h) \/ ChannelBreaks(h)
  PROVE  IInv'
  <1> DEFINE b == [beats[h] EXCEPT !.open = FALSE]
  <1>1. Beat(h, b) /\ UNCHANGED <<late, leases, alive, key, watch>>
    BY DEF ChannelEnds, ChannelBreaks
  <1>2. beats[h] \in Heartbeat /\ late \subseteq Services \X Nat
    BY BeatTypes DEF IInv, Typed
  <1>3. /\ b \in Heartbeat /\ b.service = beats[h].service /\ b.cancelled = beats[h].cancelled
        /\ ~b.open /\ b.lease = beats[h].lease /\ b.attempt = beats[h].attempt
    BY <1>2 DEF Heartbeat
  <1>4. b.lease <= leases' /\ b.attempt <= leases'
    BY <1>1, <1>3 DEF IInv, LeasesGranted
  <1> HIDE DEF b
  <1> QED
    BY <1>1, <1>2, <1>3, <1>4, QuietBeatIInv

(* A heartbeat whose channel is closed registers again, or ends.           *)
LEMMA ClosedOrRetryIInv ==
  ASSUME IInv, NEW h \in Beats, UNCHANGED <<registry, caller, overtaken>>,
         Closed(h) \/ Retry(h) \/ FirstAnswer(h)
  PROVE  IInv'
  <1>1. /\ beats[h] \in Heartbeat /\ late \subseteq Services \X Nat /\ leases \in Nat
        /\ beats[h].lease <= leases /\ beats[h].attempt <= leases
    BY BeatTypes DEF IInv, Typed, LeasesGranted
  <1>2. CASE Closed(h)
    <2> DEFINE b == [beats[h] EXCEPT !.at = IF beats[h].cancelled THEN "done" ELSE "retry",
                                     !.lease = 0, !.tries = 0]
    <2>1. Beat(h, b) /\ UNCHANGED <<late, leases, alive, key, watch>> /\ ~beats[h].open
      BY <1>2 DEF Closed
    <2>2. /\ b \in Heartbeat /\ b.service = beats[h].service /\ b.cancelled = beats[h].cancelled
          /\ b.open = beats[h].open /\ b.lease = 0 /\ b.attempt = beats[h].attempt
      BY <1>1 DEF Heartbeat
    <2> HIDE DEF b
    <2> QED
      BY <1>1, <2>1, <2>2, QuietBeatIInv
  <1>3. CASE Retry(h)
    <2> DEFINE b == [beats[h] EXCEPT !.at = IF beats[h].cancelled \/ beats[h].tries = MaxRetry
                                            THEN "done" ELSE "await",
                                     !.tries = IF beats[h].cancelled THEN 0 ELSE @]
    <2>1. Beat(h, b) /\ UNCHANGED <<late, leases, alive, key, watch>>
      BY <1>3 DEF Retry
    <2>2. /\ b \in Heartbeat /\ b.service = beats[h].service /\ b.cancelled = beats[h].cancelled
          /\ b.open = beats[h].open /\ b.lease = beats[h].lease /\ b.attempt = beats[h].attempt
      BY <1>1 DEF Heartbeat
    <2> HIDE DEF b
    <2> QED
      BY <1>1, <2>1, <2>2, QuietBeatIInv
  <1>4. CASE FirstAnswer(h)
    <2> DEFINE b == IF beats[h].open THEN [beats[h] EXCEPT !.at = "listen"]
                    ELSE [beats[h] EXCEPT !.at = "done", !.lease = 0]
    <2>1. Beat(h, b) /\ UNCHANGED <<late, leases, alive, key, watch>>
      BY <1>4 DEF FirstAnswer
    <2>2. /\ b \in Heartbeat /\ b.service = beats[h].service /\ b.cancelled = beats[h].cancelled
          /\ b.open => beats[h].open /\ b.lease = beats[h].lease
          /\ b.lease = beats[h].lease \/ b.lease = 0
          /\ b.attempt = beats[h].attempt
      BY <1>1 DEF Heartbeat
    <2>3. b.lease <= leases' /\ b.attempt <= leases'
      BY <1>1, <2>1, <2>2
    <2> HIDE DEF b
    <2> QED
      BY <1>1, <2>1, <2>2, <2>3, QuietBeatIInv
  <1> QED
    BY <1>2, <1>3, <1>4

(* An attempt begins with a new lease, and ends without one.               *)
LEMMA AttemptIInv ==
  ASSUME IInv, NEW h \in Beats, UNCHANGED <<registry, caller>>,
         AttemptGrant(h) \/ AttemptFails(h)
  PROVE  IInv'
  <1>1. /\ beats[h] \in Heartbeat /\ late \subseteq Services \X Nat /\ leases \in Nat
        /\ alive \subseteq 1..leases
        /\ beats[h].lease <= leases /\ beats[h].attempt <= leases
    BY BeatTypes DEF IInv, Typed, LeasesGranted
  <1>2. CASE AttemptGrant(h)
    <2> DEFINE b == [beats[h] EXCEPT !.attempt = leases']
    <2>1. Beat(h, b) /\ UNCHANGED <<late, key, watch, overtaken>> /\ NewLease
      BY <1>2 DEF AttemptGrant
    <2>2. leases' = leases + 1
      BY <2>1 DEF NewLease
    <2>3. /\ b \in Heartbeat /\ b.service = beats[h].service /\ b.cancelled = beats[h].cancelled
          /\ b.open = beats[h].open /\ b.lease = beats[h].lease /\ b.attempt = leases'
      BY <1>1, <2>2 DEF Heartbeat
    <2>4. b.lease <= leases' /\ b.attempt <= leases'
      BY <1>1, <2>2, <2>3 DEF Heartbeat
    <2> HIDE DEF b
    <2> QED
      BY <1>1, <2>1, <2>3, <2>4, QuietBeatIInv
  <1>3. CASE AttemptFails(h)
    <2> DEFINE b == [beats[h] EXCEPT !.at = "retry", !.tries = @ + 1, !.attempt = 0]
    <2>1. /\ Beat(h, b) /\ UNCHANGED <<leases, alive, key, watch, overtaken>>
          /\ late' = late \cup {<<beats[h].service, l>> : l \in {beats[h].attempt} \cap alive}
      BY <1>3 DEF AttemptFails
    <2>2. /\ b \in Heartbeat /\ b.service = beats[h].service /\ b.cancelled = beats[h].cancelled
          /\ b.open = beats[h].open /\ b.lease = beats[h].lease /\ b.attempt = 0
      <3>1. beats[h].tries + 1 \in Nat
        BY <1>1 DEF Heartbeat
      <3> QED
        BY <1>1, <3>1 DEF Heartbeat
    <2>3. beats[h].service \in Services /\ beats[h].attempt \in Nat
      BY BeatTypes DEF IInv
    <2>5. late' \subseteq Services \X Nat
      <3> HIDE DEF b
      <3> QED
        BY ONLY <1>1, <2>1, <2>3
    <2>4. b.lease <= leases' /\ b.attempt <= leases'
      BY <1>1, <2>1, <2>2
    <2> HIDE DEF b
    <2> QED
      BY <2>1, <2>2, <2>4, <2>5, QuietBeatIInv
  <1> QED
    BY <1>2, <1>3

(* An attempt puts the key: it is the heartbeat's again, or, if that was   *)
(* cancelled meanwhile, nobody's.                                          *)
LEMMA AttemptPutIInv ==
  ASSUME IInv, NEW h \in Beats, UNCHANGED <<registry, caller>>, AttemptPut(h)
  PROVE  IInv'
  <1> USE DEF IInv, registry, caller
  <1> DEFINE b == [beats[h] EXCEPT !.at = "first", !.lease = beats[h].attempt,
                                   !.attempt = 0, !.open = TRUE, !.tries = 0]
  <1>1. /\ beats[h] \in Heartbeat /\ beats[h].service \in Services /\ beats[h].attempt \in Nat
        /\ beats[h].attempt <= leases /\ leases \in Nat
    BY BeatTypes DEF Typed, LeasesGranted
  <1>2. Beat(h, b) /\ SetKey(beats[h].service, beats[h].attempt) /\ UNCHANGED <<late, leases, alive>>
    BY DEF AttemptPut
  <1>3. /\ b \in Heartbeat /\ b.service = beats[h].service /\ b.cancelled = beats[h].cancelled
        /\ b.lease = beats[h].attempt /\ b.attempt = 0
    BY <1>1 DEF Heartbeat
  <1> HIDE DEF b
  <1>4. /\ beats' \in Seq(Heartbeat) /\ Len(beats') = Len(beats) /\ Beats' = Beats
        /\ \A g \in Beats : beats'[g] = IF g = h THEN b ELSE beats[g]
    BY <1>2, <1>3, BeatChanges
  <1>5. /\ key' = [key EXCEPT ![beats[h].service] = beats[h].attempt] /\ key' \in [Services -> Nat]
        /\ watch' \in WatchState
        /\ WatcherIsCurrent'
    BY <1>1, <1>2, SetKeyWarns
  <1>6. Typed'
    BY <1>2, <1>4, <1>5 DEF Typed
  <1>7. LeasesGranted'
    BY <1>1, <1>2, <1>3, <1>4 DEF LeasesGranted
  <1>8. OneUncancelled'
    BY <1>3, <1>4 DEF OneUncancelled
  <1>9. ListedWhileBeating'
    <2> SUFFICES ASSUME NEW g \in Beats, Live(g)', beats'[g].service \notin overtaken',
                        ~(pc = "cancel" /\ arg = beats'[g].service)
                 PROVE  key'[beats'[g].service] = beats'[g].lease
      BY <1>4 DEF ListedWhileBeating
    <2>1. CASE g = h
      BY <1>1, <1>3, <1>4, <1>5, <2>1 DEF Typed
    <2>2. CASE g # h
      <3>1. /\ beats'[g] = beats[g] /\ Live(g) /\ ~beats[g].cancelled
            /\ beats[g].service \in Services /\ beats[g].service \notin overtaken'
        BY <1>2, <1>4, <2>2, BeatTypes DEF Live
      <3>2. beats[h].cancelled
        BY <2>2, <3>1 DEF OneUncancelled
      <3>3. overtaken' = overtaken \cup {beats[h].service}
        BY <3>2 DEF AttemptPut
      <3>4. key[beats[g].service] = beats[g].lease
        BY <3>1, <3>3, <1>4 DEF ListedWhileBeating
      <3> QED
        BY <1>1, <1>5, <3>1, <3>3, <3>4 DEF Typed
    <2> QED
      BY <2>1, <2>2
  <1> QED
    BY <1>5, <1>6, <1>7, <1>8, <1>9
-----------------------------------------------------------------------------
(* A Put that was given up is applied, and the key counts as overtaken.    *)
LEMMA LatePutIInv ==
  ASSUME IInv, NEW p \in late, LatePut(p) \/ LostPut(p)
  PROVE  IInv'
  <1> USE DEF IInv, registry, caller
  <1>1. p[1] \in Services /\ p[2] \in Nat /\ late' \subseteq Services \X Nat
    BY DEF Typed, LatePut, LostPut
  <1>2. UNCHANGED <<registry, caller, beats, leases, alive, current>>
    BY DEF LatePut, LostPut
  <1>3. \/ SetKey(p[1], p[2]) /\ overtaken' = overtaken \cup {p[1]}
        \/ UNCHANGED <<key, watch, overtaken>>
    BY DEF LatePut, LostPut
  <1>4. \/ /\ key' = [key EXCEPT ![p[1]] = p[2]] /\ key' \in [Services -> Nat]
           /\ watch' \in WatchState
           /\ WatcherIsCurrent' /\ overtaken' = overtaken \cup {p[1]}
        \/ UNCHANGED <<key, watch, overtaken>> /\ WatcherIsCurrent'
    BY <1>1, <1>3, SetKeyWarns DEF WatcherIsCurrent, Listed
  <1>5. Typed'
    BY <1>1, <1>2, <1>4 DEF Typed
  <1>6. LeasesGranted' /\ OneUncancelled'
    BY <1>2 DEF LeasesGranted, OneUncancelled, Beats
  <1>7. ListedWhileBeating'
    <2> SUFFICES ASSUME NEW h \in Beats, Live(h), beats[h].service \notin overtaken',
                        ~(pc = "cancel" /\ arg = beats[h].service)
                 PROVE  key'[beats[h].service] = beats[h].lease
      BY <1>2 DEF ListedWhileBeating, Live, Beats
    <2>1. beats[h].service \in Services
      BY BeatTypes
    <2>2. key[beats[h].service] = beats[h].lease
      BY <1>4 DEF ListedWhileBeating
    <2> QED
      BY <1>1, <1>4, <2>1, <2>2 DEF Typed
  <1> QED
    BY <1>4, <1>5, <1>6, <1>7

(* A lease that expires is nobody's any more.                              *)
LEMMA ExpireIInv ==
  ASSUME IInv, NEW l \in alive, Expire(l)
  PROVE  IInv'
  <1> USE DEF IInv, registry, caller
  <1>1. /\ UNCHANGED <<registry, caller, beats, late, leases, current, overtaken>>
        /\ alive' = alive \ {l} /\ l \notin Kept
        /\ key' = [s \in Services |-> IF key[s] = l THEN 0 ELSE key[s]]
        /\ watch' = [watch EXCEPT !.event = watch.event \/ (watch.live /\ key' # key)]
    BY DEF Expire
  <1>2. key' \in [Services -> Nat]
    BY <1>1 DEF Typed
  <1>3. /\ watch' \in WatchState
        /\ watch'.at = watch.at /\ watch'.live = watch.live /\ watch'.view = watch.view
        /\ watch'.failed = watch.failed
        /\ watch'.event = (watch.event \/ (watch.live /\ key' # key))
    <2>1. (watch.event \/ (watch.live /\ key' # key)) \in BOOLEAN
      BY DEF Typed, WatchState
    <2> QED
      BY <1>1, <2>1 DEF Typed, WatchState
  <1>4. Typed'
    BY <1>1, <1>2, <1>3 DEF Typed
  <1>5. LeasesGranted' /\ OneUncancelled'
    BY <1>1 DEF LeasesGranted, OneUncancelled, Beats
  <1>6. ListedWhileBeating'
    <2> SUFFICES ASSUME NEW h \in Beats, Live(h)', beats[h].service \notin overtaken,
                        ~(pc = "cancel" /\ arg = beats[h].service)
                 PROVE  key'[beats[h].service] = beats[h].lease
      BY <1>1 DEF ListedWhileBeating, Beats
    <2>1. Live(h) /\ beats[h].service \in Services
      BY <1>1, BeatTypes DEF Live
    <2>2. beats[h].lease # l
      BY <1>1, <2>1 DEF Live, Kept
    <2>3. key[beats[h].service] = beats[h].lease
      BY <2>1 DEF ListedWhileBeating
    <2> QED
      BY <1>1, <2>1, <2>2, <2>3
  <1>7. WatcherIsCurrent'
    BY <1>3 DEF WatcherIsCurrent, Listed
  <1> QED
    BY <1>4, <1>5, <1>6, <1>7

LEMMA WatcherIInv ==
  ASSUME IInv, Watcher \/ StreamBreaks \/ ReadFails \/ ReWatchFails,
         UNCHANGED <<registry, caller, beats, late, leases, alive, key, current, overtaken>>
  PROVE  IInv'
  <1> USE DEF IInv, registry, caller
  <1>1. /\ watch' \in WatchState
        /\ watch'.at = "wait" /\ watch'.live /\ ~watch'.event /\ ~watch'.failed
             => watch'.view = Listed
    <2>1. CASE Listing
      <3>1. Listed \in SUBSET Services
        BY DEF Listed
      <3>2. watch' = [watch EXCEPT !.at = "wait", !.view = Listed, !.failed = FALSE]
        BY <2>1 DEF Listing
      <3>3. watch \in WatchState
        BY DEF Typed
      <3>4. watch'.view = Listed
        BY ONLY <3>2, <3>3 DEF WatchState
      <3>5. watch' \in WatchState
        BY ONLY <3>1, <3>2, <3>3 DEF WatchState
      <3> QED
        BY <3>4, <3>5
    <2>2. CASE Event \/ ReWatch \/ StreamBreaks
      <3>1. \/ watch' = [watch EXCEPT !.at = "get", !.event = FALSE]
            \/ watch' = [watch EXCEPT !.at = "get", !.live = TRUE]
            \/ watch' = [watch EXCEPT !.live = FALSE]
        BY <2>2 DEF Event, ReWatch, StreamBreaks
      <3>2. watch \in WatchState
        BY DEF Typed
      <3>3. watch' \in WatchState
        BY ONLY <3>1, <3>2 DEF WatchState
      <3>4. watch'.at = "get" \/ ~watch'.live
        BY ONLY <3>1, <3>2 DEF WatchState
      <3> QED
        BY <3>3, <3>4
    <2>3. CASE ReadFails \/ ReWatchFails
      <3>1. \/ watch' = [watch EXCEPT !.at = "wait", !.failed = TRUE]
            \/ \E opened \in BOOLEAN :
                 watch' = [watch EXCEPT !.live = opened, !.failed = TRUE]
        BY <2>3 DEF ReadFails, ReWatchFails
      <3>2. watch \in WatchState
        BY DEF Typed
      <3>3. watch' \in WatchState /\ watch'.failed
        BY ONLY <3>1, <3>2 DEF WatchState
      <3> QED
        BY <3>3
    <2> QED
      BY <2>1, <2>2, <2>3 DEF Watcher, FirstGet, Get
  <1>2. Typed'
    BY <1>1 DEF Typed
  <1>3. LeasesGranted' /\ OneUncancelled' /\ ListedWhileBeating'
    BY DEF LeasesGranted, OneUncancelled, ListedWhileBeating, Live, Beats
  <1>4. WatcherIsCurrent'
    BY <1>1 DEF WatcherIsCurrent, Listed
  <1> QED
    BY <1>2, <1>3, <1>4
-----------------------------------------------------------------------------
LEMMA StepIInv == IInv /\ [Next]_vars => IInv'
  <1> SUFFICES ASSUME IInv, [Next]_vars PROVE IInv'
    OBVIOUS
  <1>1. CASE UNCHANGED vars
    BY <1>1 DEF vars, registry, caller, IInv, Typed, LeasesGranted, OneUncancelled,
       ListedWhileBeating, WatcherIsCurrent, Live, Listed, Beats
  <1>2. ASSUME NEW s \in Services, \/ (Swap(s) \/ Delete(s)) /\ UNCHANGED overtaken
                                   \/ DeleteFails(s)
        PROVE  IInv'
    BY <1>2, SwapIInv, DeleteIInv
  <1>3. CASE Calling
    BY <1>3, GrantIInv, RollbackIInv, PutIInv, CancelIInv DEF Calling
  <1>4. ASSUME NEW h \in Beats, Beating(h)
        PROVE  IInv'
    <2>1. UNCHANGED <<registry, caller>>
      BY <1>4 DEF Beating
    <2>2. CASE ChannelEnds(h)
      BY <2>1, <2>2, ChannelIInv DEF ChannelEnds
    <2>3. CASE Closed(h) \/ Retry(h) \/ FirstAnswer(h)
      <3>1. UNCHANGED overtaken
        BY <2>3 DEF Closed, Retry, FirstAnswer
      <3> QED
        BY <2>1, <2>3, <3>1, ClosedOrRetryIInv
    <2>4. CASE AttemptGrant(h) \/ AttemptFails(h)
      BY <2>1, <2>4, AttemptIInv
    <2>5. CASE AttemptPut(h)
      BY <2>1, <2>5, AttemptPutIInv
    <2> QED
      BY <1>4, <2>2, <2>3, <2>4, <2>5 DEF Beating
  <1>5. ASSUME NEW h \in Beats, ChannelBreaks(h), UNCHANGED <<registry, caller, current, overtaken>>
        PROVE  IInv'
    BY <1>5, ChannelIInv
  <1>6. ASSUME NEW p \in late, LatePut(p) \/ LostPut(p)
        PROVE  IInv'
    BY <1>6, LatePutIInv
  <1>7. ASSUME NEW l \in alive, Expire(l)
        PROVE  IInv'
    BY <1>7, ExpireIInv
  <1>8. CASE \/ Watcher
            \/ /\ StreamBreaks \/ ReadFails \/ ReWatchFails
               /\ UNCHANGED <<registry, caller, beats, late, leases, alive, key, current, overtaken>>
    BY <1>8, WatcherIInv DEF Watcher
  <1> QED
    BY <1>1, <1>2, <1>3, <1>4, <1>5, <1>6, <1>7, <1>8 DEF Next

(* The inductive invariant holds in every state.                           *)
THEOREM Invariance == Spec => []IInv
  <1> QED
    BY InitIInv, StepIInv, PTL DEF Spec

(* While a heartbeat keeps its lease alive its service stays listed under  *)
(* that lease, through every failure of registry.go's Register, heartBeat  *)
(* and Deregister, for any number of services, leases and faults.          *)
THEOREM ListingKept == Spec => []ListedWhileBeating
  <1>1. IInv => ListedWhileBeating
    BY DEF IInv
  <1> QED
    BY <1>1, Invariance, PTL

(* A watcher that waits with nothing to come has returned the latest set   *)
(* of services, whatever made the keys change and the stream break, unless *)
(* its last Next returned an error: a failed read is not tried again until *)
(* the next event.                                                         *)
THEOREM WatcherKept == Spec => []WatcherIsCurrent
  <1>1. IInv => WatcherIsCurrent
    BY DEF IInv
  <1> QED
    BY <1>1, Invariance, PTL
=============================================================================
