---------------------------- MODULE EtcdRegistry ----------------------------
(***************************************************************************)
(* registry/etcd: one process that registers and deregisters services with *)
(* one Registry, the heartbeat each Register starts, and a watcher in      *)
(* another process.  Calls to etcd may fail, may be given up, and a given  *)
(* up Put may still be applied later.  A keep-alive channel may close at   *)
(* any time; a lease that is not kept alive expires and takes the keys     *)
(* bound to it along.  Grant needs no open Lease object and keep-alive runs *)
(* on the client, so of r.lease it only matters whether it is nil.         *)
(***************************************************************************)
EXTENDS Naturals, Sequences

CONSTANTS Services,
          First,      \* the service registered first (bound: they are alike)
          MaxRetry,   \* opts.maxRetry
          MaxBeats,   \* successful calls of Register (bound)
          MaxLeases,  \* leases granted (bound)
          MaxFaults   \* failed calls, time-outs and closed channels (bound)

ASSUME FirstIsService == First \in Services
ASSUME Bounds == {MaxRetry, MaxBeats, MaxLeases, MaxFaults} \subseteq Nat

VARIABLES hasLease,  \* r.lease # nil
          hbCancel,  \* the heartbeat r.hbCancel cancels, 0 for nil
          pc,        \* the caller: "idle", "grant", "put", "cancel"
          arg,       \* the service of its call
          hadLease,  \* oldLease # nil
          granted,   \* the lease it has been granted
          beats,     \* the heartbeats started so far
          late,      \* Puts given up that etcd may still apply: <<service, lease>>
          leases,    \* leases granted so far: 1..leases
          alive,     \* those that have not expired
          key,       \* the lease the key of a service is bound to, 0 if it is absent
          watch,     \* the watcher: where it is, whether its stream works and
                     \* holds an event, the services Next returned last, and
                     \* whether it has returned an error since
          current,   \* the service of the latest Register or Deregister, if registered
          overtaken, \* services whose key no longer follows the heartbeat: a Put or
                     \* Delete that was thought to have failed took effect after all
          faults     \* faults so far

caller == <<pc, arg, hadLease, granted>>
registry == <<hasLease, hbCancel>>
vars == <<registry, caller, beats, late, leases, alive, key, watch, current, overtaken, faults>>

None == "none"
Beats == DOMAIN beats
Listed == {s \in Services : key[s] # 0}

Init == /\ hasLease = FALSE /\ hbCancel = 0
        /\ pc = "idle" /\ arg = None /\ hadLease = FALSE /\ granted = 0
        /\ beats = << >> /\ late = {} /\ leases = 0 /\ alive = {}
        /\ key = [s \in Services |-> 0]
        /\ watch = [at |-> "first", live |-> TRUE, event |-> FALSE, view |-> {}, failed |-> FALSE]
        /\ current = None /\ overtaken = {} /\ faults = 0

Fault == faults < MaxFaults /\ faults' = faults + 1
\* A key changes, and a working watch stream gets an event.
SetKey(s, l) == /\ key' = [key EXCEPT ![s] = l]
                /\ watch' = [watch EXCEPT !.event = @ \/ (watch.live /\ key[s] # l)]
NewLease == leases < MaxLeases /\ leases' = leases + 1 /\ alive' = alive \cup {leases + 1}
Cancelled(h) == [beats EXCEPT ![h].cancelled = TRUE]
CancelOld == IF hbCancel = 0 THEN beats ELSE Cancelled(hbCancel)
-----------------------------------------------------------------------------
(* Register *)
Swap(s) == /\ pc = "idle" /\ Len(beats) < MaxBeats /\ (beats = << >> => s = First)
           /\ hadLease' = hasLease /\ hasLease' = TRUE
           /\ hbCancel' = 0 /\ beats' = CancelOld
           /\ pc' = "grant" /\ arg' = s /\ current' = None
           /\ UNCHANGED <<granted, late, leases, alive, key, watch, faults>>

Rollback == /\ hasLease' = hadLease /\ pc' = "idle" /\ arg' = None /\ granted' = 0
            /\ hadLease' = FALSE /\ UNCHANGED <<hbCancel, beats, current>>

Grant == /\ pc = "grant" /\ NewLease /\ granted' = leases' /\ pc' = "put"
         /\ UNCHANGED <<registry, arg, hadLease, beats, late, key, watch, current, faults>>
GrantFails == /\ pc = "grant" /\ Rollback
              /\ Fault \/ (leases = MaxLeases /\ UNCHANGED faults)
              /\ UNCHANGED <<late, leases, alive, key, watch>>
\* The key is put and the heartbeat starts; its lease counts as kept from here on.
Put == /\ pc = "put" /\ granted \in alive /\ SetKey(arg, granted)
       /\ beats' = Append(beats, [at |-> "listen", service |-> arg, lease |-> granted, open |-> TRUE,
                                  cancelled |-> FALSE, tries |-> 0, attempt |-> 0])
       /\ hbCancel' = Len(beats) + 1 /\ current' = arg /\ overtaken' = overtaken \ {arg}
       /\ pc' = "idle" /\ arg' = None /\ granted' = 0 /\ hadLease' = FALSE
       /\ UNCHANGED <<hasLease, late, leases, alive, faults>>
\* The answer is lost or late, or the lease has run out.
PutFails == /\ pc = "put" /\ Rollback
            /\ IF granted \in alive THEN Fault /\ late' = late \cup {<<arg, granted>>}
               ELSE UNCHANGED <<late, faults>>
            /\ UNCHANGED <<leases, alive, key, watch>>

(* Deregister: the key of the service goes first, then the heartbeat, that  *)
(* of the latest registration whichever service is deregistered.  With      *)
(* r.lease nil it stops nothing and only deletes a key (left out: a bound).  *)
Delete(s) == /\ pc = "idle" /\ hasLease /\ SetKey(s, 0) /\ pc' = "cancel" /\ arg' = s
             /\ current' = None
             /\ UNCHANGED <<registry, hadLease, granted, beats, late, leases, alive, faults>>
\* An error leaves the heartbeat alone, whether the key went or not.
DeleteFails(s) == /\ pc = "idle" /\ hasLease /\ Fault
                  /\ \/ SetKey(s, 0) /\ overtaken' = overtaken \cup {s}
                     \/ UNCHANGED <<key, watch, overtaken>>
                  /\ UNCHANGED <<registry, caller, beats, late, leases, alive, current>>
CancelForgotten ==               \* mutant: the heartbeat goes on
    /\ pc = "cancel" /\ pc' = "idle" /\ arg' = None
    /\ beats' = beats /\ hbCancel' = 0 /\ hasLease' = FALSE
    /\ UNCHANGED <<hadLease, granted, late, leases, alive, key, watch, current, faults>>
Cancel == /\ pc = "cancel" /\ pc' = "idle" /\ arg' = None
          /\ beats' = CancelOld /\ hbCancel' = 0 /\ hasLease' = FALSE
          /\ UNCHANGED <<hadLease, granted, late, leases, alive, key, watch, current, faults>>
-----------------------------------------------------------------------------
(* heartBeat: it listens to the keep-alive channel of its lease; when that *)
(* closes, it registers again, with a new lease for each attempt.          *)
Kept == {beats[h].lease : h \in {g \in Beats : beats[g].open}}
Beat(h, b) == beats' = [beats EXCEPT ![h] = b]

\* The client closes the channel: cancelled, lease gone, or no answers in time.
ChannelEnds(h) == /\ beats[h].open /\ Beat(h, [beats[h] EXCEPT !.open = FALSE])
                  /\ beats[h].cancelled \/ beats[h].lease \notin alive
                  /\ UNCHANGED <<late, leases, alive, key, watch, faults, overtaken>>
ChannelBreaks(h) == /\ beats[h].open /\ Beat(h, [beats[h] EXCEPT !.open = FALSE]) /\ Fault
                    /\ UNCHANGED <<late, leases, alive, key, watch>>

Closed(h) == /\ beats[h].at = "listen" /\ ~beats[h].open
             /\ Beat(h, [beats[h] EXCEPT !.at = IF beats[h].cancelled THEN "done" ELSE "retry",
                                         !.lease = 0, !.tries = 0])
             /\ UNCHANGED <<late, leases, alive, key, watch, faults, overtaken>>
\* With no tries left it reads the closed channel once more and returns.
Retry(h) == /\ beats[h].at = "retry"
            /\ Beat(h, [beats[h] EXCEPT !.at = IF beats[h].cancelled \/ beats[h].tries = MaxRetry
                                               THEN "done" ELSE "await",
                                         !.tries = IF beats[h].cancelled THEN 0 ELSE @])
            /\ UNCHANGED <<late, leases, alive, key, watch, faults, overtaken>>

(* An attempt, registerWithKV in a goroutine of its own, given up after 3 s. *)
(* When the heartbeat is cancelled a Put may be on its way already.         *)
AttemptGrant(h) == /\ beats[h].at = "await" /\ beats[h].attempt = 0 /\ ~beats[h].cancelled
                   /\ hasLease /\ NewLease /\ Beat(h, [beats[h] EXCEPT !.attempt = leases'])
                   /\ UNCHANGED <<late, key, watch, overtaken, faults>>
AttemptWithoutPut(h) ==          \* mutant: keeps the new lease, puts no key
    /\ beats[h].at = "await" /\ beats[h].attempt \in alive
    /\ Beat(h, [beats[h] EXCEPT !.at = "first", !.lease = beats[h].attempt,
                                !.attempt = 0, !.open = TRUE, !.tries = 0])
    /\ overtaken' = overtaken \ {beats[h].service}
    /\ UNCHANGED <<late, leases, alive, key, watch, faults>>
AttemptPut(h) == /\ beats[h].at = "await" /\ beats[h].attempt \in alive
                 /\ SetKey(beats[h].service, beats[h].attempt)
                 /\ Beat(h, [beats[h] EXCEPT !.at = "first", !.lease = beats[h].attempt,
                                             !.attempt = 0, !.open = TRUE, !.tries = 0])
                 /\ overtaken' = IF beats[h].cancelled THEN overtaken \cup {beats[h].service}
                                 ELSE overtaken \ {beats[h].service}
                 /\ UNCHANGED <<late, leases, alive, faults>>
AttemptHangs(h) ==               \* mutant: nobody gives an attempt up
    /\ beats[h].at = "await" /\ beats[h].cancelled
    /\ Beat(h, [beats[h] EXCEPT !.at = "retry", !.tries = @ + 1, !.attempt = 0])
    /\ UNCHANGED <<late, leases, alive, key, watch, overtaken, faults>>
AttemptFails(h) ==
    /\ beats[h].at = "await"
    /\ LET b == beats[h]
           doomed == \/ b.cancelled
                     \/ b.attempt = 0 /\ (~hasLease \/ leases = MaxLeases)
                     \/ b.attempt # 0 /\ b.attempt \notin alive
       IN  /\ IF doomed THEN UNCHANGED faults ELSE Fault
           /\ Beat(h, [b EXCEPT !.at = "retry", !.tries = @ + 1, !.attempt = 0])
           /\ late' = late \cup {<<b.service, l>> : l \in {b.attempt} \cap alive}
    /\ UNCHANGED <<leases, alive, key, watch, overtaken>>
\* The first answer of the new channel; if it closes before, the heartbeat ends.
FirstAnswer(h) == /\ beats[h].at = "first"
            /\ Beat(h, IF beats[h].open THEN [beats[h] EXCEPT !.at = "listen"]
                       ELSE [beats[h] EXCEPT !.at = "done", !.lease = 0])
            /\ UNCHANGED <<late, leases, alive, key, watch, faults, overtaken>>
-----------------------------------------------------------------------------
(* etcd *)
LatePut(p) == /\ p \in late /\ late' = late \ {p}
              /\ IF p[2] \in alive THEN SetKey(p[1], p[2]) /\ overtaken' = overtaken \cup {p[1]}
                 ELSE UNCHANGED <<key, watch, overtaken>>
              /\ UNCHANGED <<registry, caller, beats, leases, alive, current, faults>>
LostPut(p) == /\ p \in late /\ late' = late \ {p}
              /\ UNCHANGED <<registry, caller, beats, leases, alive, key, watch, current, overtaken, faults>>
Expire(l) == /\ l \in alive \ Kept /\ alive' = alive \ {l}
             /\ key' = [s \in Services |-> IF key[s] = l THEN 0 ELSE key[s]]
             /\ watch' = [watch EXCEPT !.event = @ \/ (watch.live /\ key' # key)]
             /\ UNCHANGED <<registry, caller, beats, late, leases, current, overtaken, faults>>

(* The watcher: the stream is opened before the first Get.  A Next that     *)
(* fails has used up what called for it: the next one waits for the stream. *)
Listing == watch' = [watch EXCEPT !.at = "wait", !.view = Listed, !.failed = FALSE]
FirstGet == watch.at = "first" /\ Listing /\ UNCHANGED faults
Event == /\ watch.at = "wait" /\ watch.event
         /\ watch' = [watch EXCEPT !.at = "get", !.event = FALSE] /\ UNCHANGED faults
Get == watch.at = "get" /\ Listing /\ UNCHANGED faults
StreamBreaks == watch.live /\ watch' = [watch EXCEPT !.live = FALSE] /\ Fault
ReWatchOnly ==                   \* mutant: does not read the services again
    /\ watch.at = "wait" /\ ~watch.live /\ ~watch.event
    /\ watch' = [watch EXCEPT !.live = TRUE] /\ UNCHANGED faults
ReWatch == /\ watch.at = "wait" /\ ~watch.live /\ ~watch.event
           /\ watch' = [watch EXCEPT !.at = "get", !.live = TRUE] /\ UNCHANGED faults
ReadFails == /\ watch.at \in {"first", "get"} /\ Fault
             /\ watch' = [watch EXCEPT !.at = "wait", !.failed = TRUE]
\* Close fails, and the old stream stays; or RequestProgress, of the new one.
ReWatchFails == /\ watch.at = "wait" /\ ~watch.live /\ ~watch.event /\ Fault
                /\ \E opened \in BOOLEAN :
                     watch' = [watch EXCEPT !.live = opened, !.failed = TRUE]
Watcher == /\ FirstGet \/ Event \/ Get \/ ReWatch
           /\ UNCHANGED <<registry, caller, beats, late, leases, alive, key, current, overtaken>>

Calling == Put \/ ((Grant \/ GrantFails \/ PutFails \/ Cancel) /\ UNCHANGED overtaken)
Beating(h) == /\ \/ ChannelEnds(h) \/ Closed(h) \/ Retry(h)
                 \/ AttemptGrant(h) \/ AttemptPut(h) \/ AttemptFails(h) \/ FirstAnswer(h)
              /\ UNCHANGED <<registry, caller, current>>

Next == \/ \E s \in Services : \/ (Swap(s) \/ Delete(s)) /\ UNCHANGED overtaken
                               \/ DeleteFails(s)
        \/ Calling
        \/ \E h \in Beats : \/ Beating(h)
                            \/ ChannelBreaks(h) /\ UNCHANGED <<registry, caller, current, overtaken>>
        \/ \E p \in late : LatePut(p) \/ LostPut(p)
        \/ \E l \in alive : Expire(l)
        \/ Watcher
        \/ /\ StreamBreaks \/ ReadFails \/ ReWatchFails
           /\ UNCHANGED <<registry, caller, beats, late, leases, alive, key, current, overtaken>>

Spec == Init /\ [][Next]_vars

\* Calls, heartbeats and etcd go on; nothing makes the program call or a fault happen.
Fairness == /\ WF_vars(Calling)
            /\ \A h \in 1..MaxBeats : WF_vars(h \in Beats /\ Beating(h))
            /\ WF_vars(\E l \in alive : Expire(l))
            /\ WF_vars(\E p \in late : LatePut(p) \/ LostPut(p))
FairSpec == Spec /\ Fairness
-----------------------------------------------------------------------------
Live(h) == ~beats[h].cancelled /\ beats[h].open /\ beats[h].lease \in alive

\* While a heartbeat keeps its lease alive, the key of its service is bound to
\* that very lease, through every loss and renewal, except between the two
\* halves of Deregister and after a call that seemed to fail took effect.
ListedWhileBeating ==
    \A h \in Beats : Live(h) /\ beats[h].service \notin overtaken
                     /\ ~(pc = "cancel" /\ arg = beats[h].service)
                     => key[beats[h].service] = beats[h].lease

\* A watcher that waits with nothing to come has seen the latest set, unless
\* the Next that should have told it has failed.
WatcherIsCurrent ==
    watch.at = "wait" /\ watch.live /\ ~watch.event /\ ~watch.failed => watch.view = Listed

\* What is not registered disappears and stays away: leases of replaced or
\* deregistered services run out, whatever attempts were under way.
OnlyCurrentListed == <>[](\A s \in Services : s # current => key[s] = 0)

\* What is registered is listed again for good once faults end, unless the
\* heartbeat gave up or a call that seemed to fail took effect.
CurrentStaysListed ==
    <>[](current # None /\ hbCancel # 0 /\ current \notin overtaken /\ beats[hbCancel].at # "done"
           => key[current] # 0)
=============================================================================
