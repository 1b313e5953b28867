----------------------------- MODULE RedisQueue -----------------------------
(***************************************************************************)
(* queue/redis and queue/redisqueue: consumption of a Redis stream by a    *)
(* consumer group.  In the one instance modelled, poll reads new entries,  *)
(* reclaim takes over entries that stayed unacknowledged too long, both    *)
(* put messages into a bounded local queue, and workers handle and         *)
(* acknowledge them.  Around them: Register and Run, which start the       *)
(* consumer, Shutdown, and crashes after which the application registers   *)
(* again.  Module RedisDelayed has the delayed messages; here only the     *)
(* lifetime of the goroutine that dispatches them matters.                 *)
(***************************************************************************)
EXTENDS Naturals, Sequences, SequencesExt, FiniteSets

CONSTANTS Msgs,        \* messages, each appended at most once
          Workers,     \* work goroutines (options.Concurrency)
          BufferSize,  \* the capacity of the local queue
          MaxLen,      \* XADD MAXLEN ~: entries beyond it may be trimmed
          MaxFaults,   \* crashes, failed commands, early timeouts (bound)
          MaxFails,    \* failing handler calls (bound)
          Orderly,     \* the application calls Run after Register, and nothing
                       \*   after Shutdown, which it may call at any time
          None

ASSUME Sizes == BufferSize \in Nat \ {0} /\ MaxLen \in Nat \ {0}
ASSUME SomebodyWorks == Workers # {}
ASSUME Bounds == MaxFaults \in Nat /\ MaxFails \in Nat
ASSUME OrderlyIsBoolean == Orderly \in BOOLEAN /\ None \notin Msgs

VARIABLES stream,      \* the entries in the stream, oldest first
          delivered,   \* entries the group has handed out
          pending,     \* those not acknowledged
          overdue,     \* those of them idle for VisibilityTimeout
          registered,  \* a consumer function is registered
          running,     \* Consumer.running
          stopCh,      \* Consumer.stopCh is closed
          queue,       \* the local queue
          qclosed,     \* it is closed
          ppc, batch,  \* poll: where it is; what it has read and not queued
          rpc, claimed, \* reclaim: where it is; the message it deals with
          wpc, wmsg,   \* where each worker is, and its message
          gpc,         \* the goroutine that calls Consumer.Run
          current,     \* the dispatcher that delayedCancel belongs to runs
          leaving,     \* cancelled dispatchers that have not returned yet
          leaked,      \* dispatchers whose cancel function was overwritten
          apc,         \* the application's calls of Run and Shutdown
          panicked,    \* the queue was closed a second time
          done,        \* messages a handler has finished (history)
          trimmed,     \* messages trimmed away (history)
          calls, fails, faults \* handler calls of each message, bounds used up

redis == <<stream, delivered, pending, overdue>>
consumer == <<registered, running, stopCh>>
local == <<queue, qclosed, panicked>>
poller == <<ppc, batch>>
reclaimer == <<rpc, claimed>>
worker == <<wpc, wmsg>>
dispatcher == <<current, leaving, leaked>>
history == <<done, trimmed, calls, fails>>
vars == <<redis, consumer, local, poller, reclaimer, worker, gpc, dispatcher, apc, history, faults>>

Calls == {"run", "shutdown"}

TypeOK == /\ stream \in Seq(Msgs) /\ IsInjective(stream)
          /\ overdue \subseteq pending /\ pending \subseteq delivered /\ delivered \subseteq Msgs
          /\ registered \in BOOLEAN /\ running \in BOOLEAN /\ stopCh \in BOOLEAN
          /\ queue \in Seq(Msgs) /\ Len(queue) <= BufferSize
          /\ qclosed \in BOOLEAN /\ panicked \in BOOLEAN
          /\ ppc \in {"off", "select", "read", "put", "done"} /\ batch \in Seq(Msgs)
          /\ rpc \in {"off", "wait", "claim", "put", "done"}
          /\ claimed \in Msgs \cup {None}
          /\ wpc \in [Workers -> {"off", "idle", "handle", "ack", "del", "exited"}]
          /\ wmsg \in [Workers -> Msgs \cup {None}]
          /\ gpc \in {"none", "enter", "prepare", "consume"}
          /\ current \in BOOLEAN /\ leaving \in Nat /\ leaked \in Nat
          /\ apc \in [Calls -> {"no", "stop", "wait", "overlooked", "returned"}]
          /\ done \subseteq Msgs /\ trimmed \subseteq Msgs
          /\ calls \in [Msgs -> Nat] /\ fails \in [Msgs -> Nat]
          /\ faults \in 0..MaxFaults

InitLocal == /\ registered = FALSE /\ running = FALSE /\ stopCh = FALSE
             /\ queue = <<>> /\ qclosed = FALSE /\ panicked = FALSE
             /\ ppc = "off" /\ batch = <<>>
             /\ rpc = "off" /\ claimed = None
             /\ wpc = [w \in Workers |-> "off"] /\ wmsg = [w \in Workers |-> None]
             /\ gpc = "none" /\ current = FALSE /\ leaving = 0 /\ leaked = 0
             /\ apc = [a \in Calls |-> "no"]

Init == /\ InitLocal
        /\ stream = <<>> /\ delivered = {} /\ pending = {} /\ overdue = {}
        /\ done = {} /\ trimmed = {}
        /\ calls = [m \in Msgs |-> 0] /\ fails = [m \in Msgs |-> 0] /\ faults = 0

\* The messages this instance has in memory.
Held == (ToSet(queue) \cup ToSet(batch) \cup {wmsg[w] : w \in Workers}
         \cup IF rpc = "put" THEN {claimed} ELSE {}) \ {None}

Closing == apc["shutdown"] # "no"

\* wait.Wait() does not block: neither Consumer.Run nor a dispatcher is left.
WaitIsOver == gpc = "none" /\ ~current /\ leaving = 0 /\ leaked = 0

Fault == faults < MaxFaults /\ faults' = faults + 1
-----------------------------------------------------------------------------
(* The application: Append, Register, Run, Shutdown; and crashes. *)

\* XADD; beyond MaxLen it may trim the oldest entry, read or not.
AppendMsg(m) ==
  /\ m \notin ToSet(stream) \cup delivered \cup trimmed
  /\ \/ stream' = Append(stream, m) /\ UNCHANGED trimmed
     \/ /\ Len(stream) >= MaxLen
        /\ stream' = Append(Tail(stream), m)
        /\ trimmed' = trimmed \cup {Head(stream)}
  /\ UNCHANGED <<delivered, pending, overdue, consumer, local, poller, reclaimer, worker,
                 gpc, dispatcher, apc, done, calls, fails, faults>>

\* start: unless Consumer.Run is going on, run it and a dispatcher of delayed messages.
Start ==
  IF gpc # "none" THEN UNCHANGED <<gpc, dispatcher>>
  ELSE /\ gpc' = "enter"
       /\ current' = TRUE
       /\ leaked' = IF current THEN leaked + 1 ELSE leaked
       /\ UNCHANGED leaving

Register ==
  /\ ~registered
  /\ Orderly => ~Closing
  /\ registered' = TRUE
  /\ Start
  /\ UNCHANGED <<redis, running, stopCh, local, poller, reclaimer, worker, apc, history, faults>>

Run ==
  /\ apc["run"] = "no"
  /\ Orderly => registered /\ ~Closing
  /\ apc' = [apc EXCEPT !["run"] = "wait"]
  /\ Start
  /\ UNCHANGED <<redis, consumer, local, poller, reclaimer, worker, history, faults>>

RunReturns ==
  /\ apc["run"] = "wait" /\ WaitIsOver
  /\ apc' = [apc EXCEPT !["run"] = "returned"]
  /\ UNCHANGED <<redis, consumer, local, poller, reclaimer, worker, gpc, dispatcher, history, faults>>

\* Shutdown cancels the dispatcher, then stops the consumer if it is running, then waits.
Shutdown ==
  /\ apc["shutdown"] = "no"
  /\ apc' = [apc EXCEPT !["shutdown"] = "stop"]
  /\ current' = FALSE
  /\ leaving' = IF current THEN leaving + 1 ELSE leaving
  /\ UNCHANGED <<redis, consumer, local, poller, reclaimer, worker, gpc, leaked, history, faults>>

\* Consumer.Run may have been called and not have set running yet: then nothing is
\* stopped, and Shutdown waits for a consumer that it has overlooked.
StopConsumer ==
  /\ apc["shutdown"] = "stop"
  /\ apc' = [apc EXCEPT !["shutdown"] = IF gpc = "enter" THEN "overlooked" ELSE "wait"]
  /\ running' = FALSE
  /\ stopCh' = (stopCh \/ running)
  /\ UNCHANGED <<redis, registered, local, poller, reclaimer, worker, gpc, dispatcher, history, faults>>

ShutdownReturns ==
  /\ apc["shutdown"] \in {"wait", "overlooked"} /\ WaitIsOver
  /\ apc' = [apc EXCEPT !["shutdown"] = "returned"]
  /\ UNCHANGED <<redis, consumer, local, poller, reclaimer, worker, gpc, dispatcher, history, faults>>

DispatcherReturns ==
  /\ leaving > 0
  /\ leaving' = leaving - 1
  /\ UNCHANGED <<redis, consumer, local, poller, reclaimer, worker, gpc, current, leaked,
                 apc, history, faults>>

\* The process dies and is started again: what it had in memory is gone.
Crash ==
  /\ Fault /\ gpc # "none"
  /\ registered' = FALSE /\ running' = FALSE /\ stopCh' = FALSE
  /\ queue' = <<>> /\ qclosed' = FALSE /\ panicked' = FALSE
  /\ ppc' = "off" /\ batch' = <<>>
  /\ rpc' = "off" /\ claimed' = None
  /\ wpc' = [w \in Workers |-> "off"] /\ wmsg' = [w \in Workers |-> None]
  /\ gpc' = "none" /\ current' = FALSE /\ leaving' = 0 /\ leaked' = 0
  /\ apc' = [a \in Calls |-> "no"]
  /\ UNCHANGED <<redis, history>>
-----------------------------------------------------------------------------
(* Consumer.RunContext *)

\* The compare-and-swap; without a registered function Run gives up.
Enter ==
  /\ gpc = "enter"
  /\ running' = registered
  /\ gpc' = IF registered THEN "prepare" ELSE "none"
  /\ UNCHANGED <<redis, registered, stopCh, local, poller, reclaimer, worker, dispatcher,
                 apc, history, faults>>

\* The consumer group is made, and the goroutines start.
Prepare ==
  /\ gpc = "prepare"
  /\ gpc' = "consume"
  /\ ppc' = "select" /\ rpc' = "wait"
  /\ wpc' = [w \in Workers |-> "idle"]
  /\ UNCHANGED <<redis, consumer, local, batch, claimed, wmsg, dispatcher,
                 apc, history, faults>>

PrepareFails ==
  /\ gpc = "prepare" /\ Fault
  /\ running' = FALSE
  /\ gpc' = "none"
  /\ UNCHANGED <<redis, registered, stopCh, local, poller, reclaimer, worker, dispatcher,
                 apc, history>>

\* When poll and reclaim have ended the queue is closed; it may have been before.
CloseQueue ==
  /\ ppc = "done" /\ rpc = "done"
  /\ qclosed' = TRUE /\ panicked' = qclosed
  /\ ppc' = "off" /\ rpc' = "off"
  /\ UNCHANGED <<redis, consumer, queue, batch, claimed, worker, gpc, dispatcher,
                 apc, history, faults>>

\* wg.Wait is over.
ConsumerReturns ==
  /\ gpc = "consume"
  /\ \A w \in Workers : wpc[w] = "exited"
  /\ gpc' = "none"
  /\ UNCHANGED <<redis, consumer, local, poller, reclaimer, worker, dispatcher, apc, history, faults>>
-----------------------------------------------------------------------------
(* poll *)

PollNeverStops ==              \* mutant: poll does not look at stopCh
  /\ ppc = "select"
  /\ ppc' = "read"
  /\ UNCHANGED <<redis, consumer, local, batch, reclaimer, worker, gpc, dispatcher,
                 apc, history, faults>>

PollSelect ==
  /\ ppc = "select"
  /\ ppc' = IF stopCh THEN "done" ELSE "read"
  /\ UNCHANGED <<redis, consumer, local, batch, reclaimer, worker, gpc, dispatcher,
                 apc, history, faults>>

\* The group hands out what follows the last entry it has handed out.
Unread == SubSeq(stream, SelectLastInSeq(stream, LAMBDA m : m \in delivered) + 1, Len(stream))

\* XREADGROUP: as many as the queue has room for, or all if that is 0.
PollRead ==
  LET room == BufferSize - Len(queue)
      k == IF room = 0 \/ room > Len(Unread) THEN Len(Unread) ELSE room IN
  /\ ppc = "read" /\ Unread # <<>>
  /\ batch' = SubSeq(Unread, 1, k)
  /\ delivered' = delivered \cup ToSet(batch')
  /\ pending' = pending \cup ToSet(batch')
  /\ ppc' = "put"
  /\ UNCHANGED <<stream, overdue, consumer, local, reclaimer, worker, gpc, dispatcher,
                 apc, history, faults>>

\* BlockingTimeout has passed without a message, or the command failed.
PollNothing ==
  /\ ppc = "read"
  /\ IF Unread = <<>> THEN UNCHANGED faults ELSE Fault
  /\ ppc' = "select"
  /\ UNCHANGED <<redis, consumer, local, batch, reclaimer, worker, gpc, dispatcher,
                 apc, history>>

PollPut ==
  /\ ppc = "put" /\ Len(queue) < BufferSize
  /\ queue' = Append(queue, Head(batch))
  /\ batch' = Tail(batch)
  /\ ppc' = IF batch' = <<>> THEN "select" ELSE "put"
  /\ UNCHANGED <<redis, consumer, qclosed, panicked, reclaimer, worker, gpc, dispatcher,
                 apc, history, faults>>
-----------------------------------------------------------------------------
(* reclaim *)

\* A pending message has been idle for VisibilityTimeout; if the instance holds it
\* the timeout was too short for it, which counts as a fault.
GoOverdue(m) ==
  /\ m \in pending \ overdue
  /\ IF m \in Held THEN Fault ELSE UNCHANGED faults
  /\ overdue' = overdue \cup {m}
  /\ UNCHANGED <<stream, delivered, pending, consumer, local, poller, reclaimer, worker,
                 gpc, dispatcher, apc, history>>

ReclaimStops ==
  /\ rpc = "wait" /\ stopCh
  /\ rpc' = "done"
  /\ UNCHANGED <<redis, consumer, local, poller, claimed, worker, gpc, dispatcher,
                 apc, history, faults>>

ReclaimGivesUp(m) ==           \* mutant: reclaim returns when nothing is overdue
  /\ rpc = "wait" /\ Len(queue) < BufferSize
  /\ IF m \in overdue THEN claimed' = m /\ rpc' = "claim"
     ELSE overdue = {} /\ rpc' = "done" /\ UNCHANGED claimed
  /\ UNCHANGED <<redis, consumer, local, poller, worker, gpc, dispatcher, apc, history, faults>>

\* A tick walks the pending list page by page while the queue has room; here
\* a page is one message, and those not idle long enough are skipped.
ReclaimList(m) ==
  /\ rpc = "wait" /\ m \in overdue /\ Len(queue) < BufferSize
  /\ claimed' = m
  /\ rpc' = "claim"
  /\ UNCHANGED <<redis, consumer, local, poller, worker, gpc, dispatcher, apc, history, faults>>

ClaimKeepsIdle ==              \* mutant: the claim does not reset the idle time
  /\ rpc = "claim"
  /\ claimed' = IF claimed \in overdue THEN claimed ELSE None
  /\ rpc' = IF claimed \in overdue THEN "put" ELSE "wait"
  /\ UNCHANGED <<redis, consumer, local, poller, worker, gpc, dispatcher, apc, history, faults>>

\* XCLAIM takes the message if it is still pending and idle and resets its idle
\* time; for an entry that is no longer in the stream, XACK clears it.
ReclaimClaim ==
  LET idle == claimed \in overdue
      taken == idle /\ claimed \in ToSet(stream) IN
  /\ rpc = "claim"
  /\ overdue' = overdue \ {claimed}
  /\ pending' = IF idle /\ ~taken THEN pending \ {claimed} ELSE pending
  /\ claimed' = IF taken THEN claimed ELSE None
  /\ rpc' = IF taken THEN "put" ELSE "wait"
  /\ UNCHANGED <<stream, delivered, consumer, local, poller, worker, gpc, dispatcher,
                 apc, history, faults>>

\* XCLAIM or the XACK fails: the message stays pending and idle.
ReclaimFails ==
  /\ rpc = "claim" /\ Fault
  /\ claimed' = None
  /\ rpc' = "wait"
  /\ UNCHANGED <<redis, consumer, local, poller, worker, gpc, dispatcher, apc, history>>

ReclaimPut ==
  /\ rpc = "put" /\ Len(queue) < BufferSize
  /\ queue' = Append(queue, claimed)
  /\ claimed' = None
  /\ rpc' = "wait"
  /\ UNCHANGED <<redis, consumer, qclosed, panicked, poller, worker, gpc, dispatcher,
                 apc, history, faults>>
-----------------------------------------------------------------------------
(* work and acknowledgeMessage *)

Work(w, point, m) == wpc' = [wpc EXCEPT ![w] = point] /\ wmsg' = [wmsg EXCEPT ![w] = m]

Take(w) ==
  /\ wpc[w] = "idle" /\ queue # <<>>
  /\ Work(w, "handle", Head(queue))
  /\ queue' = Tail(queue)
  /\ calls' = [calls EXCEPT ![Head(queue)] = @ + 1]
  /\ UNCHANGED <<redis, consumer, qclosed, panicked, poller, reclaimer, gpc, dispatcher,
                 apc, done, trimmed, fails, faults>>

WorkerExitsOnStop(w) ==        \* mutant: workers watch stopCh instead of draining
  /\ wpc[w] = "idle" /\ stopCh
  /\ Work(w, "exited", None)
  /\ UNCHANGED <<redis, consumer, local, poller, reclaimer, gpc, dispatcher, apc, history, faults>>

WorkerExits(w) ==
  /\ wpc[w] = "idle" /\ queue = <<>> /\ qclosed
  /\ Work(w, "exited", None)
  /\ UNCHANGED <<redis, consumer, local, poller, reclaimer, gpc, dispatcher, apc, history, faults>>

HandlerSucceeds(w) ==
  /\ wpc[w] = "handle"
  /\ Work(w, "ack", wmsg[w])
  /\ done' = done \cup {wmsg[w]}
  /\ UNCHANGED <<redis, consumer, local, poller, reclaimer, gpc, dispatcher, apc,
                 trimmed, calls, fails, faults>>

HandlerFailsAcked(w) ==        \* mutant: a failed message is acknowledged too
  /\ wpc[w] = "handle" /\ fails[wmsg[w]] < MaxFails
  /\ Work(w, "ack", wmsg[w])
  /\ fails' = [fails EXCEPT ![wmsg[w]] = @ + 1]
  /\ UNCHANGED <<redis, consumer, local, poller, reclaimer, gpc, dispatcher, apc,
                 done, trimmed, calls, faults>>

\* An error or a panic of the function: the message stays pending.
HandlerFails(w) ==
  /\ wpc[w] = "handle" /\ fails[wmsg[w]] < MaxFails
  /\ Work(w, "idle", None)
  /\ fails' = [fails EXCEPT ![wmsg[w]] = @ + 1]
  /\ UNCHANGED <<redis, consumer, local, poller, reclaimer, gpc, dispatcher, apc,
                 done, trimmed, calls, faults>>

Ack(w) ==
  /\ wpc[w] = "ack"
  /\ pending' = pending \ {wmsg[w]} /\ overdue' = overdue \ {wmsg[w]}
  /\ Work(w, "del", wmsg[w])
  /\ UNCHANGED <<stream, delivered, consumer, local, poller, reclaimer, gpc, dispatcher,
                 apc, history, faults>>

Del(w) ==
  /\ wpc[w] = "del"
  /\ stream' = RemoveFirst(stream, wmsg[w])
  /\ Work(w, "idle", None)
  /\ UNCHANGED <<delivered, pending, overdue, consumer, local, poller, reclaimer, gpc,
                 dispatcher, apc, history, faults>>

\* XACK or XDEL fails; the error is reported and the worker goes on.
AckFails(w) ==
  /\ wpc[w] \in {"ack", "del"} /\ Fault
  /\ Work(w, "idle", None)
  /\ UNCHANGED <<redis, consumer, local, poller, reclaimer, gpc, dispatcher, apc, history>>

PollStep == PollSelect \/ PollRead \/ PollPut
ReclaimStep == ReclaimStops \/ ReclaimClaim \/ ReclaimPut \/ \E m \in Msgs : ReclaimList(m)
WorkerStep(w) == Take(w) \/ WorkerExits(w) \/ HandlerSucceeds(w) \/ HandlerFails(w) \/ Ack(w) \/ Del(w)
WrapperStep == Enter \/ Prepare \/ CloseQueue \/ ConsumerReturns \/ DispatcherReturns
               \/ RunReturns \/ StopConsumer \/ ShutdownReturns

Next == /\ ~panicked
        /\ \/ Register \/ Run \/ Shutdown \/ Crash \/ WrapperStep \/ PrepareFails
           \/ PollStep \/ PollNothing \/ ReclaimStep \/ ReclaimFails
           \/ \E m \in Msgs : AppendMsg(m) \/ GoOverdue(m)
           \/ \E w \in Workers : WorkerStep(w) \/ AckFails(w)

\* Goroutines run on, commands and handlers return, a read blocks no longer than
\* BlockingTimeout, and the idle time of a message that nobody holds grows.
Fairness == /\ WF_vars(WrapperStep)
            /\ WF_vars(PollStep \/ PollNothing)
            /\ WF_vars(ReclaimStep)
            /\ \A w \in Workers : WF_vars(WorkerStep(w))
            /\ WF_vars(\E m \in Msgs \ Held : GoOverdue(m))

Spec == Init /\ [][Next]_vars
FairSpec == Spec /\ Fairness
-----------------------------------------------------------------------------
(* At least once: a message leaves the group's pending list only after its *)
(* handler succeeded or its entry was trimmed, whatever fails, crashes or  *)
(* is delivered twice.                                                     *)
AckedMeansDone == delivered \ pending \subseteq done \cup trimmed

(* A handler sees a message again only for a reason: each further call is  *)
(* paid for by a failed call, a crash, a failed command or a timeout that  *)
(* was too short.                                                          *)
RepeatsNeedReasons == \A m \in Msgs : calls[m] <= 1 + fails[m] + faults

(* The queue is closed once, and only when nobody sends to it any more;   *)
(* and when Run or Shutdown has returned, no message that was read is left *)
(* unhandled in memory: "等待已拉取消息完成".                              *)
OrderlyShutdown ==
  /\ ~panicked
  /\ qclosed => ppc = "off" /\ rpc = "off"
  /\ (\E a \in Calls : apc[a] = "returned") => Held = {}

(* A running consumer handles every entry of the stream, also those that   *)
(* an earlier process or a failed call left pending.                       *)
EveryMessageHandled ==
  \A m \in Msgs : gpc = "consume" /\ m \in ToSet(stream) /\ m \notin done
                    ~> m \in done \cup trimmed \/ Closing \/ gpc # "consume"

(* Shutdown returns, also when it races start, unless a dispatcher has lost *)
(* its cancel function, or the consumer it overlooked got as far as to     *)
(* consume: that one is never stopped.                                     *)
ShutdownGetsThrough ==
  LET waits == apc["shutdown"] \in {"wait", "overlooked"}
      unstopped == apc["shutdown"] = "overlooked" /\ gpc = "consume"
  IN  waits ~> ~waits \/ leaked > 0 \/ unstopped
=============================================================================
