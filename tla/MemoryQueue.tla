----------------------------- MODULE MemoryQueue -----------------------------
(***************************************************************************)
(* queue/memory without its delayed part: one channel per stream in a map; *)
(* Append hands each message to a goroutine of its own, a consumer re-sends *)
(* a message whose handler failed to the channel it reads.  Append holds   *)
(* the read lock; Register, Run and Shutdown work under the write lock.    *)
(***************************************************************************)
EXTENDS Naturals, Sequences, FiniteSets

CONSTANTS Streams,    \* names of queues
          Msgs,       \* messages, each appended once
          StreamOf,   \* StreamOf[m]: the stream m is appended to
          Producers,  \* goroutines that call Append
          Consumers,  \* goroutines started by Register
          Runners,    \* goroutines that call Run
          Closers,    \* goroutines that call Shutdown
          PoolNums,   \* capacities a queue may be configured with, 0 by default
          MaxErrors,  \* 3 in the code: a message is retried so often
          None

ASSUME StreamOfMessage == StreamOf \in [Msgs -> Streams]
ASSUME Capacity == PoolNums \subseteq Nat /\ MaxErrors \in Nat
ASSUME NoneIsNoMessage == None \notin Msgs
ASSUME Finitely == IsFiniteSet(Msgs) /\ IsFiniteSet(Consumers)

\* Channels that can come to exist: one for each Append and each Register.
Chans == 1..(Cardinality(Msgs) + Cardinality(Consumers))

VARIABLES PoolNum,    \* Memory.PoolNum, set once
          queue,      \* Memory.queue: the channel of each stream, 0 if none
          made,       \* channels made so far
          buf,        \* what each channel's buffer holds
          sending,    \* messages whose Append goroutine has not sent them yet
          chan,       \* chan[m]: the channel m travels on, 0 before its Append
          errors,     \* message.ErrorCount
          settled,    \* messages handled, or given up after the last retry
          pc, arg,    \* producers: "idle", or "missed" with the message at hand
          cpc, cq, cm,\* consumers: where each is, its channel and its message
          rpc,        \* runners
          spc,        \* closers
          running, waiting, closing   \* running flag, wait counter, closing closed

messages == <<sending, chan, errors, settled>>
consumer == <<cpc, cq, cm>>
lifecycle == <<PoolNum, rpc, spc, running, waiting, closing>>
vars == <<queue, made, buf, messages, pc, arg, consumer, lifecycle>>

TypeOK == /\ PoolNum \in PoolNums
          /\ queue \in [Streams -> Chans \cup {0}]
          /\ made \in Chans \cup {0}
          /\ buf \in [Chans -> Seq(Msgs)]
          /\ \A q \in Chans : Len(buf[q]) <= PoolNum
          /\ sending \subseteq Msgs /\ settled \subseteq Msgs
          /\ chan \in [Msgs -> 0..made]
          /\ errors \in [Msgs -> 0..MaxErrors]
          /\ pc \in [Producers -> {"idle", "missed"}]
          /\ arg \in [Producers -> Msgs \cup {None}]
          /\ cpc \in [Consumers -> {"unborn", "receive", "handle", "backoff", "resend", "exited"}]
          /\ cq \in [Consumers -> 0..made]
          /\ cm \in [Consumers -> Msgs \cup {None}]
          /\ rpc \in [Runners -> {"new", "waiting", "drained", "refused", "stopped"}]
          /\ spc \in [Closers -> {"new", "closed", "returned"}]
          /\ running \in BOOLEAN /\ closing \in BOOLEAN
          /\ waiting \in {0, 1}

Init == /\ PoolNum \in PoolNums
        /\ queue = [s \in Streams |-> 0] /\ made = 0
        /\ buf = [q \in Chans |-> <<>>]
        /\ sending = {} /\ settled = {}
        /\ chan = [m \in Msgs |-> 0]
        /\ errors = [m \in Msgs |-> 0]
        /\ pc = [p \in Producers |-> "idle"] /\ arg = [p \in Producers |-> None]
        /\ cpc = [c \in Consumers |-> "unborn"]
        /\ cq = [c \in Consumers |-> 0] /\ cm = [c \in Consumers |-> None]
        /\ rpc = [r \in Runners |-> "new"] /\ spc = [s \in Closers |-> "new"]
        /\ running = FALSE /\ waiting = 0 /\ closing = FALSE

\* The write lock is free for the taking when no Append is under way.
NoReader == \A p \in Producers : pc[p] = "idle"
-----------------------------------------------------------------------------
(* Append *)

\* The goroutine that carries m starts, with the channel Append has found or made.
Carry(m, q) == /\ sending' = sending \cup {m}
               /\ chan' = [chan EXCEPT ![m] = q]

Unused(m) == chan[m] = 0 /\ \A p \in Producers : arg[p] # m

AppendHit(p, m) ==
  /\ pc[p] = "idle" /\ Unused(m) /\ ~closing
  /\ queue[StreamOf[m]] # 0
  /\ Carry(m, queue[StreamOf[m]])
  /\ UNCHANGED <<queue, made, buf, errors, settled, pc, arg, consumer, lifecycle>>

AppendMiss(p, m) ==
  /\ pc[p] = "idle" /\ Unused(m) /\ ~closing
  /\ queue[StreamOf[m]] = 0
  /\ pc' = [pc EXCEPT ![p] = "missed"]
  /\ arg' = [arg EXCEPT ![p] = m]
  /\ UNCHANGED <<queue, made, buf, messages, consumer, lifecycle>>

AppendStore(p) ==
  /\ pc[p] = "missed"
  /\ made' = made + 1
  /\ queue' = [queue EXCEPT ![StreamOf[arg[p]]] = made + 1]
  /\ Carry(arg[p], made + 1)
  /\ pc' = [pc EXCEPT ![p] = "idle"]
  /\ arg' = [arg EXCEPT ![p] = None]
  /\ UNCHANGED <<buf, errors, settled, consumer, lifecycle>>

\* The carrying goroutine sends into the buffer, or gives up when closing is closed.
Send(m) ==
  /\ m \in sending
  /\ Len(buf[chan[m]]) < PoolNum
  /\ buf' = [buf EXCEPT ![chan[m]] = Append(@, m)]
  /\ sending' = sending \ {m}
  /\ UNCHANGED <<queue, made, chan, errors, settled, pc, arg, consumer, lifecycle>>

GiveUpSending(m) ==
  /\ m \in sending /\ closing
  /\ sending' = sending \ {m}
  /\ UNCHANGED <<queue, made, buf, chan, errors, settled, pc, arg, consumer, lifecycle>>
-----------------------------------------------------------------------------
(* Register and consume *)

RegisterAnytime(c, s) ==       \* mutant: Register does not look at closing
  /\ cpc[c] = "unborn" /\ NoReader
  /\ made' = IF queue[s] = 0 THEN made + 1 ELSE made
  /\ queue' = [queue EXCEPT ![s] = IF @ = 0 THEN made + 1 ELSE @]
  /\ cq' = [cq EXCEPT ![c] = queue'[s]]
  /\ cpc' = [cpc EXCEPT ![c] = "receive"]
  /\ UNCHANGED <<buf, messages, pc, arg, cm, lifecycle>>

Register(c, s) ==
  /\ cpc[c] = "unborn" /\ NoReader /\ ~closing
  /\ made' = IF queue[s] = 0 THEN made + 1 ELSE made
  /\ queue' = [queue EXCEPT ![s] = IF @ = 0 THEN made + 1 ELSE @]
  /\ cq' = [cq EXCEPT ![c] = queue'[s]]
  /\ cpc' = [cpc EXCEPT ![c] = "receive"]
  /\ UNCHANGED <<buf, messages, pc, arg, cm, lifecycle>>

\* c's receive yields m, and its handler is called.
Handle(c, m) == cm' = [cm EXCEPT ![c] = m]

ReceiveBuffered(c) ==
  /\ cpc[c] = "receive" /\ buf[cq[c]] # <<>>
  /\ Handle(c, Head(buf[cq[c]]))
  /\ buf' = [buf EXCEPT ![cq[c]] = Tail(@)]
  /\ cpc' = [cpc EXCEPT ![c] = "handle"]
  /\ UNCHANGED <<queue, made, sending, chan, errors, settled, pc, arg, cq, lifecycle>>

ReceiveDirectCopy(c, m) ==     \* mutant: the carrying goroutine goes on sending
  /\ PoolNum = 0
  /\ cpc[c] = "receive" /\ m \in sending /\ chan[m] = cq[c]
  /\ Handle(c, m)
  /\ cpc' = [cpc EXCEPT ![c] = "handle"]
  /\ UNCHANGED <<queue, made, buf, sending, chan, errors, settled, pc, arg, cq, lifecycle>>

\* An unbuffered channel hands a message over from a carrying goroutine ...
ReceiveDirect(c, m) ==
  /\ PoolNum = 0
  /\ cpc[c] = "receive" /\ m \in sending /\ chan[m] = cq[c]
  /\ Handle(c, m)
  /\ sending' = sending \ {m}
  /\ cpc' = [cpc EXCEPT ![c] = "handle"]
  /\ UNCHANGED <<queue, made, buf, chan, errors, settled, pc, arg, cq, lifecycle>>

\* ... or from another consumer that re-sends it.
ReceiveResent(c, d) ==
  /\ PoolNum = 0
  /\ cpc[c] = "receive" /\ cpc[d] = "resend" /\ cq[c] = cq[d]
  /\ cm' = [cm EXCEPT ![c] = cm[d], ![d] = None]
  /\ cpc' = [cpc EXCEPT ![c] = "handle", ![d] = "receive"]
  /\ UNCHANGED <<queue, made, buf, sending, chan, errors, settled, pc, arg, cq, lifecycle>>

HandlerSucceeds(c) ==
  /\ cpc[c] = "handle"
  /\ settled' = settled \cup {cm[c]}
  /\ cpc' = [cpc EXCEPT ![c] = "receive"]
  /\ cm' = [cm EXCEPT ![c] = None]
  /\ UNCHANGED <<queue, made, buf, sending, chan, errors, pc, arg, cq, lifecycle>>

HandlerFailsAndExits(c) ==     \* mutant: return instead of continue after the last retry
  /\ cpc[c] = "handle"
  /\ IF errors[cm[c]] >= MaxErrors
       THEN /\ settled' = settled \cup {cm[c]}
            /\ cpc' = [cpc EXCEPT ![c] = "exited"]
            /\ cm' = [cm EXCEPT ![c] = None]
            /\ UNCHANGED errors
       ELSE /\ errors' = [errors EXCEPT ![cm[c]] = @ + 1]
            /\ cpc' = [cpc EXCEPT ![c] = "backoff"]
            /\ UNCHANGED <<settled, cm>>
  /\ UNCHANGED <<queue, made, buf, sending, chan, pc, arg, cq, lifecycle>>

HandlerFails(c) ==
  /\ cpc[c] = "handle"
  /\ IF errors[cm[c]] >= MaxErrors
       THEN /\ settled' = settled \cup {cm[c]}
            /\ cpc' = [cpc EXCEPT ![c] = "receive"]
            /\ cm' = [cm EXCEPT ![c] = None]
            /\ UNCHANGED errors
       ELSE /\ errors' = [errors EXCEPT ![cm[c]] = @ + 1]
            /\ cpc' = [cpc EXCEPT ![c] = "backoff"]
            /\ UNCHANGED <<settled, cm>>
  /\ UNCHANGED <<queue, made, buf, sending, chan, pc, arg, cq, lifecycle>>

BackoffOver(c) ==
  /\ cpc[c] = "backoff"
  /\ cpc' = [cpc EXCEPT ![c] = "resend"]
  /\ UNCHANGED <<queue, made, buf, messages, pc, arg, cq, cm, lifecycle>>

ResendOrDrop(c) ==             \* mutant: the re-send does not wait for room
  /\ cpc[c] = "resend"
  /\ buf' = IF Len(buf[cq[c]]) < PoolNum
              THEN [buf EXCEPT ![cq[c]] = Append(@, cm[c])] ELSE buf
  /\ cpc' = [cpc EXCEPT ![c] = "receive"]
  /\ cm' = [cm EXCEPT ![c] = None]
  /\ UNCHANGED <<queue, made, messages, pc, arg, cq, lifecycle>>

Resend(c) ==
  /\ cpc[c] = "resend" /\ Len(buf[cq[c]]) < PoolNum
  /\ buf' = [buf EXCEPT ![cq[c]] = Append(@, cm[c])]
  /\ cpc' = [cpc EXCEPT ![c] = "receive"]
  /\ cm' = [cm EXCEPT ![c] = None]
  /\ UNCHANGED <<queue, made, messages, pc, arg, cq, lifecycle>>

\* Every select of consume watches closing; a message in hand is abandoned.
Exit(c) ==
  /\ cpc[c] \in {"receive", "backoff", "resend"} /\ closing
  /\ cpc' = [cpc EXCEPT ![c] = "exited"]
  /\ cm' = [cm EXCEPT ![c] = None]
  /\ UNCHANGED <<queue, made, buf, messages, pc, arg, cq, lifecycle>>
-----------------------------------------------------------------------------
(* Run and Shutdown *)

Run(r) ==
  /\ rpc[r] = "new" /\ NoReader
  /\ IF closing \/ running
       THEN /\ rpc' = [rpc EXCEPT ![r] = "refused"]
            /\ UNCHANGED <<running, waiting>>
       ELSE /\ rpc' = [rpc EXCEPT ![r] = "waiting"]
            /\ running' = TRUE
            /\ waiting' = waiting + 1
  /\ UNCHANGED <<PoolNum, queue, made, buf, messages, pc, arg, consumer, spc, closing>>

\* wait.Wait, then consumers.Wait
RunWaits(r) ==
  /\ \/ rpc[r] = "waiting" /\ waiting = 0 /\ rpc' = [rpc EXCEPT ![r] = "drained"]
     \/ /\ rpc[r] = "drained"
        /\ \A c \in Consumers : cpc[c] \in {"unborn", "exited"}
        /\ rpc' = [rpc EXCEPT ![r] = "stopped"]
  /\ UNCHANGED <<PoolNum, queue, made, buf, messages, pc, arg, consumer, spc, running, waiting, closing>>

Shutdown(s) ==
  /\ spc[s] = "new" /\ NoReader
  /\ closing' = TRUE
  /\ spc' = [spc EXCEPT ![s] = "closed"]
  /\ UNCHANGED <<PoolNum, queue, made, buf, messages, pc, arg, consumer, rpc, running, waiting>>

\* After delayed.Stop: the one that swaps running back lets Run go on.
ShutdownForgetsDone(s) ==      \* mutant: wait.Done is missing
  /\ spc[s] = "closed"
  /\ running' = FALSE
  /\ spc' = [spc EXCEPT ![s] = "returned"]
  /\ UNCHANGED <<PoolNum, queue, made, buf, messages, pc, arg, consumer, rpc, waiting, closing>>

ShutdownDone(s) ==
  /\ spc[s] = "closed"
  /\ waiting' = IF running THEN waiting - 1 ELSE waiting
  /\ running' = FALSE
  /\ spc' = [spc EXCEPT ![s] = "returned"]
  /\ UNCHANGED <<PoolNum, queue, made, buf, messages, pc, arg, consumer, rpc, closing>>

ConsumerStep(c) ==
  \/ ReceiveBuffered(c) \/ \E m \in Msgs : ReceiveDirect(c, m)
  \/ \E d \in Consumers : ReceiveResent(c, d)
  \/ HandlerSucceeds(c) \/ HandlerFails(c) \/ BackoffOver(c) \/ Resend(c) \/ Exit(c)

CarrierStep(m) == Send(m) \/ GiveUpSending(m)

Next == \/ \E p \in Producers : AppendStore(p) \/ \E m \in Msgs : AppendHit(p, m) \/ AppendMiss(p, m)
        \/ \E m \in Msgs : CarrierStep(m)
        \/ \E c \in Consumers : ConsumerStep(c) \/ \E s \in Streams : Register(c, s)
        \/ \E r \in Runners : Run(r) \/ RunWaits(r)
        \/ \E s \in Closers : Shutdown(s) \/ ShutdownDone(s)

\* Goroutines run on, handlers return, backoff timers fire.  Whether and when
\* Append, Register, Run and Shutdown are called is up to the application.
Fairness == /\ \A p \in Producers : WF_vars(AppendStore(p))
            /\ \A m \in Msgs : WF_vars(CarrierStep(m))
            /\ \A c \in Consumers : WF_vars(ConsumerStep(c))
            /\ \A r \in Runners : WF_vars(RunWaits(r))
            /\ \A s \in Closers : WF_vars(ShutdownDone(s))

Spec == Init /\ [][Next]_vars
FairSpec == Spec /\ Fairness
-----------------------------------------------------------------------------
Accepted == {m \in Msgs : chan[m] # 0}

Buffered(m) == {at \in Chans \X (1..PoolNum) : at[2] <= Len(buf[at[1]]) /\ buf[at[1]][at[2]] = m}
Holders(m) == {c \in Consumers : cm[c] = m}

\* In how many places m is: with its carrier, in a buffer, with a consumer.
Copies(m) == (IF m \in sending THEN 1 ELSE 0) + Cardinality(Buffered(m)) + Cardinality(Holders(m))

(* Append, retries and hand-overs neither lose nor duplicate a message: it *)
(* is in one place until it is settled and in none afterwards; only a      *)
(* shutdown drops messages.                                                *)
OneCopy == \A m \in Msgs : /\ Copies(m) <= 1
                           /\ m \in settled => Copies(m) = 0
                           /\ m \in Accepted \ settled /\ ~closing => Copies(m) = 1

(* When a Run that waited has returned, all consumers have exited and no   *)
(* later Register starts one: a handler never outlives Run.                *)
DrainedForGood ==
  (\E r \in Runners : rpc[r] = "stopped") => \A c \in Consumers : cpc[c] \in {"unborn", "exited"}

(* A message on a channel that somebody consumes is settled, unless the    *)
(* queue is shut down, if the channel has room for every message.  Without *)
(* that room it need not: a consumer that re-sends a failed message to its *)
(* own full or unbuffered channel waits for itself.                        *)
AttendedMessageSettles ==
  \A m \in Msgs, c \in Consumers :
    PoolNum >= Cardinality(Msgs) /\ m \in Accepted /\ cq[c] = chan[m]
      ~> m \in settled \/ closing

(* A shutdown lets every Run return.                                       *)
RunReturns ==
  \A r \in Runners : rpc[r] \in {"waiting", "drained"} /\ closing ~> rpc[r] = "stopped"
=============================================================================
