------------------------------ MODULE SSEStream ------------------------------
(***************************************************************************)
(* transport/sse: one event stream.  A single goroutine (`run`) registers  *)
(* and deregisters subscribers, keeps the replay log and hands every event *)
(* to every subscriber's bounded channel.  Each HTTP handler drains its    *)
(* channel to its client; a goroutine beside it (the watcher) waits for    *)
(* the request to end and deregisters.  The stream is closed by            *)
(* RemoveStream, Stop or, with autoStream and no replay, by a watcher that *)
(* counts no subscribers.  A stream later made under the same ID is        *)
(* another instance.                                                       *)
(***************************************************************************)
EXTENDS Naturals, Sequences, SequencesExt, FiniteSetsExt

CONSTANTS Events,      \* values given to Publish, each once
          Blanks,      \* possible sets of events without any content
          OwnId,       \* OwnId[e]: the numeric ID its publisher set, 0 for none
          Clients,     \* HTTP requests for the stream
          BufferSize,  \* bufferSize: the capacity of the event channel
          ConnCap,     \* the capacity of a subscriber's channel (64 in the code)
          UnknownId,   \* an ID no event of this stream has
          None

ASSUME EventAttributes == /\ Blanks \subseteq SUBSET Events /\ OwnId \in [Events -> Nat]
                          /\ None \notin Events \cup Clients
ASSUME RunPoints == Clients \cap {"select", "deliver", "gone"} = {}
ASSUME Capacities == BufferSize \in Nat \ {0} /\ ConnCap \in Nat \ {0}

ASSUME UnknownIsNoId == UnknownId \notin Nat

VARIABLES Blank,       \* the events without any content
          autoReplay,  \* the stream keeps a log; otherwise watchers may remove it
          present,     \* the stream is in the manager's map
          quit,        \* stream.quit is closed
          event,       \* the event channel
          publishing,  \* events whose Publish waits for the channel
          published,   \* events given to Publish or TryPublish
          log,         \* run: the events taken so far, with their IDs: the eventLog
                       \*   if autoReplay, else history
          subs,        \* run: the subscribers
          rpc,         \* run: "select", "deliver", "gone", or the client it replays to
          rnext, hand, \* run: the next entry or subscriber; the event it delivers
          hpc, wpc,    \* where each client's handler and watcher are
          ended,       \* requests whose Context is done
          lastId,      \* the client's Last-Event-ID, 0 for none
          conn,        \* each subscriber's channel
          closed,      \* closed subscriber channels
          from,        \* how many entries the client is to be spared (history)
          sent         \* what run has sent to each of its subscribers, but for blank
                       \*   events (history)

stream == <<Blank, autoReplay, present, quit, event, publishing, published>>
run == <<log, subs, rpc, rnext, hand>>
client == <<hpc, wpc, ended, lastId, conn, closed, from, sent>>
vars == <<stream, run, client>>

Entries == [ev : Events, id : Nat]

TypeOK == /\ Blank \in Blanks /\ autoReplay \in BOOLEAN /\ present \in BOOLEAN /\ quit = ~present
          /\ event \in Seq(Events) /\ Len(event) <= BufferSize
          /\ publishing \subseteq published /\ published \subseteq Events
          /\ log \in Seq(Entries)
          /\ subs \in Seq(Clients) /\ IsInjective(subs)
          /\ rpc \in {"select", "deliver", "gone"} \cup Clients
          /\ rnext \in Nat /\ hand \in Entries \cup {None}
          /\ hpc \in [Clients -> {"new", "register", "registered", "streaming",
                                  "broke", "refused", "done"}]
          /\ wpc \in [Clients -> {"none", "waiting", "count", "remove", "done"}]
          /\ ended \subseteq Clients /\ closed \subseteq Clients
          /\ lastId \in [Clients -> Nat \cup {UnknownId}] /\ from \in [Clients -> Nat]
          /\ conn \in [Clients -> Seq(Entries)] /\ sent \in [Clients -> Seq(Entries)]
          /\ \A c \in Clients : Len(conn[c]) <= ConnCap

Init == /\ Blank \in Blanks /\ autoReplay \in BOOLEAN /\ present = TRUE /\ quit = FALSE
        /\ event = <<>> /\ publishing = {} /\ published = {}
        /\ log = <<>> /\ subs = <<>> /\ rpc = "select" /\ rnext = 0 /\ hand = None
        /\ hpc = [c \in Clients |-> "new"] /\ wpc = [c \in Clients |-> "none"]
        /\ ended = {} /\ closed = {}
        /\ lastId = [c \in Clients |-> 0] /\ from = [c \in Clients |-> 0]
        /\ conn = [c \in Clients |-> <<>>] /\ sent = [c \in Clients |-> <<>>]
-----------------------------------------------------------------------------
(* Publishers, and the ways the application closes the stream. *)

Publish(e) ==
  /\ present /\ e \notin published
  /\ published' = published \cup {e} /\ publishing' = publishing \cup {e}
  /\ UNCHANGED <<Blank, autoReplay, present, quit, event, run, client>>

Send(e) ==
  /\ e \in publishing /\ Len(event) < BufferSize
  /\ event' = Append(event, e) /\ publishing' = publishing \ {e}
  /\ UNCHANGED <<Blank, autoReplay, present, quit, published, run, client>>

GiveUpSend(e) ==
  /\ e \in publishing /\ quit
  /\ publishing' = publishing \ {e}
  /\ UNCHANGED <<Blank, autoReplay, present, quit, event, published, run, client>>

\* TryPublish drops the event if the channel is full.
TryPublish(e) ==
  /\ present /\ e \notin published
  /\ published' = published \cup {e}
  /\ event' = IF Len(event) < BufferSize THEN Append(event, e) ELSE event
  /\ UNCHANGED <<Blank, autoReplay, present, quit, publishing, run, client>>

\* RemoveStream, or Clean in Stop.
CloseStream ==
  /\ present
  /\ present' = FALSE /\ quit' = TRUE
  /\ UNCHANGED <<Blank, autoReplay, event, publishing, published, run, client>>
-----------------------------------------------------------------------------
(* run *)

\* currentIndex: above the number of entries and above every numeric ID.
NextIndex == 1 + Max({Len(log)} \cup {log[i].id : i \in DOMAIN log})

Position(id) == SelectInSeq(log, LAMBDA x : x.id = id)   \* 0 if there is none

ReplayFromIt(id) ==            \* mutant: the entry with that ID is sent again
  IF id = 0 THEN 1 ELSE IF Position(id) = 0 THEN Len(log) + 1 ELSE Position(id)

ReplayStart(id) ==
  IF id = 0 THEN 1 ELSE IF Position(id) = 0 THEN Len(log) + 1 ELSE Position(id) + 1

\* A send to a subscriber's channel waits for room.
SendTo(c, entry) ==
  /\ Len(conn[c]) < ConnCap
  /\ conn' = [conn EXCEPT ![c] = Append(@, entry)]
  /\ sent' = IF entry.ev \in Blank THEN sent ELSE [sent EXCEPT ![c] = Append(@, entry)]

RegisterSub(c) ==
  /\ rpc = "select" /\ hpc[c] = "register"
  /\ subs' = Append(subs, c)
  /\ hpc' = [hpc EXCEPT ![c] = "registered"]
  /\ from' = [from EXCEPT ![c] = IF autoReplay /\ lastId[c] # UnknownId THEN @ ELSE Len(log)]
  /\ IF autoReplay THEN rpc' = c /\ rnext' = ReplayStart(lastId[c])
                   ELSE UNCHANGED <<rpc, rnext>>
  /\ lastId' = [lastId EXCEPT ![c] = 0]
  /\ UNCHANGED <<stream, log, hand, wpc, ended, conn, closed, sent>>

Replay(c) ==
  /\ rpc = c
  /\ IF rnext <= Len(log)
       THEN /\ SendTo(c, log[rnext])
            /\ rnext' = rnext + 1
            /\ UNCHANGED rpc
       ELSE rpc' = "select" /\ rnext' = 0 /\ UNCHANGED <<conn, sent>>
  /\ UNCHANGED <<stream, log, subs, hand, hpc, wpc, ended, lastId, closed, from>>

\* Add, which leaves blank events out; Add numbers an event that has no ID.
TakeEvent ==
  LET e == Head(event)
      id == IF OwnId[e] = 0 /\ autoReplay /\ e \notin Blank THEN NextIndex ELSE OwnId[e] IN
  /\ rpc = "select" /\ event # <<>>
  /\ event' = Tail(event)
  /\ hand' = [ev |-> e, id |-> id]
  /\ log' = IF e \in Blank THEN log ELSE Append(log, hand')
  /\ rpc' = "deliver" /\ rnext' = 1
  /\ UNCHANGED <<Blank, autoReplay, present, quit, publishing, published, subs, client>>

Deliver ==
  /\ rpc = "deliver"
  /\ IF rnext <= Len(subs)
       THEN /\ SendTo(subs[rnext], hand)
            /\ rnext' = rnext + 1
            /\ UNCHANGED <<rpc, hand>>
       ELSE rpc' = "select" /\ rnext' = 0 /\ hand' = None /\ UNCHANGED <<conn, sent>>
  /\ UNCHANGED <<stream, log, subs, hpc, wpc, ended, lastId, closed, from>>

DeregisterKeeps(c) ==          \* mutant: the channel is closed, the subscriber stays
  /\ rpc = "select" /\ wpc[c] = "waiting" /\ c \in ended
  /\ closed' = closed \cup {c}
  /\ wpc' = [wpc EXCEPT ![c] = IF autoReplay THEN "done" ELSE "count"]
  /\ UNCHANGED <<stream, run, hpc, ended, lastId, conn, from, sent>>

\* The watcher hands the subscriber to run, which removes it.
Deregister(c) ==
  /\ rpc = "select" /\ wpc[c] = "waiting" /\ c \in ended
  /\ subs' = RemoveFirst(subs, c) /\ closed' = closed \cup {c}
  /\ sent' = [sent EXCEPT ![c] = <<>>] /\ from' = [from EXCEPT ![c] = 0]
  /\ wpc' = [wpc EXCEPT ![c] = IF autoReplay THEN "done" ELSE "count"]
  /\ UNCHANGED <<stream, log, rpc, rnext, hand, hpc, ended, lastId, conn>>

Quit ==
  /\ rpc = "select" /\ quit
  /\ closed' = closed \cup ToSet(subs) /\ subs' = <<>>
  /\ rpc' = "gone"
  /\ sent' = [c \in Clients |-> <<>>] /\ from' = [c \in Clients |-> 0]
  /\ UNCHANGED <<stream, log, rnext, hand, hpc, wpc, ended, lastId, conn>>
-----------------------------------------------------------------------------
(* serveStreamHTTP: the handler, its watcher and the client. *)

\* A client that was connected before names the last entry it has seen, or one the
\* stream does not know; without a replay the name is not looked at.
Subscribe(c) ==
  /\ present /\ hpc[c] = "new"
  /\ hpc' = [hpc EXCEPT ![c] = "register"]
  /\ \/ \E k \in IF autoReplay THEN 0..Len(log) ELSE {0} :
          /\ from' = [from EXCEPT ![c] = k]
          /\ lastId' = [lastId EXCEPT ![c] = IF k = 0 THEN 0 ELSE log[k].id]
     \/ autoReplay /\ lastId' = [lastId EXCEPT ![c] = UnknownId] /\ UNCHANGED from
  /\ UNCHANGED <<stream, run, wpc, ended, conn, closed, sent>>

Admit(c) ==
  /\ hpc[c] = "registered"
  /\ hpc' = [hpc EXCEPT ![c] = "streaming"]
  /\ wpc' = [wpc EXCEPT ![c] = "waiting"]
  /\ UNCHANGED <<stream, run, ended, lastId, conn, closed, from, sent>>

\* addSubscriber sees the stream closed, perhaps after run has registered it.
Refuse(c) ==
  /\ hpc[c] \in {"register", "registered"} /\ quit
  /\ hpc' = [hpc EXCEPT ![c] = "refused"]
  /\ UNCHANGED <<stream, run, wpc, ended, lastId, conn, closed, from, sent>>

ReceiveWhileThere(c) ==        \* mutant: the handler stops when the client has gone
  /\ hpc[c] = "streaming" /\ conn[c] # <<>> /\ c \notin ended
  /\ conn' = [conn EXCEPT ![c] = Tail(@)]
  /\ UNCHANGED <<stream, run, hpc, wpc, ended, lastId, closed, from, sent>>

\* The handler goes on draining after its client has gone; a blank event ends it,
\* and a handler that returns ends its request's Context.
Receive(c) ==
  /\ hpc[c] = "streaming" /\ conn[c] # <<>>
  /\ conn' = [conn EXCEPT ![c] = Tail(@)]
  /\ IF Head(conn[c]).ev \in Blank
       THEN /\ hpc' = [hpc EXCEPT ![c] = "broke"] /\ ended' = ended \cup {c}
       ELSE UNCHANGED <<hpc, ended>>
  /\ UNCHANGED <<stream, run, wpc, lastId, closed, from, sent>>

ChannelClosed(c) ==
  /\ hpc[c] = "streaming" /\ conn[c] = <<>> /\ c \in closed
  /\ hpc' = [hpc EXCEPT ![c] = "done"] /\ ended' = ended \cup {c}
  /\ UNCHANGED <<stream, run, wpc, lastId, conn, closed, from, sent>>

Disconnect(c) ==
  /\ hpc[c] = "streaming" /\ c \notin ended
  /\ ended' = ended \cup {c}
  /\ UNCHANGED <<stream, run, hpc, wpc, lastId, conn, closed, from, sent>>

\* Subscriber.close returns at once when the stream is closed.
LeaveClosed(c) ==
  /\ wpc[c] = "waiting" /\ c \in ended /\ quit
  /\ wpc' = [wpc EXCEPT ![c] = IF autoReplay THEN "done" ELSE "count"]
  /\ UNCHANGED <<stream, run, hpc, ended, lastId, conn, closed, from, sent>>

CountSubs(c) ==
  /\ wpc[c] = "count"
  /\ wpc' = [wpc EXCEPT ![c] = IF subs = <<>> THEN "remove" ELSE "done"]
  /\ UNCHANGED <<stream, run, hpc, ended, lastId, conn, closed, from, sent>>

\* RemoveWithID, whoever may have subscribed since the count.
AutoRemove(c) ==
  /\ wpc[c] = "remove"
  /\ present' = FALSE /\ quit' = TRUE
  /\ wpc' = [wpc EXCEPT ![c] = "done"]
  /\ UNCHANGED <<Blank, autoReplay, event, publishing, published, run,
                 hpc, ended, lastId, conn, closed, from, sent>>

RunStep == \/ TakeEvent \/ Deliver \/ Quit
           \/ \E c \in Clients : RegisterSub(c) \/ Replay(c) \/ Deregister(c)
PublisherStep(e) == Send(e) \/ GiveUpSend(e)
HandlerStep(c) == Admit(c) \/ Refuse(c) \/ Receive(c) \/ ChannelClosed(c)
WatcherStep(c) == LeaveClosed(c) \/ CountSubs(c) \/ AutoRemove(c)

Next == \/ RunStep \/ CloseStream
        \/ \E e \in Events : Publish(e) \/ TryPublish(e) \/ PublisherStep(e)
        \/ \E c \in Clients : Subscribe(c) \/ Disconnect(c) \/ HandlerStep(c) \/ WatcherStep(c)

\* Some goroutine that can run does, and writes to a client return; nobody needs to
\* publish, subscribe, disconnect or close the stream.  Every goroutine has finitely
\* many steps to take, so fairness to each of them would add nothing.
Fairness == WF_vars(\/ RunStep
                    \/ \E e \in Events : PublisherStep(e)
                    \/ \E c \in Clients : HandlerStep(c) \/ WatcherStep(c))

Spec == Init /\ [][Next]_vars
FairSpec == Spec /\ Fairness
-----------------------------------------------------------------------------
Due(c) == SubSeq(log, from[c] + 1, Len(log))

(* A subscriber is sent, in order, without a gap or a repetition, exactly  *)
(* what follows the last event it has seen: the replay and the live events *)
(* join without a seam (register, Replay and event are cases of one select). *)
InOrderGapFree ==
  \A c \in ToSet(subs) : /\ IsPrefix(sent[c], Due(c))
                         /\ rpc = "select" => sent[c] = Due(c)

(* run never sends on a closed channel, which would panic: removal and     *)
(* closing go together.                                                    *)
NoSendOnClosed == ToSet(subs) \cap closed = {}

\* run waits for room in the channel of a subscriber whose handler has left, after a
\* blank event or a refusal that came too late.
Jammed == \E c \in ToSet(subs) : hpc[c] \in {"broke", "refused"} /\ Len(conn[c]) = ConnCap

(* Unless run is jammed for ever: a request that ends is deregistered,     *)
(* closing the stream ends every handler, and a Publish returns because its *)
(* event is taken or the stream closed.                                    *)
NobodyWaitsForEver ==
  \/ /\ \A c \in Clients : wpc[c] = "waiting" /\ c \in ended ~> c \notin ToSet(subs)
     /\ \A c \in Clients : quit /\ hpc[c] = "streaming" ~> hpc[c] # "streaming"
     /\ \A e \in Events : e \in publishing ~> e \notin publishing
  \/ <>[]Jammed
=============================================================================
