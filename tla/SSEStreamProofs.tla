--------------------------- MODULE SSEStreamProofs ---------------------------
(***************************************************************************)
(* Proofs about one event stream, for any events, requests and capacities. *)
(* Delivery is shown to be in order and gap-free as long as the publishers *)
(* that number their events themselves do not name an ID the log has.      *)
(***************************************************************************)
EXTENDS SSEStream, SequenceTheorems, WellFoundedInduction, TLAPS

\* The next event's publisher did not name an ID that the log already has.
OwnIdIsFresh ==
  autoReplay /\ event # <<>> => \A i \in DOMAIN log : log[i].id # OwnId[Head(event)]
-----------------------------------------------------------------------------
NothingBlankKept == \A i \in DOMAIN log : log[i].ev \notin Blank

IdsBounded == \E b \in Nat : \A i \in DOMAIN log : log[i].id <= b

IdsIdentify ==
  autoReplay => /\ \A i \in DOMAIN log : log[i].id # 0
                /\ \A i, j \in DOMAIN log : log[i].id = log[j].id => i = j

\* A request that run has not registered yet.
NotRegistered ==
  \A c \in Clients : hpc[c] \in {"new", "register"} =>
    c \notin ToSet(subs) /\ c \notin closed /\ wpc[c] = "none" /\ sent[c] = <<>>

\* What a reconnecting client names is where its replay has to resume.
NamesItsPlace ==
  autoReplay /\ rpc # "gone" =>
    \A c \in Clients : hpc[c] = "register" =>
      \/ lastId[c] = UnknownId
      \/ lastId[c] = 0 /\ from[c] = 0
      \/ from[c] \in DOMAIN log /\ lastId[c] = log[from[c]].id

RunIsInside ==
  /\ rpc = "deliver" => /\ rnext >= 1 /\ hand \in Entries
                        /\ hand.ev \notin Blank => log # <<>> /\ log[Len(log)] = hand
  /\ rpc \in Clients => rpc \in ToSet(subs) /\ rnext \in 1..Len(log) + 1

\* run is at an event and has not come to c.
StillDue(c) == /\ rpc = "deliver" /\ hand.ev \notin Blank
               /\ \E k \in rnext..Len(subs) : subs[k] = c

\* How much of the log c has been sent or has been spared.
Reached(c) == IF rpc = c THEN rnext - 1
              ELSE IF StillDue(c) THEN Len(log) - 1 ELSE Len(log)

InStep ==
  \A c \in ToSet(subs) :
    /\ Len(sent[c]) = Reached(c) - from[c]
    /\ \A k \in DOMAIN sent[c] : sent[c][k] = log[from[c] + k]

IInv == /\ TypeOK /\ NothingBlankKept /\ IdsBounded /\ IdsIdentify
        /\ NotRegistered /\ NoSendOnClosed /\ NamesItsPlace /\ RunIsInside /\ InStep
-----------------------------------------------------------------------------
(* Smallest and largest numbers, which Position and NextIndex choose. *)

LEMMA Smallest ==
  ASSUME NEW S \in SUBSET Nat, S # {}
  PROVE  \E m \in S : \A n \in S : m <= n
<1>1. PICK m \in S : \A n \in S : <<n, m>> \notin OpToRel(<, Nat)
  BY WFMin, NatLessThanWellFounded
<1>2. \A n \in S : ~(n < m)
  BY <1>1 DEF OpToRel
<1> QED BY <1>2

LEMMA LargestIsMax ==
  ASSUME NEW S \in SUBSET Nat, S # {}, NEW b \in Nat, \A n \in S : n <= b
  PROVE  Max(S) \in S /\ \A n \in S : n <= Max(S)
<1> DEFINE U == {u \in Nat : \A n \in S : n <= u}
<1>1. PICK m \in U : \A u \in U : m <= u
  <2>1. b \in U /\ U \in SUBSET Nat
    OBVIOUS
  <2> HIDE DEF U
  <2> QED BY <2>1, Smallest
<1>2. m \in S
  <2>0. PICK n \in S : n <= m /\ n \in Nat
    BY <1>1
  <2>1. CASE m = 0
    BY <2>0, <2>1
  <2>2. CASE m # 0
    <3>1. m - 1 \in Nat /\ m - 1 \notin U
      BY <1>1, <2>2
    <3>2. PICK k \in S : ~(k <= m - 1)
      BY <3>1
    <3> QED BY <1>1, <2>2, <3>2
  <2> QED BY <2>1, <2>2
<1>3. \E x \in S : \A n \in S : x >= n
  BY <1>1, <1>2
<1> QED BY <1>3 DEF Max

\* The only element of a sequence that passes the test is the one selected.
LEMMA PositionOfOnly ==
  ASSUME NEW id, NEW k \in DOMAIN log, log \in Seq(Entries),
         \A i \in DOMAIN log : log[i].id = id <=> i = k
  PROVE  Position(id) = k
<1>1. {i \in 1..Len(log) : log[i].id = id} = {k}
  OBVIOUS
<1>2. Min({k}) = k
  BY DEF Min
<1> QED BY <1>1, <1>2 DEF Position, SelectInSeq

LEMMA NoPosition ==
  ASSUME NEW id, log \in Seq(Entries), \A i \in DOMAIN log : log[i].id # id
  PROVE  Position(id) = 0
<1>1. {i \in 1..Len(log) : log[i].id = id} = {}
  OBVIOUS
<1> QED BY <1>1 DEF Position, SelectInSeq

LEMMA WithoutOne ==
  ASSUME NEW S, NEW s \in Seq(S), NEW k \in 1..Len(s)
  PROVE  \E t \in Seq(S) :
           /\ t = RemoveAt(s, k) /\ Len(t) = Len(s) - 1
           /\ \A i \in 1..k - 1 : t[i] = s[i]
           /\ \A i \in k..Len(s) - 1 : t[i] = s[i + 1]
<1>1. PICK a : a = SubSeq(s, 1, k - 1)
  OBVIOUS
<1>2. PICK b : b = SubSeq(s, k + 1, Len(s))
  OBVIOUS
<1>3. /\ a \in Seq(S) /\ Len(a) = k - 1
      /\ \A i \in 1..k - 1 : a[i] = s[i]
  BY <1>1
<1>4. /\ b \in Seq(S) /\ Len(b) = Len(s) - k
      /\ \A i \in 1..Len(s) - k : b[i] = s[k + i]
  BY <1>2
<1>5. /\ a \o b \in Seq(S) /\ Len(a \o b) = Len(s) - 1
      /\ \A i \in 1..k - 1 : (a \o b)[i] = s[i]
      /\ \A i \in k..Len(s) - 1 : (a \o b)[i] = s[i + 1]
  <2>0. Len(s) \in Nat /\ k \in Nat
    OBVIOUS
  <2>1. /\ a \o b \in Seq(S) /\ Len(a \o b) = Len(s) - 1
        /\ \A i \in 1..Len(s) - 1 : (a \o b)[i] = IF i <= k - 1 THEN a[i] ELSE b[i - (k - 1)]
    <3>1. Len(a) + Len(b) = Len(s) - 1
      BY <1>3, <1>4, <2>0
    <3>2. /\ a \o b \in Seq(S) /\ Len(a \o b) = Len(a) + Len(b)
          /\ \A i \in 1..Len(a) + Len(b) : (a \o b)[i] = IF i <= Len(a) THEN a[i] ELSE b[i - Len(a)]
      BY ONLY <1>3, <1>4, ConcatProperties, Zenon
    <3> QED BY ONLY <1>3, <3>1, <3>2, Zenon
  <2>2. \A i \in k..Len(s) - 1 : i - (k - 1) \in 1..Len(s) - k /\ k + (i - (k - 1)) = i + 1
    BY <2>0
  <2> QED BY <1>3, <1>4, <2>0, <2>1, <2>2
<1> QED BY <1>1, <1>2, <1>5 DEF RemoveAt

LEMMA Suffix ==
  ASSUME NEW S, NEW s \in Seq(S), NEW n \in Nat, n <= Len(s)
  PROVE  /\ SubSeq(s, n + 1, Len(s)) \in Seq(S) /\ Len(SubSeq(s, n + 1, Len(s))) = Len(s) - n
         /\ \A k \in 1..Len(s) - n : SubSeq(s, n + 1, Len(s))[k] = s[n + k]
<1>1. Len(s) \in Nat
  OBVIOUS
<1> QED BY <1>1

LEMMA RemoveOnly ==
  ASSUME NEW s \in Seq(Clients), IsInjective(s), NEW c
  PROVE  /\ RemoveFirst(s, c) \in Seq(Clients)
         /\ IsInjective(RemoveFirst(s, c))
         /\ ToSet(RemoveFirst(s, c)) = ToSet(s) \ {c}
<1>1. CASE \A i \in 1..Len(s) : s[i] # c
  <2>1. RemoveFirst(s, c) = s
    BY <1>1 DEF RemoveFirst
  <2>2. c \notin ToSet(s)
    BY <1>1 DEF ToSet
  <2> QED BY <2>1, <2>2
<1>2. ASSUME NEW k \in 1..Len(s), s[k] = c
      PROVE  /\ RemoveFirst(s, c) \in Seq(Clients)
             /\ IsInjective(RemoveFirst(s, c))
             /\ ToSet(RemoveFirst(s, c)) = ToSet(s) \ {c}
  <2>0. \A i, j \in 1..Len(s) : s[i] = s[j] => i = j
    BY DEF IsInjective
  <2>1. {i \in 1..Len(s) : s[i] = c} = {k}
    BY <1>2, <2>0
  <2>2. Min({k}) = k
    BY DEF Min
  <2>3. RemoveFirst(s, c) = RemoveAt(s, k)
    BY <1>2, <2>1, <2>2 DEF RemoveFirst, SelectInSeq
  <2>4. PICK t \in Seq(Clients) :
           /\ t = RemoveAt(s, k) /\ Len(t) = Len(s) - 1
           /\ \A i \in 1..k - 1 : t[i] = s[i]
           /\ \A i \in k..Len(s) - 1 : t[i] = s[i + 1]
    BY WithoutOne
  <2>5. DOMAIN t = 1..Len(s) - 1 /\ Len(s) \in Nat
    BY <2>4
  <2>6. IsInjective(t)
    <3> SUFFICES ASSUME NEW i \in 1..Len(s) - 1, NEW j \in 1..Len(s) - 1, t[i] = t[j]
                 PROVE  i = j
      BY <2>5 DEF IsInjective
    <3> QED BY <2>0, <2>4, <2>5
  <2>7. ToSet(t) \subseteq ToSet(s) \ {c}
    <3> SUFFICES ASSUME NEW i \in 1..Len(s) - 1 PROVE t[i] \in ToSet(s) \ {c}
      BY <2>5 DEF ToSet
    <3>1. PICK j \in 1..Len(s) : t[i] = s[j] /\ j # k
      BY <2>4, <2>5
    <3> QED BY <1>2, <2>0, <3>1 DEF ToSet
  <2>8. ToSet(s) \ {c} \subseteq ToSet(t)
    <3> SUFFICES ASSUME NEW i \in 1..Len(s), i # k PROVE s[i] \in ToSet(t)
      BY <1>2 DEF ToSet
    <3>1. PICK j \in 1..Len(s) - 1 : t[j] = s[i]
      <4>1. CASE i < k
        BY <2>4, <2>5, <4>1
      <4>2. CASE i > k
        <5>1. i - 1 \in k..Len(s) - 1 /\ (i - 1) + 1 = i
          BY <2>5, <4>2
        <5>2. t[i - 1] = s[i]
          BY <2>4, <5>1
        <5> QED BY <5>1, <5>2
      <4> QED BY <4>1, <4>2
    <3> QED BY <2>5, <3>1 DEF ToSet
  <2> QED BY <2>3, <2>4, <2>6, <2>7, <2>8
<1> QED BY <1>1, <1>2
\* The next automatic ID is above every ID in the log.
LEMMA NextIndexIsFresh ==
  ASSUME log \in Seq(Entries), IdsBounded
  PROVE  NextIndex \in Nat \ {0} /\ \A i \in DOMAIN log : log[i].id < NextIndex
<1>1. PICK b \in Nat : \A i \in DOMAIN log : log[i].id <= b
  BY DEF IdsBounded
<1>2. \A i \in DOMAIN log : log[i].id \in Nat
  <2>1. \A i \in DOMAIN log : log[i] \in Entries
    OBVIOUS
  <2> QED BY <2>1 DEF Entries
<1>3. PICK S : S = {Len(log)} \cup {log[i].id : i \in DOMAIN log}
  OBVIOUS
<1>4. S \in SUBSET Nat /\ S # {} /\ b + Len(log) \in Nat /\ \A n \in S : n <= b + Len(log)
  BY <1>1, <1>2, <1>3
<1>5. Max(S) \in Nat /\ \A n \in S : n <= Max(S)
  BY <1>4, LargestIsMax
<1>6. NextIndex = 1 + Max(S)
  BY <1>3, Zenon DEF NextIndex
<1>7. \A i \in DOMAIN log : log[i].id \in S
  BY <1>3
<1> QED BY <1>2, <1>5, <1>6, <1>7
-----------------------------------------------------------------------------
LEMMA InitialInv == Init => IInv
<1> SUFFICES ASSUME Init PROVE IInv
  OBVIOUS
<1> USE DEF Init
<1>1. TypeOK
  <2>1. /\ Blank \in Blanks /\ autoReplay \in BOOLEAN /\ present \in BOOLEAN
        /\ event \in Seq(Events) /\ log \in Seq(Entries) /\ subs \in Seq(Clients)
    OBVIOUS
  <2>6. /\ quit = ~present
        /\ publishing \subseteq published /\ published \subseteq Events
        /\ rnext \in Nat /\ hand \in Entries \cup {None}
    OBVIOUS
  <2>5. Len(event) = 0 /\ 0 <= BufferSize
    BY Capacities
  <2>2. IsInjective(subs)
    BY DEF IsInjective
  <2>3. /\ conn \in [Clients -> Seq(Entries)] /\ sent \in [Clients -> Seq(Entries)]
    OBVIOUS
  <2>4. \A c \in Clients : Len(conn[c]) <= ConnCap
    <3> SUFFICES ASSUME NEW c \in Clients PROVE Len(conn[c]) <= ConnCap
      OBVIOUS
    <3>1. Len(conn[c]) = 0
      OBVIOUS
    <3> QED BY <3>1, Capacities
  <2> QED BY <2>1, <2>2, <2>3, <2>4, <2>5, <2>6 DEF TypeOK
<1>2. NothingBlankKept /\ IdsBounded /\ IdsIdentify
  BY DEF NothingBlankKept, IdsBounded, IdsIdentify
<1>3. NotRegistered /\ NoSendOnClosed /\ NamesItsPlace
  BY DEF NotRegistered, NoSendOnClosed, NamesItsPlace, ToSet
<1>4. RunIsInside /\ InStep
  BY RunPoints DEF RunIsInside, InStep, ToSet
<1> QED BY <1>1, <1>2, <1>3, <1>4 DEF IInv

LogInv == NothingBlankKept /\ IdsBounded /\ IdsIdentify
SubsInv == RunIsInside /\ InStep

\* A step of a publisher, a handler or a watcher leaves the log and what run does alone.
LEMMA RunUntouched ==
  ASSUME IInv, UNCHANGED <<Blank, autoReplay, run, closed, sent>>,
         \A c \in ToSet(subs) : from'[c] = from[c]
  PROVE  LogInv' /\ SubsInv' /\ NoSendOnClosed'
<1> USE DEF IInv, run
<1>1. LogInv'
  BY DEF LogInv, NothingBlankKept, IdsBounded, IdsIdentify
<1>2. RunIsInside' /\ NoSendOnClosed'
  BY DEF RunIsInside, NoSendOnClosed, ToSet
<1>3. InStep'
  <2>1. ToSet(subs)' = ToSet(subs)
    BY DEF ToSet
  <2>2. \A c : Reached(c)' = Reached(c)
    BY DEF Reached, StillDue
  <2> QED BY <2>1, <2>2 DEF InStep
<1> QED BY <1>1, <1>2, <1>3 DEF SubsInv

LEMMA PublisherInv ==
  ASSUME IInv,
         CloseStream \/ \E e \in Events : Publish(e) \/ TryPublish(e) \/ PublisherStep(e)
  PROVE  IInv'
<1> USE DEF run, client
<1>1. /\ UNCHANGED <<Blank, autoReplay, log, subs, rpc, rnext, hand>>
      /\ UNCHANGED <<hpc, wpc, ended, lastId, conn, closed, from, sent>>
      /\ published \subseteq published' /\ published' \subseteq Events
  BY DEF IInv, TypeOK, CloseStream, Publish, TryPublish, PublisherStep, Send, GiveUpSend
<1>2. /\ present' \in BOOLEAN /\ quit' = ~present'
      /\ event' \in Seq(Events) /\ Len(event') <= BufferSize
      /\ publishing' \subseteq published'
  <2>0. /\ present \in BOOLEAN /\ quit = ~present /\ BufferSize \in Nat
        /\ event \in Seq(Events) /\ Len(event) <= BufferSize
        /\ publishing \subseteq published
    BY Capacities DEF IInv, TypeOK
  <2>1. CASE CloseStream
    BY ONLY <2>0, <2>1 DEF CloseStream
  <2>2. ASSUME NEW e \in Events, \/ Publish(e) \/ GiveUpSend(e)
        PROVE  <1>2!:
    BY ONLY <2>0, <2>2 DEF Publish, GiveUpSend
  <2>3. ASSUME NEW e \in Events, Send(e) \/ TryPublish(e)
        PROVE  <1>2!:
    <3>1. Append(event, e) \in Seq(Events) /\ Len(Append(event, e)) = Len(event) + 1
      BY <2>0
    <3>2. Len(event) < BufferSize => Len(event) + 1 <= BufferSize
      BY <2>0
    <3> QED BY ONLY <2>0, <2>3, <3>1, <3>2 DEF Send, TryPublish
  <2> QED BY <2>1, <2>2, <2>3 DEF PublisherStep
<1>3. TypeOK'
  BY <1>1, <1>2 DEF IInv, TypeOK
<1>4. NotRegistered' /\ NamesItsPlace'
  BY <1>1 DEF IInv, NotRegistered, NamesItsPlace, ToSet
<1> QED BY <1>1, <1>3, <1>4, RunUntouched DEF IInv, LogInv, SubsInv

LEMMA HandlerInv ==
  ASSUME IInv, NEW c \in Clients, Disconnect(c) \/ HandlerStep(c) \/ WatcherStep(c)
  PROVE  IInv'
<1> USE DEF stream, run, Disconnect, HandlerStep, WatcherStep, Admit, Refuse, Receive,
            ChannelClosed, LeaveClosed, CountSubs, AutoRemove
<1>1. /\ UNCHANGED <<Blank, autoReplay, event, publishing, published>>
      /\ UNCHANGED <<log, subs, rpc, rnext, hand, lastId, closed, from, sent>>
  OBVIOUS
<1>2. present' \in BOOLEAN /\ quit' = ~present' /\ ended' \subseteq Clients
  BY DEF IInv, TypeOK
<1>3. /\ \/ hpc' = hpc
         \/ /\ hpc[c] # "new"
            /\ \E h \in {"streaming", "broke", "refused", "done"} : hpc' = [hpc EXCEPT ![c] = h]
      /\ \/ wpc' = wpc
         \/ /\ wpc[c] # "none" \/ hpc[c] = "registered"
            /\ \E w \in {"waiting", "count", "remove", "done"} : wpc' = [wpc EXCEPT ![c] = w]
  OBVIOUS
<1>4. conn' \in [Clients -> Seq(Entries)] /\ \A d \in Clients : Len(conn'[d]) <= ConnCap
  <2>1. CASE conn' = conn
    BY <2>1 DEF IInv, TypeOK
  <2>2. CASE conn[c] # <<>> /\ conn' = [conn EXCEPT ![c] = Tail(@)]
    <3>1. conn \in [Clients -> Seq(Entries)] /\ \A d \in Clients : Len(conn[d]) <= ConnCap
      BY DEF IInv, TypeOK
    <3>2. Tail(conn[c]) \in Seq(Entries) /\ Len(Tail(conn[c])) <= ConnCap
      BY <2>2, <3>1, Capacities
    <3> QED BY <2>2, <3>1, <3>2
  <2> QED BY <2>1, <2>2
<1>5. TypeOK'
  <2>1. hpc' \in [Clients -> {"new", "register", "registered", "streaming",
                              "broke", "refused", "done"}]
    BY <1>3 DEF IInv, TypeOK
  <2>2. wpc' \in [Clients -> {"none", "waiting", "count", "remove", "done"}]
    BY <1>3 DEF IInv, TypeOK
  <2>3. TypeOK
    BY DEF IInv
  <2> QED BY ONLY <1>1, <1>2, <1>4, <2>1, <2>2, <2>3 DEF TypeOK
<1>6. NotRegistered'
  <2>1. \A d \in Clients : hpc'[d] \in {"new", "register"} =>
          hpc[d] \in {"new", "register"} /\ (wpc[d] = "none" => wpc'[d] = "none")
    BY <1>3 DEF IInv, TypeOK, NotRegistered
  <2> QED BY <1>1, <2>1 DEF IInv, NotRegistered, ToSet
<1>7. NamesItsPlace'
  <2>1. \A d \in Clients : hpc'[d] = "register" => hpc[d] = "register"
    BY <1>3 DEF IInv, TypeOK
  <2> QED BY <1>1, <2>1 DEF IInv, NamesItsPlace
<1> QED BY <1>1, <1>5, <1>6, <1>7, RunUntouched DEF IInv, LogInv, SubsInv

LEMMA SubscribeInv ==
  ASSUME IInv, NEW c \in Clients, Subscribe(c)
  PROVE  IInv'
<1> USE DEF stream, run, Subscribe
<1>1. /\ UNCHANGED <<Blank, autoReplay, present, quit, event, publishing, published>>
      /\ UNCHANGED <<log, subs, rpc, rnext, hand, wpc, ended, conn, closed, sent>>
      /\ hpc[c] = "new" /\ hpc' = [hpc EXCEPT ![c] = "register"]
  OBVIOUS
<1>2. /\ \A i \in DOMAIN log : i \in Nat /\ log[i].id \in Nat
      /\ log \in Seq(Entries)
  <2>1. log \in Seq(Entries) /\ \A i \in DOMAIN log : log[i] \in Entries
    BY DEF IInv, TypeOK
  <2> QED BY <2>1 DEF Entries
<1>3. \E k \in Nat, x \in Nat \cup {UnknownId} :
        /\ from' = [from EXCEPT ![c] = k] /\ lastId' = [lastId EXCEPT ![c] = x]
        /\ \/ x = UnknownId
           \/ x = 0 /\ k = 0
           \/ autoReplay /\ k \in DOMAIN log /\ x = log[k].id
  <2>1. CASE autoReplay /\ lastId' = [lastId EXCEPT ![c] = UnknownId] /\ UNCHANGED from
    <3>1. from[c] \in Nat /\ from' = [from EXCEPT ![c] = from[c]]
      BY <2>1 DEF IInv, TypeOK
    <3> QED BY <2>1, <3>1
  <2>2. ASSUME NEW k \in IF autoReplay THEN 0..Len(log) ELSE {0},
               from' = [from EXCEPT ![c] = k],
               lastId' = [lastId EXCEPT ![c] = IF k = 0 THEN 0 ELSE log[k].id]
        PROVE  <1>3!:
    <3>1. CASE k = 0
      BY <2>2, <3>1
    <3>2. CASE k # 0
      <4>1. autoReplay /\ k \in DOMAIN log /\ k \in Nat /\ log[k].id \in Nat
        BY <1>2, <2>2, <3>2
      <4> QED BY <2>2, <3>2, <4>1
    <3> QED BY <3>1, <3>2
  <2> QED BY <2>1, <2>2
<1>4. TypeOK'
  <2>1. /\ from' \in [Clients -> Nat] /\ lastId' \in [Clients -> Nat \cup {UnknownId}]
        /\ hpc' \in [Clients -> {"new", "register", "registered", "streaming",
                                 "broke", "refused", "done"}]
    BY <1>1, <1>3 DEF IInv, TypeOK
  <2>2. TypeOK
    BY DEF IInv
  <2> QED BY ONLY <1>1, <2>1, <2>2 DEF TypeOK
<1>5. NotRegistered'
  BY <1>1 DEF IInv, TypeOK, NotRegistered, ToSet
<1>6. NamesItsPlace'
  BY <1>1, <1>3 DEF IInv, TypeOK, NamesItsPlace
<1>7. \A d \in ToSet(subs) : from'[d] = from[d]
  BY <1>1, <1>3 DEF IInv, TypeOK, NotRegistered
<1> QED BY <1>1, <1>4, <1>5, <1>6, <1>7, RunUntouched DEF IInv, LogInv, SubsInv

\* ToSet of what run works through.
LEMMA Subscribers ==
  ASSUME TypeOK
  PROVE  /\ subs \in Seq(Clients) /\ Len(subs) \in Nat
         /\ ToSet(subs) = {subs[k] : k \in 1..Len(subs)} /\ ToSet(subs) \subseteq Clients
         /\ \A i, j \in 1..Len(subs) : subs[i] = subs[j] => i = j
         /\ \A c \in Clients : ToSet(Append(subs, c)) = ToSet(subs) \cup {c}
<1>1. subs \in Seq(Clients) /\ Len(subs) \in Nat /\ DOMAIN subs = 1..Len(subs)
  BY DEF TypeOK
<1>2. ToSet(subs) = {subs[k] : k \in 1..Len(subs)} /\ ToSet(subs) \subseteq Clients
  BY <1>1 DEF ToSet
<1>3. \A i, j \in 1..Len(subs) : subs[i] = subs[j] => i = j
  BY <1>1 DEF TypeOK, IsInjective
<1>4. ASSUME NEW c \in Clients PROVE ToSet(Append(subs, c)) = ToSet(subs) \cup {c}
  <2>1. PICK t : t = Append(subs, c)
    OBVIOUS
  <2>2. /\ DOMAIN t = 1..Len(subs) + 1 /\ t[Len(subs) + 1] = c
        /\ \A i \in 1..Len(subs) : t[i] = subs[i]
    BY <1>1, <2>1
  <2>3. ToSet(t) = {t[i] : i \in 1..Len(subs) + 1}
    BY <2>2 DEF ToSet
  <2>4. ToSet(t) \subseteq ToSet(subs) \cup {c}
    BY <1>1, <1>2, <2>2, <2>3
  <2>5. ToSet(subs) \cup {c} \subseteq ToSet(t)
    BY <1>1, <1>2, <2>2, <2>3
  <2> QED BY <2>1, <2>4, <2>5
<1> QED BY <1>1, <1>2, <1>3, <1>4

LEMMA RegisterInv ==
  ASSUME IInv, NEW c \in Clients, RegisterSub(c)
  PROVE  IInv'
<1> USE DEF RegisterSub, stream
<1>1. /\ UNCHANGED <<Blank, autoReplay, present, quit, event, publishing, published>>
      /\ UNCHANGED <<log, hand, wpc, ended, conn, closed, sent>>
      /\ rpc = "select" /\ hpc[c] = "register" /\ hpc' = [hpc EXCEPT ![c] = "registered"]
      /\ subs' = Append(subs, c) /\ lastId' = [lastId EXCEPT ![c] = 0]
  OBVIOUS
<1>2. /\ c \notin ToSet(subs) /\ c \notin closed /\ sent[c] = <<>>
      /\ log \in Seq(Entries) /\ Len(log) \in Nat /\ subs \in Seq(Clients)
      /\ ToSet(subs)' = ToSet(subs) \cup {c}
      /\ c \notin {"select", "deliver", "gone"}
  BY <1>1, Subscribers, RunPoints DEF IInv, TypeOK, NotRegistered
<1>3. /\ from' \in [Clients -> Nat] /\ \A d \in Clients \ {c} : from'[d] = from[d]
      /\ from'[c] \in 0..Len(log)
      /\ \/ autoReplay /\ rpc' = c /\ rnext' = from'[c] + 1
         \/ ~autoReplay /\ rpc' = "select" /\ rnext' = rnext /\ from'[c] = Len(log)
  <2>1. CASE ~autoReplay
    BY <1>1, <1>2, <2>1 DEF IInv, TypeOK
  <2>2. CASE autoReplay /\ lastId[c] = UnknownId
    <3>1. \A i \in DOMAIN log : log[i].id # UnknownId
      <4>1. \A i \in DOMAIN log : log[i] \in Entries
        BY <1>2
      <4> QED BY <4>1, UnknownIsNoId DEF Entries
    <3>2. ReplayStart(lastId[c]) = Len(log) + 1
      BY <1>2, <2>2, <3>1, NoPosition, UnknownIsNoId DEF ReplayStart
    <3> QED BY <1>1, <1>2, <2>2, <3>2 DEF IInv, TypeOK
  <2>3. CASE autoReplay /\ lastId[c] # UnknownId
    <3>1. from' = from /\ from \in [Clients -> Nat]
      BY <2>3 DEF IInv, TypeOK
    <3>2. \/ lastId[c] = 0 /\ from[c] = 0
          \/ from[c] \in DOMAIN log /\ lastId[c] = log[from[c]].id
      BY <1>1, <2>3 DEF IInv, NamesItsPlace
    <3>3. ReplayStart(lastId[c]) = from[c] + 1 /\ from[c] \in 0..Len(log)
      <4>1. CASE lastId[c] = 0 /\ from[c] = 0
        BY <1>2, <4>1 DEF ReplayStart
      <4>2. CASE from[c] \in DOMAIN log /\ lastId[c] = log[from[c]].id
        <5>1. lastId[c] # 0 /\ \A i \in DOMAIN log : log[i].id = lastId[c] <=> i = from[c]
          BY <2>3, <4>2 DEF IInv, IdsIdentify
        <5>2. Position(lastId[c]) = from[c]
          BY <1>2, <4>2, <5>1, PositionOfOnly
        <5>3. from[c] # 0 /\ from[c] \in 0..Len(log)
          BY <1>2, <4>2
        <5> QED BY <5>1, <5>2, <5>3 DEF ReplayStart
      <4> QED BY <3>2, <4>1, <4>2
    <3> QED BY <1>1, <2>3, <3>1, <3>3
  <2> QED BY <2>1, <2>2, <2>3
<1>4. TypeOK'
  <2>1. /\ lastId' \in [Clients -> Nat \cup {UnknownId}]
        /\ hpc' \in [Clients -> {"new", "register", "registered", "streaming",
                                 "broke", "refused", "done"}]
    BY <1>1 DEF IInv, TypeOK
  <2>2. subs' \in Seq(Clients) /\ rnext' \in Nat
        /\ rpc' \in {"select", "deliver", "gone"} \cup Clients
    BY <1>1, <1>2, <1>3 DEF IInv, TypeOK
  <2>3. IsInjective(subs')
    <3>1. Len(subs') = Len(subs) + 1 /\ DOMAIN subs' = 1..Len(subs) + 1
          /\ subs'[Len(subs) + 1] = c /\ \A i \in 1..Len(subs) : subs'[i] = subs[i]
      BY <1>1, <1>2
    <3>2. /\ \A i, j \in 1..Len(subs) : subs[i] = subs[j] => i = j
          /\ \A i \in 1..Len(subs) : subs[i] # c
      BY <1>2, Subscribers DEF IInv
    <3> QED BY <1>2, <3>1, <3>2 DEF IsInjective
  <2>4. TypeOK
    BY DEF IInv
  <2> QED BY ONLY <1>1, <1>3, <2>1, <2>2, <2>3, <2>4 DEF TypeOK
<1>5. LogInv'
  BY <1>1 DEF IInv, LogInv, NothingBlankKept, IdsBounded, IdsIdentify
<1>6. NotRegistered' /\ NoSendOnClosed'
  BY <1>1, <1>2 DEF IInv, TypeOK, NotRegistered, NoSendOnClosed
<1>7. NamesItsPlace'
  BY <1>1, <1>3 DEF IInv, TypeOK, NamesItsPlace
<1>8. RunIsInside'
  <2>1. rpc' # "deliver"
    BY <1>2, <1>3
  <2>2. rpc' \in Clients => rpc' = c /\ rnext' \in 1..Len(log) + 1
    BY <1>2, <1>3, RunPoints
  <2> QED BY <1>1, <1>2, <2>1, <2>2 DEF RunIsInside
<1>9. InStep'
  <2> SUFFICES ASSUME NEW d \in ToSet(subs)'
               PROVE  /\ Len(sent'[d]) = Reached(d)' - from'[d]
                      /\ \A k \in DOMAIN sent'[d] : sent'[d][k] = log'[from'[d] + k]
    BY DEF InStep
  <2>1. CASE d = c
    <3>1. Reached(c)' = from'[c]
      BY <1>1, <1>2, <1>3 DEF Reached, StillDue
    <3> QED BY <1>1, <1>2, <1>3, <2>1, <3>1
  <2>2. CASE d # c
    <3>1. d \in ToSet(subs) /\ d \in Clients /\ d \notin {"select", "deliver", "gone"}
      BY <1>2, <2>2, Subscribers, RunPoints DEF IInv
    <3>2. Reached(d) = Len(log) /\ Reached(d)' = Len(log)
      BY <1>1, <1>2, <1>3, <2>2, <3>1 DEF Reached, StillDue
    <3> QED BY <1>1, <1>3, <2>2, <3>1, <3>2 DEF IInv, InStep
  <2> QED BY <2>1, <2>2
<1> QED BY <1>4, <1>5, <1>6, <1>7, <1>8, <1>9 DEF IInv, LogInv

\* What a send adds to the history of its subscriber, and of nobody else.
LEMMA SendToInv ==
  ASSUME TypeOK, NEW c \in Clients, NEW x \in Entries, SendTo(c, x)
  PROVE  /\ conn' \in [Clients -> Seq(Entries)] /\ sent' \in [Clients -> Seq(Entries)]
         /\ \A d \in Clients : Len(conn'[d]) <= ConnCap
         /\ \A d \in Clients \ {c} : sent'[d] = sent[d]
         /\ x.ev \in Blank => sent'[c] = sent[c]
         /\ x.ev \notin Blank => sent'[c] = Append(sent[c], x)
<1>1. /\ conn \in [Clients -> Seq(Entries)] /\ sent \in [Clients -> Seq(Entries)]
      /\ \A d \in Clients : Len(conn[d]) <= ConnCap
      /\ ConnCap \in Nat
  BY Capacities DEF TypeOK
<1>2. /\ Append(conn[c], x) \in Seq(Entries) /\ Append(sent[c], x) \in Seq(Entries)
      /\ Len(Append(conn[c], x)) <= ConnCap
  <2>1. Len(Append(conn[c], x)) = Len(conn[c]) + 1 /\ Len(conn[c]) \in Nat
    BY <1>1
  <2> QED BY <1>1, <2>1 DEF SendTo
<1>3. conn' = [conn EXCEPT ![c] = Append(@, x)]
  BY DEF SendTo
<1>4. sent' = IF x.ev \in Blank THEN sent ELSE [sent EXCEPT ![c] = Append(@, x)]
  BY DEF SendTo
<1> QED BY ONLY <1>1, <1>2, <1>3, <1>4

LEMMA ReplayInv ==
  ASSUME IInv, NEW c \in Clients, Replay(c)
  PROVE  IInv'
<1> USE DEF Replay, stream
<1>1. /\ UNCHANGED <<Blank, autoReplay, present, quit, event, publishing, published>>
      /\ UNCHANGED <<log, subs, hand, hpc, wpc, ended, lastId, closed, from>>
      /\ rpc = c /\ c \notin {"select", "deliver", "gone"}
  BY RunPoints
<1>2. /\ log \in Seq(Entries) /\ Len(log) \in Nat /\ rnext \in 1..Len(log) + 1
      /\ ToSet(subs)' = ToSet(subs) /\ c \in ToSet(subs) /\ ToSet(subs) \subseteq Clients
      /\ from \in [Clients -> Nat] /\ sent \in [Clients -> Seq(Entries)]
  BY <1>1, Subscribers DEF IInv, TypeOK, RunIsInside, ToSet
<1>3. LogInv'
  <2>1. LogInv
    BY DEF IInv, LogInv
  <2> QED BY ONLY <1>1, <2>1 DEF LogInv, NothingBlankKept, IdsBounded, IdsIdentify
<1>4. NoSendOnClosed' /\ NamesItsPlace'
  <2>1. rpc # "gone" /\ rpc' # "gone"
    BY <1>1
  <2> QED BY <1>1, <1>2, <2>1 DEF IInv, NoSendOnClosed, NamesItsPlace
<1>5. \A d \in ToSet(subs) \ {c} :
        Reached(d) = Len(log) /\ Len(sent[d]) = Len(log) - from[d]
        /\ \A k \in DOMAIN sent[d] : sent[d][k] = log[from[d] + k]
  BY <1>1 DEF IInv, InStep, Reached, StillDue
<1>6. /\ Reached(c) = rnext - 1 /\ Len(sent[c]) = rnext - 1 - from[c]
      /\ \A k \in DOMAIN sent[c] : sent[c][k] = log[from[c] + k]
  BY <1>1, <1>2 DEF IInv, InStep, Reached
<1>7. CASE rnext <= Len(log)
  <2>1. log[rnext] \in Entries /\ log[rnext].ev \notin Blank
    BY <1>2, <1>7 DEF IInv, NothingBlankKept
  <2>2. /\ rnext' = rnext + 1 /\ rpc' = rpc /\ SendTo(c, log[rnext])
    BY <1>7
  <2>3. /\ conn' \in [Clients -> Seq(Entries)] /\ sent' \in [Clients -> Seq(Entries)]
        /\ \A d \in Clients : Len(conn'[d]) <= ConnCap
        /\ \A d \in Clients \ {c} : sent'[d] = sent[d]
        /\ sent'[c] = Append(sent[c], log[rnext])
    BY <2>1, <2>2, SendToInv DEF IInv
  <2>4. TypeOK'
    <3>1. rnext' \in Nat /\ TypeOK
      BY <1>2, <2>2 DEF IInv
    <3> QED BY ONLY <1>1, <2>2, <2>3, <3>1 DEF TypeOK
  <2>5. NotRegistered'
    BY <1>1, <1>2, <2>3 DEF IInv, NotRegistered
  <2>6. RunIsInside'
    BY <1>1, <1>2, <1>7, <2>2 DEF RunIsInside
  <2>7. InStep'
    <3> SUFFICES ASSUME NEW d \in ToSet(subs)
                 PROVE  /\ Len(sent'[d]) = Reached(d)' - from[d]
                        /\ \A k \in DOMAIN sent'[d] : sent'[d][k] = log[from[d] + k]
      BY <1>1, <1>2 DEF InStep
    <3>1. CASE d = c
      <4>1. Reached(c)' = rnext
        BY <1>1, <1>2, <2>2 DEF Reached
      <4>2. /\ Len(sent'[c]) = Len(sent[c]) + 1 /\ DOMAIN sent'[c] = 1..Len(sent[c]) + 1
            /\ Len(sent[c]) \in Nat /\ DOMAIN sent[c] = 1..Len(sent[c])
            /\ sent'[c][Len(sent[c]) + 1] = log[rnext]
            /\ \A k \in 1..Len(sent[c]) : sent'[c][k] = sent[c][k]
        BY <1>2, <2>3
      <4>3. from[c] \in Nat /\ from[c] + (Len(sent[c]) + 1) = rnext
        BY <1>2, <1>6
      <4>4. Len(sent'[c]) = rnext - from[c]
        BY <1>2, <1>6, <4>2, <4>3
      <4>5. \A k \in 1..Len(sent[c]) + 1 : sent'[c][k] = log[from[c] + k]
        <5> SUFFICES ASSUME NEW k \in 1..Len(sent[c]) + 1 PROVE sent'[c][k] = log[from[c] + k]
          OBVIOUS
        <5>1. CASE k = Len(sent[c]) + 1
          BY <4>2, <4>3, <5>1
        <5>2. CASE k # Len(sent[c]) + 1
          <6>1. k \in 1..Len(sent[c]) /\ k \in DOMAIN sent[c]
            BY <4>2, <5>2
          <6> QED BY <1>6, <4>2, <6>1
        <5> QED BY <5>1, <5>2
      <4> QED BY <3>1, <4>1, <4>2, <4>4, <4>5
    <3>2. CASE d # c
      <4>1. Reached(d)' = Len(log) /\ sent'[d] = sent[d]
        BY <1>1, <1>2, <2>2, <2>3, <3>2 DEF Reached, StillDue
      <4> QED BY <1>5, <3>2, <4>1
    <3> QED BY <3>1, <3>2
  <2> QED BY <1>3, <1>4, <2>4, <2>5, <2>6, <2>7 DEF IInv, LogInv
<1>8. CASE ~(rnext <= Len(log))
  <2>1. rpc' = "select" /\ rnext' = 0 /\ UNCHANGED <<conn, sent>> /\ rnext = Len(log) + 1
    BY <1>2, <1>8
  <2>2. TypeOK'
    <3>1. TypeOK
      BY DEF IInv
    <3> QED BY ONLY <1>1, <2>1, <3>1 DEF TypeOK
  <2>3. NotRegistered' /\ RunIsInside'
    BY <1>1, <1>2, <2>1, RunPoints DEF IInv, NotRegistered, RunIsInside
  <2>4. InStep'
    <3>1. \A d \in ToSet(subs) : Reached(d)' = Len(log)
      BY <1>1, <1>2, <2>1, RunPoints DEF Reached, StillDue
    <3>2. \A d \in ToSet(subs) : Reached(d) = Len(log)
      BY <1>2, <1>5, <1>6, <2>1
    <3> QED BY <1>1, <1>2, <2>1, <3>1, <3>2 DEF IInv, InStep
  <2> QED BY <1>3, <1>4, <2>2, <2>3, <2>4 DEF IInv, LogInv
<1> QED BY <1>7, <1>8

\* An event is kept under an ID of its own, and is due to every subscriber.
LEMMA TakeInv ==
  ASSUME IInv, OwnIdIsFresh, TakeEvent
  PROVE  IInv'
<1> PICK e : e = Head(event)
  OBVIOUS
<1> PICK id : id = IF OwnId[e] = 0 /\ autoReplay /\ e \notin Blank THEN NextIndex ELSE OwnId[e]
  OBVIOUS
<1>1. /\ rpc = "select" /\ event # <<>> /\ event' = Tail(event)
      /\ hand' = [ev |-> e, id |-> id]
      /\ log' = IF e \in Blank THEN log ELSE Append(log, hand')
      /\ rpc' = "deliver" /\ rnext' = 1
      /\ UNCHANGED <<Blank, autoReplay, present, quit, publishing, published, subs>>
      /\ UNCHANGED <<hpc, wpc, ended, lastId, conn, closed, from, sent>>
  BY DEF TakeEvent, client
<1>2. /\ log \in Seq(Entries) /\ Len(log) \in Nat /\ from \in [Clients -> Nat]
      /\ sent \in [Clients -> Seq(Entries)]
      /\ ToSet(subs)' = ToSet(subs) /\ ToSet(subs) \subseteq Clients
      /\ \A i \in DOMAIN log : log[i] \in Entries
  BY <1>1, Subscribers DEF IInv, TypeOK, ToSet
<1>3. /\ e \in Events /\ event' \in Seq(Events) /\ Len(event') <= BufferSize
  <2>1. event \in Seq(Events) /\ Len(event) <= BufferSize /\ BufferSize \in Nat
    BY Capacities DEF IInv, TypeOK
  <2>2. Head(event) \in Events /\ Tail(event) \in Seq(Events) /\ Len(Tail(event)) = Len(event) - 1
    BY <1>1, <2>1
  <2> QED BY <1>1, <2>1, <2>2
<1>4. id \in Nat /\ hand' \in Entries /\ hand'.ev = e /\ hand'.id = id
  <2>1. OwnId[e] \in Nat /\ NextIndex \in Nat
    BY <1>2, <1>3, EventAttributes, NextIndexIsFresh DEF IInv
  <2>2. id \in Nat
    BY <2>1
  <2> QED BY <1>1, <1>3, <2>2 DEF Entries
<1>5. CASE e \in Blank
  <2>1. log' = log
    BY <1>1, <1>5
  <2>2. TypeOK'
    <3>1. TypeOK
      BY DEF IInv
    <3> QED BY ONLY <1>1, <1>3, <1>4, <2>1, <3>1 DEF TypeOK
  <2>3. LogInv'
    <3>1. LogInv
      BY DEF IInv, LogInv
    <3> QED BY ONLY <1>1, <2>1, <3>1 DEF LogInv, NothingBlankKept, IdsBounded, IdsIdentify
  <2>4. NotRegistered' /\ NoSendOnClosed' /\ NamesItsPlace'
    BY <1>1, <1>2, <2>1 DEF IInv, NotRegistered, NoSendOnClosed, NamesItsPlace
  <2>5. RunIsInside'
    BY <1>1, <1>4, <1>5, RunPoints DEF RunIsInside
  <2>6. InStep'
    <3>1. \A d \in ToSet(subs) : Reached(d) = Len(log) /\ Reached(d)' = Len(log)
      BY <1>1, <1>2, <1>4, <1>5, <2>1, RunPoints DEF Reached, StillDue
    <3> QED BY <1>1, <1>2, <2>1, <3>1 DEF IInv, InStep
  <2> QED BY <2>2, <2>3, <2>4, <2>5, <2>6 DEF IInv, LogInv
<1>6. CASE e \notin Blank
  <2>1. /\ log' \in Seq(Entries) /\ Len(log') = Len(log) + 1 /\ log'[Len(log) + 1] = hand'
        /\ DOMAIN log' = 1..Len(log) + 1 /\ DOMAIN log = 1..Len(log)
        /\ \A i \in 1..Len(log) : log'[i] = log[i]
    BY <1>1, <1>2, <1>4, <1>6
  <2>2. TypeOK'
    <3>1. TypeOK
      BY DEF IInv
    <3> QED BY ONLY <1>1, <1>3, <1>4, <2>1, <3>1 DEF TypeOK
  <2>3. NothingBlankKept'
    BY <1>1, <1>2, <1>4, <1>6, <2>1 DEF IInv, NothingBlankKept
  <2>4. IdsBounded'
    <3>1. PICK b \in Nat : \A i \in DOMAIN log : log[i].id <= b
      BY DEF IInv, IdsBounded
    <3>2. \A i \in DOMAIN log : log[i].id \in Nat
      BY <1>2 DEF Entries
    <3>3. b + id \in Nat
      BY <1>4
    <3>4. \A i \in 1..Len(log) + 1 : log'[i].id <= b + id
      <4> TAKE i \in 1..Len(log) + 1
      <4>1. CASE i = Len(log) + 1
        BY <1>4, <2>1, <4>1
      <4>2. CASE i # Len(log) + 1
        <5>1. i \in DOMAIN log /\ log'[i] = log[i]
          BY <1>2, <2>1, <4>2
        <5>2. log[i].id <= b /\ log[i].id \in Nat
          BY <3>1, <3>2, <5>1
        <5> QED BY <1>4, <5>1, <5>2
      <4> QED BY <4>1, <4>2
    <3> QED BY <2>1, <3>3, <3>4 DEF IdsBounded
  <2>5. IdsIdentify'
    <3> SUFFICES ASSUME autoReplay PROVE IdsIdentify'
      BY <1>1 DEF IdsIdentify
    <3>1. id # 0 /\ \A i \in DOMAIN log : log[i].id # id
      <4>1. CASE OwnId[e] = 0
        <5>1. /\ id = NextIndex /\ NextIndex \in Nat \ {0}
              /\ \A i \in DOMAIN log : log[i].id < NextIndex
          BY <1>2, <1>6, <4>1, NextIndexIsFresh DEF IInv
        <5>2. \A i \in DOMAIN log : log[i].id \in Nat
          BY <1>2 DEF Entries
        <5> QED BY <5>1, <5>2
      <4>2. CASE OwnId[e] # 0
        BY <1>1, <4>2 DEF OwnIdIsFresh
      <4> QED BY <4>1, <4>2
    <3>2. /\ \A i \in DOMAIN log : log[i].id # 0
          /\ \A i, j \in DOMAIN log : log[i].id = log[j].id => i = j
      BY DEF IInv, IdsIdentify
    <3>3. /\ \A i \in 1..Len(log) : log'[i].id = log[i].id
          /\ log'[Len(log) + 1].id = id
      BY <1>4, <2>1
    <3>4. \A i \in DOMAIN log' : log'[i].id # 0
      BY <1>2, <2>1, <3>1, <3>2, <3>3
    <3>5. \A i, j \in DOMAIN log' : log'[i].id = log'[j].id => i = j
      <4> SUFFICES ASSUME NEW i \in 1..Len(log) + 1, NEW j \in 1..Len(log) + 1,
                          log'[i].id = log'[j].id
                   PROVE  i = j
        BY <2>1
      <4>1. \A k \in 1..Len(log) + 1 : k = Len(log) + 1 \/ k \in DOMAIN log
        BY <1>2, <2>1
      <4> QED BY <2>1, <3>1, <3>2, <3>3, <4>1
    <3> QED BY <3>4, <3>5 DEF IdsIdentify
  <2>6. NotRegistered' /\ NoSendOnClosed'
    BY <1>1, <1>2 DEF IInv, NotRegistered, NoSendOnClosed
  <2>7. NamesItsPlace'
    BY <1>1, <1>2, <2>1 DEF IInv, NamesItsPlace
  <2>8. RunIsInside'
    BY <1>1, <1>2, <1>4, <2>1, RunPoints DEF RunIsInside
  <2>9. InStep'
    <3>1. \A d \in ToSet(subs) : Reached(d) = Len(log) /\ Reached(d)' = Len(log)
      <4> SUFFICES ASSUME NEW d \in ToSet(subs)
                   PROVE  Reached(d) = Len(log) /\ Reached(d)' = Len(log)
        OBVIOUS
      <4>1. d \in Clients /\ d \notin {"select", "deliver", "gone"}
        BY <1>2, RunPoints
      <4>2. \E k \in 1..Len(subs) : subs[k] = d
        BY Subscribers DEF IInv
      <4>3. /\ rpc' = "deliver" /\ hand'.ev \notin Blank' /\ rnext' = 1 /\ subs' = subs
            /\ Len(log') - 1 = Len(log)
        BY <1>1, <1>2, <1>4, <1>6, <2>1
      <4>4. Reached(d)' = Len(log)
        BY ONLY <4>1, <4>2, <4>3 DEF Reached, StillDue
      <4> QED BY <1>1, <4>1, <4>4 DEF Reached, StillDue
    <3>2. \A d \in ToSet(subs) : \A k \in DOMAIN sent[d] : log'[from[d] + k] = log[from[d] + k]
      <4> SUFFICES ASSUME NEW d \in ToSet(subs), NEW k \in DOMAIN sent[d]
                   PROVE  from[d] + k \in 1..Len(log)
        BY <2>1
      <4>1. Len(sent[d]) = Len(log) - from[d] /\ sent[d] \in Seq(Entries) /\ from[d] \in Nat
        BY <1>2, <3>1 DEF IInv, InStep
      <4> QED BY <1>2, <4>1
    <3> QED BY <1>1, <1>2, <3>1, <3>2 DEF IInv, InStep
  <2> QED BY <2>2, <2>3, <2>4, <2>5, <2>6, <2>7, <2>8, <2>9 DEF IInv
<1> QED BY <1>5, <1>6

LEMMA DeliverInv ==
  ASSUME IInv, Deliver
  PROVE  IInv'
<1>1. /\ UNCHANGED <<Blank, autoReplay, present, quit, event, publishing, published>>
      /\ UNCHANGED <<log, subs, hpc, wpc, ended, lastId, closed, from>>
      /\ rpc = "deliver"
  BY DEF Deliver, stream
<1>2. /\ log \in Seq(Entries) /\ Len(log) \in Nat /\ rnext \in Nat \ {0} /\ hand \in Entries
      /\ ToSet(subs)' = ToSet(subs) /\ ToSet(subs) \subseteq Clients
      /\ from \in [Clients -> Nat] /\ sent \in [Clients -> Seq(Entries)]
      /\ \A d \in Clients : d \notin {"select", "deliver", "gone"}
  BY <1>1, Subscribers, RunPoints DEF IInv, TypeOK, RunIsInside, ToSet
<1>3. LogInv'
  <2>1. LogInv
    BY DEF IInv, LogInv
  <2> QED BY ONLY <1>1, <2>1 DEF LogInv, NothingBlankKept, IdsBounded, IdsIdentify
<1>4. NoSendOnClosed' /\ NamesItsPlace'
  BY <1>1, <1>2 DEF IInv, NoSendOnClosed, NamesItsPlace
<1>5. \A d \in ToSet(subs) :
        /\ Reached(d) = IF StillDue(d) THEN Len(log) - 1 ELSE Len(log)
        /\ Len(sent[d]) = Reached(d) - from[d]
        /\ \A k \in DOMAIN sent[d] : sent[d][k] = log[from[d] + k]
  BY <1>1, <1>2 DEF IInv, InStep, Reached
<1>6. CASE rnext <= Len(subs)
  <2> PICK c : c = subs[rnext]
    OBVIOUS
  <2>1. /\ rnext' = rnext + 1 /\ rpc' = "deliver" /\ hand' = hand /\ SendTo(c, hand)
    BY <1>1, <1>6 DEF Deliver
  <2>2. /\ c \in ToSet(subs) /\ c \in Clients
        /\ \A d \in ToSet(subs) : \E k \in 1..Len(subs) : subs[k] = d
        /\ \A k \in 1..Len(subs) : subs[k] = c => k = rnext
        /\ Len(subs) \in Nat
    <3>1. /\ Len(subs) \in Nat
          /\ ToSet(subs) = {subs[k] : k \in 1..Len(subs)} /\ ToSet(subs) \subseteq Clients
          /\ \A i, j \in 1..Len(subs) : subs[i] = subs[j] => i = j
      BY Subscribers DEF IInv
    <3>2. rnext \in 1..Len(subs)
      BY <1>2, <1>6, <3>1
    <3>3. c \in ToSet(subs) /\ \A d \in ToSet(subs) : \E k \in 1..Len(subs) : subs[k] = d
      BY <3>1, <3>2
    <3> QED BY <3>1, <3>2, <3>3
  <2>3. /\ conn' \in [Clients -> Seq(Entries)] /\ sent' \in [Clients -> Seq(Entries)]
        /\ \A d \in Clients : Len(conn'[d]) <= ConnCap
        /\ \A d \in Clients \ {c} : sent'[d] = sent[d]
        /\ hand.ev \in Blank => sent'[c] = sent[c]
        /\ hand.ev \notin Blank => sent'[c] = Append(sent[c], hand)
    BY <1>2, <2>1, <2>2, SendToInv DEF IInv
  <2>4. TypeOK'
    <3>1. rnext' \in Nat /\ TypeOK
      BY <1>2, <2>1 DEF IInv
    <3> QED BY ONLY <1>1, <2>1, <2>3, <3>1 DEF TypeOK
  <2>5. NotRegistered'
    BY <1>1, <1>2, <2>2, <2>3 DEF IInv, NotRegistered
  <2>6. RunIsInside'
    BY <1>1, <1>2, <2>1 DEF IInv, RunIsInside
  <2>7. InStep'
    <3> SUFFICES ASSUME NEW d \in ToSet(subs)
                 PROVE  /\ Len(sent'[d]) = Reached(d)' - from[d]
                        /\ \A k \in DOMAIN sent'[d] : sent'[d][k] = log[from[d] + k]
      BY <1>1, <1>2 DEF InStep
    <3>1. CASE d # c
      <4>1. StillDue(d)' = StillDue(d)
        <5>1. (\E k \in rnext + 1..Len(subs) : subs[k] = d) <=> \E k \in rnext..Len(subs) : subs[k] = d
          BY <1>2, <2>2, <3>1
        <5> QED BY ONLY <1>1, <2>1, <5>1 DEF StillDue
      <4>2. Reached(d)' = Reached(d)
        BY <1>1, <1>2, <2>1, <4>1 DEF Reached
      <4>3. sent'[d] = sent[d]
        BY <1>2, <2>3, <3>1
      <4> QED BY <1>5, <4>2, <4>3
    <3>2. CASE d = c
      <4>1. ~StillDue(c)'
        BY <1>1, <1>2, <2>1, <2>2 DEF StillDue
      <4>2. Reached(c)' = Len(log)
        BY <1>1, <1>2, <2>1, <2>2, <4>1 DEF Reached
      <4>3. CASE hand.ev \in Blank
        <5>1. ~StillDue(c)
          BY <4>3 DEF StillDue
        <5>2. sent'[c] = sent[c] /\ Reached(c) = Len(log)
          BY <1>5, <2>2, <2>3, <4>3, <5>1
        <5>3. /\ Len(sent[c]) = Len(log) - from[c]
              /\ \A k \in DOMAIN sent[c] : sent[c][k] = log[from[c] + k]
          BY <1>5, <2>2, <5>2
        <5> QED BY ONLY <3>2, <4>2, <5>2, <5>3
      <4>4. CASE hand.ev \notin Blank
        <5>1. StillDue(c)
          BY <1>1, <1>2, <1>6, <2>2, <4>4 DEF StillDue
        <5>2. Len(sent[c]) = Len(log) - 1 - from[c] /\ log[Len(log)] = hand
          BY <1>1, <1>5, <2>2, <4>4, <5>1 DEF IInv, RunIsInside
        <5>0. sent[c] \in Seq(Entries) /\ from[c] \in Nat /\ sent'[c] = Append(sent[c], hand)
          BY <1>2, <2>2, <2>3, <4>4
        <5>3. /\ Len(sent'[c]) = Len(sent[c]) + 1 /\ DOMAIN sent'[c] = 1..Len(sent[c]) + 1
              /\ Len(sent[c]) \in Nat /\ DOMAIN sent[c] = 1..Len(sent[c])
              /\ sent'[c][Len(sent[c]) + 1] = hand
              /\ \A k \in 1..Len(sent[c]) : sent'[c][k] = sent[c][k]
          BY ONLY <1>2, <5>0
        <5>4. from[c] \in Nat /\ from[c] + (Len(sent[c]) + 1) = Len(log)
          BY ONLY <1>2, <5>0, <5>2, <5>3
        <5>5. \A k \in 1..Len(sent[c]) + 1 : sent'[c][k] = log[from[c] + k]
          <6> SUFFICES ASSUME NEW k \in 1..Len(sent[c]) + 1 PROVE sent'[c][k] = log[from[c] + k]
            OBVIOUS
          <6>1. CASE k = Len(sent[c]) + 1
            BY <5>2, <5>3, <5>4, <6>1
          <6>2. CASE k # Len(sent[c]) + 1
            <7>1. k \in 1..Len(sent[c]) /\ k \in DOMAIN sent[c]
              BY <5>3, <6>2
            <7> QED BY <1>5, <2>2, <5>3, <7>1
          <6> QED BY <6>1, <6>2
        <5>6. Len(sent'[c]) = Len(log) - from[c]
          BY <1>2, <5>3, <5>4
        <5> QED BY <3>2, <4>2, <5>3, <5>5, <5>6
      <4> QED BY <4>3, <4>4
    <3> QED BY <3>1, <3>2
  <2> QED BY <1>3, <1>4, <2>4, <2>5, <2>6, <2>7 DEF IInv, LogInv
<1>7. CASE ~(rnext <= Len(subs))
  <2>1. rpc' = "select" /\ rnext' = 0 /\ hand' = None /\ UNCHANGED <<conn, sent>>
    BY <1>7 DEF Deliver
  <2>2. TypeOK'
    <3>1. TypeOK
      BY DEF IInv
    <3> QED BY ONLY <1>1, <2>1, <3>1 DEF TypeOK
  <2>3. NotRegistered' /\ RunIsInside'
    BY <1>1, <1>2, <2>1 DEF IInv, NotRegistered, RunIsInside
  <2>4. InStep'
    <3>1. \A d : ~StillDue(d)
      <4>1. Len(subs) \in Nat
        BY Subscribers DEF IInv
      <4> QED BY <1>2, <1>7, <4>1 DEF StillDue
    <3>2. \A d \in ToSet(subs) : Reached(d) = Len(log) /\ Reached(d)' = Len(log)
      BY <1>1, <1>2, <1>5, <2>1, <3>1 DEF Reached, StillDue
    <3> QED BY <1>1, <1>2, <1>5, <2>1, <3>2 DEF InStep
  <2> QED BY <1>3, <1>4, <2>2, <2>3, <2>4 DEF IInv, LogInv
<1> QED BY <1>6, <1>7

LEMMA DeregisterInv ==
  ASSUME IInv, NEW c \in Clients, Deregister(c)
  PROVE  IInv'
<1>1. /\ UNCHANGED <<Blank, autoReplay, present, quit, event, publishing, published>>
      /\ UNCHANGED <<log, rpc, rnext, hand, hpc, ended, lastId, conn>>
      /\ rpc = "select" /\ wpc[c] = "waiting"
      /\ subs' = RemoveFirst(subs, c) /\ closed' = closed \cup {c}
      /\ sent' = [sent EXCEPT ![c] = <<>>] /\ from' = [from EXCEPT ![c] = 0]
      /\ wpc' = [wpc EXCEPT ![c] = IF autoReplay THEN "done" ELSE "count"]
  BY DEF Deregister, stream
<1>2. /\ subs' \in Seq(Clients) /\ IsInjective(subs') /\ ToSet(subs') = ToSet(subs) \ {c}
      /\ ToSet(subs)' = ToSet(subs) \ {c} /\ ToSet(subs) \subseteq Clients
      /\ hpc[c] \notin {"new", "register"}
      /\ \A d \in Clients : d \notin {"select", "deliver", "gone"}
  <2>1. subs \in Seq(Clients) /\ IsInjective(subs)
    BY DEF IInv, TypeOK
  <2>2. hpc[c] \notin {"new", "register"}
    BY <1>1 DEF IInv, NotRegistered
  <2>3. /\ RemoveFirst(subs, c) \in Seq(Clients) /\ IsInjective(RemoveFirst(subs, c))
        /\ ToSet(RemoveFirst(subs, c)) = ToSet(subs) \ {c}
    BY <2>1, RemoveOnly
  <2>4. ToSet(subs)' = ToSet(subs')
    BY DEF ToSet
  <2>5. ToSet(subs) \subseteq Clients
    BY Subscribers DEF IInv
  <2> QED BY <1>1, <2>2, <2>3, <2>4, <2>5, RunPoints
<1>3. LogInv'
  <2>1. LogInv
    BY DEF IInv, LogInv
  <2> QED BY ONLY <1>1, <2>1 DEF LogInv, NothingBlankKept, IdsBounded, IdsIdentify
<1>4. TypeOK'
  <2>1. /\ sent' \in [Clients -> Seq(Entries)] /\ from' \in [Clients -> Nat]
        /\ wpc' \in [Clients -> {"none", "waiting", "count", "remove", "done"}]
        /\ closed' \subseteq Clients
    BY <1>1 DEF IInv, TypeOK
  <2>2. TypeOK
    BY DEF IInv
  <2> QED BY ONLY <1>1, <1>2, <2>1, <2>2 DEF TypeOK
<1>5. NotRegistered' /\ NoSendOnClosed'
  BY <1>1, <1>2 DEF IInv, TypeOK, NotRegistered, NoSendOnClosed
<1>6. NamesItsPlace'
  BY <1>1, <1>2 DEF IInv, TypeOK, NamesItsPlace
<1>7. RunIsInside'
  BY <1>1, <1>2 DEF RunIsInside
<1>8. InStep'
  <2> SUFFICES ASSUME NEW d \in ToSet(subs), d # c
               PROVE  /\ Len(sent'[d]) = Reached(d)' - from'[d]
                      /\ \A k \in DOMAIN sent'[d] : sent'[d][k] = log[from'[d] + k]
    BY <1>1, <1>2 DEF InStep
  <2>1. sent'[d] = sent[d] /\ from'[d] = from[d]
    BY <1>1, <1>2 DEF IInv, TypeOK
  <2>2. Reached(d)' = Len(log) /\ Reached(d) = Len(log)
    BY <1>1, <1>2 DEF Reached, StillDue
  <2> QED BY <2>1, <2>2 DEF IInv, InStep
<1> QED BY <1>3, <1>4, <1>5, <1>6, <1>7, <1>8 DEF IInv, LogInv

LEMMA QuitInv ==
  ASSUME IInv, Quit
  PROVE  IInv'
<1>1. /\ UNCHANGED <<Blank, autoReplay, present, quit, event, publishing, published>>
      /\ UNCHANGED <<log, rnext, hand, hpc, wpc, ended, lastId, conn>>
      /\ rpc' = "gone" /\ subs' = <<>> /\ closed' = closed \cup ToSet(subs)
      /\ sent' = [c \in Clients |-> <<>>] /\ from' = [c \in Clients |-> 0]
  BY DEF Quit, stream
<1>2. ToSet(subs)' = {} /\ ToSet(subs) \subseteq Clients /\ "gone" \notin Clients
  BY <1>1, Subscribers, RunPoints DEF IInv, ToSet
<1>3. LogInv'
  <2>1. LogInv
    BY DEF IInv, LogInv
  <2> QED BY ONLY <1>1, <2>1 DEF LogInv, NothingBlankKept, IdsBounded, IdsIdentify
<1>4. TypeOK'
  <2>1. /\ sent' \in [Clients -> Seq(Entries)] /\ from' \in [Clients -> Nat]
        /\ closed' \subseteq Clients /\ subs' \in Seq(Clients)
    BY <1>1, <1>2 DEF IInv, TypeOK
  <2>2. IsInjective(subs')
    BY <1>1 DEF IsInjective
  <2>3. TypeOK
    BY DEF IInv
  <2> QED BY ONLY <1>1, <2>1, <2>2, <2>3 DEF TypeOK
<1>5. NotRegistered' /\ NoSendOnClosed'
  BY <1>1, <1>2 DEF IInv, NotRegistered, NoSendOnClosed
<1>6. NamesItsPlace' /\ RunIsInside' /\ InStep'
  BY <1>1, <1>2 DEF NamesItsPlace, RunIsInside, InStep
<1> QED BY <1>3, <1>4, <1>5, <1>6 DEF IInv, LogInv
-----------------------------------------------------------------------------
LEMMA StepInv == IInv /\ OwnIdIsFresh /\ [Next]_vars => IInv'
<1> SUFFICES ASSUME IInv, OwnIdIsFresh, [Next]_vars PROVE IInv'
  OBVIOUS
<1>1. CASE UNCHANGED vars
  <2>1. UNCHANGED <<present, quit, event, publishing, published, Blank, autoReplay>>
        /\ UNCHANGED <<hpc, wpc, ended, lastId, conn, from, run, closed, sent>>
    BY <1>1 DEF vars, stream, client
  <2>2. LogInv' /\ SubsInv' /\ NoSendOnClosed'
    BY <2>1, RunUntouched
  <2>3. TypeOK' /\ NotRegistered' /\ NamesItsPlace'
    BY <2>1 DEF IInv, run, TypeOK, NotRegistered, NamesItsPlace, ToSet
  <2> QED BY <2>2, <2>3 DEF IInv, LogInv, SubsInv
<1>2. CASE RunStep
  BY <1>2, TakeInv, DeliverInv, QuitInv, RegisterInv, ReplayInv, DeregisterInv DEF RunStep
<1> QED BY <1>1, <1>2, PublisherInv, SubscribeInv, HandlerInv DEF Next

(* As long as publishers name no ID the log has, a subscriber is sent, in  *)
(* order and without a gap or a repetition, what follows the last event it *)
(* has seen: register, its replay and live delivery are cases of one       *)
(* select, so that nothing comes between them.                             *)
THEOREM GapFree == Spec /\ []OwnIdIsFresh => []InOrderGapFree
<1>1. IInv => InOrderGapFree
  <2> SUFFICES ASSUME IInv, NEW c \in ToSet(subs)
               PROVE  IsPrefix(sent[c], Due(c)) /\ (rpc = "select" => sent[c] = Due(c))
    BY DEF InOrderGapFree
  <2>1. /\ c \in Clients /\ log \in Seq(Entries) /\ Len(log) \in Nat
        /\ from[c] \in Nat /\ sent[c] \in Seq(Entries) /\ c # "select"
    BY Subscribers, RunPoints DEF IInv, TypeOK
  <2>2. /\ Len(sent[c]) = Reached(c) - from[c]
        /\ \A k \in DOMAIN sent[c] : sent[c][k] = log[from[c] + k]
    BY DEF IInv, InStep
  <2>3. /\ Reached(c) \in Int /\ Reached(c) <= Len(log)
        /\ rpc = "select" => Reached(c) = Len(log)
    BY <2>1 DEF IInv, RunIsInside, Reached, StillDue
  <2>4. Len(sent[c]) \in Nat /\ from[c] <= Len(log) /\ Len(sent[c]) <= Len(log) - from[c]
    BY <2>1, <2>2, <2>3
  <2>5. /\ Due(c) \in Seq(Entries) /\ Len(Due(c)) = Len(log) - from[c]
        /\ \A k \in 1..Len(log) - from[c] : Due(c)[k] = log[from[c] + k]
    BY ONLY <2>1, <2>4, Suffix DEF Due
  <2>8. \A k \in 1..Len(sent[c]) : sent[c][k] = Due(c)[k]
    BY <2>1, <2>2, <2>4, <2>5
  <2>6. SubSeq(sent[c], 1, Len(sent[c])) = SubSeq(Due(c), 1, Len(sent[c]))
    BY <2>1, <2>4, <2>5, <2>8
  <2>7. ASSUME rpc = "select" PROVE sent[c] = Due(c)
    <3>1. Len(sent[c]) = Len(Due(c))
      BY <2>1, <2>2, <2>3, <2>5, <2>7
    <3> QED BY ONLY <2>1, <2>5, <2>8, <3>1, SeqEqual
  <2> QED BY <2>4, <2>5, <2>6, <2>7 DEF IsPrefix
<1> QED BY <1>1, InitialInv, StepInv, PTL DEF Spec
-----------------------------------------------------------------------------
(* Closed channels: the same argument without the log. *)

ChannelInv ==
  /\ subs \in Seq(Clients) /\ IsInjective(subs)
  /\ hpc \in [Clients -> {"new", "register", "registered", "streaming",
                          "broke", "refused", "done"}]
  /\ wpc \in [Clients -> {"none", "waiting", "count", "remove", "done"}]
  /\ NoSendOnClosed
  /\ \A c \in Clients : hpc[c] \in {"new", "register"} =>
       c \notin ToSet(subs) /\ c \notin closed /\ wpc[c] = "none"

(* run never sends on a closed channel, which would panic: Deregister and  *)
(* Quit close what they remove, and a request is registered once.          *)
THEOREM ClosedIsRemoved == Spec => []NoSendOnClosed
<1>1. Init => ChannelInv
  BY DEF Init, ChannelInv, NoSendOnClosed, ToSet, IsInjective
<1>2. ChannelInv /\ [Next]_vars => ChannelInv'
  <2> SUFFICES ASSUME ChannelInv, [Next]_vars PROVE ChannelInv'
    OBVIOUS
  <2>0. ToSet(subs) \subseteq Clients
    BY DEF ChannelInv, ToSet
  <2>1. ASSUME UNCHANGED <<subs, closed, hpc, wpc>> PROVE ChannelInv'
    BY <2>1 DEF ChannelInv, NoSendOnClosed, ToSet
  <2>2. ASSUME NEW c \in Clients, UNCHANGED <<subs, closed>>,
               \/ hpc' = hpc
               \/ hpc[c] = "new" /\ hpc' = [hpc EXCEPT ![c] = "register"] /\ wpc' = wpc
               \/ /\ hpc[c] # "new"
                  /\ \E h \in {"streaming", "broke", "refused", "done"} :
                       hpc' = [hpc EXCEPT ![c] = h],
               \/ wpc' = wpc
               \/ /\ wpc[c] # "none" \/ hpc[c] = "registered"
                  /\ \E w \in {"waiting", "count", "remove", "done"} :
                       wpc' = [wpc EXCEPT ![c] = w]
        PROVE  ChannelInv'
    BY <2>2 DEF ChannelInv, NoSendOnClosed, ToSet
  <2>3. ASSUME NEW c \in Clients, RegisterSub(c) PROVE ChannelInv'
    <3>1. /\ subs' = Append(subs, c) /\ hpc[c] = "register"
          /\ hpc' = [hpc EXCEPT ![c] = "registered"] /\ UNCHANGED <<closed, wpc>>
      BY <2>3 DEF RegisterSub
    <3>2. c \notin ToSet(subs) /\ c \notin closed /\ subs \in Seq(Clients) /\ IsInjective(subs)
      BY <3>1 DEF ChannelInv
    <3>3. /\ Len(subs) \in Nat /\ subs' \in Seq(Clients)
          /\ DOMAIN subs = 1..Len(subs) /\ DOMAIN subs' = 1..Len(subs) + 1
          /\ subs'[Len(subs) + 1] = c /\ \A i \in 1..Len(subs) : subs'[i] = subs[i]
      BY <3>1, <3>2
    <3>4. ToSet(subs) = {subs[i] : i \in 1..Len(subs)}
          /\ ToSet(subs') = {subs'[i] : i \in 1..Len(subs) + 1}
      BY <3>3 DEF ToSet
    <3>5. ToSet(subs') = ToSet(subs) \cup {c}
      BY <3>3, <3>4
    <3>6. IsInjective(subs')
      <4>1. /\ \A i, j \in 1..Len(subs) : subs[i] = subs[j] => i = j
            /\ \A i \in 1..Len(subs) : subs[i] # c
        BY <3>2, <3>3, <3>4 DEF IsInjective
      <4> QED BY <3>3, <4>1 DEF IsInjective
    <3>7. ToSet(subs)' = ToSet(subs')
      BY DEF ToSet
    <3> QED BY <3>1, <3>2, <3>3, <3>5, <3>6, <3>7 DEF ChannelInv, NoSendOnClosed
  <2>4. ASSUME NEW c \in Clients, Deregister(c) PROVE ChannelInv'
    <3>1. /\ subs' = RemoveFirst(subs, c) /\ closed' = closed \cup {c} /\ wpc[c] = "waiting"
          /\ wpc' = [wpc EXCEPT ![c] = IF autoReplay THEN "done" ELSE "count"] /\ hpc' = hpc
      BY <2>4 DEF Deregister
    <3>2. hpc[c] \notin {"new", "register"} /\ subs \in Seq(Clients) /\ IsInjective(subs)
      BY <3>1 DEF ChannelInv
    <3>3. /\ subs' \in Seq(Clients) /\ IsInjective(subs')
          /\ ToSet(subs') = ToSet(subs) \ {c}
      BY <3>1, <3>2, RemoveOnly
    <3>4. ToSet(subs)' = ToSet(subs')
      BY DEF ToSet
    <3> QED BY <3>1, <3>2, <3>3, <3>4 DEF ChannelInv, NoSendOnClosed
  <2>5. ASSUME Quit PROVE ChannelInv'
    <3>1. subs' = <<>> /\ closed' = closed \cup ToSet(subs) /\ UNCHANGED <<hpc, wpc>>
      BY <2>5 DEF Quit
    <3>2. ToSet(subs)' = {} /\ subs' \in Seq(Clients) /\ IsInjective(subs')
      BY <3>1 DEF ToSet, IsInjective
    <3> QED BY <3>1, <3>2 DEF ChannelInv, NoSendOnClosed
  <2>6. CASE UNCHANGED vars \/ TakeEvent \/ Deliver \/ \E c \in Clients : Replay(c)
    BY <2>1, <2>6 DEF vars, run, client, TakeEvent, Deliver, Replay
  <2>7. CASE CloseStream \/ \E e \in Events : Publish(e) \/ TryPublish(e) \/ PublisherStep(e)
    BY <2>1, <2>7 DEF run, client, CloseStream, Publish, TryPublish, PublisherStep, Send, GiveUpSend
  <2>8. ASSUME NEW c \in Clients, Subscribe(c) \/ Disconnect(c) \/ HandlerStep(c) \/ WatcherStep(c)
        PROVE  ChannelInv'
    BY <2>2, <2>8 DEF run, Subscribe, Disconnect, HandlerStep, WatcherStep, Admit, Refuse, Receive,
                      ChannelClosed, LeaveClosed, CountSubs, AutoRemove
  <2> QED BY <2>3, <2>4, <2>5, <2>6, <2>7, <2>8 DEF Next, RunStep
<1>3. ChannelInv => NoSendOnClosed
  BY DEF ChannelInv
<1> QED BY <1>1, <1>2, <1>3, PTL DEF Spec
=============================================================================
