-------------------------- MODULE MemoryQueueProofs --------------------------
(***************************************************************************)
(* Proofs about queue/memory for any streams, messages, goroutines and     *)
(* capacities.  That a message is in one place is shown without counting:  *)
(* the buffers hold no message twice, no two consumers have the same one,  *)
(* and the carriers, the buffers and the consumers have none in common.    *)
(***************************************************************************)
EXTENDS MemoryQueue, FiniteSetTheorems, TLAPS

Born == {c \in Consumers : cpc[c] # "unborn"}

Wired ==
  /\ \A p \in Producers : arg[p] # None <=> pc[p] = "missed"
  /\ \A p, r \in Producers : arg[p] # None /\ arg[p] = arg[r] => p = r
  /\ \A p \in Producers : arg[p] # None => chan[arg[p]] = 0
  /\ queue \in [Streams -> 0..made]
  /\ \A m \in sending : chan[m] # 0
  /\ \A c \in Born : cq[c] # 0
  /\ \A c \in Consumers : cm[c] # None <=> cpc[c] \in {"handle", "backoff", "resend"}

\* Each channel was made for the first message or the first consumer of a stream.
ChansSuffice == made <= Cardinality(Accepted) + Cardinality(Born)

\* The messages in the buffers, and those that consumers have.
Stored == {m \in Msgs : \E q \in Chans : \E i \in 1..Len(buf[q]) : buf[q][i] = m}
Taken == {m \in Msgs : \E c \in Consumers : cm[c] = m}

StoredOnce ==
  \A q, r \in Chans : \A i \in 1..Len(buf[q]), j \in 1..Len(buf[r]) :
    buf[q][i] = buf[r][j] => q = r /\ i = j
TakenOnce == \A c, d \in Consumers : cm[c] # None /\ cm[c] = cm[d] => c = d

Apart == /\ sending \cap Stored = {} /\ sending \cap Taken = {} /\ Stored \cap Taken = {}
         /\ sending \cup Stored \cup Taken \subseteq Accepted \ settled
         /\ settled \subseteq Accepted

NoneDropped == ~closing => Accepted \ settled \subseteq sending \cup Stored \cup Taken

\* Only a Shutdown takes the flag and the counter back.
Stopping ==
  /\ waiting = IF running THEN 1 ELSE 0
  /\ \A s \in Closers : spc[s] # "new" => closing
  /\ \A r \in Runners : /\ rpc[r] = "waiting" => running \/ closing
                        /\ rpc[r] \in {"drained", "stopped"} => closing

Placed == StoredOnce /\ TakenOnce /\ Apart /\ NoneDropped

IInv == /\ TypeOK /\ Wired /\ ChansSuffice /\ Placed
        /\ Stopping /\ DrainedForGood
-----------------------------------------------------------------------------
(* Counting channels. *)

LEMMA Counts ==
  /\ \A S \in SUBSET Msgs : Cardinality(S) \in Nat /\ Cardinality(S) <= Cardinality(Msgs)
  /\ \A S \in SUBSET Consumers : Cardinality(S) \in Nat /\ Cardinality(S) <= Cardinality(Consumers)
  /\ \A S \in SUBSET Msgs : \A m \in Msgs \ S : Cardinality(S \cup {m}) = Cardinality(S) + 1
  /\ \A S \in SUBSET Consumers : \A c \in Consumers \ S : Cardinality(S \cup {c}) = Cardinality(S) + 1
BY Finitely, FS_Subset, FS_CardinalityType, FS_AddElement

(* A message that has no channel yet, or a consumer that does not run yet, *)
(* leaves room for one more.                                               *)
LEMMA RoomForOne ==
  ASSUME made \in Nat, ChansSuffice,
         (\E m \in Msgs : chan[m] = 0) \/ (\E c \in Consumers : cpc[c] = "unborn")
  PROVE  made + 1 \in Chans
<1>1. Accepted \in SUBSET Msgs /\ Born \in SUBSET Consumers
  BY DEF Accepted, Born
<1>2. /\ Cardinality(Accepted) \in Nat /\ Cardinality(Born) \in Nat
      /\ Cardinality(Msgs) \in Nat /\ Cardinality(Consumers) \in Nat
      /\ Cardinality(Accepted) <= Cardinality(Msgs)
      /\ Cardinality(Born) <= Cardinality(Consumers)
  BY <1>1, Counts
<1>3. CASE \E m \in Msgs : chan[m] = 0
  <2>1. PICK m \in Msgs : chan[m] = 0
    BY <1>3
  <2>2. m \notin Accepted /\ Accepted \cup {m} \in SUBSET Msgs
    BY <2>1 DEF Accepted
  <2>3. Cardinality(Accepted) + 1 <= Cardinality(Msgs)
    BY <1>1, <2>2, Counts
  <2> QED BY <1>2, <2>3 DEF ChansSuffice, Chans
<1>4. CASE \E c \in Consumers : cpc[c] = "unborn"
  <2>1. PICK c \in Consumers : cpc[c] = "unborn"
    BY <1>4
  <2>2. c \notin Born /\ Born \cup {c} \in SUBSET Consumers
    BY <2>1 DEF Born
  <2>3. Cardinality(Born) + 1 <= Cardinality(Consumers)
    BY <1>1, <2>2, Counts
  <2> QED BY <1>2, <2>3 DEF ChansSuffice, Chans
<1> QED BY <1>3, <1>4
-----------------------------------------------------------------------------
(* A message more and a message less in the buffers. *)

LEMMA BufferGains ==
  ASSUME buf \in [Chans -> Seq(Msgs)], StoredOnce, NEW q \in Chans, NEW m \in Msgs \ Stored,
         buf' = [buf EXCEPT ![q] = Append(@, m)]
  PROVE  /\ buf' \in [Chans -> Seq(Msgs)]
         /\ \A r \in Chans : Len(buf'[r]) = IF r = q THEN Len(buf[q]) + 1 ELSE Len(buf[r])
         /\ Stored' = Stored \cup {m} /\ StoredOnce'
<1>1. /\ buf' \in [Chans -> Seq(Msgs)] /\ Len(buf[q]) \in Nat /\ Len(buf'[q]) = Len(buf[q]) + 1
      /\ \A i \in 1..Len(buf[q]) : buf'[q][i] = buf[q][i]
      /\ buf'[q][Len(buf[q]) + 1] = m
  OBVIOUS
<1>2. \A r \in Chans \ {q} : buf'[r] = buf[r]
  OBVIOUS
<1>3. \A r \in Chans : Len(buf[r]) \in Nat
  OBVIOUS
<1>4. \A i \in 1..Len(buf[q]) + 1 : i \in 1..Len(buf[q]) \/ i = Len(buf[q]) + 1
  BY <1>1
<1>5. Stored' = Stored \cup {m}
  <2>1. ASSUME NEW x \in Stored' PROVE x \in Stored \cup {m}
    BY <1>1, <1>2, <1>4, <2>1 DEF Stored
  <2>2. ASSUME NEW x \in Stored PROVE x \in Stored'
    <3>1. PICK r \in Chans : \E i \in 1..Len(buf[r]) : buf[r][i] = x
      BY <2>2 DEF Stored
    <3>2. PICK i \in 1..Len(buf[r]) : buf[r][i] = x
      BY <3>1
    <3>3. i \in 1..Len(buf'[r]) /\ buf'[r][i] = x
      BY <1>1, <1>2, <3>2
    <3> QED BY <2>2, <3>3 DEF Stored
  <2>3. m \in Stored'
    <3>1. Len(buf[q]) + 1 \in 1..Len(buf'[q])
      BY <1>1
    <3> QED BY <1>1, <3>1 DEF Stored
  <2> QED BY <2>1, <2>2, <2>3
<1>6. StoredOnce'
  <2> SUFFICES ASSUME NEW r \in Chans, NEW s \in Chans, NEW i \in 1..Len(buf'[r]), NEW j \in 1..Len(buf'[s]),
                      buf'[r][i] = buf'[s][j]
               PROVE  r = s /\ i = j
    BY DEF StoredOnce
  <2>1. ASSUME NEW t \in Chans, NEW k \in 1..Len(buf'[t])
        PROVE  \/ k \in 1..Len(buf[t]) /\ buf'[t][k] = buf[t][k] /\ buf[t][k] # m
               \/ t = q /\ k = Len(buf[q]) + 1 /\ buf'[t][k] = m
    <3>1. \A n \in 1..Len(buf[t]) : buf[t][n] # m
      BY DEF Stored
    <3> QED BY <1>1, <1>2, <1>4, <2>1, <3>1
  <2> QED BY <2>1 DEF StoredOnce
<1> QED BY <1>1, <1>2, <1>5, <1>6

LEMMA BufferLoses ==
  ASSUME buf \in [Chans -> Seq(Msgs)], StoredOnce, NEW q \in Chans, buf[q] # <<>>,
         buf' = [buf EXCEPT ![q] = Tail(@)]
  PROVE  /\ buf' \in [Chans -> Seq(Msgs)] /\ Head(buf[q]) \in Stored
         /\ \A r \in Chans : Len(buf'[r]) <= Len(buf[r])
         /\ Stored' = Stored \ {Head(buf[q])} /\ StoredOnce'
<1>1. /\ buf' \in [Chans -> Seq(Msgs)] /\ Len(buf[q]) \in Nat /\ Len(buf[q]) >= 1
      /\ Len(buf'[q]) = Len(buf[q]) - 1
      /\ \A i \in 1..Len(buf[q]) - 1 : buf'[q][i] = buf[q][i + 1]
      /\ Head(buf[q]) = buf[q][1] /\ buf[q][1] \in Msgs
  OBVIOUS
<1>2. \A r \in Chans \ {q} : buf'[r] = buf[r]
  OBVIOUS
<1>3. \A r \in Chans : Len(buf[r]) \in Nat
  OBVIOUS
<1>4. 1 \in 1..Len(buf[q])
  BY <1>1
<1>5. ASSUME NEW t \in Chans, NEW k \in 1..Len(buf'[t])
      PROVE  \E n \in 1..Len(buf[t]) : /\ buf'[t][k] = buf[t][n] /\ (t = q => n # 1)
                                       /\ n = IF t = q THEN k + 1 ELSE k
  <2>1. CASE t = q
    <3>1. k + 1 \in 1..Len(buf[q]) /\ k + 1 # 1 /\ buf'[q][k] = buf[q][k + 1]
      BY <1>1, <1>5, <2>1
    <3> QED BY <2>1, <3>1
  <2>2. CASE t # q
    BY <1>2, <1>5, <2>2
  <2> QED BY <2>1, <2>2
<1>6. Head(buf[q]) \in Stored
  BY <1>1, <1>4 DEF Stored
<1>7. Stored' = Stored \ {Head(buf[q])}
  <2>1. ASSUME NEW x \in Stored' PROVE x \in Stored /\ x # Head(buf[q])
    <3>1. PICK t \in Chans : \E k \in 1..Len(buf'[t]) : buf'[t][k] = x
      BY <2>1 DEF Stored
    <3>2. PICK k \in 1..Len(buf'[t]) : buf'[t][k] = x
      BY <3>1
    <3>3. PICK n \in 1..Len(buf[t]) : buf[t][n] = x /\ (t = q => n # 1)
      BY <1>5, <3>2
    <3>4. x # buf[q][1]
      BY <1>4, <3>3 DEF StoredOnce
    <3> QED BY <1>1, <2>1, <3>3, <3>4 DEF Stored
  <2>2. ASSUME NEW x \in Stored, x # Head(buf[q]) PROVE x \in Stored'
    <3>1. PICK r \in Chans : \E i \in 1..Len(buf[r]) : buf[r][i] = x
      BY <2>2 DEF Stored
    <3>2. PICK i \in 1..Len(buf[r]) : buf[r][i] = x
      BY <3>1
    <3>3. CASE r = q
      <4>1. i - 1 \in 1..Len(buf[q]) - 1 /\ (i - 1) + 1 = i
        BY <1>1, <2>2, <3>2, <3>3
      <4>2. buf'[q][i - 1] = x
        BY <1>1, <3>2, <3>3, <4>1
      <4> QED BY <1>1, <2>2, <4>1, <4>2 DEF Stored
    <3>4. CASE r # q
      BY <1>2, <2>2, <3>2, <3>4 DEF Stored
    <3> QED BY <3>3, <3>4
  <2> QED BY <2>1, <2>2
<1>8. StoredOnce'
  <2> SUFFICES ASSUME NEW r \in Chans, NEW s \in Chans, NEW i \in 1..Len(buf'[r]), NEW j \in 1..Len(buf'[s]),
                      buf'[r][i] = buf'[s][j]
               PROVE  r = s /\ i = j
    BY DEF StoredOnce
  <2>1. PICK k \in 1..Len(buf[r]) : buf'[r][i] = buf[r][k] /\ k = IF r = q THEN i + 1 ELSE i
    BY <1>5
  <2>2. PICK n \in 1..Len(buf[s]) : buf'[s][j] = buf[s][n] /\ n = IF s = q THEN j + 1 ELSE j
    BY <1>5
  <2>3. r = s /\ k = n
    BY <2>1, <2>2 DEF StoredOnce
  <2>4. i \in Int /\ j \in Int
    OBVIOUS
  <2> QED BY ONLY <2>1, <2>2, <2>3, <2>4
<1> QED BY <1>1, <1>2, <1>3, <1>6, <1>7, <1>8
-----------------------------------------------------------------------------
(* Channels keep within their capacity. *)
LEMMA BufferFits ==
  ASSUME buf \in [Chans -> Seq(Msgs)], PoolNum \in Nat, \A r \in Chans : Len(buf[r]) <= PoolNum, NEW q \in Chans,
         \/ buf' = [buf EXCEPT ![q] = Tail(@)] /\ buf[q] # <<>>
         \/ Len(buf[q]) < PoolNum /\ \E m \in Msgs : buf' = [buf EXCEPT ![q] = Append(@, m)]
  PROVE  buf' \in [Chans -> Seq(Msgs)] /\ \A r \in Chans : Len(buf'[r]) <= PoolNum
<1>1. \A r \in Chans : Len(buf[r]) \in Nat
  OBVIOUS
<1>2. CASE buf' = [buf EXCEPT ![q] = Tail(@)] /\ buf[q] # <<>>
  <2>1. buf' \in [Chans -> Seq(Msgs)] /\ Len(buf'[q]) = Len(buf[q]) - 1 /\ \A r \in Chans \ {q} : buf'[r] = buf[r]
    BY <1>2
  <2>2. Len(buf'[q]) <= PoolNum
    BY <1>1, <2>1
  <2> QED BY <2>1, <2>2
<1>3. ASSUME Len(buf[q]) < PoolNum, NEW m \in Msgs, buf' = [buf EXCEPT ![q] = Append(@, m)]
      PROVE  buf' \in [Chans -> Seq(Msgs)] /\ \A r \in Chans : Len(buf'[r]) <= PoolNum
  <2>1. buf' \in [Chans -> Seq(Msgs)] /\ Len(buf'[q]) = Len(buf[q]) + 1 /\ \A r \in Chans \ {q} : buf'[r] = buf[r]
    BY <1>3
  <2> QED BY <1>1, <1>3, <2>1
<1> QED BY <1>2, <1>3

(* Who sends or receives has a channel. *)
LEMMA OnAChannel ==
  ASSUME TypeOK, Wired
  PROVE  /\ made \in Nat /\ queue \in [Streams -> 0..made]
         /\ \A m \in sending : chan[m] \in Chans
         /\ \A c \in Born : cq[c] \in Chans
<1>1. made \in Nat /\ 1..made \subseteq Chans
  BY Counts DEF TypeOK, Chans
<1>2. made \in Nat /\ queue \in [Streams -> 0..made] /\ chan \in [Msgs -> 0..made] /\ cq \in [Consumers -> 0..made]
      /\ sending \subseteq Msgs /\ Born \subseteq Consumers
      /\ (\A m \in sending : chan[m] # 0) /\ (\A c \in Born : cq[c] # 0)
  BY <1>1 DEF TypeOK, Wired, Born
<1> QED BY ONLY <1>1, <1>2

LEMMA InitialInv == Init => IInv
<1> SUFFICES ASSUME Init PROVE IInv
  OBVIOUS
<1>1. Stored = {} /\ Taken = {} /\ StoredOnce
  BY NoneIsNoMessage DEF Init, Stored, Taken, StoredOnce
<1>2. TypeOK
  <2>1. PoolNum \in Nat /\ MaxErrors \in Nat
    BY Capacity DEF Init
  <2>2. \A q \in Chans : buf[q] = <<>> /\ Len(buf[q]) = 0
    BY DEF Init
  <2>3. /\ \A q \in Chans : Len(buf[q]) <= PoolNum
        /\ buf \in [Chans -> Seq(Msgs)]
    BY <2>1, <2>2 DEF Init
  <2>4. made = 0 /\ 0 \in 0..made /\ 0 \in 0..MaxErrors
    BY <2>1 DEF Init
  <2>5. chan \in [Msgs -> 0..made] /\ cq \in [Consumers -> 0..made] /\ errors \in [Msgs -> 0..MaxErrors]
    BY <2>4 DEF Init
  <2> QED BY ONLY Init, <2>3, <2>4, <2>5 DEF Init, TypeOK
<1>3. ChansSuffice
  <2>1. Cardinality(Accepted) \in Nat /\ Cardinality(Born) \in Nat
    BY Counts DEF Accepted, Born
  <2> QED BY <2>1 DEF ChansSuffice, Init
<1>4. Accepted = {}
  BY DEF Init, Accepted
<1>5. Wired /\ TakenOnce /\ Stopping /\ DrainedForGood
  BY NoneIsNoMessage DEF Init, Wired, Born, TakenOnce, Stopping, DrainedForGood
<1>6. Apart /\ NoneDropped
  BY <1>1, <1>4 DEF Init, Apart, NoneDropped
<1> QED BY <1>1, <1>2, <1>3, <1>5, <1>6 DEF IInv, Placed

(* What of Run and Shutdown has happened. *)
LEMMA KeepsStopping ==
  ASSUME TypeOK, Stopping, DrainedForGood, Next
  PROVE  Stopping' /\ DrainedForGood'
<1> USE DEF TypeOK, Stopping, DrainedForGood, messages, consumer, lifecycle
<1>1. ASSUME NEW p \in Producers, NEW m \in Msgs, AppendHit(p, m)
      PROVE  Stopping' /\ DrainedForGood'
  BY <1>1 DEF AppendHit, Carry, Unused
<1>2. ASSUME NEW p \in Producers, NEW m \in Msgs, AppendMiss(p, m)
      PROVE  Stopping' /\ DrainedForGood'
  BY <1>2 DEF AppendMiss, Unused
<1>3. ASSUME NEW p \in Producers, AppendStore(p)
      PROVE  Stopping' /\ DrainedForGood'
  BY <1>3 DEF AppendStore, Carry
<1>4. ASSUME NEW m \in Msgs, Send(m)
      PROVE  Stopping' /\ DrainedForGood'
  BY <1>4 DEF Send
<1>5. ASSUME NEW m \in Msgs, GiveUpSending(m)
      PROVE  Stopping' /\ DrainedForGood'
  BY <1>5 DEF GiveUpSending
<1>6. ASSUME NEW c \in Consumers, NEW s \in Streams, Register(c, s)
      PROVE  Stopping' /\ DrainedForGood'
  BY <1>6 DEF Register
<1>7. ASSUME NEW c \in Consumers, ReceiveBuffered(c)
      PROVE  Stopping' /\ DrainedForGood'
  BY <1>7 DEF ReceiveBuffered, Handle
<1>8. ASSUME NEW c \in Consumers, NEW m \in Msgs, ReceiveDirect(c, m)
      PROVE  Stopping' /\ DrainedForGood'
  BY <1>8 DEF ReceiveDirect, Handle
<1>9. ASSUME NEW c \in Consumers, NEW d \in Consumers, ReceiveResent(c, d)
      PROVE  Stopping' /\ DrainedForGood'
  BY <1>9 DEF ReceiveResent
<1>10. ASSUME NEW c \in Consumers, HandlerSucceeds(c)
      PROVE  Stopping' /\ DrainedForGood'
  BY <1>10 DEF HandlerSucceeds
<1>11. ASSUME NEW c \in Consumers, HandlerFails(c)
      PROVE  Stopping' /\ DrainedForGood'
  BY <1>11 DEF HandlerFails
<1>12. ASSUME NEW c \in Consumers, BackoffOver(c)
      PROVE  Stopping' /\ DrainedForGood'
  BY <1>12 DEF BackoffOver
<1>13. ASSUME NEW c \in Consumers, Resend(c)
      PROVE  Stopping' /\ DrainedForGood'
  BY <1>13 DEF Resend
<1>14. ASSUME NEW c \in Consumers, Exit(c)
      PROVE  Stopping' /\ DrainedForGood'
  BY <1>14 DEF Exit
<1>15. ASSUME NEW r \in Runners, Run(r)
      PROVE  Stopping' /\ DrainedForGood'
  BY <1>15 DEF Run
<1>16. ASSUME NEW r \in Runners, RunWaits(r)
      PROVE  Stopping' /\ DrainedForGood'
  BY <1>16 DEF RunWaits
<1>17. ASSUME NEW s \in Closers, Shutdown(s)
      PROVE  Stopping' /\ DrainedForGood'
  BY <1>17 DEF Shutdown
<1>18. ASSUME NEW s \in Closers, ShutdownDone(s)
      PROVE  Stopping' /\ DrainedForGood'
  BY <1>18 DEF ShutdownDone
<1>19. Next
  OBVIOUS
<1> QED
  BY ONLY <1>1, <1>2, <1>3, <1>4, <1>5, <1>6, <1>7, <1>8, <1>9, <1>10, <1>11, <1>12, <1>13,
     <1>14, <1>15, <1>16, <1>17, <1>18, <1>19 DEF Next, ConsumerStep, CarrierStep
(* The types; a channel made is one of the channels there can be. *)
LEMMA KeepsType ==
  ASSUME TypeOK, Wired, ChansSuffice, Stopping, Next
  PROVE  TypeOK'
<1> USE NoneIsNoMessage, Capacity DEF TypeOK, Wired, Born, messages, consumer, lifecycle
<1>1. ASSUME NEW p \in Producers, NEW m \in Msgs, AppendHit(p, m)
      PROVE  TypeOK'
  <2>1. queue[StreamOf[m]] \in 0..made
    BY OnAChannel, StreamOfMessage
  <2> QED BY <1>1, <2>1 DEF AppendHit, Carry
<1>2. ASSUME NEW p \in Producers, NEW m \in Msgs, AppendMiss(p, m)
      PROVE  TypeOK'
  BY <1>2 DEF AppendMiss, Unused
<1>3. ASSUME NEW p \in Producers, AppendStore(p)
      PROVE  TypeOK'
  <2>1. made \in Nat /\ arg[p] \in Msgs /\ chan[arg[p]] = 0
    BY <1>3, OnAChannel DEF AppendStore
  <2>2. made + 1 \in Chans /\ 0..made \subseteq 0..made + 1 /\ made + 1 \in 0..made + 1
    BY <2>1, RoomForOne
  <2>3. /\ queue' = [queue EXCEPT ![StreamOf[arg[p]]] = made + 1] /\ made' = made + 1
        /\ chan' = [chan EXCEPT ![arg[p]] = made + 1] /\ sending' = sending \cup {arg[p]}
    BY ONLY <1>3 DEF AppendStore, Carry
  <2>4. /\ queue' \in [Streams -> Chans \cup {0}] /\ made' \in Chans \cup {0}
        /\ chan' \in [Msgs -> 0..made'] /\ cq \in [Consumers -> 0..made'] /\ sending' \subseteq Msgs
    BY <2>1, <2>2, <2>3
  <2> QED BY <1>3, <2>4 DEF AppendStore
<1>4. ASSUME NEW m \in Msgs, Send(m)
      PROVE  TypeOK'
  <2>1. chan[m] \in Chans
    BY <1>4, OnAChannel DEF Send
  <2>2. buf' \in [Chans -> Seq(Msgs)] /\ \A r \in Chans : Len(buf'[r]) <= PoolNum
    BY <1>4, <2>1, BufferFits DEF Send
  <2> QED BY <1>4, <2>2 DEF Send
<1>5. ASSUME NEW m \in Msgs, GiveUpSending(m)
      PROVE  TypeOK'
  BY <1>5 DEF GiveUpSending
<1>6. ASSUME NEW c \in Consumers, NEW s \in Streams, Register(c, s)
      PROVE  TypeOK'
  <2>1. made \in Nat /\ made + 1 \in Chans /\ queue \in [Streams -> 0..made]
    BY <1>6, OnAChannel, RoomForOne DEF Register
  <2>2. 0..made \subseteq 0..made' /\ made' \in Nat /\ made' \in Chans \cup {0}
    BY <1>6, <2>1 DEF Register
  <2>3. queue' \in [Streams -> Chans \cup {0}] /\ queue'[s] \in 0..made'
    BY <1>6, <2>1, <2>2 DEF Register
  <2> QED BY <1>6, <2>2, <2>3 DEF Register
<1>7. ASSUME NEW c \in Consumers, ReceiveBuffered(c)
      PROVE  TypeOK'
  <2>1. cq[c] \in Chans
    BY <1>7, OnAChannel DEF ReceiveBuffered
  <2>2. Head(buf[cq[c]]) \in Msgs
    BY <1>7, <2>1 DEF ReceiveBuffered
  <2>3. buf' \in [Chans -> Seq(Msgs)] /\ \A r \in Chans : Len(buf'[r]) <= PoolNum
    BY <1>7, <2>1, BufferFits DEF ReceiveBuffered
  <2> QED BY <1>7, <2>2, <2>3 DEF ReceiveBuffered, Handle
<1>8. ASSUME NEW c \in Consumers, NEW m \in Msgs, ReceiveDirect(c, m)
      PROVE  TypeOK'
  BY <1>8 DEF ReceiveDirect, Handle
<1>9. ASSUME NEW c \in Consumers, NEW d \in Consumers, ReceiveResent(c, d)
      PROVE  TypeOK'
  BY <1>9 DEF ReceiveResent
<1>10. ASSUME NEW c \in Consumers, HandlerSucceeds(c)
      PROVE  TypeOK'
  BY <1>10 DEF HandlerSucceeds
<1>11. ASSUME NEW c \in Consumers, HandlerFails(c)
      PROVE  TypeOK'
  <2>1. cm[c] \in Msgs /\ MaxErrors \in Nat /\ errors[cm[c]] \in 0..MaxErrors
    BY <1>11 DEF HandlerFails
  <2>2. CASE errors[cm[c]] >= MaxErrors
    <3>1. settled' = settled \cup {cm[c]} /\ cpc' = [cpc EXCEPT ![c] = "receive"] /\ cm' = [cm EXCEPT ![c] = None]
          /\ UNCHANGED <<errors, queue, made, buf, sending, chan, pc, arg, cq, lifecycle>>
      BY ONLY <1>11, <2>2 DEF HandlerFails
    <3> QED BY <2>1, <3>1
  <2>3. CASE ~(errors[cm[c]] >= MaxErrors)
    <3>1. errors' = [errors EXCEPT ![cm[c]] = errors[cm[c]] + 1] /\ cpc' = [cpc EXCEPT ![c] = "backoff"]
          /\ UNCHANGED <<settled, cm, queue, made, buf, sending, chan, pc, arg, cq, lifecycle>>
      BY ONLY <1>11, <2>3 DEF HandlerFails
    <3>2. errors' \in [Msgs -> 0..MaxErrors]
      BY <2>1, <2>3, <3>1
    <3> QED BY <3>1, <3>2
  <2> QED BY <2>2, <2>3
<1>12. ASSUME NEW c \in Consumers, BackoffOver(c)
      PROVE  TypeOK'
  BY <1>12 DEF BackoffOver
<1>13. ASSUME NEW c \in Consumers, Resend(c)
      PROVE  TypeOK'
  <2>1. cq[c] \in Chans /\ cm[c] \in Msgs
    BY <1>13, OnAChannel DEF Resend
  <2>2. buf' \in [Chans -> Seq(Msgs)] /\ \A r \in Chans : Len(buf'[r]) <= PoolNum
    BY <1>13, <2>1, BufferFits DEF Resend
  <2> QED BY <1>13, <2>2 DEF Resend
<1>14. ASSUME NEW c \in Consumers, Exit(c)
      PROVE  TypeOK'
  BY <1>14 DEF Exit
<1>15. ASSUME NEW r \in Runners, Run(r)
      PROVE  TypeOK'
  <2>1. waiting' \in {0, 1} /\ running' \in BOOLEAN
    <3>1. CASE closing \/ running
      BY <1>15, <3>1 DEF Run
    <3>2. CASE ~(closing \/ running)
      BY ONLY <1>15, <3>2, Stopping DEF Run, Stopping
    <3> QED BY <3>1, <3>2
  <2> QED BY <1>15, <2>1 DEF Run
<1>16. ASSUME NEW r \in Runners, RunWaits(r)
      PROVE  TypeOK'
  BY <1>16 DEF RunWaits
<1>17. ASSUME NEW s \in Closers, Shutdown(s)
      PROVE  TypeOK'
  BY <1>17 DEF Shutdown
<1>18. ASSUME NEW s \in Closers, ShutdownDone(s)
      PROVE  TypeOK'
  <2>1. waiting' \in {0, 1}
    BY ONLY <1>18, Stopping DEF ShutdownDone, Stopping
  <2> QED BY <1>18, <2>1 DEF ShutdownDone
<1>19. Next
  OBVIOUS
<1> QED
  BY ONLY <1>1, <1>2, <1>3, <1>4, <1>5, <1>6, <1>7, <1>8, <1>9, <1>10, <1>11, <1>12, <1>13,
     <1>14, <1>15, <1>16, <1>17, <1>18, <1>19 DEF Next, ConsumerStep, CarrierStep
(* What producers, carriers and consumers have at hand. *)
LEMMA KeepsWired ==
  ASSUME TypeOK, Wired, Next
  PROVE  Wired'
<1> USE NoneIsNoMessage DEF TypeOK, Wired, Born, messages, consumer, lifecycle
<1>1. ASSUME NEW p \in Producers, NEW m \in Msgs, AppendHit(p, m)
      PROVE  Wired'
  BY <1>1 DEF AppendHit, Carry, Unused
<1>2. ASSUME NEW p \in Producers, NEW m \in Msgs, AppendMiss(p, m)
      PROVE  Wired'
  BY <1>2 DEF AppendMiss, Unused
<1>3. ASSUME NEW p \in Producers, AppendStore(p)
      PROVE  Wired'
  <2>1. made \in Nat /\ arg[p] \in Msgs /\ chan[arg[p]] = 0 /\ arg[p] # None
    BY <1>3, OnAChannel DEF AppendStore
  <2>2. made + 1 # 0 /\ 0..made \subseteq 0..made + 1 /\ made + 1 \in 0..made + 1
    BY <2>1
  <2>3. queue' \in [Streams -> 0..made'] /\ \A m \in sending' : chan'[m] # 0
    <3>1. queue' = [queue EXCEPT ![StreamOf[arg[p]]] = made + 1] /\ made' = made + 1
          /\ chan' = [chan EXCEPT ![arg[p]] = made + 1] /\ sending' = sending \cup {arg[p]}
      BY <1>3 DEF AppendStore, Carry
    <3>2. queue \in [Streams -> 0..made] /\ chan \in [Msgs -> 0..made] /\ sending \subseteq Msgs
          /\ \A m \in sending : chan[m] # 0
      OBVIOUS
    <3> QED BY ONLY <2>1, <2>2, <3>1, <3>2
  <2>4. /\ \A r \in Producers : arg'[r] # None <=> pc'[r] = "missed"
        /\ \A r \in Producers : arg'[r] # None => chan'[arg'[r]] = 0
        /\ \A q, r \in Producers : arg'[q] # None /\ arg'[q] = arg'[r] => q = r
    BY <1>3, <2>1 DEF AppendStore, Carry
  <2> QED BY <1>3, <2>3, <2>4 DEF AppendStore
<1>4. ASSUME NEW m \in Msgs, Send(m)
      PROVE  Wired'
  BY <1>4 DEF Send
<1>5. ASSUME NEW m \in Msgs, GiveUpSending(m)
      PROVE  Wired'
  BY <1>5 DEF GiveUpSending
<1>6. ASSUME NEW c \in Consumers, NEW s \in Streams, Register(c, s)
      PROVE  Wired'
  <2>1. made \in Nat /\ queue \in [Streams -> 0..made]
    BY OnAChannel
  <2>2. made' \in Nat /\ 0..made \subseteq 0..made' /\ queue' \in [Streams -> 0..made'] /\ queue'[s] # 0
    BY <1>6, <2>1 DEF Register
  <2> QED BY <1>6, <2>2 DEF Register
<1>7. ASSUME NEW c \in Consumers, ReceiveBuffered(c)
      PROVE  Wired'
  <2>1. cq[c] \in Chans
    BY <1>7, OnAChannel DEF ReceiveBuffered
  <2>2. Head(buf[cq[c]]) \in Msgs
    BY <1>7, <2>1 DEF ReceiveBuffered
  <2> QED BY <1>7, <2>2 DEF ReceiveBuffered, Handle
<1>8. ASSUME NEW c \in Consumers, NEW m \in Msgs, ReceiveDirect(c, m)
      PROVE  Wired'
  BY <1>8 DEF ReceiveDirect, Handle
<1>9. ASSUME NEW c \in Consumers, NEW d \in Consumers, ReceiveResent(c, d)
      PROVE  Wired'
  BY <1>9 DEF ReceiveResent
<1>10. ASSUME NEW c \in Consumers, HandlerSucceeds(c)
      PROVE  Wired'
  BY <1>10 DEF HandlerSucceeds
<1>11. ASSUME NEW c \in Consumers, HandlerFails(c)
      PROVE  Wired'
  <2>1. UNCHANGED <<queue, made, sending, chan, pc, arg, cq>> /\ cpc[c] = "handle"
        /\ \/ cpc' = [cpc EXCEPT ![c] = "receive"] /\ cm' = [cm EXCEPT ![c] = None]
           \/ cpc' = [cpc EXCEPT ![c] = "backoff"] /\ cm' = cm
    BY ONLY <1>11 DEF HandlerFails
  <2>2. \A d \in Consumers : cm'[d] # None <=> cpc'[d] \in {"handle", "backoff", "resend"}
    <3>1. cm \in [Consumers -> Msgs \cup {None}] /\ cm[c] # None
          /\ DOMAIN cpc = Consumers /\ \A d \in Consumers : cm[d] # None <=> cpc[d] \in {"handle", "backoff", "resend"}
      BY <2>1
    <3> QED BY ONLY <2>1, <3>1
  <2>3. Born' \subseteq Born
    BY <2>1
  <2> QED BY <2>1, <2>2, <2>3
<1>12. ASSUME NEW c \in Consumers, BackoffOver(c)
      PROVE  Wired'
  BY <1>12 DEF BackoffOver
<1>13. ASSUME NEW c \in Consumers, Resend(c)
      PROVE  Wired'
  BY <1>13 DEF Resend
<1>14. ASSUME NEW c \in Consumers, Exit(c)
      PROVE  Wired'
  BY <1>14 DEF Exit
<1>15. ASSUME NEW r \in Runners, Run(r)
      PROVE  Wired'
  BY <1>15 DEF Run
<1>16. ASSUME NEW r \in Runners, RunWaits(r)
      PROVE  Wired'
  BY <1>16 DEF RunWaits
<1>17. ASSUME NEW s \in Closers, Shutdown(s)
      PROVE  Wired'
  BY <1>17 DEF Shutdown
<1>18. ASSUME NEW s \in Closers, ShutdownDone(s)
      PROVE  Wired'
  BY <1>18 DEF ShutdownDone
<1>19. Next
  OBVIOUS
<1> QED
  BY ONLY <1>1, <1>2, <1>3, <1>4, <1>5, <1>6, <1>7, <1>8, <1>9, <1>10, <1>11, <1>12, <1>13,
     <1>14, <1>15, <1>16, <1>17, <1>18, <1>19 DEF Next, ConsumerStep, CarrierStep
(* The numbers ChansSuffice compares. *)
LEMMA Numbers ==
  ASSUME TypeOK, Wired
  PROVE  made \in Nat /\ Cardinality(Accepted) \in Nat /\ Cardinality(Born) \in Nat
<1>1. Accepted \in SUBSET Msgs /\ Born \in SUBSET Consumers
  BY DEF Accepted, Born
<1> QED BY <1>1, Counts, OnAChannel

(* Whoever makes a channel is the first to use it. *)
LEMMA KeepsCount ==
  ASSUME TypeOK, Wired, ChansSuffice, Next
  PROVE  ChansSuffice'
<1> USE DEF TypeOK, ChansSuffice, messages, consumer, lifecycle
<1>1. ASSUME NEW p \in Producers, NEW m \in Msgs, AppendHit(p, m)
      PROVE  ChansSuffice'
  <2>1. Accepted' = Accepted \cup {m} /\ Born' = Born /\ made' = made /\ m \notin Accepted
    <3>1. chan' = [chan EXCEPT ![m] = queue[StreamOf[m]]] /\ queue[StreamOf[m]] # 0 /\ chan[m] = 0
      BY <1>1 DEF AppendHit, Carry, Unused
    <3> QED BY <1>1, <3>1 DEF AppendHit, Accepted, Born
  <2>2. Cardinality(Accepted') = Cardinality(Accepted) + 1
    BY <2>1, Counts DEF Accepted
  <2> QED BY <2>1, <2>2, Numbers
<1>2. ASSUME NEW p \in Producers, NEW m \in Msgs, AppendMiss(p, m)
      PROVE  ChansSuffice'
  <2>1. Accepted' = Accepted /\ Born' = Born /\ made' = made
    BY <1>2 DEF AppendMiss, Unused, Accepted, Born
  <2> QED BY <2>1
<1>3. ASSUME NEW p \in Producers, AppendStore(p)
      PROVE  ChansSuffice'
  <2>1. arg[p] \in Msgs /\ chan[arg[p]] = 0 /\ made + 1 # 0
    BY <1>3, OnAChannel DEF AppendStore, Wired
  <2>2. Accepted' = Accepted \cup {arg[p]} /\ Born' = Born /\ made' = made + 1 /\ arg[p] \notin Accepted
    BY <1>3, <2>1 DEF AppendStore, Carry, Accepted, Born
  <2>3. Cardinality(Accepted') = Cardinality(Accepted) + 1
    <3>1. Accepted \in SUBSET Msgs
      BY DEF Accepted
    <3> QED BY ONLY <2>1, <2>2, <3>1, Counts
  <2> QED BY <2>2, <2>3, Numbers
<1>4. ASSUME NEW m \in Msgs, Send(m)
      PROVE  ChansSuffice'
  <2>1. Accepted' = Accepted /\ Born' = Born /\ made' = made
    BY <1>4 DEF Send, Accepted, Born
  <2> QED BY <2>1
<1>5. ASSUME NEW m \in Msgs, GiveUpSending(m)
      PROVE  ChansSuffice'
  <2>1. Accepted' = Accepted /\ Born' = Born /\ made' = made
    BY <1>5 DEF GiveUpSending, Accepted, Born
  <2> QED BY <2>1
<1>6. ASSUME NEW c \in Consumers, NEW s \in Streams, Register(c, s)
      PROVE  ChansSuffice'
  <2>1. Accepted' = Accepted /\ Born' = Born \cup {c} /\ made' \in {made, made + 1} /\ c \notin Born
    <3>1. cpc' = [cpc EXCEPT ![c] = "receive"] /\ cpc[c] = "unborn" /\ chan' = chan /\ made' \in {made, made + 1}
      BY ONLY <1>6 DEF Register, messages
    <3>2. DOMAIN cpc = Consumers
      OBVIOUS
    <3> QED BY ONLY <3>1, <3>2 DEF Accepted, Born
  <2>2. Cardinality(Born') = Cardinality(Born) + 1
    <3>1. Born \in SUBSET Consumers
      BY DEF Born
    <3> QED BY ONLY <2>1, <3>1, Counts
  <2> QED BY <2>1, <2>2, Numbers
<1>7. ASSUME NEW c \in Consumers, ReceiveBuffered(c)
      PROVE  ChansSuffice'
  <2>1. Accepted' = Accepted /\ Born' = Born /\ made' = made
    BY <1>7 DEF ReceiveBuffered, Handle, Accepted, Born
  <2> QED BY <2>1
<1>8. ASSUME NEW c \in Consumers, NEW m \in Msgs, ReceiveDirect(c, m)
      PROVE  ChansSuffice'
  <2>1. Accepted' = Accepted /\ Born' = Born /\ made' = made
    BY <1>8 DEF ReceiveDirect, Handle, Accepted, Born
  <2> QED BY <2>1
<1>9. ASSUME NEW c \in Consumers, NEW d \in Consumers, ReceiveResent(c, d)
      PROVE  ChansSuffice'
  <2>1. Accepted' = Accepted /\ Born' = Born /\ made' = made
    BY <1>9 DEF ReceiveResent, Accepted, Born
  <2> QED BY <2>1
<1>10. ASSUME NEW c \in Consumers, HandlerSucceeds(c)
      PROVE  ChansSuffice'
  <2>1. Accepted' = Accepted /\ Born' = Born /\ made' = made
    BY <1>10 DEF HandlerSucceeds, Accepted, Born
  <2> QED BY <2>1
<1>11. ASSUME NEW c \in Consumers, HandlerFails(c)
      PROVE  ChansSuffice'
  <2>1. /\ UNCHANGED <<chan, made>> /\ cpc[c] = "handle"
        /\ cpc' = [cpc EXCEPT ![c] = "receive"] \/ cpc' = [cpc EXCEPT ![c] = "backoff"]
    BY ONLY <1>11 DEF HandlerFails
  <2>2. Accepted' = Accepted
    BY <2>1 DEF Accepted
  <2>3. Born' = Born
    <3>1. DOMAIN cpc = Consumers
      OBVIOUS
    <3> QED BY ONLY <2>1, <3>1 DEF Born
  <2> QED BY ONLY <2>1, <2>2, <2>3, ChansSuffice DEF ChansSuffice
<1>12. ASSUME NEW c \in Consumers, BackoffOver(c)
      PROVE  ChansSuffice'
  <2>1. Accepted' = Accepted /\ Born' = Born /\ made' = made
    BY <1>12 DEF BackoffOver, Accepted, Born
  <2> QED BY <2>1
<1>13. ASSUME NEW c \in Consumers, Resend(c)
      PROVE  ChansSuffice'
  <2>1. Accepted' = Accepted /\ Born' = Born /\ made' = made
    BY <1>13 DEF Resend, Accepted, Born
  <2> QED BY <2>1
<1>14. ASSUME NEW c \in Consumers, Exit(c)
      PROVE  ChansSuffice'
  <2>1. Accepted' = Accepted /\ Born' = Born /\ made' = made
    BY <1>14 DEF Exit, Accepted, Born
  <2> QED BY <2>1
<1>15. ASSUME NEW r \in Runners, Run(r)
      PROVE  ChansSuffice'
  <2>1. Accepted' = Accepted /\ Born' = Born /\ made' = made
    BY <1>15 DEF Run, Accepted, Born
  <2> QED BY <2>1
<1>16. ASSUME NEW r \in Runners, RunWaits(r)
      PROVE  ChansSuffice'
  <2>1. Accepted' = Accepted /\ Born' = Born /\ made' = made
    BY <1>16 DEF RunWaits, Accepted, Born
  <2> QED BY <2>1
<1>17. ASSUME NEW s \in Closers, Shutdown(s)
      PROVE  ChansSuffice'
  <2>1. Accepted' = Accepted /\ Born' = Born /\ made' = made
    BY <1>17 DEF Shutdown, Accepted, Born
  <2> QED BY <2>1
<1>18. ASSUME NEW s \in Closers, ShutdownDone(s)
      PROVE  ChansSuffice'
  <2>1. Accepted' = Accepted /\ Born' = Born /\ made' = made
    BY <1>18 DEF ShutdownDone, Accepted, Born
  <2> QED BY <2>1
<1>19. Next
  OBVIOUS
<1> QED
  BY ONLY <1>1, <1>2, <1>3, <1>4, <1>5, <1>6, <1>7, <1>8, <1>9, <1>10, <1>11, <1>12, <1>13,
     <1>14, <1>15, <1>16, <1>17, <1>18, <1>19 DEF Next, ConsumerStep, CarrierStep
-----------------------------------------------------------------------------
(* Where messages are does not change, or one comes and one goes. *)

LEMMA SameBuffers ==
  ASSUME buf' = buf, StoredOnce
  PROVE  Stored' = Stored /\ StoredOnce'
BY DEF Stored, StoredOnce

LEMMA SameHands ==
  ASSUME cm' = cm, TakenOnce
  PROVE  Taken' = Taken /\ TakenOnce'
BY DEF Taken, TakenOnce

LEMMA SamePlaces ==
  ASSUME Placed, UNCHANGED <<buf, cm, chan, sending, settled>>, closing' = closing \/ closing' = TRUE
  PROVE  Placed'
<1>1. /\ Stored' = Stored /\ StoredOnce' /\ Taken' = Taken /\ TakenOnce' /\ Accepted' = Accepted
  BY SameBuffers, SameHands DEF Placed, Accepted
<1> QED BY <1>1 DEF Placed, Apart, NoneDropped

LEMMA HandTakes ==
  ASSUME cm \in [Consumers -> Msgs \cup {None}], TakenOnce,
         NEW c \in Consumers, NEW m \in Msgs \ Taken, cm[c] = None, cm' = [cm EXCEPT ![c] = m]
  PROVE  Taken' = Taken \cup {m} /\ TakenOnce'
<1>1. Taken' = Taken \cup {m}
  BY NoneIsNoMessage DEF Taken
<1>2. \A d \in Consumers : cm[d] # m
  BY DEF Taken
<1> QED BY <1>1, <1>2, NoneIsNoMessage DEF TakenOnce

LEMMA HandDrops ==
  ASSUME cm \in [Consumers -> Msgs \cup {None}], TakenOnce,
         NEW c \in Consumers, cm' = [cm EXCEPT ![c] = None]
  PROVE  Taken' = Taken \ {cm[c]} /\ TakenOnce'
BY NoneIsNoMessage DEF Taken, TakenOnce

(* A message goes from its carrier to a buffer or a consumer, and on. *)
LEMMA KeepsPlaces ==
  ASSUME TypeOK, Wired, Placed, Next
  PROVE  Placed'
<1>0. StoredOnce /\ TakenOnce /\ Apart /\ NoneDropped
  BY DEF Placed
<1> USE <1>0
<1>1. ASSUME NEW p \in Producers, NEW m \in Msgs, AppendHit(p, m)
      PROVE  Placed'
  <2>1. /\ UNCHANGED <<buf, cm, settled, closing>> /\ chan[m] = 0
        /\ sending' = sending \cup {m} /\ chan' = [chan EXCEPT ![m] = queue[StreamOf[m]]] /\ queue[StreamOf[m]] # 0
    BY ONLY <1>1 DEF AppendHit, Carry, Unused, consumer, lifecycle
  <2>2. Accepted' = Accepted \cup {m} /\ m \notin Accepted
    BY <2>1 DEF Accepted, TypeOK
  <2>3. Stored' = Stored /\ StoredOnce' /\ Taken' = Taken /\ TakenOnce'
    BY <2>1, SameBuffers, SameHands
  <2> QED BY ONLY <2>1, <2>2, <2>3, <1>0 DEF Placed, Apart, NoneDropped
<1>2. ASSUME NEW p \in Producers, NEW m \in Msgs, AppendMiss(p, m)
      PROVE  Placed'
  <2>1. UNCHANGED <<buf, cm, chan, sending, settled>> /\ (closing' = closing \/ closing' = TRUE)
    BY ONLY <1>2 DEF AppendMiss, Unused, messages, consumer, lifecycle
  <2> QED BY <2>1, SamePlaces
<1>3. ASSUME NEW p \in Producers, AppendStore(p)
      PROVE  Placed'
  <2>1. arg[p] \in Msgs /\ chan[arg[p]] = 0 /\ made + 1 # 0
    BY <1>3, OnAChannel DEF AppendStore, Wired, TypeOK
  <2>2. /\ UNCHANGED <<buf, cm, settled, closing>>
        /\ sending' = sending \cup {arg[p]} /\ chan' = [chan EXCEPT ![arg[p]] = made + 1]
    BY ONLY <1>3 DEF AppendStore, Carry, consumer, lifecycle
  <2>3. Accepted' = Accepted \cup {arg[p]} /\ arg[p] \notin Accepted
    BY <2>1, <2>2 DEF Accepted, TypeOK
  <2>4. Stored' = Stored /\ StoredOnce' /\ Taken' = Taken /\ TakenOnce'
    BY <2>2, SameBuffers, SameHands
  <2> QED BY ONLY <2>2, <2>3, <2>4, <1>0 DEF Placed, Apart, NoneDropped
<1>4. ASSUME NEW m \in Msgs, Send(m)
      PROVE  Placed'
  <2>1. /\ UNCHANGED <<cm, chan, settled, closing>> /\ m \in sending
        /\ sending' = sending \ {m} /\ buf' = [buf EXCEPT ![chan[m]] = Append(buf[chan[m]], m)]
    BY ONLY <1>4 DEF Send, consumer, lifecycle
  <2>2. m \in Msgs \ Stored /\ chan[m] \in Chans /\ buf \in [Chans -> Seq(Msgs)]
    BY <2>1, OnAChannel DEF Apart, TypeOK
  <2>3. Stored' = Stored \cup {m} /\ StoredOnce'
    BY <2>1, <2>2, BufferGains
  <2>4. Taken' = Taken /\ TakenOnce' /\ Accepted' = Accepted
    BY <2>1, SameHands DEF Accepted
  <2> QED BY ONLY <2>1, <2>3, <2>4, <1>0 DEF Placed, Apart, NoneDropped
<1>5. ASSUME NEW m \in Msgs, GiveUpSending(m)
      PROVE  Placed'
  <2>1. UNCHANGED <<buf, cm, chan, settled, closing>> /\ closing /\ sending' = sending \ {m}
    BY ONLY <1>5 DEF GiveUpSending, consumer, lifecycle
  <2>2. /\ Stored' = Stored /\ StoredOnce' /\ Taken' = Taken /\ TakenOnce' /\ Accepted' = Accepted
    BY <2>1, SameBuffers, SameHands DEF Accepted
  <2> QED BY ONLY <2>1, <2>2, <1>0 DEF Placed, Apart, NoneDropped
<1>6. ASSUME NEW c \in Consumers, NEW s \in Streams, Register(c, s)
      PROVE  Placed'
  <2>1. UNCHANGED <<buf, cm, chan, sending, settled>> /\ (closing' = closing \/ closing' = TRUE)
    BY ONLY <1>6 DEF Register, messages, consumer, lifecycle
  <2> QED BY <2>1, SamePlaces
<1>7. ASSUME NEW c \in Consumers, ReceiveBuffered(c)
      PROVE  Placed'
  <2>1. cq[c] \in Chans /\ buf \in [Chans -> Seq(Msgs)] /\ cm[c] = None
    BY <1>7, OnAChannel DEF ReceiveBuffered, Born, Wired, TypeOK
  <2>2. PICK m : m = Head(buf[cq[c]])
    OBVIOUS
  <2>3. /\ UNCHANGED <<chan, sending, settled, closing>> /\ cm' = [cm EXCEPT ![c] = m]
        /\ buf[cq[c]] # <<>> /\ buf' = [buf EXCEPT ![cq[c]] = Tail(buf[cq[c]])]
    BY ONLY <1>7, <2>2 DEF ReceiveBuffered, Handle, lifecycle
  <2>4. m \in Stored /\ Stored' = Stored \ {m} /\ StoredOnce'
    BY <2>1, <2>2, <2>3, BufferLoses
  <2>5. m \in Msgs \ Taken
    BY <2>4 DEF Apart, Stored
  <2>6. Taken' = Taken \cup {m} /\ TakenOnce' /\ Accepted' = Accepted
    BY <2>1, <2>3, <2>5, HandTakes DEF TypeOK, Accepted
  <2> QED BY ONLY <2>3, <2>4, <2>6, <1>0 DEF Placed, Apart, NoneDropped
<1>8. ASSUME NEW c \in Consumers, NEW m \in Msgs, ReceiveDirect(c, m)
      PROVE  Placed'
  <2>1. /\ UNCHANGED <<buf, chan, settled, closing>> /\ cm' = [cm EXCEPT ![c] = m]
        /\ m \in sending /\ sending' = sending \ {m}
    BY ONLY <1>8 DEF ReceiveDirect, Handle, lifecycle
  <2>2. m \in Msgs \ Taken /\ cm[c] = None
    BY <1>8, <2>1 DEF ReceiveDirect, Apart, Wired
  <2>3. Taken' = Taken \cup {m} /\ TakenOnce' /\ Accepted' = Accepted
    BY <2>1, <2>2, HandTakes DEF TypeOK, Accepted
  <2>4. Stored' = Stored /\ StoredOnce'
    BY <2>1, SameBuffers
  <2> QED BY ONLY <2>1, <2>3, <2>4, <1>0 DEF Placed, Apart, NoneDropped
<1>9. ASSUME NEW c \in Consumers, NEW d \in Consumers, ReceiveResent(c, d)
      PROVE  Placed'
  <2>1. /\ UNCHANGED <<buf, chan, sending, settled, closing>> /\ cm' = [cm EXCEPT ![c] = cm[d], ![d] = None]
        /\ cpc[c] = "receive" /\ cpc[d] = "resend"
    BY ONLY <1>9 DEF ReceiveResent, lifecycle
  <2>2. c # d /\ cm[c] = None /\ cm[d] # None /\ cm \in [Consumers -> Msgs \cup {None}]
    BY <2>1 DEF Wired, TypeOK
  <2>3. Taken' = Taken /\ TakenOnce'
    <3>1. cm'[c] = cm[d] /\ cm'[d] = None /\ \A e \in Consumers \ {c, d} : cm'[e] = cm[e]
      BY <2>1, <2>2
    <3>2. Taken' = Taken
      BY ONLY <2>2, <3>1, NoneIsNoMessage DEF Taken
    <3>3. TakenOnce'
      BY ONLY <2>2, <3>1, <1>0 DEF TakenOnce
    <3> QED BY <3>2, <3>3
  <2>4. Stored' = Stored /\ StoredOnce' /\ Accepted' = Accepted
    BY <2>1, SameBuffers DEF Accepted
  <2> QED BY ONLY <2>1, <2>3, <2>4, <1>0 DEF Placed, Apart, NoneDropped
<1>10. ASSUME NEW c \in Consumers, HandlerSucceeds(c)
      PROVE  Placed'
  <2>1. /\ UNCHANGED <<buf, chan, sending, closing>> /\ cm' = [cm EXCEPT ![c] = None]
        /\ settled' = settled \cup {cm[c]}
    BY ONLY <1>10 DEF HandlerSucceeds, lifecycle
  <2>2. cm[c] \in Taken
    BY <1>10, NoneIsNoMessage DEF HandlerSucceeds, Taken, Wired, TypeOK
  <2>3. Taken' = Taken \ {cm[c]} /\ TakenOnce' /\ Accepted' = Accepted
    BY <2>1, HandDrops DEF TypeOK, Accepted
  <2>4. Stored' = Stored /\ StoredOnce'
    BY <2>1, SameBuffers
  <2> QED BY ONLY <2>1, <2>2, <2>3, <2>4, <1>0 DEF Placed, Apart, NoneDropped
<1>11. ASSUME NEW c \in Consumers, HandlerFails(c)
      PROVE  Placed'
  <2>1. CASE errors[cm[c]] >= MaxErrors
    <3>1. /\ UNCHANGED <<buf, chan, sending, closing>> /\ cm' = [cm EXCEPT ![c] = None]
          /\ settled' = settled \cup {cm[c]}
      BY ONLY <1>11, <2>1 DEF HandlerFails, lifecycle
    <3>2. cm[c] \in Taken
      BY <1>11, NoneIsNoMessage DEF HandlerFails, Taken, Wired, TypeOK
    <3>3. Taken' = Taken \ {cm[c]} /\ TakenOnce' /\ Accepted' = Accepted
      BY <3>1, HandDrops DEF TypeOK, Accepted
    <3>4. Stored' = Stored /\ StoredOnce'
      BY <3>1, SameBuffers
    <3> QED BY ONLY <3>1, <3>2, <3>3, <3>4, <1>0 DEF Placed, Apart, NoneDropped
  <2>2. CASE ~(errors[cm[c]] >= MaxErrors)
    <3>1. UNCHANGED <<buf, cm, chan, sending, settled, closing>>
      BY ONLY <1>11, <2>2 DEF HandlerFails, lifecycle
    <3> QED BY <3>1, SamePlaces DEF Placed
  <2> QED BY <2>1, <2>2
<1>12. ASSUME NEW c \in Consumers, BackoffOver(c)
      PROVE  Placed'
  <2>1. UNCHANGED <<buf, cm, chan, sending, settled>> /\ (closing' = closing \/ closing' = TRUE)
    BY ONLY <1>12 DEF BackoffOver, messages, consumer, lifecycle
  <2> QED BY <2>1, SamePlaces
<1>13. ASSUME NEW c \in Consumers, Resend(c)
      PROVE  Placed'
  <2>1. cq[c] \in Chans /\ buf \in [Chans -> Seq(Msgs)] /\ cm[c] \in Taken
    BY <1>13, OnAChannel, NoneIsNoMessage DEF Resend, Born, Wired, TypeOK, Taken
  <2>2. PICK m : m = cm[c]
    OBVIOUS
  <2>3. /\ UNCHANGED <<chan, sending, settled, closing>> /\ cm' = [cm EXCEPT ![c] = None]
        /\ buf' = [buf EXCEPT ![cq[c]] = Append(buf[cq[c]], m)]
    BY ONLY <1>13, <2>2 DEF Resend, messages, lifecycle
  <2>4. m \in Msgs \ Stored
    BY <2>1, <2>2 DEF Apart, Taken
  <2>5. Stored' = Stored \cup {m} /\ StoredOnce'
    BY <2>1, <2>3, <2>4, BufferGains
  <2>6. Taken' = Taken \ {m} /\ TakenOnce' /\ Accepted' = Accepted
    BY <2>2, <2>3, HandDrops DEF TypeOK, Accepted
  <2> QED BY ONLY <2>1, <2>2, <2>3, <2>5, <2>6, <1>0 DEF Placed, Apart, NoneDropped
<1>14. ASSUME NEW c \in Consumers, Exit(c)
      PROVE  Placed'
  <2>1. UNCHANGED <<buf, chan, sending, settled, closing>> /\ closing /\ cm' = [cm EXCEPT ![c] = None]
    BY ONLY <1>14 DEF Exit, messages, lifecycle
  <2>2. Taken' = Taken \ {cm[c]} /\ TakenOnce' /\ Accepted' = Accepted /\ Stored' = Stored /\ StoredOnce'
    BY <2>1, HandDrops, SameBuffers DEF TypeOK, Accepted
  <2> QED BY ONLY <2>1, <2>2, <1>0 DEF Placed, Apart, NoneDropped
<1>15. ASSUME NEW r \in Runners, Run(r)
      PROVE  Placed'
  <2>1. UNCHANGED <<buf, cm, chan, sending, settled>> /\ (closing' = closing \/ closing' = TRUE)
    BY ONLY <1>15 DEF Run, messages, consumer, lifecycle
  <2> QED BY <2>1, SamePlaces
<1>16. ASSUME NEW r \in Runners, RunWaits(r)
      PROVE  Placed'
  <2>1. UNCHANGED <<buf, cm, chan, sending, settled>> /\ (closing' = closing \/ closing' = TRUE)
    BY ONLY <1>16 DEF RunWaits, messages, consumer, lifecycle
  <2> QED BY <2>1, SamePlaces
<1>17. ASSUME NEW s \in Closers, Shutdown(s)
      PROVE  Placed'
  <2>1. UNCHANGED <<buf, cm, chan, sending, settled>> /\ (closing' = closing \/ closing' = TRUE)
    BY ONLY <1>17 DEF Shutdown, messages, consumer, lifecycle
  <2> QED BY <2>1, SamePlaces
<1>18. ASSUME NEW s \in Closers, ShutdownDone(s)
      PROVE  Placed'
  <2>1. UNCHANGED <<buf, cm, chan, sending, settled>> /\ (closing' = closing \/ closing' = TRUE)
    BY ONLY <1>18 DEF ShutdownDone, messages, consumer, lifecycle
  <2> QED BY <2>1, SamePlaces
<1>19. Next
  OBVIOUS
<1> QED
  BY ONLY <1>1, <1>2, <1>3, <1>4, <1>5, <1>6, <1>7, <1>8, <1>9, <1>10, <1>11, <1>12, <1>13,
     <1>14, <1>15, <1>16, <1>17, <1>18, <1>19 DEF Next, ConsumerStep, CarrierStep
-----------------------------------------------------------------------------
LEMMA StepInv == IInv /\ [Next]_vars => IInv'
<1> SUFFICES ASSUME IInv, [Next]_vars PROVE IInv'
  OBVIOUS
<1>1. CASE Next
  BY <1>1, KeepsType, KeepsWired, KeepsCount, KeepsPlaces, KeepsStopping DEF IInv
<1>2. CASE UNCHANGED vars
  <2>1. Placed'
    BY <1>2, SamePlaces DEF IInv, vars, messages, consumer, lifecycle
  <2>2. TypeOK'
    BY <1>2 DEF IInv, TypeOK, vars, messages, consumer, lifecycle
  <2>3. Wired' /\ ChansSuffice' /\ Stopping' /\ DrainedForGood'
    BY <1>2
       DEF IInv, Wired, ChansSuffice, Stopping, DrainedForGood, Born, Accepted, vars, messages,
       consumer, lifecycle
  <2> QED BY <2>1, <2>2, <2>3 DEF IInv
<1> QED BY <1>1, <1>2

(* A handler never outlives Run: Run goes on only after a Shutdown, which  *)
(* no Register follows.                                                    *)
THEOREM Invariance == Spec => [](TypeOK /\ DrainedForGood)
<1>1. IInv => TypeOK /\ DrainedForGood
  BY DEF IInv
<1> QED BY <1>1, InitialInv, StepInv, PTL DEF Spec

(* How often a message is in a buffer or with a consumer. *)
LEMMA AtMostOne ==
  ASSUME IInv, NEW m \in Msgs
  PROVE  /\ Cardinality(Buffered(m)) = IF m \in Stored THEN 1 ELSE 0
         /\ Cardinality(Holders(m)) = IF m \in Taken THEN 1 ELSE 0
<1>0. PoolNum \in Nat /\ \A q \in Chans : Len(buf[q]) \in Nat /\ Len(buf[q]) <= PoolNum
  BY Capacity DEF IInv, TypeOK
<1>1. \A q \in Chans : \A i \in 1..Len(buf[q]) : i \in 1..PoolNum /\ i <= Len(buf[q])
  BY <1>0
<1>2. \A q \in Chans : \A i \in 1..PoolNum : i <= Len(buf[q]) => i \in 1..Len(buf[q])
  BY <1>0
<1>3. ASSUME m \in Stored PROVE \E a : Buffered(m) = {a}
  <2>1. PICK q \in Chans : \E i \in 1..Len(buf[q]) : buf[q][i] = m
    BY <1>3 DEF Stored
  <2>2. PICK i \in 1..Len(buf[q]) : buf[q][i] = m
    BY <2>1
  <2>3. <<q, i>> \in Buffered(m)
    BY <1>1, <2>2 DEF Buffered
  <2>4. ASSUME NEW at \in Buffered(m) PROVE at = <<q, i>>
    <3>1. /\ at \in Chans \X (1..PoolNum) /\ at[1] \in Chans /\ at[2] \in 1..PoolNum /\ at = <<at[1], at[2]>>
          /\ at[2] <= Len(buf[at[1]]) /\ buf[at[1]][at[2]] = m
      BY <2>4 DEF Buffered
    <3>2. at[2] \in 1..Len(buf[at[1]])
      BY <1>2, <3>1
    <3>3. at[1] = q /\ at[2] = i
      BY <2>2, <3>1, <3>2 DEF IInv, Placed, StoredOnce
    <3> QED BY <3>1, <3>3
  <2> QED BY <2>3, <2>4
<1>4. ASSUME m \notin Stored PROVE Buffered(m) = {}
  <2> SUFFICES ASSUME NEW at \in Buffered(m) PROVE FALSE
    OBVIOUS
  <2>1. at[1] \in Chans /\ at[2] \in 1..PoolNum /\ at[2] <= Len(buf[at[1]]) /\ buf[at[1]][at[2]] = m
    BY DEF Buffered
  <2>2. at[2] \in 1..Len(buf[at[1]])
    BY <1>2, <2>1
  <2> QED BY <1>4, <2>1, <2>2 DEF Stored
<1>5. ASSUME m \in Taken PROVE \E c : Holders(m) = {c}
  <2>1. PICK c \in Consumers : cm[c] = m
    BY <1>5 DEF Taken
  <2>2. Holders(m) = {c}
    BY <2>1, NoneIsNoMessage DEF Holders, IInv, Placed, TakenOnce
  <2> QED BY <2>2
<1>6. m \notin Taken => Holders(m) = {}
  BY DEF Holders, Taken
<1> QED BY <1>3, <1>4, <1>5, <1>6, FS_EmptySet, FS_Singleton

(* Append, retries and hand-overs neither lose nor duplicate a message,    *)
(* whatever the capacity and however many producers and consumers.         *)
THEOREM InOnePlace == Spec => []OneCopy
<1>1. IInv => OneCopy
  <2> SUFFICES ASSUME IInv, NEW m \in Msgs
               PROVE  /\ Copies(m) <= 1
                      /\ m \in settled => Copies(m) = 0
                      /\ m \in Accepted \ settled /\ ~closing => Copies(m) = 1
    BY DEF OneCopy
  <2>1. Copies(m) = (IF m \in sending THEN 1 ELSE 0) + (IF m \in Stored THEN 1 ELSE 0) + (IF m \in Taken THEN 1 ELSE 0)
    BY AtMostOne DEF Copies
  <2>2. /\ ~(m \in sending /\ m \in Stored) /\ ~(m \in sending /\ m \in Taken) /\ ~(m \in Stored /\ m \in Taken)
        /\ m \in settled => m \notin sending /\ m \notin Stored /\ m \notin Taken
        /\ m \in Accepted \ settled /\ ~closing => m \in sending \/ m \in Stored \/ m \in Taken
    BY DEF IInv, Placed, Apart, NoneDropped
  <2> QED BY ONLY <2>1, <2>2
<1> QED BY <1>1, InitialInv, StepInv, PTL DEF Spec
=============================================================================
