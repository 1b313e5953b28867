--------------------------- MODULE RedisQueueProofs ---------------------------
(***************************************************************************)
(* Proofs about the stream consumer of queue/redis for any messages,       *)
(* workers, capacities and bounds: delivery at least once, duplicates only *)
(* for a reason, and an orderly shutdown.                                  *)
(***************************************************************************)
EXTENDS RedisQueue, FiniteSetTheorems, SequenceTheorems, WellFoundedInduction, TLAPS

\* An entry the group has handed out is in the stream unless it was dealt with.
HandedOut ==
  /\ delivered \subseteq ToSet(stream) \cup done \cup trimmed
  /\ rpc \in {"claim", "put"} => claimed \in delivered
  /\ ppc = "put" => batch # <<>>
  /\ \A w \in Workers : /\ wmsg[w] # None <=> wpc[w] \in {"handle", "ack", "del"}
                        /\ wpc[w] \in {"ack", "del"} => wmsg[w] \in done
                        /\ gpc # "consume" => wpc[w] \in {"off", "exited"}

AckedInv == TypeOK /\ HandedOut /\ AckedMeansDone
-----------------------------------------------------------------------------
Returned == \E a \in Calls : apc[a] = "returned"

\* With an application that calls Run and Shutdown in order.
Lifecycle ==
  /\ gpc # "none" \/ apc["run"] # "no" => registered
  /\ registered /\ ~Closing => current
  /\ stopCh \/ qclosed \/ Returned => Closing
  /\ ppc = "done" \/ rpc = "done" => stopCh
  /\ qclosed => ppc = "off" /\ rpc = "off"
  /\ gpc \in {"enter", "prepare"} => ~qclosed
  /\ gpc # "consume" => ppc = "off" /\ rpc = "off" /\ queue = <<>>
  /\ ppc # "put" => batch = <<>>
  /\ Returned => gpc = "none"
  /\ \A w \in Workers : wpc[w] = "exited" => qclosed /\ queue = <<>>
  /\ ~panicked

ShutdownInv == AckedInv /\ Lifecycle
-----------------------------------------------------------------------------
\* How often m is in a sequence; who else has it or will have it.
Copies(s, m) == Cardinality({i \in DOMAIN s : s[i] = m})
InBatch(m) == IF m \in ToSet(batch) THEN 1 ELSE 0
InClaim(m) == IF rpc = "put" /\ claimed = m THEN 1 ELSE 0
IsOverdue(m) == IF m \in overdue THEN 1 ELSE 0

HasIt(m) == \/ m \in ToSet(queue) \/ m \in ToSet(batch)
            \/ rpc = "put" /\ claimed = m
            \/ \E w \in Workers : wmsg[w] = m

\* Each call that was made, or that will be made of what is on its way, has its reason.
Paid == \A m \in Msgs : calls[m] + Copies(queue, m) + InBatch(m) + InClaim(m) + IsOverdue(m)
                          <= 1 + fails[m] + faults

\* A pending message that nobody has was not called yet, or there is a reason to do so again.
Owed == \A m \in pending \ overdue : ~HasIt(m) => calls[m] <= fails[m] + faults

Unseen == \A m \in Msgs \ delivered : calls[m] = 0 /\ ~HasIt(m)

AckedOnce == \A w \in Workers : wpc[w] = "del" => wmsg[w] \notin pending

RepeatInv == ShutdownInv /\ IsInjective(batch) /\ Paid /\ Owed /\ Unseen /\ AckedOnce
-----------------------------------------------------------------------------
(* Smallest and largest numbers, which SelectLastInSeq chooses. *)

LEMMA Smallest ==
  ASSUME NEW S \in SUBSET Nat, S # {}
  PROVE  \E m \in S : \A n \in S : m <= n
<1>1. PICK m \in S : \A n \in S : <<n, m>> \notin OpToRel(<, Nat)
  BY WFMin, NatLessThanWellFounded
<1>2. \A n \in S : ~(n < m)
  BY <1>1 DEF OpToRel
<1> QED BY <1>2

LEMMA LargestIsMax ==
  ASSUME NEW S \in SUBSET Nat, S # {}, NEW b \in Nat, \A n \in S : n <= b
  PROVE  Max(S) \in S /\ \A n \in S : n <= Max(S)
<1> DEFINE U == {u \in Nat : \A n \in S : n <= u}
<1>1. PICK m \in U : \A u \in U : m <= u
  <2>1. b \in U /\ U \in SUBSET Nat
    OBVIOUS
  <2> HIDE DEF U
  <2> QED BY <2>1, Smallest
<1>2. m \in S
  <2>1. PICK n \in S : n <= m /\ n \in Nat
    BY <1>1
  <2>2. CASE m = 0
    BY <2>1, <2>2
  <2>3. CASE m # 0
    <3>1. m - 1 \in Nat /\ m - 1 \notin U
      BY <1>1, <2>3
    <3>2. PICK k \in S : ~(k <= m - 1)
      BY <3>1
    <3> QED BY <1>1, <2>3, <3>2
  <2> QED BY <2>2, <2>3
<1>3. \E x \in S : \A n \in S : x >= n
  BY <1>1, <1>2
<1> QED BY <1>3 DEF Max

\* What was appended after the last entry handed out has not been handed out.
LEMMA UnreadIsNew ==
  ASSUME stream \in Seq(Msgs), IsInjective(stream)
  PROVE  /\ Unread \in Seq(Msgs) /\ Len(Unread) \in Nat
         /\ \A i, j \in 1..Len(Unread) : Unread[i] = Unread[j] => i = j
         /\ \A i \in 1..Len(Unread) : Unread[i] \in ToSet(stream) \ delivered
<1>1. PICK n : n = SelectLastInSeq(stream, LAMBDA m : m \in delivered)
  OBVIOUS
<1>2. PICK I : I = {i \in 1..Len(stream) : stream[i] \in delivered}
  OBVIOUS
<1>3. n = IF I # {} THEN Max(I) ELSE 0
  BY <1>1, <1>2 DEF SelectLastInSeq
<1>4. Len(stream) \in Nat /\ n \in 0..Len(stream) /\ \A i \in n + 1..Len(stream) : stream[i] \notin delivered
  <2>1. Len(stream) \in Nat
    OBVIOUS
  <2>2. CASE I = {}
    BY <1>2, <1>3, <2>1, <2>2
  <2>3. CASE I # {}
    <3>1. I \in SUBSET Nat /\ \A i \in I : i <= Len(stream)
      BY <1>2, <2>1
    <3>2. n \in I /\ \A i \in I : i <= n
      BY <1>3, <2>1, <2>3, <3>1, LargestIsMax
    <3> QED BY ONLY <1>2, <2>1, <3>2
  <2> QED BY <2>2, <2>3
<1>5. PICK u : u = SubSeq(stream, n + 1, Len(stream))
  OBVIOUS
<1>6. u \in Seq(Msgs) /\ Len(u) = Len(stream) - n /\ \A i \in 1..Len(stream) - n : u[i] = stream[n + i]
  BY <1>4, <1>5
<1>7. \A i \in 1..Len(stream) - n : n + i \in 1..Len(stream) /\ n + i \in n + 1..Len(stream) /\ i \in Int
  BY <1>4
<1>8. Unread = u
  BY <1>1, <1>5 DEF Unread
<1>9. \A i, j \in 1..Len(u) : u[i] = u[j] => i = j
  <2> SUFFICES ASSUME NEW i \in 1..Len(u), NEW j \in 1..Len(u), u[i] = u[j] PROVE i = j
    OBVIOUS
  <2>1. n + i \in 1..Len(stream) /\ n + j \in 1..Len(stream) /\ stream[n + i] = stream[n + j]
    BY <1>6, <1>7
  <2>2. n + i = n + j
    BY <2>1 DEF IsInjective
  <2> QED BY <1>4, <1>6, <1>7, <2>2
<1>10. \A i \in 1..Len(u) : u[i] \in ToSet(stream) \ delivered
  BY <1>4, <1>6, <1>7 DEF ToSet
<1> QED BY <1>4, <1>6, <1>8, <1>9, <1>10

LEMMA Reading ==
  ASSUME TypeOK, PollRead
  PROVE  /\ batch' \in Seq(Msgs) /\ batch' # <<>> /\ IsInjective(batch')
         /\ ToSet(batch') \subseteq ToSet(stream) \ delivered /\ ToSet(batch') \subseteq Msgs
<1>1. PICK u : u = Unread
  OBVIOUS
<1>2. /\ u \in Seq(Msgs) /\ Len(u) \in Nat /\ \A i, j \in 1..Len(u) : u[i] = u[j] => i = j
      /\ \A i \in 1..Len(u) : u[i] \in ToSet(stream) \ delivered
  BY <1>1, UnreadIsNew DEF TypeOK
<1>3. PICK k : /\ batch' = SubSeq(u, 1, k) /\ u # <<>>
               /\ k = IF BufferSize - Len(queue) = 0 \/ BufferSize - Len(queue) > Len(u)
                      THEN Len(u) ELSE BufferSize - Len(queue)
  BY <1>1 DEF PollRead
<1>4. Len(queue) \in Nat /\ Len(queue) <= BufferSize /\ BufferSize \in Nat
  BY Sizes DEF TypeOK
<1>5. k \in 1..Len(u)
  <2>1. Len(u) # 0
    BY <1>2, <1>3
  <2> QED BY ONLY <1>2, <1>3, <1>4, <2>1
<1>6. batch' \in Seq(Msgs) /\ Len(batch') = k /\ DOMAIN batch' = 1..k /\ \A i \in 1..k : batch'[i] = u[i]
  BY <1>2, <1>3, <1>5
<1>7. 1..k \subseteq 1..Len(u) /\ k # 0
  BY <1>2, <1>5
<1>8. IsInjective(batch') /\ ToSet(batch') \subseteq ToSet(stream) \ delivered
  BY <1>2, <1>6, <1>7 DEF IsInjective, ToSet
<1>9. \A i \in 1..k : batch'[i] \in Msgs
  BY <1>6
<1> QED BY <1>6, <1>7, <1>8, <1>9 DEF ToSet

(* The stream without one entry, and with one more. *)

LEMMA WithoutOne ==
  ASSUME NEW S, NEW s \in Seq(S), NEW k \in 1..Len(s)
  PROVE  \E t \in Seq(S) :
           /\ t = RemoveAt(s, k) /\ Len(t) = Len(s) - 1
           /\ \A i \in 1..k - 1 : t[i] = s[i]
           /\ \A i \in k..Len(s) - 1 : t[i] = s[i + 1]
<1>1. PICK a : a = SubSeq(s, 1, k - 1)
  OBVIOUS
<1>2. PICK b : b = SubSeq(s, k + 1, Len(s))
  OBVIOUS
<1>3. /\ a \in Seq(S) /\ Len(a) = k - 1
      /\ \A i \in 1..k - 1 : a[i] = s[i]
  BY <1>1
<1>4. /\ b \in Seq(S) /\ Len(b) = Len(s) - k
      /\ \A i \in 1..Len(s) - k : b[i] = s[k + i]
  BY <1>2
<1>5. /\ a \o b \in Seq(S) /\ Len(a \o b) = Len(s) - 1
      /\ \A i \in 1..k - 1 : (a \o b)[i] = s[i]
      /\ \A i \in k..Len(s) - 1 : (a \o b)[i] = s[i + 1]
  <2>0. Len(s) \in Nat /\ k \in Nat
    OBVIOUS
  <2>1. /\ a \o b \in Seq(S) /\ Len(a \o b) = Len(s) - 1
        /\ \A i \in 1..Len(s) - 1 : (a \o b)[i] = IF i <= k - 1 THEN a[i] ELSE b[i - (k - 1)]
    <3>1. Len(a) + Len(b) = Len(s) - 1
      BY <1>3, <1>4, <2>0
    <3>2. /\ a \o b \in Seq(S) /\ Len(a \o b) = Len(a) + Len(b)
          /\ \A i \in 1..Len(a) + Len(b) : (a \o b)[i] = IF i <= Len(a) THEN a[i] ELSE b[i - Len(a)]
      BY ONLY <1>3, <1>4, ConcatProperties, Zenon
    <3> QED BY ONLY <1>3, <3>1, <3>2, Zenon
  <2>2. \A i \in k..Len(s) - 1 : i - (k - 1) \in 1..Len(s) - k /\ k + (i - (k - 1)) = i + 1
    BY <2>0
  <2> QED BY <1>3, <1>4, <2>0, <2>1, <2>2
<1> QED BY <1>1, <1>2, <1>5 DEF RemoveAt

LEMMA RemoveOnly ==
  ASSUME NEW s \in Seq(Msgs), IsInjective(s), NEW c
  PROVE  /\ RemoveFirst(s, c) \in Seq(Msgs)
         /\ IsInjective(RemoveFirst(s, c))
         /\ ToSet(RemoveFirst(s, c)) = ToSet(s) \ {c}
<1>1. CASE \A i \in 1..Len(s) : s[i] # c
  <2>1. RemoveFirst(s, c) = s
    BY <1>1 DEF RemoveFirst
  <2>2. c \notin ToSet(s)
    BY <1>1 DEF ToSet
  <2> QED BY <2>1, <2>2
<1>2. ASSUME NEW k \in 1..Len(s), s[k] = c
      PROVE  /\ RemoveFirst(s, c) \in Seq(Msgs)
             /\ IsInjective(RemoveFirst(s, c))
             /\ ToSet(RemoveFirst(s, c)) = ToSet(s) \ {c}
  <2>0. \A i, j \in 1..Len(s) : s[i] = s[j] => i = j
    BY DEF IsInjective
  <2>1. {i \in 1..Len(s) : s[i] = c} = {k}
    BY <1>2, <2>0
  <2>2. Min({k}) = k
    BY DEF Min
  <2>3. RemoveFirst(s, c) = RemoveAt(s, k)
    BY <1>2, <2>1, <2>2 DEF RemoveFirst, SelectInSeq
  <2>4. PICK t \in Seq(Msgs) :
           /\ t = RemoveAt(s, k) /\ Len(t) = Len(s) - 1
           /\ \A i \in 1..k - 1 : t[i] = s[i]
           /\ \A i \in k..Len(s) - 1 : t[i] = s[i + 1]
    BY WithoutOne
  <2>5. DOMAIN t = 1..Len(s) - 1 /\ Len(s) \in Nat
    BY <2>4
  <2>6. IsInjective(t)
    <3> SUFFICES ASSUME NEW i \in 1..Len(s) - 1, NEW j \in 1..Len(s) - 1, t[i] = t[j]
                 PROVE  i = j
      BY <2>5 DEF IsInjective
    <3> QED BY <2>0, <2>4, <2>5
  <2>7. ToSet(t) \subseteq ToSet(s) \ {c}
    <3> SUFFICES ASSUME NEW i \in 1..Len(s) - 1 PROVE t[i] \in ToSet(s) \ {c}
      BY <2>5 DEF ToSet
    <3>1. PICK j \in 1..Len(s) : t[i] = s[j] /\ j # k
      BY <2>4, <2>5
    <3> QED BY <1>2, <2>0, <3>1 DEF ToSet
  <2>8. ToSet(s) \ {c} \subseteq ToSet(t)
    <3> SUFFICES ASSUME NEW i \in 1..Len(s), i # k PROVE s[i] \in ToSet(t)
      BY <1>2 DEF ToSet
    <3>1. PICK j \in 1..Len(s) - 1 : t[j] = s[i]
      <4>1. CASE i < k
        BY <2>4, <2>5, <4>1
      <4>2. CASE i > k
        <5>1. i - 1 \in k..Len(s) - 1 /\ (i - 1) + 1 = i
          BY <2>5, <4>2
        <5>2. t[i - 1] = s[i]
          BY <2>4, <5>1
        <5> QED BY <5>1, <5>2
      <4> QED BY <4>1, <4>2
    <3> QED BY <2>5, <3>1 DEF ToSet
  <2> QED BY <2>3, <2>4, <2>6, <2>7, <2>8
<1> QED BY <1>1, <1>2

LEMMA Appended ==
  ASSUME NEW s \in Seq(Msgs), IsInjective(s), NEW m \in Msgs \ ToSet(s)
  PROVE  /\ Append(s, m) \in Seq(Msgs) /\ IsInjective(Append(s, m)) /\ ToSet(Append(s, m)) = ToSet(s) \cup {m}
<1>1. PICK t : t = Append(s, m)
  OBVIOUS
<1>2. /\ t \in Seq(Msgs) /\ Len(t) = Len(s) + 1 /\ Len(s) \in Nat /\ t[Len(s) + 1] = m
      /\ \A i \in 1..Len(s) : t[i] = s[i]
  BY <1>1
<1>3. 1..Len(t) = 1..Len(s) \cup {Len(t)} /\ DOMAIN t = 1..Len(t) /\ DOMAIN s = 1..Len(s)
  BY <1>2
<1>4. \A i \in 1..Len(s) : s[i] # m
  BY DEF ToSet
<1>5. IsInjective(t)
  BY <1>2, <1>3, <1>4 DEF IsInjective
<1>6. ToSet(t) = ToSet(s) \cup {m}
  BY <1>2, <1>3 DEF ToSet
<1> QED BY <1>1, <1>2, <1>5, <1>6

LEMMA Shortened ==
  ASSUME NEW s \in Seq(Msgs), s # <<>>
  PROVE  /\ Head(s) \in Msgs /\ Head(s) \in ToSet(s) /\ Tail(s) \in Seq(Msgs) /\ Len(Tail(s)) = Len(s) - 1
         /\ ToSet(s) = ToSet(Tail(s)) \cup {Head(s)}
         /\ IsInjective(s) => IsInjective(Tail(s)) /\ ToSet(Tail(s)) = ToSet(s) \ {Head(s)}
<1>1. PICK t : t = Tail(s)
  OBVIOUS
<1>2. /\ t \in Seq(Msgs) /\ Len(t) = Len(s) - 1 /\ Len(s) \in Nat /\ Len(s) >= 1 /\ Head(s) = s[1] /\ s[1] \in Msgs
      /\ \A i \in 1..Len(s) - 1 : t[i] = s[i + 1]
  BY <1>1
<1>3. DOMAIN t = 1..Len(s) - 1 /\ DOMAIN s = 1..Len(s)
  BY <1>2
<1>4. \A i \in 1..Len(s) : i = 1 \/ (i - 1 \in 1..Len(s) - 1 /\ t[i - 1] = s[i])
  <2> SUFFICES ASSUME NEW i \in 1..Len(s), i # 1 PROVE i - 1 \in 1..Len(s) - 1 /\ t[i - 1] = s[i]
    OBVIOUS
  <2>1. i - 1 \in 1..Len(s) - 1 /\ (i - 1) + 1 = i
    BY <1>2
  <2> QED BY <1>2, <2>1
<1>5. \A i \in 1..Len(s) - 1 : i + 1 \in 1..Len(s) /\ i + 1 # 1 /\ i \in Int
  BY <1>2
<1>6. 1 \in 1..Len(s)
  BY <1>2
<1>7. ToSet(s) = ToSet(t) \cup {s[1]}
  <2>1. ASSUME NEW i \in 1..Len(s) PROVE s[i] \in ToSet(t) \cup {s[1]}
    <3>1. CASE i = 1
      BY <3>1
    <3>2. CASE i # 1
      <4>1. PICK j \in DOMAIN t : t[j] = s[i]
        BY <1>3, <1>4, <3>2
      <4> QED BY <4>1 DEF ToSet
    <3> QED BY <3>1, <3>2
  <2>2. ASSUME NEW i \in 1..Len(s) - 1 PROVE t[i] \in ToSet(s)
    <3>1. t[i] = s[i + 1] /\ i + 1 \in DOMAIN s
      BY <1>2, <1>3, <1>5
    <3> QED BY <3>1 DEF ToSet
  <2>3. ToSet(t) \subseteq ToSet(s)
    BY <1>3, <2>2 DEF ToSet
  <2>4. ToSet(s) \subseteq ToSet(t) \cup {s[1]}
    <3>1. ToSet(s) = {s[i] : i \in 1..Len(s)}
      BY <1>3 DEF ToSet
    <3> QED BY ONLY <2>1, <3>1
  <2>5. s[1] \in ToSet(s)
    BY <1>3, <1>6 DEF ToSet
  <2> QED BY ONLY <2>3, <2>4, <2>5
<1>8. ASSUME IsInjective(s) PROVE IsInjective(t) /\ s[1] \notin ToSet(t)
  <2>1. \A i, j \in 1..Len(s) : s[i] = s[j] => i = j
    BY <1>3, <1>8 DEF IsInjective
  <2>2. ASSUME NEW i \in 1..Len(s) - 1, NEW j \in 1..Len(s) - 1, t[i] = t[j] PROVE i = j
    <3>1. i + 1 = j + 1
      BY <1>2, <1>5, <2>1, <2>2
    <3> QED BY ONLY <1>5, <3>1
  <2>3. s[1] \notin ToSet(t)
    BY <1>2, <1>3, <1>5, <1>6, <2>1 DEF ToSet
  <2> QED BY <1>3, <2>2, <2>3 DEF IsInjective
<1>9. s[1] \in ToSet(s) /\ (IsInjective(s) => ToSet(t) = ToSet(s) \ {s[1]})
  BY <1>7, <1>8
<1> QED BY ONLY <1>1, <1>2, <1>7, <1>8, <1>9

(* The types in three parts: what Redis has, what is in memory, and where everyone is. *)
StreamType == /\ stream \in Seq(Msgs) /\ IsInjective(stream)
              /\ overdue \subseteq pending /\ pending \subseteq delivered /\ delivered \subseteq Msgs
              /\ done \subseteq Msgs /\ trimmed \subseteq Msgs

MemoryType == /\ queue \in Seq(Msgs) /\ Len(queue) <= BufferSize /\ batch \in Seq(Msgs)
              /\ claimed \in Msgs \cup {None} /\ wmsg \in [Workers -> Msgs \cup {None}]
              /\ calls \in [Msgs -> Nat] /\ fails \in [Msgs -> Nat] /\ faults \in 0..MaxFaults

ControlType == /\ registered \in BOOLEAN /\ running \in BOOLEAN /\ stopCh \in BOOLEAN
               /\ qclosed \in BOOLEAN /\ panicked \in BOOLEAN
               /\ ppc \in {"off", "select", "read", "put", "done"}
               /\ rpc \in {"off", "wait", "claim", "put", "done"}
               /\ wpc \in [Workers -> {"off", "idle", "handle", "ack", "del", "exited"}]
               /\ gpc \in {"none", "enter", "prepare", "consume"}
               /\ current \in BOOLEAN /\ leaving \in Nat /\ leaked \in Nat
               /\ apc \in [Calls -> {"no", "stop", "wait", "overlooked", "returned"}]

LEMMA TypeParts == (TypeOK <=> StreamType /\ MemoryType /\ ControlType)
                   /\ (TypeOK' <=> StreamType' /\ MemoryType' /\ ControlType')
BY DEF TypeOK, StreamType, MemoryType, ControlType

LEMMA Starting ==
  ASSUME ControlType, Start
  PROVE  /\ gpc' \in {"none", "enter", "prepare", "consume"}
         /\ current' \in BOOLEAN /\ leaving' \in Nat /\ leaked' \in Nat
<1>1. gpc \in {"none", "enter", "prepare", "consume"} /\ current \in BOOLEAN /\ leaving \in Nat /\ leaked \in Nat
  BY DEF ControlType
<1>2. CASE gpc # "none"
  BY ONLY <1>1, <1>2, Start DEF Start, dispatcher
<1>3. CASE gpc = "none"
  <2>1. gpc' = "enter" /\ current' = TRUE /\ leaked' = (IF current THEN leaked + 1 ELSE leaked) /\ leaving' = leaving
    BY <1>3 DEF Start
  <2> QED BY ONLY <1>1, <2>1
<1> QED BY <1>2, <1>3

LEMMA InitialType == Init => TypeOK
<1> SUFFICES ASSUME Init PROVE StreamType /\ MemoryType /\ ControlType
  BY TypeParts
<1>1. Len(<<>>) = 0 /\ BufferSize \in Nat /\ MaxFaults \in Nat
  BY Sizes, Bounds
<1>2. StreamType
  BY DEF Init, StreamType, IsInjective
<1>3. MemoryType
  BY <1>1 DEF Init, InitLocal, MemoryType
<1>4. ControlType
  BY DEF Init, InitLocal, ControlType
<1> QED BY <1>2, <1>3, <1>4

LEMMA InitialInv == Init => AckedInv
<1> SUFFICES ASSUME Init PROVE HandedOut /\ AckedMeansDone
  BY InitialType DEF AckedInv
<1> QED BY OrderlyIsBoolean DEF Init, InitLocal, HandedOut, AckedMeansDone

(* The stream holds no entry twice. *)
LEMMA KeepsStreamType ==
  ASSUME StreamType, MemoryType, ControlType, HandedOut, Next
  PROVE  StreamType'
<1> USE OrderlyIsBoolean DEF StreamType, MemoryType, redis, consumer, local, poller,
        reclaimer, worker, dispatcher, history
<1>1. ASSUME Register PROVE StreamType'
  BY <1>1 DEF Register, Start
<1>2. ASSUME Run PROVE StreamType'
  BY <1>2 DEF Run, Start
<1>3. ASSUME RunReturns PROVE StreamType'
  BY <1>3 DEF RunReturns
<1>4. ASSUME Shutdown PROVE StreamType'
  BY <1>4 DEF Shutdown
<1>5. ASSUME StopConsumer PROVE StreamType'
  BY <1>5 DEF StopConsumer
<1>6. ASSUME ShutdownReturns PROVE StreamType'
  BY <1>6 DEF ShutdownReturns
<1>7. ASSUME DispatcherReturns PROVE StreamType'
  BY <1>7 DEF DispatcherReturns
<1>8. ASSUME Crash PROVE StreamType'
  BY <1>8 DEF Crash, Fault
<1>9. ASSUME Enter PROVE StreamType'
  BY <1>9 DEF Enter
<1>10. ASSUME Prepare PROVE StreamType'
  BY <1>10 DEF Prepare
<1>11. ASSUME PrepareFails PROVE StreamType'
  BY <1>11 DEF PrepareFails, Fault
<1>12. ASSUME CloseQueue PROVE StreamType'
  BY <1>12 DEF CloseQueue
<1>13. ASSUME ConsumerReturns PROVE StreamType'
  BY <1>13 DEF ConsumerReturns
<1>14. ASSUME PollSelect PROVE StreamType'
  BY <1>14 DEF PollSelect
<1>15. ASSUME PollRead PROVE StreamType'
  <2>1. ToSet(batch') \subseteq Msgs
    BY <1>15, TypeParts, Reading
  <2>2. /\ delivered' = delivered \cup ToSet(batch') /\ pending' = pending \cup ToSet(batch')
        /\ UNCHANGED <<stream, overdue, done, trimmed>>
    BY <1>15 DEF PollRead
  <2> QED BY <2>1, <2>2
<1>16. ASSUME PollNothing PROVE StreamType'
  BY <1>16 DEF PollNothing, Fault
<1>17. ASSUME PollPut PROVE StreamType'
  BY <1>17 DEF PollPut
<1>18. ASSUME ReclaimStops PROVE StreamType'
  BY <1>18 DEF ReclaimStops
<1>19. ASSUME ReclaimClaim PROVE StreamType'
  BY <1>19 DEF ReclaimClaim
<1>20. ASSUME ReclaimFails PROVE StreamType'
  BY <1>20 DEF ReclaimFails, Fault
<1>21. ASSUME ReclaimPut PROVE StreamType'
  BY <1>21 DEF ReclaimPut
<1>22. ASSUME NEW m \in Msgs, AppendMsg(m)
      PROVE  StreamType'
  <2>1. stream \in Seq(Msgs) /\ IsInjective(stream) /\ m \notin ToSet(stream) /\ Len(stream) \in Nat
    BY <1>22 DEF AppendMsg
  <2>2. stream' \in Seq(Msgs) /\ IsInjective(stream') /\ trimmed' \subseteq Msgs
    <3>1. CASE stream' = Append(stream, m) /\ UNCHANGED trimmed
      BY <2>1, <3>1, Appended
    <3>2. CASE Len(stream) >= MaxLen /\ stream' = Append(Tail(stream), m) /\ trimmed' = trimmed \cup {Head(stream)}
      <4>1. stream # <<>>
        BY <2>1, <3>2, Sizes
      <4>2. Head(stream) \in Msgs /\ Tail(stream) \in Seq(Msgs) /\ IsInjective(Tail(stream)) /\ m \notin ToSet(Tail(stream))
        BY <2>1, <4>1, Shortened
      <4> QED BY <3>2, <4>2, Appended
    <3> QED BY <1>22, <3>1, <3>2 DEF AppendMsg
  <2> QED BY <1>22, <2>2 DEF AppendMsg
<1>23. ASSUME NEW m \in Msgs, GoOverdue(m)
      PROVE  StreamType'
  BY <1>23 DEF GoOverdue, Fault
<1>24. ASSUME NEW m \in Msgs, ReclaimList(m)
      PROVE  StreamType'
  BY <1>24 DEF ReclaimList
<1>25. ASSUME NEW w \in Workers, Take(w)
      PROVE  StreamType'
  BY <1>25 DEF Take, Work
<1>26. ASSUME NEW w \in Workers, WorkerExits(w)
      PROVE  StreamType'
  BY <1>26 DEF WorkerExits, Work
<1>27. ASSUME NEW w \in Workers, HandlerSucceeds(w)
      PROVE  StreamType'
  <2>1. wmsg[w] \in Msgs
    BY <1>27 DEF HandlerSucceeds, HandedOut
  <2> QED BY <1>27, <2>1 DEF HandlerSucceeds
<1>28. ASSUME NEW w \in Workers, HandlerFails(w)
      PROVE  StreamType'
  BY <1>28 DEF HandlerFails, Work
<1>29. ASSUME NEW w \in Workers, Ack(w)
      PROVE  StreamType'
  BY <1>29 DEF Ack, Work
<1>30. ASSUME NEW w \in Workers, Del(w)
      PROVE  StreamType'
  <2>1. stream' \in Seq(Msgs) /\ IsInjective(stream')
    BY <1>30, RemoveOnly DEF Del
  <2> QED BY <1>30, <2>1 DEF Del
<1>31. ASSUME NEW w \in Workers, AckFails(w)
      PROVE  StreamType'
  BY <1>31 DEF AckFails, Fault, Work
<1>32. Next
  OBVIOUS
<1> QED
  BY ONLY <1>1, <1>2, <1>3, <1>4, <1>5, <1>6, <1>7, <1>8, <1>9, <1>10, <1>11, <1>12, <1>13,
     <1>14, <1>15, <1>16, <1>17, <1>18, <1>19, <1>20, <1>21, <1>22, <1>23, <1>24, <1>25, <1>26,
     <1>27, <1>28, <1>29, <1>30, <1>31, <1>32
  DEF Next, WrapperStep, PollStep, ReclaimStep, WorkerStep

(* Queue, batch and counters. *)
LEMMA KeepsMemoryType ==
  ASSUME StreamType, MemoryType, ControlType, HandedOut, Next
  PROVE  MemoryType'
<1> USE OrderlyIsBoolean, Bounds DEF MemoryType, redis, consumer, local, poller, reclaimer,
        worker, dispatcher, history
<1>1. ASSUME Register PROVE MemoryType'
  BY <1>1 DEF Register, Start
<1>2. ASSUME Run PROVE MemoryType'
  BY <1>2 DEF Run, Start
<1>3. ASSUME RunReturns PROVE MemoryType'
  BY <1>3 DEF RunReturns
<1>4. ASSUME Shutdown PROVE MemoryType'
  BY <1>4 DEF Shutdown
<1>5. ASSUME StopConsumer PROVE MemoryType'
  BY <1>5 DEF StopConsumer
<1>6. ASSUME ShutdownReturns PROVE MemoryType'
  BY <1>6 DEF ShutdownReturns
<1>7. ASSUME DispatcherReturns PROVE MemoryType'
  BY <1>7 DEF DispatcherReturns
<1>8. ASSUME Crash PROVE MemoryType'
  <2>1. Len(<<>>) = 0 /\ queue' = <<>> /\ BufferSize \in Nat
    BY <1>8, Sizes DEF Crash
  <2> QED BY <1>8, <2>1 DEF Crash, Fault
<1>9. ASSUME Enter PROVE MemoryType'
  BY <1>9 DEF Enter
<1>10. ASSUME Prepare PROVE MemoryType'
  BY <1>10 DEF Prepare
<1>11. ASSUME PrepareFails PROVE MemoryType'
  BY <1>11 DEF PrepareFails, Fault
<1>12. ASSUME CloseQueue PROVE MemoryType'
  BY <1>12 DEF CloseQueue
<1>13. ASSUME ConsumerReturns PROVE MemoryType'
  BY <1>13 DEF ConsumerReturns
<1>14. ASSUME PollSelect PROVE MemoryType'
  BY <1>14 DEF PollSelect
<1>15. ASSUME PollRead PROVE MemoryType'
  <2>1. batch' \in Seq(Msgs)
    BY <1>15, TypeParts, Reading
  <2>2. UNCHANGED <<queue, claimed, wmsg, calls, fails, faults>>
    BY <1>15 DEF PollRead
  <2> QED BY <2>1, <2>2
<1>16. ASSUME PollNothing PROVE MemoryType'
  BY <1>16 DEF PollNothing, Fault
<1>17. ASSUME PollPut PROVE MemoryType'
  <2>1. queue \in Seq(Msgs) /\ Len(queue) \in Nat /\ Len(queue) < BufferSize /\ BufferSize \in Nat
    BY <1>17, Sizes DEF PollPut
  <2>2. batch # <<>>
    BY <1>17 DEF PollPut, HandedOut
  <2>3. Head(batch) \in Msgs /\ Tail(batch) \in Seq(Msgs)
    BY <2>2, Shortened
  <2>4. queue' \in Seq(Msgs) /\ Len(queue') <= BufferSize /\ batch' \in Seq(Msgs)
    BY <1>17, <2>1, <2>3 DEF PollPut
  <2>5. UNCHANGED <<claimed, wmsg, calls, fails, faults>>
    BY <1>17 DEF PollPut
  <2> QED BY <2>4, <2>5
<1>18. ASSUME ReclaimStops PROVE MemoryType'
  BY <1>18 DEF ReclaimStops
<1>19. ASSUME ReclaimClaim PROVE MemoryType'
  BY <1>19 DEF ReclaimClaim
<1>20. ASSUME ReclaimFails PROVE MemoryType'
  BY <1>20 DEF ReclaimFails, Fault
<1>21. ASSUME ReclaimPut PROVE MemoryType'
  <2>1. queue \in Seq(Msgs) /\ Len(queue) \in Nat /\ Len(queue) < BufferSize /\ BufferSize \in Nat /\ claimed \in Msgs
    BY <1>21, Sizes DEF ReclaimPut, HandedOut, StreamType
  <2>2. queue' \in Seq(Msgs) /\ Len(queue') <= BufferSize
    BY <1>21, <2>1 DEF ReclaimPut
  <2> QED BY <1>21, <2>2 DEF ReclaimPut
<1>22. ASSUME NEW m \in Msgs, AppendMsg(m)
      PROVE  MemoryType'
  BY <1>22 DEF AppendMsg
<1>23. ASSUME NEW m \in Msgs, GoOverdue(m)
      PROVE  MemoryType'
  BY <1>23 DEF GoOverdue, Fault
<1>24. ASSUME NEW m \in Msgs, ReclaimList(m)
      PROVE  MemoryType'
  BY <1>24 DEF ReclaimList
<1>25. ASSUME NEW w \in Workers, Take(w)
      PROVE  MemoryType'
  <2>1. queue \in Seq(Msgs) /\ Len(queue) \in Nat /\ Len(queue) <= BufferSize /\ BufferSize \in Nat /\ queue # <<>>
    BY <1>25, Sizes DEF Take
  <2>2. Head(queue) \in Msgs /\ Tail(queue) \in Seq(Msgs) /\ Len(Tail(queue)) = Len(queue) - 1
    BY <2>1, Shortened
  <2>3. queue' \in Seq(Msgs) /\ Len(queue') <= BufferSize
    BY <1>25, <2>1, <2>2 DEF Take
  <2>4. calls' \in [Msgs -> Nat]
    <3>1. PICK h \in Msgs : h = Head(queue)
      BY <2>2
    <3>2. calls' = [calls EXCEPT ![h] = calls[h] + 1]
      BY ONLY <1>25, <3>1 DEF Take
    <3> QED BY <3>2
  <2>5. wmsg' \in [Workers -> Msgs \cup {None}]
    BY <1>25, <2>2 DEF Take, Work
  <2>6. UNCHANGED <<batch, claimed, fails, faults>>
    BY <1>25 DEF Take
  <2> QED BY <2>3, <2>4, <2>5, <2>6
<1>26. ASSUME NEW w \in Workers, WorkerExits(w)
      PROVE  MemoryType'
  BY <1>26 DEF WorkerExits, Work
<1>27. ASSUME NEW w \in Workers, HandlerSucceeds(w)
      PROVE  MemoryType'
  BY <1>27 DEF HandlerSucceeds, Work
<1>28. ASSUME NEW w \in Workers, HandlerFails(w)
      PROVE  MemoryType'
  <2>1. PICK h \in Msgs : h = wmsg[w]
    BY <1>28 DEF HandlerFails, HandedOut
  <2>2. fails' = [fails EXCEPT ![h] = fails[h] + 1]
    BY ONLY <1>28, <2>1 DEF HandlerFails
  <2>3. fails' \in [Msgs -> Nat]
    BY <2>2
  <2> QED BY <1>28, <2>3 DEF HandlerFails, Work
<1>29. ASSUME NEW w \in Workers, Ack(w)
      PROVE  MemoryType'
  BY <1>29 DEF Ack, Work
<1>30. ASSUME NEW w \in Workers, Del(w)
      PROVE  MemoryType'
  BY <1>30 DEF Del, Work
<1>31. ASSUME NEW w \in Workers, AckFails(w)
      PROVE  MemoryType'
  BY <1>31 DEF AckFails, Fault, Work
<1>32. Next
  OBVIOUS
<1> QED
  BY ONLY <1>1, <1>2, <1>3, <1>4, <1>5, <1>6, <1>7, <1>8, <1>9, <1>10, <1>11, <1>12, <1>13,
     <1>14, <1>15, <1>16, <1>17, <1>18, <1>19, <1>20, <1>21, <1>22, <1>23, <1>24, <1>25, <1>26,
     <1>27, <1>28, <1>29, <1>30, <1>31, <1>32
  DEF Next, WrapperStep, PollStep, ReclaimStep, WorkerStep

(* Where everyone is. *)
LEMMA KeepsControlType ==
  ASSUME ControlType, Next
  PROVE  ControlType'
<1> USE DEF ControlType, redis, consumer, local, poller, reclaimer, worker, dispatcher, history
<1>1. ASSUME Register PROVE ControlType'
  <2>1. gpc' \in {"none", "enter", "prepare", "consume"} /\ current' \in BOOLEAN /\ leaving' \in Nat /\ leaked' \in Nat
    BY <1>1, Starting DEF Register
  <2>2. UNCHANGED <<running, stopCh, qclosed, panicked, ppc, rpc, wpc, apc>> /\ registered' = TRUE
    BY <1>1 DEF Register
  <2> QED BY <2>1, <2>2
<1>2. ASSUME Run PROVE ControlType'
  <2>1. gpc' \in {"none", "enter", "prepare", "consume"} /\ current' \in BOOLEAN /\ leaving' \in Nat /\ leaked' \in Nat
    BY <1>2, Starting DEF Run
  <2>2. apc' \in [Calls -> {"no", "stop", "wait", "overlooked", "returned"}]
    BY <1>2 DEF Run
  <2>3. UNCHANGED <<registered, running, stopCh, qclosed, panicked, ppc, rpc, wpc>>
    BY <1>2 DEF Run
  <2> QED BY <2>1, <2>2, <2>3
<1>3. ASSUME RunReturns PROVE ControlType'
  <2>1. apc' \in [Calls -> {"no", "stop", "wait", "overlooked", "returned"}]
    BY <1>3 DEF RunReturns
  <2>2. UNCHANGED <<registered, running, stopCh, qclosed, panicked, ppc, rpc, wpc, gpc, current, leaving, leaked>>
    BY <1>3 DEF RunReturns
  <2> QED BY <2>1, <2>2
<1>4. ASSUME Shutdown PROVE ControlType'
  <2>1. apc' \in [Calls -> {"no", "stop", "wait", "overlooked", "returned"}]
    BY <1>4 DEF Shutdown
  <2>2. UNCHANGED <<registered, running, stopCh, qclosed, panicked, ppc, rpc, wpc, gpc, leaked>> /\ current' = FALSE /\ leaving' \in Nat
    BY <1>4 DEF Shutdown
  <2> QED BY <2>1, <2>2
<1>5. ASSUME StopConsumer PROVE ControlType'
  <2>1. apc' \in [Calls -> {"no", "stop", "wait", "overlooked", "returned"}]
    BY <1>5 DEF StopConsumer
  <2>2. UNCHANGED <<registered, qclosed, panicked, ppc, rpc, wpc, gpc, current, leaving, leaked>> /\ running' = FALSE /\ stopCh' \in BOOLEAN
    BY <1>5 DEF StopConsumer
  <2> QED BY <2>1, <2>2
<1>6. ASSUME ShutdownReturns PROVE ControlType'
  <2>1. apc' \in [Calls -> {"no", "stop", "wait", "overlooked", "returned"}]
    BY <1>6 DEF ShutdownReturns
  <2>2. UNCHANGED <<registered, running, stopCh, qclosed, panicked, ppc, rpc, wpc, gpc, current, leaving, leaked>>
    BY <1>6 DEF ShutdownReturns
  <2> QED BY <2>1, <2>2
<1>7. ASSUME DispatcherReturns PROVE ControlType'
  BY <1>7 DEF DispatcherReturns
<1>8. ASSUME Crash PROVE ControlType'
  BY <1>8 DEF Crash, Fault
<1>9. ASSUME Enter PROVE ControlType'
  BY <1>9 DEF Enter
<1>10. ASSUME Prepare PROVE ControlType'
  BY <1>10 DEF Prepare
<1>11. ASSUME PrepareFails PROVE ControlType'
  BY <1>11 DEF PrepareFails, Fault
<1>12. ASSUME CloseQueue PROVE ControlType'
  BY <1>12 DEF CloseQueue
<1>13. ASSUME ConsumerReturns PROVE ControlType'
  BY <1>13 DEF ConsumerReturns
<1>14. ASSUME PollSelect PROVE ControlType'
  BY <1>14 DEF PollSelect
<1>15. ASSUME PollRead PROVE ControlType'
  BY <1>15 DEF PollRead
<1>16. ASSUME PollNothing PROVE ControlType'
  BY <1>16 DEF PollNothing, Fault
<1>17. ASSUME PollPut PROVE ControlType'
  BY <1>17 DEF PollPut
<1>18. ASSUME ReclaimStops PROVE ControlType'
  BY <1>18 DEF ReclaimStops
<1>19. ASSUME ReclaimClaim PROVE ControlType'
  BY <1>19 DEF ReclaimClaim
<1>20. ASSUME ReclaimFails PROVE ControlType'
  BY <1>20 DEF ReclaimFails, Fault
<1>21. ASSUME ReclaimPut PROVE ControlType'
  BY <1>21 DEF ReclaimPut
<1>22. ASSUME NEW m \in Msgs, AppendMsg(m)
      PROVE  ControlType'
  BY <1>22 DEF AppendMsg
<1>23. ASSUME NEW m \in Msgs, GoOverdue(m)
      PROVE  ControlType'
  BY <1>23 DEF GoOverdue, Fault
<1>24. ASSUME NEW m \in Msgs, ReclaimList(m)
      PROVE  ControlType'
  BY <1>24 DEF ReclaimList
<1>25. ASSUME NEW w \in Workers, Take(w)
      PROVE  ControlType'
  BY <1>25 DEF Take, Work
<1>26. ASSUME NEW w \in Workers, WorkerExits(w)
      PROVE  ControlType'
  BY <1>26 DEF WorkerExits, Work
<1>27. ASSUME NEW w \in Workers, HandlerSucceeds(w)
      PROVE  ControlType'
  BY <1>27 DEF HandlerSucceeds, Work
<1>28. ASSUME NEW w \in Workers, HandlerFails(w)
      PROVE  ControlType'
  BY <1>28 DEF HandlerFails, Work
<1>29. ASSUME NEW w \in Workers, Ack(w)
      PROVE  ControlType'
  BY <1>29 DEF Ack, Work
<1>30. ASSUME NEW w \in Workers, Del(w)
      PROVE  ControlType'
  BY <1>30 DEF Del, Work
<1>31. ASSUME NEW w \in Workers, AckFails(w)
      PROVE  ControlType'
  BY <1>31 DEF AckFails, Fault, Work
<1>32. Next
  OBVIOUS
<1> QED
  BY ONLY <1>1, <1>2, <1>3, <1>4, <1>5, <1>6, <1>7, <1>8, <1>9, <1>10, <1>11, <1>12, <1>13,
     <1>14, <1>15, <1>16, <1>17, <1>18, <1>19, <1>20, <1>21, <1>22, <1>23, <1>24, <1>25, <1>26,
     <1>27, <1>28, <1>29, <1>30, <1>31, <1>32
  DEF Next, WrapperStep, PollStep, ReclaimStep, WorkerStep

LEMMA KeepsType ==
  ASSUME TypeOK, HandedOut, Next
  PROVE  TypeOK'
BY TypeParts, KeepsStreamType, KeepsMemoryType, KeepsControlType

(* What was handed out is in the stream, handled or trimmed. *)
LEMMA KeepsHandedOut ==
  ASSUME TypeOK, HandedOut, AckedMeansDone, Next
  PROVE  HandedOut' /\ AckedMeansDone'
<1> USE OrderlyIsBoolean DEF TypeOK, HandedOut, AckedMeansDone, redis, consumer, local,
        poller, reclaimer, worker, dispatcher, history
<1>1. ASSUME Register PROVE HandedOut' /\ AckedMeansDone'
  BY <1>1 DEF Register, Start
<1>2. ASSUME Run PROVE HandedOut' /\ AckedMeansDone'
  BY <1>2 DEF Run, Start
<1>3. ASSUME RunReturns PROVE HandedOut' /\ AckedMeansDone'
  BY <1>3 DEF RunReturns
<1>4. ASSUME Shutdown PROVE HandedOut' /\ AckedMeansDone'
  BY <1>4 DEF Shutdown
<1>5. ASSUME StopConsumer PROVE HandedOut' /\ AckedMeansDone'
  BY <1>5 DEF StopConsumer
<1>6. ASSUME ShutdownReturns PROVE HandedOut' /\ AckedMeansDone'
  BY <1>6 DEF ShutdownReturns
<1>7. ASSUME DispatcherReturns PROVE HandedOut' /\ AckedMeansDone'
  BY <1>7 DEF DispatcherReturns
<1>8. ASSUME Crash PROVE HandedOut' /\ AckedMeansDone'
  BY <1>8 DEF Crash, Fault
<1>9. ASSUME Enter PROVE HandedOut' /\ AckedMeansDone'
  BY <1>9 DEF Enter
<1>10. ASSUME Prepare PROVE HandedOut' /\ AckedMeansDone'
  BY <1>10 DEF Prepare
<1>11. ASSUME PrepareFails PROVE HandedOut' /\ AckedMeansDone'
  BY <1>11 DEF PrepareFails, Fault
<1>12. ASSUME CloseQueue PROVE HandedOut' /\ AckedMeansDone'
  BY <1>12 DEF CloseQueue
<1>13. ASSUME ConsumerReturns PROVE HandedOut' /\ AckedMeansDone'
  BY <1>13 DEF ConsumerReturns
<1>14. ASSUME PollSelect PROVE HandedOut' /\ AckedMeansDone'
  BY <1>14 DEF PollSelect
<1>15. ASSUME PollRead PROVE HandedOut' /\ AckedMeansDone'
  <2>1. batch' \in Seq(Msgs) /\ batch' # <<>> /\ ToSet(batch') \subseteq ToSet(stream) \ delivered
    BY <1>15, Reading
  <2>2. /\ delivered' = delivered \cup ToSet(batch') /\ pending' = pending \cup ToSet(batch') /\ ppc' = "put"
        /\ UNCHANGED <<stream, overdue, consumer, local, reclaimer, worker, gpc, dispatcher, apc, history, faults>>
    BY <1>15 DEF PollRead
  <2> QED BY <2>1, <2>2
<1>16. ASSUME PollNothing PROVE HandedOut' /\ AckedMeansDone'
  BY <1>16 DEF PollNothing, Fault
<1>17. ASSUME PollPut PROVE HandedOut' /\ AckedMeansDone'
  BY <1>17 DEF PollPut
<1>18. ASSUME ReclaimStops PROVE HandedOut' /\ AckedMeansDone'
  BY <1>18 DEF ReclaimStops
<1>19. ASSUME ReclaimClaim PROVE HandedOut' /\ AckedMeansDone'
  BY <1>19 DEF ReclaimClaim
<1>20. ASSUME ReclaimFails PROVE HandedOut' /\ AckedMeansDone'
  BY <1>20 DEF ReclaimFails, Fault
<1>21. ASSUME ReclaimPut PROVE HandedOut' /\ AckedMeansDone'
  BY <1>21 DEF ReclaimPut
<1>22. ASSUME NEW m \in Msgs, AppendMsg(m)
      PROVE  HandedOut' /\ AckedMeansDone'
  <2>1. stream \in Seq(Msgs) /\ IsInjective(stream) /\ m \notin ToSet(stream) /\ Len(stream) \in Nat
    BY <1>22 DEF AppendMsg
  <2>2. trimmed \subseteq trimmed' /\ ToSet(stream) \subseteq ToSet(stream') \cup trimmed'
    <3>1. CASE stream' = Append(stream, m) /\ UNCHANGED trimmed
      BY <2>1, <3>1, Appended
    <3>2. CASE Len(stream) >= MaxLen /\ stream' = Append(Tail(stream), m) /\ trimmed' = trimmed \cup {Head(stream)}
      <4>1. stream # <<>>
        BY <2>1, <3>2, Sizes
      <4>2. /\ Tail(stream) \in Seq(Msgs) /\ IsInjective(Tail(stream)) /\ m \notin ToSet(Tail(stream))
            /\ ToSet(stream) = ToSet(Tail(stream)) \cup {Head(stream)}
        BY <2>1, <4>1, Shortened
      <4>3. ToSet(stream') = ToSet(Tail(stream)) \cup {m}
        BY <3>2, <4>2, Appended
      <4> QED BY <3>2, <4>2, <4>3
    <3> QED BY <1>22, <3>1, <3>2 DEF AppendMsg
  <2> QED BY <1>22, <2>2 DEF AppendMsg
<1>23. ASSUME NEW m \in Msgs, GoOverdue(m)
      PROVE  HandedOut' /\ AckedMeansDone'
  BY <1>23 DEF GoOverdue, Fault
<1>24. ASSUME NEW m \in Msgs, ReclaimList(m)
      PROVE  HandedOut' /\ AckedMeansDone'
  BY <1>24 DEF ReclaimList
<1>25. ASSUME NEW w \in Workers, Take(w)
      PROVE  HandedOut' /\ AckedMeansDone'
  <2>1. /\ Head(queue) \in Msgs /\ wpc[w] = "idle"
        /\ wpc' = [wpc EXCEPT ![w] = "handle"] /\ wmsg' = [wmsg EXCEPT ![w] = Head(queue)]
        /\ UNCHANGED <<redis, gpc, rpc, claimed, ppc, batch, done, trimmed>>
    BY <1>25 DEF Take, Work
  <2>2. /\ wpc \in [Workers -> {"off", "idle", "handle", "ack", "del", "exited"}]
        /\ wmsg \in [Workers -> Msgs \cup {None}]
    OBVIOUS
  <2> QED BY ONLY <2>1, <2>2, HandedOut, AckedMeansDone, OrderlyIsBoolean
             DEF HandedOut, AckedMeansDone, redis
<1>26. ASSUME NEW w \in Workers, WorkerExits(w)
      PROVE  HandedOut' /\ AckedMeansDone'
  BY <1>26 DEF WorkerExits, Work
<1>27. ASSUME NEW w \in Workers, HandlerSucceeds(w)
      PROVE  HandedOut' /\ AckedMeansDone'
  BY <1>27 DEF HandlerSucceeds, Work
<1>28. ASSUME NEW w \in Workers, HandlerFails(w)
      PROVE  HandedOut' /\ AckedMeansDone'
  BY <1>28 DEF HandlerFails, Work
<1>29. ASSUME NEW w \in Workers, Ack(w)
      PROVE  HandedOut' /\ AckedMeansDone'
  BY <1>29 DEF Ack, Work
<1>30. ASSUME NEW w \in Workers, Del(w)
      PROVE  HandedOut' /\ AckedMeansDone'
  <2>1. ToSet(stream') = ToSet(stream) \ {wmsg[w]}
    BY <1>30, RemoveOnly DEF Del
  <2> QED BY <1>30, <2>1 DEF Del, Work
<1>31. ASSUME NEW w \in Workers, AckFails(w)
      PROVE  HandedOut' /\ AckedMeansDone'
  BY <1>31 DEF AckFails, Fault, Work
<1>32. Next
  OBVIOUS
<1> QED
  BY ONLY <1>1, <1>2, <1>3, <1>4, <1>5, <1>6, <1>7, <1>8, <1>9, <1>10, <1>11, <1>12, <1>13,
     <1>14, <1>15, <1>16, <1>17, <1>18, <1>19, <1>20, <1>21, <1>22, <1>23, <1>24, <1>25, <1>26,
     <1>27, <1>28, <1>29, <1>30, <1>31, <1>32
  DEF Next, WrapperStep, PollStep, ReclaimStep, WorkerStep

LEMMA AckedStep == AckedInv /\ [Next]_vars => AckedInv'
<1> SUFFICES ASSUME AckedInv, [Next]_vars PROVE AckedInv'
  OBVIOUS
<1>1. CASE Next
  BY <1>1, KeepsType, KeepsHandedOut DEF AckedInv
<1>2. CASE UNCHANGED vars
  BY <1>2 DEF AckedInv, TypeOK, HandedOut, AckedMeansDone, vars, redis, consumer, local, poller,
              reclaimer, worker, dispatcher, history
<1> QED BY <1>1, <1>2

(* Delivery is at least once for any number of messages, workers and faults: *)
(* an entry that has left the pending list was handled or trimmed.           *)
THEOREM DeliveredAtLeastOnce == Spec => [](TypeOK /\ AckedMeansDone)
<1>1. AckedInv => TypeOK /\ AckedMeansDone
  BY DEF AckedInv
<1> QED BY InitialInv, AckedStep, <1>1, PTL DEF Spec

(* What Run, Shutdown and the goroutines have done. *)
LEMMA KeepsLifecycle ==
  ASSUME Orderly, TypeOK, HandedOut, Lifecycle, ~panicked, Next
  PROVE  Lifecycle'
<1> USE TypeParts DEF ControlType, Lifecycle, Returned, Closing, WaitIsOver, redis, consumer,
        local, poller, reclaimer, worker, dispatcher, history
<1>1. ASSUME Register PROVE Lifecycle'
  BY <1>1 DEF Register, Start
<1>2. ASSUME Run PROVE Lifecycle'
  BY <1>2 DEF Run, Start
<1>3. ASSUME RunReturns PROVE Lifecycle'
  BY <1>3 DEF RunReturns
<1>4. ASSUME Shutdown PROVE Lifecycle'
  <2>1. /\ apc \in [Calls -> {"no", "stop", "wait", "overlooked", "returned"}]
        /\ apc["shutdown"] = "no" /\ apc' = [apc EXCEPT !["shutdown"] = "stop"]
        /\ current' = FALSE
        /\ UNCHANGED <<redis, consumer, local, poller, reclaimer, worker, gpc, leaked, history, faults>>
    BY <1>4 DEF Shutdown
  <2>2. Closing' /\ apc'["run"] = apc["run"]
    BY <2>1 DEF Calls
  <2>3. ~Returned
    BY <2>1
  <2>4. ~Returned'
    BY <2>1, <2>3 DEF Calls
  <2> QED BY ONLY <2>1, <2>2, <2>3, <2>4, Lifecycle
             DEF Lifecycle, consumer, local, poller, reclaimer, worker
<1>5. ASSUME StopConsumer PROVE Lifecycle'
  BY <1>5 DEF StopConsumer
<1>6. ASSUME ShutdownReturns PROVE Lifecycle'
  BY <1>6 DEF ShutdownReturns
<1>7. ASSUME DispatcherReturns PROVE Lifecycle'
  BY <1>7 DEF DispatcherReturns
<1>8. ASSUME Crash PROVE Lifecycle'
  BY <1>8 DEF Crash, Fault, Calls
<1>9. ASSUME Enter PROVE Lifecycle'
  BY <1>9 DEF Enter
<1>10. ASSUME Prepare PROVE Lifecycle'
  BY <1>10 DEF Prepare
<1>11. ASSUME PrepareFails PROVE Lifecycle'
  BY <1>11 DEF PrepareFails, Fault
<1>12. ASSUME CloseQueue PROVE Lifecycle'
  BY <1>12 DEF CloseQueue
<1>13. ASSUME ConsumerReturns PROVE Lifecycle'
  <2>1. PICK w \in Workers : wpc[w] = "exited"
    BY <1>13, SomebodyWorks DEF ConsumerReturns
  <2> QED BY <1>13, <2>1 DEF ConsumerReturns
<1>14. ASSUME PollSelect PROVE Lifecycle'
  BY <1>14 DEF PollSelect
<1>15. ASSUME PollRead PROVE Lifecycle'
  BY <1>15 DEF PollRead
<1>16. ASSUME PollNothing PROVE Lifecycle'
  BY <1>16 DEF PollNothing, Fault
<1>17. ASSUME PollPut PROVE Lifecycle'
  BY <1>17 DEF PollPut
<1>18. ASSUME ReclaimStops PROVE Lifecycle'
  BY <1>18 DEF ReclaimStops
<1>19. ASSUME ReclaimClaim PROVE Lifecycle'
  BY <1>19 DEF ReclaimClaim
<1>20. ASSUME ReclaimFails PROVE Lifecycle'
  BY <1>20 DEF ReclaimFails, Fault
<1>21. ASSUME ReclaimPut PROVE Lifecycle'
  BY <1>21 DEF ReclaimPut
<1>22. ASSUME NEW m \in Msgs, AppendMsg(m)
      PROVE  Lifecycle'
  BY <1>22 DEF AppendMsg
<1>23. ASSUME NEW m \in Msgs, GoOverdue(m)
      PROVE  Lifecycle'
  BY <1>23 DEF GoOverdue, Fault
<1>24. ASSUME NEW m \in Msgs, ReclaimList(m)
      PROVE  Lifecycle'
  BY <1>24 DEF ReclaimList
<1>25. ASSUME NEW w \in Workers, Take(w)
      PROVE  Lifecycle'
  BY <1>25 DEF Take, Work
<1>26. ASSUME NEW w \in Workers, WorkerExits(w)
      PROVE  Lifecycle'
  BY <1>26 DEF WorkerExits, Work
<1>27. ASSUME NEW w \in Workers, HandlerSucceeds(w)
      PROVE  Lifecycle'
  BY <1>27 DEF HandlerSucceeds, Work
<1>28. ASSUME NEW w \in Workers, HandlerFails(w)
      PROVE  Lifecycle'
  BY <1>28 DEF HandlerFails, Work
<1>29. ASSUME NEW w \in Workers, Ack(w)
      PROVE  Lifecycle'
  BY <1>29 DEF Ack, Work
<1>30. ASSUME NEW w \in Workers, Del(w)
      PROVE  Lifecycle'
  BY <1>30 DEF Del, Work
<1>31. ASSUME NEW w \in Workers, AckFails(w)
      PROVE  Lifecycle'
  BY <1>31 DEF AckFails, Fault, Work
<1>32. Next
  OBVIOUS
<1> QED
  BY ONLY <1>1, <1>2, <1>3, <1>4, <1>5, <1>6, <1>7, <1>8, <1>9, <1>10, <1>11, <1>12, <1>13,
     <1>14, <1>15, <1>16, <1>17, <1>18, <1>19, <1>20, <1>21, <1>22, <1>23, <1>24, <1>25, <1>26,
     <1>27, <1>28, <1>29, <1>30, <1>31, <1>32
  DEF Next, WrapperStep, PollStep, ReclaimStep, WorkerStep

LEMMA ShutdownStep == Orderly /\ ShutdownInv /\ [Next]_vars => ShutdownInv'
<1> SUFFICES ASSUME Orderly, ShutdownInv, [Next]_vars PROVE ShutdownInv'
  OBVIOUS
<1>1. CASE Next
  <2>1. AckedInv'
    BY <1>1, AckedStep DEF ShutdownInv
  <2>2. Lifecycle'
    BY <1>1, KeepsLifecycle DEF ShutdownInv, AckedInv, Lifecycle
  <2> QED BY <2>1, <2>2 DEF ShutdownInv
<1>2. CASE UNCHANGED vars
  <2>1. AckedInv'
    BY AckedStep DEF ShutdownInv
  <2>2. Lifecycle'
    BY <1>2 DEF ShutdownInv, Lifecycle, Returned, Closing, vars, redis, consumer, local, poller,
                reclaimer, worker, dispatcher, history
  <2> QED BY <2>1, <2>2 DEF ShutdownInv
<1> QED BY <1>1, <1>2

LEMMA InitialShutdown == Init => ShutdownInv
<1> SUFFICES ASSUME Init PROVE Lifecycle
  BY InitialInv DEF ShutdownInv
<1> QED BY DEF Init, InitLocal, Lifecycle, Returned, Closing, Calls

(* For an application that calls Run after Register and nothing after        *)
(* Shutdown, which may come at any time, also while Consumer.Run starts, and *)
(* with any number of workers: the queue is closed once, when poll and       *)
(* reclaim have ended, and whoever waited for the consumer finds that no     *)
(* message it had read is left in memory.                                    *)
THEOREM ShutdownIsOrderly == Orderly => (Spec => []OrderlyShutdown)
<1> SUFFICES ASSUME Orderly PROVE Spec => []OrderlyShutdown
  OBVIOUS
<1>1. ShutdownInv => OrderlyShutdown
  <2> SUFFICES ASSUME ShutdownInv PROVE OrderlyShutdown
    OBVIOUS
  <2>1. ASSUME Returned PROVE Held = {}
    <3>1. gpc # "consume" /\ queue = <<>> /\ batch = <<>> /\ rpc # "put"
      BY <2>1 DEF ShutdownInv, Lifecycle
    <3>2. \A w \in Workers : wmsg[w] = None
      BY <3>1 DEF ShutdownInv, AckedInv, HandedOut
    <3>3. ToSet(queue) = {} /\ ToSet(batch) = {}
      BY <3>1 DEF ToSet
    <3> QED BY <3>1, <3>2, <3>3 DEF Held
  <2> QED BY <2>1 DEF ShutdownInv, Lifecycle, OrderlyShutdown, Returned
<1>2. Init => ShutdownInv
  BY InitialShutdown
<1>3. ShutdownInv /\ [Next]_vars => ShutdownInv'
  BY ShutdownStep
<1> QED BY <1>1, <1>2, <1>3, PTL DEF Spec
-----------------------------------------------------------------------------
(* How often a message is in a sequence that gains or loses one. *)

LEMMA Counted ==
  ASSUME NEW s \in Seq(Msgs), NEW m
  PROVE  IsFiniteSet({i \in DOMAIN s : s[i] = m}) /\ Copies(s, m) \in Nat
<1>1. IsFiniteSet(1..Len(s)) /\ DOMAIN s = 1..Len(s)
  BY FS_Interval
<1>2. {i \in DOMAIN s : s[i] = m} \subseteq 1..Len(s)
  BY <1>1
<1>3. IsFiniteSet({i \in DOMAIN s : s[i] = m})
  BY <1>1, <1>2, FS_Subset
<1> QED BY <1>3, FS_CardinalityType DEF Copies

LEMMA NoCopies ==
  ASSUME NEW s \in Seq(Msgs), NEW m \in Msgs \ ToSet(s)
  PROVE  Copies(s, m) = 0
<1>1. {i \in DOMAIN s : s[i] = m} = {}
  BY DEF ToSet
<1> QED BY <1>1, FS_EmptySet DEF Copies

LEMMA OneMore ==
  ASSUME NEW s \in Seq(Msgs), NEW x \in Msgs, NEW m
  PROVE  /\ Copies(Append(s, x), m) = Copies(s, m) + (IF m = x THEN 1 ELSE 0)
         /\ ToSet(Append(s, x)) = ToSet(s) \cup {x}
<1>1. PICK t : t = Append(s, x)
  OBVIOUS
<1>2. /\ t \in Seq(Msgs) /\ Len(t) = Len(s) + 1 /\ Len(s) \in Nat /\ t[Len(s) + 1] = x
      /\ \A i \in 1..Len(s) : t[i] = s[i]
  BY <1>1
<1>3. /\ 1..Len(t) = 1..Len(s) \cup {Len(s) + 1} /\ DOMAIN t = 1..Len(t) /\ DOMAIN s = 1..Len(s)
      /\ Len(s) + 1 \notin 1..Len(s)
  BY <1>2
<1>4. PICK A : A = {i \in DOMAIN s : s[i] = m}
  OBVIOUS
<1>5. IsFiniteSet(A) /\ Cardinality(A) \in Nat /\ Cardinality(A) = Copies(s, m) /\ Len(s) + 1 \notin A
  BY <1>3, <1>4, Counted DEF Copies
<1>6. {i \in DOMAIN t : t[i] = m} = IF m = x THEN A \cup {Len(s) + 1} ELSE A
  BY <1>2, <1>3, <1>4
<1>7. Cardinality(A \cup {Len(s) + 1}) = Cardinality(A) + 1
  <2>1. PICK n : n = Len(s) + 1
    OBVIOUS
  <2>2. IsFiniteSet(A) /\ n \notin A
    BY <1>5, <2>1
  <2>3. Cardinality(A \cup {n}) = Cardinality(A) + 1
    BY ONLY <2>2, FS_AddElement
  <2> QED BY <2>1, <2>3
<1>8. Copies(t, m) = Copies(s, m) + (IF m = x THEN 1 ELSE 0)
  <2>1. CASE m = x
    BY <1>5, <1>6, <1>7, <2>1 DEF Copies
  <2>2. CASE m # x
    <3>1. {i \in DOMAIN t : t[i] = m} = A
      BY <1>6, <2>2
    <3>2. Copies(t, m) = Cardinality(A)
      BY ONLY <3>1 DEF Copies
    <3> QED BY <1>5, <2>2, <3>2
  <2> QED BY <2>1, <2>2
<1>9. ToSet(t) = ToSet(s) \cup {x}
  BY <1>2, <1>3 DEF ToSet
<1> QED BY <1>1, <1>8, <1>9

LEMMA OneLess ==
  ASSUME NEW s \in Seq(Msgs), s # <<>>, NEW m
  PROVE  Copies(s, m) = Copies(Tail(s), m) + (IF m = Head(s) THEN 1 ELSE 0)
<1>1. PICK t : t = Tail(s)
  OBVIOUS
<1>2. /\ t \in Seq(Msgs) /\ Len(t) = Len(s) - 1 /\ Len(s) \in Nat /\ Len(s) >= 1 /\ Head(s) = s[1]
      /\ \A i \in 1..Len(s) - 1 : t[i] = s[i + 1]
  BY <1>1
<1>3. DOMAIN t = 1..Len(s) - 1 /\ DOMAIN s = 1..Len(s)
  BY <1>2
<1>4. PICK A : A = {i \in 1..Len(s) - 1 : t[i] = m}
  OBVIOUS
<1>5. PICK B : B = {i \in 2..Len(s) : s[i] = m}
  OBVIOUS
<1>6. IsFiniteSet(A) /\ Cardinality(A) = Copies(t, m) /\ Cardinality(A) \in Nat
  BY <1>2, <1>3, <1>4, Counted DEF Copies
<1>7. ExistsBijection(A, B)
  <2> DEFINE f == [i \in A |-> i + 1]
  <2>1. f \in [A -> B]
    BY <1>2, <1>4, <1>5
  <2>2. \A i, j \in A : f[i] = f[j] => i = j
    BY <1>4
  <2>3. ASSUME NEW b \in B PROVE \E i \in A : f[i] = b
    <3>1. b \in Nat /\ b - 1 \in 1..Len(s) - 1 /\ (b - 1) + 1 = b
      BY <1>2, <1>5
    <3>2. b - 1 \in A
      BY <1>2, <1>4, <1>5, <3>1
    <3> QED BY <3>1, <3>2
  <2>4. f \in Bijection(A, B)
    BY <2>1, <2>2, <2>3 DEF Bijection, Injection, Surjection, IsInjective
  <2> QED BY <2>4 DEF ExistsBijection
<1>8. IsFiniteSet(B) /\ Cardinality(B) = Cardinality(A)
  BY <1>6, <1>7, FS_Bijection
<1>9. 1..Len(s) = 2..Len(s) \cup {1} /\ 1 \notin B
  BY <1>2, <1>5
<1>10. {i \in DOMAIN s : s[i] = m} = IF m = Head(s) THEN B \cup {1} ELSE B
  BY <1>2, <1>3, <1>5, <1>9
<1>11. Cardinality(B \cup {1}) = Cardinality(B) + 1
  <2>1. IsFiniteSet(B) /\ 1 \notin B
    BY <1>8, <1>9
  <2> QED BY ONLY <2>1, FS_AddElement
<1>12. Copies(s, m) = Copies(t, m) + (IF m = Head(s) THEN 1 ELSE 0)
  <2>1. CASE m = Head(s)
    <3>1. {i \in DOMAIN s : s[i] = m} = B \cup {1}
      BY <1>10, <2>1
    <3>2. Copies(s, m) = Cardinality(B \cup {1})
      BY ONLY <3>1 DEF Copies
    <3> QED BY <1>6, <1>8, <1>11, <2>1, <3>2
  <2>2. CASE m # Head(s)
    <3>1. {i \in DOMAIN s : s[i] = m} = B
      BY <1>10, <2>2
    <3>2. Copies(s, m) = Cardinality(B)
      BY ONLY <3>1 DEF Copies
    <3> QED BY <1>6, <1>8, <2>2, <3>2
  <2> QED BY <2>1, <2>2
<1> QED BY <1>1, <1>12

LEMMA Numbers ==
  ASSUME TypeOK, NEW m \in Msgs
  PROVE  /\ calls[m] \in Nat /\ fails[m] \in Nat /\ faults \in Nat /\ Copies(queue, m) \in Nat
         /\ InBatch(m) \in {0, 1} /\ InClaim(m) \in {0, 1} /\ IsOverdue(m) \in {0, 1}
<1>1. queue \in Seq(Msgs) /\ calls[m] \in Nat /\ fails[m] \in Nat /\ faults \in Nat
  BY Bounds DEF TypeOK
<1>2. Copies(queue, m) \in Nat
  BY <1>1, Counted
<1> QED BY <1>1, <1>2 DEF InBatch, InClaim, IsOverdue

\* Nobody has a message of which there is no copy.
LEMMA NotAnywhere ==
  ASSUME TypeOK, NEW m \in Msgs, ~HasIt(m)
  PROVE  Copies(queue, m) = 0 /\ InBatch(m) = 0 /\ InClaim(m) = 0
BY NoCopies DEF TypeOK, HasIt, InBatch, InClaim

LEMMA HeldIsHad ==
  ASSUME NEW m \in Msgs
  PROVE  m \in Held <=> HasIt(m)
BY OrderlyIsBoolean DEF Held, HasIt

-----------------------------------------------------------------------------
(* Steps that touch no message. *)
Aside == \/ Register \/ Run \/ RunReturns \/ Shutdown \/ StopConsumer \/ ShutdownReturns
         \/ DispatcherReturns \/ Enter \/ ConsumerReturns \/ PollSelect

LEMMA StandsAside ==
  ASSUME Aside
  PROVE  UNCHANGED <<delivered, pending, overdue, queue, batch, rpc, claimed, wpc, wmsg, calls, fails, faults>>
<1> DEFINE Same == UNCHANGED <<delivered, pending, overdue, queue, batch, rpc, claimed, wpc, wmsg, calls, fails, faults>>
<1> USE DEF redis, local, poller, reclaimer, worker, history
<1>1. Register => Same
  BY DEF Register
<1>2. Run => Same
  BY DEF Run
<1>3. RunReturns => Same
  BY DEF RunReturns
<1>4. Shutdown => Same
  BY DEF Shutdown
<1>5. StopConsumer => Same
  BY DEF StopConsumer
<1>6. ShutdownReturns => Same
  BY DEF ShutdownReturns
<1>7. DispatcherReturns => Same
  BY DEF DispatcherReturns
<1>8. Enter => Same
  BY DEF Enter
<1>9. ConsumerReturns => Same
  BY DEF ConsumerReturns
<1>10. PollSelect => Same
  BY DEF PollSelect
<1> QED BY <1>1, <1>2, <1>3, <1>4, <1>5, <1>6, <1>7, <1>8, <1>9, <1>10 DEF Aside

LEMMA SamePaid ==
  ASSUME TypeOK, Paid, UNCHANGED <<calls, queue, batch>>, rpc' = "put" => rpc = "put" /\ claimed' = claimed,
         overdue' \subseteq overdue, \A m \in Msgs : fails'[m] >= fails[m] /\ fails'[m] \in Nat, faults' >= faults, faults' \in Nat
  PROVE  Paid'
<1> SUFFICES ASSUME NEW m \in Msgs
             PROVE  calls'[m] + Copies(queue', m) + InBatch(m)' + InClaim(m)' + IsOverdue(m)' <= 1 + fails'[m] + faults'
  BY DEF Paid
<1>1. calls'[m] = calls[m] /\ Copies(queue', m) = Copies(queue, m)
  OBVIOUS
<1>2. InBatch(m)' = InBatch(m) /\ InClaim(m)' \in {0, 1} /\ InClaim(m)' <= InClaim(m) /\ IsOverdue(m)' \in {0, 1} /\ IsOverdue(m)' <= IsOverdue(m)
  BY DEF InBatch, InClaim, IsOverdue
<1>3. /\ calls[m] \in Nat /\ fails[m] \in Nat /\ faults \in Nat /\ Copies(queue, m) \in Nat
      /\ InBatch(m) \in {0, 1} /\ InClaim(m) \in {0, 1} /\ IsOverdue(m) \in {0, 1}
  BY Numbers
<1>4. calls[m] + Copies(queue, m) + InBatch(m) + InClaim(m) + IsOverdue(m) <= 1 + fails[m] + faults
  BY DEF Paid
<1>5. fails'[m] >= fails[m] /\ fails'[m] \in Nat /\ faults' >= faults /\ faults' \in Nat
  OBVIOUS
<1> QED BY ONLY <1>1, <1>2, <1>3, <1>4, <1>5

LEMMA MoreFaults ==
  ASSUME TypeOK, UNCHANGED fails, faults' = faults \/ faults' = faults + 1
  PROVE  /\ \A m \in Msgs : fails'[m] >= fails[m] /\ fails'[m] \in Nat
         /\ faults' >= faults /\ faults' \in Nat
BY Bounds DEF TypeOK

(* Every further call is paid for. *)
LEMMA KeepsPaid ==
  ASSUME TypeOK, HandedOut, IsInjective(batch), Paid, Owed, Unseen, Next
  PROVE  Paid'
<1>1. ASSUME Aside PROVE Paid'
  <2>1. UNCHANGED <<calls, queue, batch, rpc, claimed, overdue, fails, faults>>
    BY <1>1, StandsAside
  <2> QED BY <2>1, SamePaid, MoreFaults
<1>2. ASSUME Crash PROVE Paid'
  <2> SUFFICES ASSUME NEW n \in Msgs
               PROVE  calls'[n] + Copies(queue', n) + InBatch(n)' + InClaim(n)' + IsOverdue(n)' <= 1 + fails'[n] + faults'
    BY DEF Paid
  <2>0. /\ calls[n] \in Nat /\ fails[n] \in Nat /\ faults \in Nat /\ Copies(queue, n) \in Nat
        /\ InBatch(n) \in {0, 1} /\ InClaim(n) \in {0, 1} /\ IsOverdue(n) \in {0, 1}
        /\ calls[n] + Copies(queue, n) + InBatch(n) + InClaim(n) + IsOverdue(n) <= 1 + fails[n] + faults
    BY Numbers DEF Paid
  <2>1. calls' = calls /\ fails' = fails /\ overdue' = overdue /\ faults' = faults + 1
    BY <1>2 DEF Crash, Fault, redis, history
  <2>2. Copies(queue', n) = 0 /\ InBatch(n)' = 0 /\ InClaim(n)' = 0
    <3>1. queue' = <<>> /\ batch' = <<>> /\ rpc' = "off"
      BY <1>2 DEF Crash
    <3>2. ToSet(<<>>) = {} /\ <<>> \in Seq(Msgs)
      BY DEF ToSet
    <3>3. Copies(<<>>, n) = 0
      BY <3>2, NoCopies
    <3> QED BY ONLY <3>1, <3>2, <3>3 DEF InBatch, InClaim
  <2>3. IsOverdue(n)' = IsOverdue(n)
    BY <2>1 DEF IsOverdue
  <2> QED BY ONLY <2>0, <2>1, <2>2, <2>3
<1>3. ASSUME Prepare PROVE Paid'
  <2>1. /\ UNCHANGED <<calls, queue, batch, fails>> /\ (rpc' = "put" => rpc = "put" /\ claimed' = claimed)
        /\ overdue' \subseteq overdue /\ (faults' = faults \/ faults' = faults + 1)
    BY <1>3 DEF Prepare, redis, local, poller, reclaimer, worker, history
  <2> QED BY <2>1, SamePaid, MoreFaults
<1>4. ASSUME PrepareFails PROVE Paid'
  <2>1. /\ UNCHANGED <<calls, queue, batch, fails>> /\ (rpc' = "put" => rpc = "put" /\ claimed' = claimed)
        /\ overdue' \subseteq overdue /\ (faults' = faults \/ faults' = faults + 1)
    BY <1>4 DEF PrepareFails, Fault, redis, local, poller, reclaimer, worker, history
  <2> QED BY <2>1, SamePaid, MoreFaults
<1>5. ASSUME CloseQueue PROVE Paid'
  <2>1. /\ UNCHANGED <<calls, queue, batch, fails>> /\ (rpc' = "put" => rpc = "put" /\ claimed' = claimed)
        /\ overdue' \subseteq overdue /\ (faults' = faults \/ faults' = faults + 1)
    BY <1>5 DEF CloseQueue, redis, local, poller, reclaimer, worker, history
  <2> QED BY <2>1, SamePaid, MoreFaults
<1>6. ASSUME PollRead PROVE Paid'
  <2> SUFFICES ASSUME NEW n \in Msgs
               PROVE  calls'[n] + Copies(queue', n) + InBatch(n)' + InClaim(n)' + IsOverdue(n)' <= 1 + fails'[n] + faults'
    BY DEF Paid
  <2>0. /\ calls[n] \in Nat /\ fails[n] \in Nat /\ faults \in Nat /\ Copies(queue, n) \in Nat
        /\ InBatch(n) \in {0, 1} /\ InClaim(n) \in {0, 1} /\ IsOverdue(n) \in {0, 1}
        /\ calls[n] + Copies(queue, n) + InBatch(n) + InClaim(n) + IsOverdue(n) <= 1 + fails[n] + faults
    BY Numbers DEF Paid
  <2>1. UNCHANGED <<queue, rpc, claimed, overdue, calls, fails, faults>> /\ ppc = "read"
    BY <1>6 DEF PollRead, local, reclaimer, history
  <2>2. batch' \in Seq(Msgs) /\ ToSet(batch') \subseteq Msgs \ delivered
    BY <1>6, Reading
  <2>3. CASE n \in ToSet(batch')
    <3>1. n \notin delivered /\ calls[n] = 0 /\ ~HasIt(n)
      BY <2>2, <2>3 DEF Unseen
    <3>2. Copies(queue, n) = 0 /\ InBatch(n) = 0 /\ InClaim(n) = 0 /\ IsOverdue(n) = 0
      BY <3>1, NotAnywhere DEF IsOverdue, TypeOK
    <3>3. Copies(queue', n) = 0 /\ InBatch(n)' = 1 /\ InClaim(n)' = 0 /\ IsOverdue(n)' = 0 /\ calls'[n] = 0
      BY <2>1, <2>3, <3>1, <3>2 DEF InBatch, InClaim, IsOverdue
    <3> QED BY ONLY <2>0, <2>1, <3>3
  <2>4. CASE n \notin ToSet(batch')
    <3>1. /\ Copies(queue', n) = Copies(queue, n) /\ InBatch(n)' = 0 /\ InClaim(n)' = InClaim(n)
          /\ IsOverdue(n)' = IsOverdue(n) /\ calls'[n] = calls[n]
      BY <2>1, <2>4 DEF InBatch, InClaim, IsOverdue
    <3> QED BY ONLY <2>0, <2>1, <3>1
  <2> QED BY <2>3, <2>4
<1>7. ASSUME PollNothing PROVE Paid'
  <2>1. /\ UNCHANGED <<calls, queue, batch, fails>> /\ (rpc' = "put" => rpc = "put" /\ claimed' = claimed)
        /\ overdue' \subseteq overdue /\ (faults' = faults \/ faults' = faults + 1)
    BY <1>7 DEF PollNothing, Fault, redis, local, poller, reclaimer, worker, history
  <2> QED BY <2>1, SamePaid, MoreFaults
<1>8. ASSUME PollPut PROVE Paid'
  <2> SUFFICES ASSUME NEW n \in Msgs
               PROVE  calls'[n] + Copies(queue', n) + InBatch(n)' + InClaim(n)' + IsOverdue(n)' <= 1 + fails'[n] + faults'
    BY DEF Paid
  <2>0. /\ calls[n] \in Nat /\ fails[n] \in Nat /\ faults \in Nat /\ Copies(queue, n) \in Nat
        /\ InBatch(n) \in {0, 1} /\ InClaim(n) \in {0, 1} /\ IsOverdue(n) \in {0, 1}
        /\ calls[n] + Copies(queue, n) + InBatch(n) + InClaim(n) + IsOverdue(n) <= 1 + fails[n] + faults
    BY Numbers DEF Paid
  <2>1. UNCHANGED <<rpc, claimed, overdue, calls, fails, faults>>
    BY <1>8 DEF PollPut, redis, reclaimer, history
  <2>2. queue' = Append(queue, Head(batch)) /\ batch' = Tail(batch) /\ batch # <<>> /\ queue \in Seq(Msgs) /\ batch \in Seq(Msgs)
    BY <1>8 DEF PollPut, HandedOut, TypeOK
  <2>3. PICK h \in Msgs : h = Head(batch) /\ h \in ToSet(batch) /\ ToSet(Tail(batch)) = ToSet(batch) \ {h}
    BY <2>2, Shortened
  <2>4. Copies(queue', n) = Copies(queue, n) + (IF n = h THEN 1 ELSE 0)
    BY <2>2, <2>3, OneMore
  <2>5. InBatch(n) = InBatch(n)' + (IF n = h THEN 1 ELSE 0) /\ InBatch(n)' \in {0, 1}
    BY <2>2, <2>3 DEF InBatch
  <2>6. InClaim(n)' = InClaim(n) /\ IsOverdue(n)' = IsOverdue(n) /\ calls'[n] = calls[n]
    BY <2>1 DEF InClaim, IsOverdue
  <2> QED BY ONLY <2>0, <2>1, <2>4, <2>5, <2>6
<1>9. ASSUME ReclaimStops PROVE Paid'
  <2>1. /\ UNCHANGED <<calls, queue, batch, fails>> /\ (rpc' = "put" => rpc = "put" /\ claimed' = claimed)
        /\ overdue' \subseteq overdue /\ (faults' = faults \/ faults' = faults + 1)
    BY <1>9 DEF ReclaimStops, redis, local, poller, reclaimer, worker, history
  <2> QED BY <2>1, SamePaid, MoreFaults
<1>10. ASSUME ReclaimClaim PROVE Paid'
  <2> SUFFICES ASSUME NEW n \in Msgs
               PROVE  calls'[n] + Copies(queue', n) + InBatch(n)' + InClaim(n)' + IsOverdue(n)' <= 1 + fails'[n] + faults'
    BY DEF Paid
  <2>0. /\ calls[n] \in Nat /\ fails[n] \in Nat /\ faults \in Nat /\ Copies(queue, n) \in Nat
        /\ InBatch(n) \in {0, 1} /\ InClaim(n) \in {0, 1} /\ IsOverdue(n) \in {0, 1}
        /\ calls[n] + Copies(queue, n) + InBatch(n) + InClaim(n) + IsOverdue(n) <= 1 + fails[n] + faults
    BY Numbers DEF Paid
  <2>1. UNCHANGED <<queue, batch, calls, fails, faults>> /\ rpc = "claim" /\ overdue' = overdue \ {claimed}
    BY <1>10 DEF ReclaimClaim, local, poller, history
  <2>2. IF claimed \in overdue /\ claimed \in ToSet(stream) THEN rpc' = "put" /\ claimed' = claimed ELSE rpc' = "wait"
    BY <1>10 DEF ReclaimClaim
  <2>3. InBatch(n)' = InBatch(n) /\ calls'[n] = calls[n] /\ Copies(queue', n) = Copies(queue, n) /\ InClaim(n) = 0
    BY <2>1 DEF InBatch, InClaim
  <2>4. InClaim(n)' + IsOverdue(n)' <= IsOverdue(n) /\ InClaim(n)' \in {0, 1} /\ IsOverdue(n)' \in {0, 1}
    BY <2>1, <2>2 DEF InClaim, IsOverdue
  <2> QED BY ONLY <2>0, <2>1, <2>3, <2>4
<1>11. ASSUME ReclaimFails PROVE Paid'
  <2>1. /\ UNCHANGED <<calls, queue, batch, fails>> /\ (rpc' = "put" => rpc = "put" /\ claimed' = claimed)
        /\ overdue' \subseteq overdue /\ (faults' = faults \/ faults' = faults + 1)
    BY <1>11 DEF ReclaimFails, Fault, redis, local, poller, reclaimer, worker, history
  <2> QED BY <2>1, SamePaid, MoreFaults
<1>12. ASSUME ReclaimPut PROVE Paid'
  <2> SUFFICES ASSUME NEW n \in Msgs
               PROVE  calls'[n] + Copies(queue', n) + InBatch(n)' + InClaim(n)' + IsOverdue(n)' <= 1 + fails'[n] + faults'
    BY DEF Paid
  <2>0. /\ calls[n] \in Nat /\ fails[n] \in Nat /\ faults \in Nat /\ Copies(queue, n) \in Nat
        /\ InBatch(n) \in {0, 1} /\ InClaim(n) \in {0, 1} /\ IsOverdue(n) \in {0, 1}
        /\ calls[n] + Copies(queue, n) + InBatch(n) + InClaim(n) + IsOverdue(n) <= 1 + fails[n] + faults
    BY Numbers DEF Paid
  <2>1. UNCHANGED <<batch, overdue, calls, fails, faults>>
    BY <1>12 DEF ReclaimPut, redis, poller, history
  <2>2. queue' = Append(queue, claimed) /\ rpc = "put" /\ rpc' = "wait" /\ queue \in Seq(Msgs) /\ claimed \in Msgs
    BY <1>12 DEF ReclaimPut, HandedOut, TypeOK
  <2>3. Copies(queue', n) = Copies(queue, n) + (IF n = claimed THEN 1 ELSE 0)
    BY <2>2, OneMore
  <2>4. InClaim(n) = (IF n = claimed THEN 1 ELSE 0) /\ InClaim(n)' = 0
    BY <2>2 DEF InClaim
  <2>5. InBatch(n)' = InBatch(n) /\ IsOverdue(n)' = IsOverdue(n) /\ calls'[n] = calls[n]
    BY <2>1 DEF InBatch, IsOverdue
  <2> QED BY ONLY <2>0, <2>1, <2>3, <2>4, <2>5
<1>13. ASSUME NEW m \in Msgs, AppendMsg(m)
      PROVE  Paid'
  <2>1. /\ UNCHANGED <<calls, queue, batch, fails>> /\ (rpc' = "put" => rpc = "put" /\ claimed' = claimed)
        /\ overdue' \subseteq overdue /\ (faults' = faults \/ faults' = faults + 1)
    BY <1>13 DEF AppendMsg, redis, local, poller, reclaimer, worker, history
  <2> QED BY <2>1, SamePaid, MoreFaults
<1>14. ASSUME NEW m \in Msgs, GoOverdue(m)
      PROVE  Paid'
  <2> SUFFICES ASSUME NEW n \in Msgs
               PROVE  calls'[n] + Copies(queue', n) + InBatch(n)' + InClaim(n)' + IsOverdue(n)' <= 1 + fails'[n] + faults'
    BY DEF Paid
  <2>0. /\ calls[n] \in Nat /\ fails[n] \in Nat /\ faults \in Nat /\ Copies(queue, n) \in Nat
        /\ InBatch(n) \in {0, 1} /\ InClaim(n) \in {0, 1} /\ IsOverdue(n) \in {0, 1}
        /\ calls[n] + Copies(queue, n) + InBatch(n) + InClaim(n) + IsOverdue(n) <= 1 + fails[n] + faults
    BY Numbers DEF Paid
  <2>1. UNCHANGED <<queue, batch, rpc, claimed, calls, fails>> /\ overdue' = overdue \cup {m} /\ m \in pending \ overdue
    BY <1>14 DEF GoOverdue, local, poller, reclaimer, history
  <2>2. IF HasIt(m) THEN faults' = faults + 1 ELSE faults' = faults
    BY <1>14, HeldIsHad DEF GoOverdue, Fault
  <2>3. InBatch(n)' = InBatch(n) /\ InClaim(n)' = InClaim(n) /\ calls'[n] = calls[n] /\ Copies(queue', n) = Copies(queue, n)
    BY <2>1 DEF InBatch, InClaim
  <2>4. IsOverdue(n)' = IF n = m THEN 1 ELSE IsOverdue(n)
    BY <2>1 DEF IsOverdue
  <2>5. ASSUME ~HasIt(m)
        PROVE  Copies(queue, m) = 0 /\ InBatch(m) = 0 /\ InClaim(m) = 0 /\ calls[m] <= fails[m] + faults
    BY <2>1, <2>5, NotAnywhere DEF Owed
  <2>6. n = m => IsOverdue(n) = 0
    BY <2>1 DEF IsOverdue
  <2>7. fails'[n] = fails[n]
    BY <2>1
  <2>8. CASE n = m /\ ~HasIt(m)
    <3>1. Copies(queue, n) = 0 /\ InBatch(n) = 0 /\ InClaim(n) = 0 /\ calls[n] <= fails[n] + faults /\ IsOverdue(n)' = 1 /\ faults' = faults
      BY <2>2, <2>4, <2>5, <2>8
    <3> QED BY ONLY <2>0, <2>3, <2>7, <3>1
  <2>9. CASE n = m /\ HasIt(m)
    <3>1. IsOverdue(n)' = 1 /\ IsOverdue(n) = 0 /\ faults' = faults + 1
      BY <2>2, <2>4, <2>6, <2>9
    <3> QED BY ONLY <2>0, <2>3, <2>7, <3>1
  <2>10. CASE n # m
    <3>1. IsOverdue(n)' = IsOverdue(n) /\ (faults' = faults + 1 \/ faults' = faults)
      BY <2>2, <2>4, <2>10
    <3> QED BY ONLY <2>0, <2>3, <2>7, <3>1
  <2> QED BY <2>8, <2>9, <2>10
<1>15. ASSUME NEW m \in Msgs, ReclaimList(m)
      PROVE  Paid'
  <2>1. /\ UNCHANGED <<calls, queue, batch, fails>> /\ (rpc' = "put" => rpc = "put" /\ claimed' = claimed)
        /\ overdue' \subseteq overdue /\ (faults' = faults \/ faults' = faults + 1)
    BY <1>15 DEF ReclaimList, redis, local, poller, reclaimer, worker, history
  <2> QED BY <2>1, SamePaid, MoreFaults
<1>16. ASSUME NEW w \in Workers, Take(w)
      PROVE  Paid'
  <2> SUFFICES ASSUME NEW n \in Msgs
               PROVE  calls'[n] + Copies(queue', n) + InBatch(n)' + InClaim(n)' + IsOverdue(n)' <= 1 + fails'[n] + faults'
    BY DEF Paid
  <2>0. /\ calls[n] \in Nat /\ fails[n] \in Nat /\ faults \in Nat /\ Copies(queue, n) \in Nat
        /\ InBatch(n) \in {0, 1} /\ InClaim(n) \in {0, 1} /\ IsOverdue(n) \in {0, 1}
        /\ calls[n] + Copies(queue, n) + InBatch(n) + InClaim(n) + IsOverdue(n) <= 1 + fails[n] + faults
    BY Numbers DEF Paid
  <2>1. UNCHANGED <<batch, rpc, claimed, overdue, fails, faults>>
    BY <1>16 DEF Take, redis, poller, reclaimer
  <2>2. queue' = Tail(queue) /\ queue # <<>> /\ queue \in Seq(Msgs) /\ calls \in [Msgs -> Nat]
    BY <1>16 DEF Take, TypeOK
  <2>3. PICK h \in Msgs : h = Head(queue)
    BY <2>2, Shortened
  <2>4. calls' = [calls EXCEPT ![h] = calls[h] + 1]
    BY ONLY <1>16, <2>3 DEF Take
  <2>5. Copies(queue, n) = Copies(queue', n) + (IF n = h THEN 1 ELSE 0)
    BY <2>2, <2>3, OneLess
  <2>6. Copies(queue', n) \in Nat
    <3>1. queue' \in Seq(Msgs)
      BY <2>2, Shortened
    <3> QED BY <3>1, Counted
  <2>7. calls'[n] = calls[n] + (IF n = h THEN 1 ELSE 0)
    BY <2>2, <2>4
  <2>8. InBatch(n)' = InBatch(n) /\ InClaim(n)' = InClaim(n) /\ IsOverdue(n)' = IsOverdue(n) /\ fails'[n] = fails[n]
    BY <2>1 DEF InBatch, InClaim, IsOverdue
  <2> QED BY ONLY <2>0, <2>1, <2>5, <2>6, <2>7, <2>8
<1>17. ASSUME NEW w \in Workers, WorkerExits(w)
      PROVE  Paid'
  <2>1. /\ UNCHANGED <<calls, queue, batch, fails>> /\ (rpc' = "put" => rpc = "put" /\ claimed' = claimed)
        /\ overdue' \subseteq overdue /\ (faults' = faults \/ faults' = faults + 1)
    BY <1>17 DEF WorkerExits, Work, redis, local, poller, reclaimer, worker, history
  <2> QED BY <2>1, SamePaid, MoreFaults
<1>18. ASSUME NEW w \in Workers, HandlerSucceeds(w)
      PROVE  Paid'
  <2>1. /\ UNCHANGED <<calls, queue, batch, fails>> /\ (rpc' = "put" => rpc = "put" /\ claimed' = claimed)
        /\ overdue' \subseteq overdue /\ (faults' = faults \/ faults' = faults + 1)
    BY <1>18 DEF HandlerSucceeds, Work, redis, local, poller, reclaimer, worker, history
  <2> QED BY <2>1, SamePaid, MoreFaults
<1>19. ASSUME NEW w \in Workers, HandlerFails(w)
      PROVE  Paid'
  <2>1. UNCHANGED <<calls, queue, batch, claimed, rpc, overdue, faults>>
    BY <1>19 DEF HandlerFails, redis, local, poller, reclaimer
  <2>2. PICK h \in Msgs : h = wmsg[w]
    BY <1>19 DEF HandlerFails, HandedOut, TypeOK
  <2>3. fails' = [fails EXCEPT ![h] = fails[h] + 1] /\ fails \in [Msgs -> Nat]
    BY <1>19, <2>2 DEF HandlerFails, TypeOK
  <2>4. \A n \in Msgs : fails'[n] >= fails[n] /\ fails'[n] \in Nat
    BY ONLY <2>3
  <2>5. faults' >= faults /\ faults' \in Nat
    BY <2>1, Bounds DEF TypeOK
  <2> QED BY <2>1, <2>4, <2>5, SamePaid
<1>20. ASSUME NEW w \in Workers, Ack(w)
      PROVE  Paid'
  <2>1. /\ UNCHANGED <<calls, queue, batch, fails>> /\ (rpc' = "put" => rpc = "put" /\ claimed' = claimed)
        /\ overdue' \subseteq overdue /\ (faults' = faults \/ faults' = faults + 1)
    BY <1>20 DEF Ack, Work, redis, local, poller, reclaimer, worker, history
  <2> QED BY <2>1, SamePaid, MoreFaults
<1>21. ASSUME NEW w \in Workers, Del(w)
      PROVE  Paid'
  <2>1. /\ UNCHANGED <<calls, queue, batch, fails>> /\ (rpc' = "put" => rpc = "put" /\ claimed' = claimed)
        /\ overdue' \subseteq overdue /\ (faults' = faults \/ faults' = faults + 1)
    BY <1>21 DEF Del, Work, redis, local, poller, reclaimer, worker, history
  <2> QED BY <2>1, SamePaid, MoreFaults
<1>22. ASSUME NEW w \in Workers, AckFails(w)
      PROVE  Paid'
  <2>1. /\ UNCHANGED <<calls, queue, batch, fails>> /\ (rpc' = "put" => rpc = "put" /\ claimed' = claimed)
        /\ overdue' \subseteq overdue /\ (faults' = faults \/ faults' = faults + 1)
    BY <1>22 DEF AckFails, Fault, Work, redis, local, poller, reclaimer, worker, history
  <2> QED BY <2>1, SamePaid, MoreFaults
<1>23. Next
  OBVIOUS
<1> QED
  BY ONLY <1>1, <1>2, <1>3, <1>4, <1>5, <1>6, <1>7, <1>8, <1>9, <1>10, <1>11, <1>12, <1>13, <1>14,
          <1>15, <1>16, <1>17, <1>18, <1>19, <1>20, <1>21, <1>22, <1>23
  DEF Next, WrapperStep, PollStep, ReclaimStep, WorkerStep, Aside

LEMMA StillOwed ==
  ASSUME TypeOK, Owed, UNCHANGED calls,
         \A m \in Msgs : fails'[m] >= fails[m] /\ fails'[m] \in Nat, faults' >= faults, faults' \in Nat,
         \A m \in pending' \ overdue' : m \in pending \ overdue /\ (HasIt(m) => HasIt(m)')
  PROVE  Owed'
<1> SUFFICES ASSUME NEW m \in pending' \ overdue', ~HasIt(m)' PROVE calls'[m] <= fails'[m] + faults'
  BY DEF Owed
<1>1. m \in Msgs /\ calls'[m] = calls[m] /\ calls[m] <= fails[m] + faults
  BY DEF Owed, TypeOK
<1>2. calls[m] \in Nat /\ fails[m] \in Nat /\ faults \in Nat /\ fails'[m] >= fails[m] /\ fails'[m] \in Nat /\ faults' >= faults /\ faults' \in Nat
  BY <1>1, Numbers
<1> QED BY ONLY <1>1, <1>2

LEMMA FaultPaid ==
  ASSUME TypeOK, Paid, NEW m \in Msgs
  PROVE  calls[m] <= 1 + fails[m] + faults
<1>1. /\ calls[m] \in Nat /\ fails[m] \in Nat /\ faults \in Nat /\ Copies(queue, m) \in Nat
      /\ InBatch(m) \in {0, 1} /\ InClaim(m) \in {0, 1} /\ IsOverdue(m) \in {0, 1}
  BY Numbers
<1>2. calls[m] + Copies(queue, m) + InBatch(m) + InClaim(m) + IsOverdue(m) <= 1 + fails[m] + faults
  BY DEF Paid
<1> QED BY ONLY <1>1, <1>2

LEMMA OwedByFault ==
  ASSUME TypeOK, Paid, UNCHANGED <<calls, fails, pending>>, faults' = faults + 1
  PROVE  Owed'
<1> SUFFICES ASSUME NEW m \in Msgs PROVE calls'[m] <= fails'[m] + faults'
  BY DEF Owed, TypeOK
<1>1. calls[m] \in Nat /\ fails[m] \in Nat /\ faults \in Nat
  BY Numbers
<1>2. calls[m] <= 1 + fails[m] + faults
  BY FaultPaid
<1>3. calls'[m] = calls[m] /\ fails'[m] = fails[m] /\ faults' = faults + 1
  OBVIOUS
<1> QED BY ONLY <1>1, <1>2, <1>3

(* Who has nothing of a pending message will have a reason to call for it. *)
LEMMA KeepsOwed ==
  ASSUME TypeOK, HandedOut, Lifecycle, IsInjective(batch), Paid, Owed, AckedOnce, Next
  PROVE  Owed'
<1>1. ASSUME Aside PROVE Owed'
  <2>1. UNCHANGED <<queue, batch, wmsg, rpc, claimed, pending, overdue, calls, fails, faults>>
    BY <1>1, StandsAside
  <2>2. \A n : HasIt(n) => HasIt(n)'
    BY <2>1 DEF HasIt
  <2> QED BY <2>1, <2>2, StillOwed, MoreFaults
<1>2. ASSUME Crash PROVE Owed'
  <2>1. UNCHANGED <<calls, fails, pending>> /\ faults' = faults + 1
    BY <1>2 DEF Crash, Fault, redis, local, poller, reclaimer, worker, history
  <2> QED BY <2>1, OwedByFault
<1>3. ASSUME Prepare PROVE Owed'
  <2>1. /\ UNCHANGED <<queue, batch, wmsg>> /\ pending' \ overdue' \subseteq pending \ overdue
        /\ rpc = "put" => rpc' = "put" /\ claimed' = claimed
    BY <1>3 DEF Lifecycle, Prepare, redis, local, poller, reclaimer, worker, history
  <2>9. \A n \in pending' \ overdue' : n \in pending \ overdue /\ (HasIt(n) => HasIt(n)')
    BY <2>1 DEF HasIt
  <2>8. UNCHANGED <<calls, fails>> /\ (faults' = faults \/ faults' = faults + 1)
    BY <1>3 DEF Prepare, redis, local, poller, reclaimer, worker, history
  <2> QED BY <2>8, <2>9, StillOwed, MoreFaults
<1>4. ASSUME PrepareFails PROVE Owed'
  <2>1. UNCHANGED <<calls, fails, pending>> /\ faults' = faults + 1
    BY <1>4 DEF PrepareFails, Fault, redis, local, poller, reclaimer, worker, history
  <2> QED BY <2>1, OwedByFault
<1>5. ASSUME CloseQueue PROVE Owed'
  <2>1. /\ UNCHANGED <<queue, batch, wmsg>> /\ pending' \ overdue' \subseteq pending \ overdue
        /\ rpc = "put" => rpc' = "put" /\ claimed' = claimed
    BY <1>5 DEF CloseQueue, redis, local, poller, reclaimer, worker, history
  <2>9. \A n \in pending' \ overdue' : n \in pending \ overdue /\ (HasIt(n) => HasIt(n)')
    BY <2>1 DEF HasIt
  <2>8. UNCHANGED <<calls, fails>> /\ (faults' = faults \/ faults' = faults + 1)
    BY <1>5 DEF CloseQueue, redis, local, poller, reclaimer, worker, history
  <2> QED BY <2>8, <2>9, StillOwed, MoreFaults
<1>6. ASSUME PollRead PROVE Owed'
  <2>1. UNCHANGED <<queue, wmsg, rpc, claimed, overdue>> /\ pending' = pending \cup ToSet(batch') /\ ppc = "read"
    BY <1>6 DEF PollRead, local, reclaimer, worker
  <2>2. ToSet(batch) = {}
    BY <2>1 DEF Lifecycle, ToSet
  <2>9. \A n \in pending' \ overdue' : (n \in pending \ overdue /\ (HasIt(n) => HasIt(n)')) \/ n \in ToSet(batch')
    BY <2>1, <2>2 DEF HasIt
  <2>3. Owed'
    <3> SUFFICES ASSUME NEW n \in pending' \ overdue', ~HasIt(n)' PROVE calls'[n] <= fails'[n] + faults'
      BY DEF Owed
    <3>1. n \notin ToSet(batch')
      BY DEF HasIt
    <3>2. calls[n] <= fails[n] + faults
      BY <2>9, <3>1 DEF Owed
    <3> QED BY <1>6, <3>2 DEF PollRead, history
  <2> QED BY <2>3
<1>7. ASSUME PollNothing PROVE Owed'
  <2>1. /\ UNCHANGED <<queue, batch, wmsg>> /\ pending' \ overdue' \subseteq pending \ overdue
        /\ rpc = "put" => rpc' = "put" /\ claimed' = claimed
    BY <1>7 DEF PollNothing, Fault, redis, local, poller, reclaimer, worker, history
  <2>9. \A n \in pending' \ overdue' : n \in pending \ overdue /\ (HasIt(n) => HasIt(n)')
    BY <2>1 DEF HasIt
  <2>8. UNCHANGED <<calls, fails>> /\ (faults' = faults \/ faults' = faults + 1)
    BY <1>7 DEF PollNothing, Fault, redis, local, poller, reclaimer, worker, history
  <2> QED BY <2>8, <2>9, StillOwed, MoreFaults
<1>8. ASSUME PollPut PROVE Owed'
  <2>1. UNCHANGED <<wmsg, rpc, claimed, overdue, pending>>
    BY <1>8 DEF PollPut, redis, reclaimer, worker
  <2>2. queue' = Append(queue, Head(batch)) /\ batch' = Tail(batch) /\ batch # <<>> /\ queue \in Seq(Msgs) /\ batch \in Seq(Msgs)
    BY <1>8 DEF PollPut, HandedOut, TypeOK
  <2>3. PICK h \in Msgs : h = Head(batch) /\ ToSet(batch) = ToSet(Tail(batch)) \cup {h}
    BY <2>2, Shortened
  <2>4. ToSet(queue') = ToSet(queue) \cup {h}
    BY <2>2, <2>3, OneMore
  <2>9. \A n \in pending' \ overdue' : n \in pending \ overdue /\ (HasIt(n) => HasIt(n)')
    BY <2>1, <2>2, <2>3, <2>4 DEF HasIt
  <2>8. UNCHANGED <<calls, fails>> /\ (faults' = faults \/ faults' = faults + 1)
    BY <1>8 DEF PollPut, redis, local, poller, reclaimer, worker, history
  <2> QED BY <2>8, <2>9, StillOwed, MoreFaults
<1>9. ASSUME ReclaimStops PROVE Owed'
  <2>1. /\ UNCHANGED <<queue, batch, wmsg>> /\ pending' \ overdue' \subseteq pending \ overdue
        /\ rpc = "put" => rpc' = "put" /\ claimed' = claimed
    BY <1>9 DEF ReclaimStops, redis, local, poller, reclaimer, worker, history
  <2>9. \A n \in pending' \ overdue' : n \in pending \ overdue /\ (HasIt(n) => HasIt(n)')
    BY <2>1 DEF HasIt
  <2>8. UNCHANGED <<calls, fails>> /\ (faults' = faults \/ faults' = faults + 1)
    BY <1>9 DEF ReclaimStops, redis, local, poller, reclaimer, worker, history
  <2> QED BY <2>8, <2>9, StillOwed, MoreFaults
<1>10. ASSUME ReclaimClaim PROVE Owed'
  <2>1. UNCHANGED <<queue, batch, wmsg, calls, fails, faults>> /\ rpc = "claim" /\ overdue' = overdue \ {claimed} /\ pending' \subseteq pending
    BY <1>10 DEF ReclaimClaim, local, poller, worker, history
  <2>2. claimed \in overdue => (rpc' = "put" /\ claimed' = claimed) \/ claimed \notin pending'
    BY <1>10 DEF ReclaimClaim
  <2>3. \A n \in pending' \ overdue' : \/ n \in pending \ overdue /\ (HasIt(n) => HasIt(n)')
                                       \/ HasIt(n)'
    BY <2>1, <2>2 DEF HasIt
  <2>4. Owed'
    <3> SUFFICES ASSUME NEW n \in pending' \ overdue', ~HasIt(n)' PROVE calls'[n] <= fails'[n] + faults'
      BY DEF Owed
    <3>1. calls[n] <= fails[n] + faults
      BY <2>3 DEF Owed
    <3> QED BY <2>1, <3>1
  <2> QED BY <2>4
<1>11. ASSUME ReclaimFails PROVE Owed'
  <2>1. UNCHANGED <<calls, fails, pending>> /\ faults' = faults + 1
    BY <1>11 DEF ReclaimFails, Fault, redis, local, poller, reclaimer, worker, history
  <2> QED BY <2>1, OwedByFault
<1>12. ASSUME ReclaimPut PROVE Owed'
  <2>1. UNCHANGED <<wmsg, batch, overdue, pending>> /\ rpc = "put"
    BY <1>12 DEF ReclaimPut, redis, poller, worker
  <2>2. queue' = Append(queue, claimed) /\ queue \in Seq(Msgs) /\ claimed \in Msgs
    BY <1>12 DEF ReclaimPut, HandedOut, TypeOK
  <2>3. ToSet(queue') = ToSet(queue) \cup {claimed}
    BY <2>2, OneMore
  <2>9. \A n \in pending' \ overdue' : n \in pending \ overdue /\ (HasIt(n) => HasIt(n)')
    BY <2>1, <2>3 DEF HasIt
  <2>8. UNCHANGED <<calls, fails>> /\ (faults' = faults \/ faults' = faults + 1)
    BY <1>12 DEF ReclaimPut, redis, local, poller, reclaimer, worker, history
  <2> QED BY <2>8, <2>9, StillOwed, MoreFaults
<1>13. ASSUME NEW m \in Msgs, AppendMsg(m)
      PROVE  Owed'
  <2>1. /\ UNCHANGED <<queue, batch, wmsg>> /\ pending' \ overdue' \subseteq pending \ overdue
        /\ rpc = "put" => rpc' = "put" /\ claimed' = claimed
    BY <1>13 DEF AppendMsg, redis, local, poller, reclaimer, worker, history
  <2>9. \A n \in pending' \ overdue' : n \in pending \ overdue /\ (HasIt(n) => HasIt(n)')
    BY <2>1 DEF HasIt
  <2>8. UNCHANGED <<calls, fails>> /\ (faults' = faults \/ faults' = faults + 1)
    BY <1>13 DEF AppendMsg, redis, local, poller, reclaimer, worker, history
  <2> QED BY <2>8, <2>9, StillOwed, MoreFaults
<1>14. ASSUME NEW m \in Msgs, GoOverdue(m)
      PROVE  Owed'
  <2>1. /\ UNCHANGED <<queue, batch, wmsg>> /\ pending' \ overdue' \subseteq pending \ overdue
        /\ rpc = "put" => rpc' = "put" /\ claimed' = claimed
    BY <1>14 DEF GoOverdue, Fault, redis, local, poller, reclaimer, worker, history
  <2>9. \A n \in pending' \ overdue' : n \in pending \ overdue /\ (HasIt(n) => HasIt(n)')
    BY <2>1 DEF HasIt
  <2>8. UNCHANGED <<calls, fails>> /\ (faults' = faults \/ faults' = faults + 1)
    BY <1>14 DEF GoOverdue, Fault, redis, local, poller, reclaimer, worker, history
  <2> QED BY <2>8, <2>9, StillOwed, MoreFaults
<1>15. ASSUME NEW m \in Msgs, ReclaimList(m)
      PROVE  Owed'
  <2>1. /\ UNCHANGED <<queue, batch, wmsg>> /\ pending' \ overdue' \subseteq pending \ overdue
        /\ rpc = "put" => rpc' = "put" /\ claimed' = claimed
    BY <1>15 DEF ReclaimList, redis, local, poller, reclaimer, worker, history
  <2>9. \A n \in pending' \ overdue' : n \in pending \ overdue /\ (HasIt(n) => HasIt(n)')
    BY <2>1 DEF HasIt
  <2>8. UNCHANGED <<calls, fails>> /\ (faults' = faults \/ faults' = faults + 1)
    BY <1>15 DEF ReclaimList, redis, local, poller, reclaimer, worker, history
  <2> QED BY <2>8, <2>9, StillOwed, MoreFaults
<1>16. ASSUME NEW w \in Workers, Take(w)
      PROVE  Owed'
  <2>1. UNCHANGED <<batch, rpc, claimed, overdue, pending, fails, faults>>
    BY <1>16 DEF Take, redis, poller, reclaimer
  <2>2. queue' = Tail(queue) /\ queue # <<>> /\ queue \in Seq(Msgs) /\ calls \in [Msgs -> Nat]
    BY <1>16 DEF Take, TypeOK
  <2>3. PICK h \in Msgs : h = Head(queue) /\ ToSet(queue) = ToSet(Tail(queue)) \cup {h}
    BY <2>2, Shortened
  <2>4. calls' = [calls EXCEPT ![h] = calls[h] + 1] /\ wmsg' = [wmsg EXCEPT ![w] = h]
    BY ONLY <1>16, <2>3 DEF Take, Work
  <2>5. wmsg[w] = None /\ wmsg \in [Workers -> Msgs \cup {None}]
    BY <1>16 DEF Take, HandedOut, TypeOK
  <2>6. \A n \in Msgs : HasIt(n) => HasIt(n)'
    BY <2>1, <2>2, <2>3, <2>4, <2>5, OrderlyIsBoolean DEF HasIt
  <2>7. HasIt(h)'
    BY <2>4, <2>5 DEF HasIt
  <2>8. Owed'
    <3> SUFFICES ASSUME NEW n \in pending' \ overdue', ~HasIt(n)' PROVE calls'[n] <= fails'[n] + faults'
      BY DEF Owed
    <3>1. n \in Msgs /\ n # h /\ n \in pending \ overdue
      BY <2>1, <2>7 DEF TypeOK
    <3>2. calls[n] <= fails[n] + faults
      BY <2>6, <3>1 DEF Owed
    <3> QED BY <2>1, <2>2, <2>4, <3>1, <3>2
  <2> QED BY <2>8
<1>17. ASSUME NEW w \in Workers, WorkerExits(w)
      PROVE  Owed'
  <2>1. UNCHANGED <<queue, batch, rpc, claimed, pending, overdue>> /\ wmsg' = [wmsg EXCEPT ![w] = None] /\ wpc[w] = "idle"
    BY <1>17 DEF WorkerExits, Work, redis, local, poller, reclaimer
  <2>2. wmsg' = wmsg
    BY <2>1 DEF TypeOK, HandedOut
  <2>9. \A n \in pending' \ overdue' : n \in pending \ overdue /\ (HasIt(n) => HasIt(n)')
    BY <2>1, <2>2 DEF HasIt
  <2>8. UNCHANGED <<calls, fails>> /\ (faults' = faults \/ faults' = faults + 1)
    BY <1>17 DEF WorkerExits, redis, local, poller, reclaimer, worker, history
  <2> QED BY <2>8, <2>9, StillOwed, MoreFaults
<1>18. ASSUME NEW w \in Workers, HandlerSucceeds(w)
      PROVE  Owed'
  <2>1. UNCHANGED <<queue, batch, rpc, claimed>> /\ pending' \ overdue' \subseteq pending \ overdue /\ wmsg' = [wmsg EXCEPT ![w] = wmsg[w]]
    BY <1>18 DEF HandlerSucceeds, Work, redis, local, poller, reclaimer, history
  <2>2. wmsg' = wmsg
    BY <2>1 DEF TypeOK
  <2>9. \A n \in pending' \ overdue' : n \in pending \ overdue /\ (HasIt(n) => HasIt(n)')
    BY <2>1, <2>2 DEF HasIt
  <2>8. UNCHANGED <<calls, fails>> /\ (faults' = faults \/ faults' = faults + 1)
    BY <1>18 DEF HandlerSucceeds, Work, redis, local, poller, reclaimer, worker, history
  <2> QED BY <2>8, <2>9, StillOwed, MoreFaults
<1>19. ASSUME NEW w \in Workers, HandlerFails(w)
      PROVE  Owed'
  <2>1. UNCHANGED <<queue, batch, rpc, claimed, pending, overdue, calls, faults>> /\ wmsg' = [wmsg EXCEPT ![w] = None]
    BY <1>19 DEF HandlerFails, Work, redis, local, poller, reclaimer
  <2>2. PICK h \in Msgs : h = wmsg[w]
    BY <1>19 DEF HandlerFails, HandedOut, TypeOK
  <2>3. fails' = [fails EXCEPT ![h] = fails[h] + 1] /\ fails \in [Msgs -> Nat] /\ wmsg \in [Workers -> Msgs \cup {None}]
    BY <1>19, <2>2 DEF HandlerFails, TypeOK
  <2>4. \A n \in Msgs \ {h} : HasIt(n) => HasIt(n)'
    BY <2>1, <2>2, <2>3 DEF HasIt
  <2>5. Owed'
    <3> SUFFICES ASSUME NEW n \in pending' \ overdue', ~HasIt(n)' PROVE calls'[n] <= fails'[n] + faults'
      BY DEF Owed
    <3>1. n \in Msgs /\ n \in pending \ overdue
      BY <2>1 DEF TypeOK
    <3>2. calls[n] \in Nat /\ fails[n] \in Nat /\ faults \in Nat /\ calls'[n] = calls[n] /\ faults' = faults
      BY <2>1, <3>1, Numbers
    <3>3. CASE n = h
      <4>1. fails'[n] = fails[n] + 1 /\ calls[n] <= 1 + fails[n] + faults
        BY <2>3, <3>1, <3>3, FaultPaid
      <4> QED BY ONLY <3>2, <4>1
    <3>4. CASE n # h
      <4>1. fails'[n] = fails[n] /\ calls[n] <= fails[n] + faults
        BY <2>3, <2>4, <3>1, <3>4 DEF Owed
      <4> QED BY ONLY <3>2, <4>1
    <3> QED BY <3>3, <3>4
  <2> QED BY <2>5
<1>20. ASSUME NEW w \in Workers, Ack(w)
      PROVE  Owed'
  <2>1. UNCHANGED <<queue, batch, rpc, claimed>> /\ pending' \ overdue' \subseteq pending \ overdue /\ wmsg' = [wmsg EXCEPT ![w] = wmsg[w]]
    BY <1>20 DEF Ack, Work, redis, local, poller, reclaimer, history
  <2>2. wmsg' = wmsg
    BY <2>1 DEF TypeOK
  <2>9. \A n \in pending' \ overdue' : n \in pending \ overdue /\ (HasIt(n) => HasIt(n)')
    BY <2>1, <2>2 DEF HasIt
  <2>8. UNCHANGED <<calls, fails>> /\ (faults' = faults \/ faults' = faults + 1)
    BY <1>20 DEF Ack, Work, redis, local, poller, reclaimer, worker, history
  <2> QED BY <2>8, <2>9, StillOwed, MoreFaults
<1>21. ASSUME NEW w \in Workers, Del(w)
      PROVE  Owed'
  <2>1. UNCHANGED <<queue, batch, rpc, claimed, pending, overdue>> /\ wmsg' = [wmsg EXCEPT ![w] = None] /\ wpc[w] = "del"
    BY <1>21 DEF Del, Work, local, poller, reclaimer
  <2>2. wmsg[w] \notin pending /\ wmsg \in [Workers -> Msgs \cup {None}]
    BY <2>1 DEF AckedOnce, TypeOK
  <2>9. \A n \in pending' \ overdue' : n \in pending \ overdue /\ (HasIt(n) => HasIt(n)')
    BY <2>1, <2>2 DEF HasIt
  <2>8. UNCHANGED <<calls, fails>> /\ (faults' = faults \/ faults' = faults + 1)
    BY <1>21 DEF Del, redis, local, poller, reclaimer, worker, history
  <2> QED BY <2>8, <2>9, StillOwed, MoreFaults
<1>22. ASSUME NEW w \in Workers, AckFails(w)
      PROVE  Owed'
  <2>1. UNCHANGED <<calls, fails, pending>> /\ faults' = faults + 1
    BY <1>22 DEF AckFails, Fault, Work, redis, local, poller, reclaimer, worker, history
  <2> QED BY <2>1, OwedByFault
<1>23. Next
  OBVIOUS
<1> QED
  BY ONLY <1>1, <1>2, <1>3, <1>4, <1>5, <1>6, <1>7, <1>8, <1>9, <1>10, <1>11, <1>12, <1>13, <1>14,
          <1>15, <1>16, <1>17, <1>18, <1>19, <1>20, <1>21, <1>22, <1>23
  DEF Next, WrapperStep, PollStep, ReclaimStep, WorkerStep, Aside

LEMMA StillUnseen ==
  ASSUME Unseen, delivered \subseteq delivered',
         \A m \in Msgs \ delivered' : calls'[m] = calls[m] /\ (HasIt(m)' => HasIt(m))
  PROVE  Unseen'
BY DEF Unseen

(* Nobody has what the group has not handed out. *)
LEMMA KeepsUnseen ==
  ASSUME TypeOK, HandedOut, Unseen, Next
  PROVE  Unseen'
<1>1. ASSUME Aside PROVE Unseen'
  <2>1. UNCHANGED <<queue, batch, wmsg, rpc, claimed, calls, delivered>>
    BY <1>1, StandsAside
  <2>2. \A n : HasIt(n)' => HasIt(n)
    BY <2>1 DEF HasIt
  <2> QED BY <2>1, <2>2, StillUnseen
<1>2. ASSUME Crash PROVE Unseen'
  <2>1. UNCHANGED <<calls, delivered>>
    BY <1>2 DEF Crash, redis, history
  <2>2. queue' = <<>> /\ batch' = <<>> /\ rpc' = "off" /\ \A v \in Workers : wmsg'[v] = None
    BY <1>2 DEF Crash
  <2>3. \A n \in Msgs : ~HasIt(n)'
    BY <2>2, OrderlyIsBoolean DEF HasIt, ToSet
  <2> QED BY <2>1, <2>3, StillUnseen
<1>3. ASSUME Prepare PROVE Unseen'
  <2>1. /\ UNCHANGED <<queue, batch, wmsg, calls, delivered>>
        /\ rpc' = "put" => rpc = "put" /\ claimed' = claimed
    BY <1>3 DEF Prepare, redis, local, poller, reclaimer, worker, history
  <2>2. \A n \in Msgs : HasIt(n)' => HasIt(n)
    BY <2>1 DEF HasIt
  <2> QED BY <2>1, <2>2, StillUnseen
<1>4. ASSUME PrepareFails PROVE Unseen'
  <2>1. /\ UNCHANGED <<queue, batch, wmsg, calls, delivered>>
        /\ rpc' = "put" => rpc = "put" /\ claimed' = claimed
    BY <1>4 DEF PrepareFails, Fault, redis, local, poller, reclaimer, worker, history
  <2>2. \A n \in Msgs : HasIt(n)' => HasIt(n)
    BY <2>1 DEF HasIt
  <2> QED BY <2>1, <2>2, StillUnseen
<1>5. ASSUME CloseQueue PROVE Unseen'
  <2>1. /\ UNCHANGED <<queue, batch, wmsg, calls, delivered>>
        /\ rpc' = "put" => rpc = "put" /\ claimed' = claimed
    BY <1>5 DEF CloseQueue, redis, local, poller, reclaimer, worker, history
  <2>2. \A n \in Msgs : HasIt(n)' => HasIt(n)
    BY <2>1 DEF HasIt
  <2> QED BY <2>1, <2>2, StillUnseen
<1>6. ASSUME PollRead PROVE Unseen'
  <2>1. UNCHANGED <<queue, wmsg, rpc, claimed, calls>> /\ delivered' = delivered \cup ToSet(batch')
    BY <1>6 DEF PollRead, local, reclaimer, worker, history
  <2>2. \A n \in Msgs \ delivered' : HasIt(n)' => HasIt(n)
    BY <2>1 DEF HasIt
  <2> QED BY <2>1, <2>2, StillUnseen
<1>7. ASSUME PollNothing PROVE Unseen'
  <2>1. /\ UNCHANGED <<queue, batch, wmsg, calls, delivered>>
        /\ rpc' = "put" => rpc = "put" /\ claimed' = claimed
    BY <1>7 DEF PollNothing, Fault, redis, local, poller, reclaimer, worker, history
  <2>2. \A n \in Msgs : HasIt(n)' => HasIt(n)
    BY <2>1 DEF HasIt
  <2> QED BY <2>1, <2>2, StillUnseen
<1>8. ASSUME PollPut PROVE Unseen'
  <2>1. UNCHANGED <<wmsg, rpc, claimed, calls, delivered>>
    BY <1>8 DEF PollPut, redis, reclaimer, worker, history
  <2>2. queue' = Append(queue, Head(batch)) /\ batch' = Tail(batch) /\ batch # <<>> /\ queue \in Seq(Msgs) /\ batch \in Seq(Msgs)
    BY <1>8 DEF PollPut, HandedOut, TypeOK
  <2>3. PICK h \in Msgs : h = Head(batch) /\ ToSet(batch) = ToSet(Tail(batch)) \cup {h}
    BY <2>2, Shortened
  <2>4. ToSet(queue') = ToSet(queue) \cup {h}
    BY <2>2, <2>3, OneMore
  <2>5. \A n \in Msgs : HasIt(n)' => HasIt(n)
    BY <2>1, <2>2, <2>3, <2>4 DEF HasIt
  <2> QED BY <2>1, <2>5, StillUnseen
<1>9. ASSUME ReclaimStops PROVE Unseen'
  <2>1. /\ UNCHANGED <<queue, batch, wmsg, calls, delivered>>
        /\ rpc' = "put" => rpc = "put" /\ claimed' = claimed
    BY <1>9 DEF ReclaimStops, redis, local, poller, reclaimer, worker, history
  <2>2. \A n \in Msgs : HasIt(n)' => HasIt(n)
    BY <2>1 DEF HasIt
  <2> QED BY <2>1, <2>2, StillUnseen
<1>10. ASSUME ReclaimClaim PROVE Unseen'
  <2>1. UNCHANGED <<queue, batch, wmsg, calls, delivered>> /\ rpc = "claim" /\ (rpc' = "put" => claimed' = claimed)
    BY <1>10 DEF ReclaimClaim, local, poller, worker, history
  <2>2. claimed \in delivered
    BY <2>1 DEF HandedOut
  <2>3. \A n \in Msgs \ delivered : HasIt(n)' => HasIt(n)
    BY <2>1, <2>2 DEF HasIt
  <2> QED BY <2>1, <2>3, StillUnseen
<1>11. ASSUME ReclaimFails PROVE Unseen'
  <2>1. /\ UNCHANGED <<queue, batch, wmsg, calls, delivered>>
        /\ rpc' = "put" => rpc = "put" /\ claimed' = claimed
    BY <1>11 DEF ReclaimFails, Fault, redis, local, poller, reclaimer, worker, history
  <2>2. \A n \in Msgs : HasIt(n)' => HasIt(n)
    BY <2>1 DEF HasIt
  <2> QED BY <2>1, <2>2, StillUnseen
<1>12. ASSUME ReclaimPut PROVE Unseen'
  <2>1. UNCHANGED <<wmsg, batch, calls, delivered>> /\ rpc = "put" /\ rpc' = "wait"
    BY <1>12 DEF ReclaimPut, redis, poller, worker, history
  <2>2. queue' = Append(queue, claimed) /\ queue \in Seq(Msgs) /\ claimed \in Msgs
    BY <1>12 DEF ReclaimPut, HandedOut, TypeOK
  <2>3. ToSet(queue') = ToSet(queue) \cup {claimed}
    BY <2>2, OneMore
  <2>4. \A n \in Msgs : HasIt(n)' => HasIt(n)
    BY <2>1, <2>3 DEF HasIt
  <2> QED BY <2>1, <2>4, StillUnseen
<1>13. ASSUME NEW m \in Msgs, AppendMsg(m)
      PROVE  Unseen'
  <2>1. /\ UNCHANGED <<queue, batch, wmsg, calls, delivered>>
        /\ rpc' = "put" => rpc = "put" /\ claimed' = claimed
    BY <1>13 DEF AppendMsg, redis, local, poller, reclaimer, worker, history
  <2>2. \A n \in Msgs : HasIt(n)' => HasIt(n)
    BY <2>1 DEF HasIt
  <2> QED BY <2>1, <2>2, StillUnseen
<1>14. ASSUME NEW m \in Msgs, GoOverdue(m)
      PROVE  Unseen'
  <2>1. /\ UNCHANGED <<queue, batch, wmsg, calls, delivered>>
        /\ rpc' = "put" => rpc = "put" /\ claimed' = claimed
    BY <1>14 DEF GoOverdue, Fault, redis, local, poller, reclaimer, worker, history
  <2>2. \A n \in Msgs : HasIt(n)' => HasIt(n)
    BY <2>1 DEF HasIt
  <2> QED BY <2>1, <2>2, StillUnseen
<1>15. ASSUME NEW m \in Msgs, ReclaimList(m)
      PROVE  Unseen'
  <2>1. /\ UNCHANGED <<queue, batch, wmsg, calls, delivered>>
        /\ rpc' = "put" => rpc = "put" /\ claimed' = claimed
    BY <1>15 DEF ReclaimList, redis, local, poller, reclaimer, worker, history
  <2>2. \A n \in Msgs : HasIt(n)' => HasIt(n)
    BY <2>1 DEF HasIt
  <2> QED BY <2>1, <2>2, StillUnseen
<1>16. ASSUME NEW w \in Workers, Take(w)
      PROVE  Unseen'
  <2>1. UNCHANGED <<batch, rpc, claimed, delivered>>
    BY <1>16 DEF Take, redis, poller, reclaimer
  <2>2. queue' = Tail(queue) /\ queue # <<>> /\ queue \in Seq(Msgs) /\ calls \in [Msgs -> Nat]
    BY <1>16 DEF Take, TypeOK
  <2>3. PICK h \in Msgs : h = Head(queue) /\ ToSet(queue) = ToSet(Tail(queue)) \cup {h}
    BY <2>2, Shortened
  <2>4. calls' = [calls EXCEPT ![h] = calls[h] + 1] /\ wmsg' = [wmsg EXCEPT ![w] = h]
    BY ONLY <1>16, <2>3 DEF Take, Work
  <2>5. \A n \in Msgs : HasIt(n)' => HasIt(n)
    BY <2>1, <2>2, <2>3, <2>4 DEF HasIt, TypeOK
  <2>6. h \in delivered
    BY <2>3 DEF Unseen, HasIt
  <2>7. \A n \in Msgs \ delivered' : calls'[n] = calls[n]
    BY <2>1, <2>2, <2>4, <2>6
  <2> QED BY <2>1, <2>5, <2>7, StillUnseen
<1>17. ASSUME NEW w \in Workers, WorkerExits(w)
      PROVE  Unseen'
  <2>1. UNCHANGED <<queue, batch, rpc, claimed, calls, delivered>> /\ wmsg' = [wmsg EXCEPT ![w] = wmsg'[w]] /\ wmsg'[w] \in {wmsg[w], None}
    BY <1>17 DEF WorkerExits, Work, redis, local, poller, reclaimer, history, TypeOK
  <2>2. \A n \in Msgs : HasIt(n)' => HasIt(n)
    BY <2>1, OrderlyIsBoolean DEF HasIt, TypeOK
  <2> QED BY <2>1, <2>2, StillUnseen
<1>18. ASSUME NEW w \in Workers, HandlerSucceeds(w)
      PROVE  Unseen'
  <2>1. UNCHANGED <<queue, batch, rpc, claimed, calls, delivered>> /\ wmsg' = [wmsg EXCEPT ![w] = wmsg'[w]] /\ wmsg'[w] \in {wmsg[w], None}
    BY <1>18 DEF HandlerSucceeds, Work, redis, local, poller, reclaimer, history, TypeOK
  <2>2. \A n \in Msgs : HasIt(n)' => HasIt(n)
    BY <2>1, OrderlyIsBoolean DEF HasIt, TypeOK
  <2> QED BY <2>1, <2>2, StillUnseen
<1>19. ASSUME NEW w \in Workers, HandlerFails(w)
      PROVE  Unseen'
  <2>1. UNCHANGED <<queue, batch, rpc, claimed, calls, delivered>> /\ wmsg' = [wmsg EXCEPT ![w] = wmsg'[w]] /\ wmsg'[w] \in {wmsg[w], None}
    BY <1>19 DEF HandlerFails, Work, redis, local, poller, reclaimer, history, TypeOK
  <2>2. \A n \in Msgs : HasIt(n)' => HasIt(n)
    BY <2>1, OrderlyIsBoolean DEF HasIt, TypeOK
  <2> QED BY <2>1, <2>2, StillUnseen
<1>20. ASSUME NEW w \in Workers, Ack(w)
      PROVE  Unseen'
  <2>1. UNCHANGED <<queue, batch, rpc, claimed, calls, delivered>> /\ wmsg' = [wmsg EXCEPT ![w] = wmsg'[w]] /\ wmsg'[w] \in {wmsg[w], None}
    BY <1>20 DEF Ack, Work, redis, local, poller, reclaimer, history, TypeOK
  <2>2. \A n \in Msgs : HasIt(n)' => HasIt(n)
    BY <2>1, OrderlyIsBoolean DEF HasIt, TypeOK
  <2> QED BY <2>1, <2>2, StillUnseen
<1>21. ASSUME NEW w \in Workers, Del(w)
      PROVE  Unseen'
  <2>1. UNCHANGED <<queue, batch, rpc, claimed, calls, delivered>> /\ wmsg' = [wmsg EXCEPT ![w] = wmsg'[w]] /\ wmsg'[w] \in {wmsg[w], None}
    BY <1>21 DEF Del, Work, redis, local, poller, reclaimer, history, TypeOK
  <2>2. \A n \in Msgs : HasIt(n)' => HasIt(n)
    BY <2>1, OrderlyIsBoolean DEF HasIt, TypeOK
  <2> QED BY <2>1, <2>2, StillUnseen
<1>22. ASSUME NEW w \in Workers, AckFails(w)
      PROVE  Unseen'
  <2>1. UNCHANGED <<queue, batch, rpc, claimed, calls, delivered>> /\ wmsg' = [wmsg EXCEPT ![w] = wmsg'[w]] /\ wmsg'[w] \in {wmsg[w], None}
    BY <1>22 DEF AckFails, Fault, Work, redis, local, poller, reclaimer, history, TypeOK
  <2>2. \A n \in Msgs : HasIt(n)' => HasIt(n)
    BY <2>1, OrderlyIsBoolean DEF HasIt, TypeOK
  <2> QED BY <2>1, <2>2, StillUnseen
<1>23. Next
  OBVIOUS
<1> QED
  BY ONLY <1>1, <1>2, <1>3, <1>4, <1>5, <1>6, <1>7, <1>8, <1>9, <1>10, <1>11, <1>12, <1>13, <1>14,
          <1>15, <1>16, <1>17, <1>18, <1>19, <1>20, <1>21, <1>22, <1>23
  DEF Next, WrapperStep, PollStep, ReclaimStep, WorkerStep, Aside

(* What a worker has acknowledged is not pending when it is deleted. *)
LEMMA KeepsAckedOnce ==
  ASSUME TypeOK, HandedOut, Unseen, AckedOnce, IsInjective(batch), Next
  PROVE  AckedOnce' /\ IsInjective(batch')
<1>1. ASSUME Aside PROVE AckedOnce' /\ IsInjective(batch')
  BY <1>1, StandsAside DEF AckedOnce
<1>2. ASSUME Crash PROVE AckedOnce' /\ IsInjective(batch')
  <2>1. batch' = <<>> /\ \A w \in Workers : wpc'[w] = "off"
    BY <1>2 DEF Crash
  <2>2. IsInjective(batch')
    BY <2>1 DEF IsInjective
  <2> QED BY <2>1, <2>2 DEF AckedOnce
<1>3. ASSUME Prepare PROVE AckedOnce' /\ IsInjective(batch')
  BY <1>3 DEF Prepare, AckedOnce, redis, poller, worker
<1>4. ASSUME PrepareFails PROVE AckedOnce' /\ IsInjective(batch')
  BY <1>4 DEF PrepareFails, Fault, AckedOnce, redis, poller, worker
<1>5. ASSUME CloseQueue PROVE AckedOnce' /\ IsInjective(batch')
  BY <1>5 DEF CloseQueue, AckedOnce, redis, poller, worker
<1>6. ASSUME PollRead PROVE AckedOnce' /\ IsInjective(batch')
  <2>1. UNCHANGED <<wpc, wmsg>> /\ pending' = pending \cup ToSet(batch')
    BY <1>6 DEF PollRead, worker
  <2>2. IsInjective(batch') /\ ToSet(batch') \subseteq Msgs \ delivered
    BY <1>6, Reading
  <2>3. \A w \in Workers : wpc[w] = "del" => wmsg[w] \in delivered
    BY OrderlyIsBoolean DEF Unseen, HasIt, TypeOK, HandedOut
  <2> QED BY <2>1, <2>2, <2>3 DEF AckedOnce
<1>7. ASSUME PollNothing PROVE AckedOnce' /\ IsInjective(batch')
  BY <1>7 DEF PollNothing, Fault, AckedOnce, redis, poller, worker
<1>8. ASSUME PollPut PROVE AckedOnce' /\ IsInjective(batch')
  <2>1. UNCHANGED <<wpc, wmsg, pending>> /\ batch' = Tail(batch) /\ batch # <<>> /\ batch \in Seq(Msgs)
    BY <1>8 DEF PollPut, HandedOut, TypeOK, redis, worker
  <2>2. IsInjective(batch')
    BY <2>1, Shortened
  <2> QED BY <2>1, <2>2 DEF AckedOnce
<1>9. ASSUME ReclaimStops PROVE AckedOnce' /\ IsInjective(batch')
  BY <1>9 DEF ReclaimStops, AckedOnce, redis, poller, worker
<1>10. ASSUME ReclaimClaim PROVE AckedOnce' /\ IsInjective(batch')
  BY <1>10 DEF ReclaimClaim, AckedOnce, redis, poller, worker
<1>11. ASSUME ReclaimFails PROVE AckedOnce' /\ IsInjective(batch')
  BY <1>11 DEF ReclaimFails, Fault, AckedOnce, redis, poller, worker
<1>12. ASSUME ReclaimPut PROVE AckedOnce' /\ IsInjective(batch')
  BY <1>12 DEF ReclaimPut, AckedOnce, redis, poller, worker
<1>13. ASSUME NEW m \in Msgs, AppendMsg(m)
      PROVE  AckedOnce' /\ IsInjective(batch')
  BY <1>13 DEF AppendMsg, AckedOnce, redis, poller, worker
<1>14. ASSUME NEW m \in Msgs, GoOverdue(m)
      PROVE  AckedOnce' /\ IsInjective(batch')
  BY <1>14 DEF GoOverdue, Fault, AckedOnce, redis, poller, worker
<1>15. ASSUME NEW m \in Msgs, ReclaimList(m)
      PROVE  AckedOnce' /\ IsInjective(batch')
  BY <1>15 DEF ReclaimList, AckedOnce, redis, poller, worker
<1>16. ASSUME NEW w \in Workers, Take(w)
      PROVE  AckedOnce' /\ IsInjective(batch')
  BY <1>16 DEF Take, Work, AckedOnce, TypeOK, redis, poller
<1>17. ASSUME NEW w \in Workers, WorkerExits(w)
      PROVE  AckedOnce' /\ IsInjective(batch')
  BY <1>17 DEF WorkerExits, Work, AckedOnce, TypeOK, redis, poller
<1>18. ASSUME NEW w \in Workers, HandlerSucceeds(w)
      PROVE  AckedOnce' /\ IsInjective(batch')
  BY <1>18 DEF HandlerSucceeds, Work, AckedOnce, TypeOK, redis, poller
<1>19. ASSUME NEW w \in Workers, HandlerFails(w)
      PROVE  AckedOnce' /\ IsInjective(batch')
  BY <1>19 DEF HandlerFails, Work, AckedOnce, TypeOK, redis, poller
<1>20. ASSUME NEW w \in Workers, Ack(w)
      PROVE  AckedOnce' /\ IsInjective(batch')
  BY <1>20 DEF Ack, Work, AckedOnce, TypeOK, redis, poller
<1>21. ASSUME NEW w \in Workers, Del(w)
      PROVE  AckedOnce' /\ IsInjective(batch')
  BY <1>21 DEF Del, Work, AckedOnce, TypeOK, redis, poller
<1>22. ASSUME NEW w \in Workers, AckFails(w)
      PROVE  AckedOnce' /\ IsInjective(batch')
  BY <1>22 DEF AckFails, Fault, Work, AckedOnce, TypeOK, redis, poller
<1>23. Next
  OBVIOUS
<1> QED
  BY ONLY <1>1, <1>2, <1>3, <1>4, <1>5, <1>6, <1>7, <1>8, <1>9, <1>10, <1>11, <1>12, <1>13, <1>14,
          <1>15, <1>16, <1>17, <1>18, <1>19, <1>20, <1>21, <1>22, <1>23
  DEF Next, WrapperStep, PollStep, ReclaimStep, WorkerStep, Aside

LEMMA RepeatStep == Orderly /\ RepeatInv /\ [Next]_vars => RepeatInv'
<1> SUFFICES ASSUME Orderly, RepeatInv, [Next]_vars PROVE RepeatInv'
  OBVIOUS
<1>1. ShutdownInv'
  BY ShutdownStep DEF RepeatInv
<1>2. TypeOK /\ HandedOut /\ Lifecycle /\ IsInjective(batch) /\ Paid /\ Owed /\ Unseen /\ AckedOnce
  BY DEF RepeatInv, ShutdownInv, AckedInv
<1>3. CASE Next
  BY <1>1, <1>2, <1>3, KeepsPaid, KeepsOwed, KeepsUnseen, KeepsAckedOnce DEF RepeatInv
<1>4. CASE UNCHANGED vars
  <2>1. UNCHANGED <<queue, batch, rpc, claimed, wpc, wmsg, pending, overdue, delivered, calls, fails, faults>>
    BY ONLY <1>4 DEF vars, redis, local, poller, reclaimer, worker, history
  <2>2. \A m : HasIt(m)' <=> HasIt(m)
    BY ONLY <2>1 DEF HasIt
  <2>3. Paid'
    BY <1>2, <2>1 DEF Paid, InBatch, InClaim, IsOverdue
  <2>4. Owed' /\ Unseen' /\ AckedOnce'
    BY <1>2, <2>1, <2>2 DEF Owed, Unseen, AckedOnce
  <2> QED BY <1>1, <1>2, <2>1, <2>3, <2>4 DEF RepeatInv
<1> QED BY <1>3, <1>4

LEMMA InitialRepeat == Init => RepeatInv
<1> SUFFICES ASSUME Init PROVE RepeatInv
  OBVIOUS
<1>1. ShutdownInv /\ TypeOK
  BY InitialShutdown, InitialType
<1>2. queue = <<>> /\ batch = <<>> /\ rpc = "off" /\ pending = {} /\ \A w \in Workers : wmsg[w] = None /\ wpc[w] = "off"
  BY DEF Init, InitLocal
<1>3. \A m \in Msgs : ~HasIt(m)
  BY <1>2, OrderlyIsBoolean DEF HasIt, ToSet
<1>4. IsInjective(batch) /\ Owed /\ AckedOnce
  BY <1>2 DEF IsInjective, Owed, AckedOnce
<1>5. Unseen
  BY <1>3 DEF Unseen, Init
<1>6. Paid
  <2> SUFFICES ASSUME NEW m \in Msgs
               PROVE  calls[m] + Copies(queue, m) + InBatch(m) + InClaim(m) + IsOverdue(m) <= 1 + fails[m] + faults
    BY DEF Paid
  <2>1. Copies(queue, m) = 0 /\ InBatch(m) = 0 /\ InClaim(m) = 0
    BY <1>1, <1>3, NotAnywhere
  <2>2. IsOverdue(m) = 0 /\ calls[m] = 0 /\ fails[m] = 0 /\ faults = 0
    BY DEF Init, IsOverdue
  <2> QED BY ONLY <2>1, <2>2
<1> QED BY <1>1, <1>4, <1>5, <1>6 DEF RepeatInv

(* A handler is called again for a message only when a call failed, the      *)
(* process crashed, a command failed or the visibility timeout was too short, *)
(* however many messages wait in the queue or are taken over at a time.      *)
THEOREM RepeatsPaid == Orderly => (Spec => []RepeatsNeedReasons)
<1> SUFFICES ASSUME Orderly PROVE Spec => []RepeatsNeedReasons
  OBVIOUS
<1>1. RepeatInv => RepeatsNeedReasons
  BY FaultPaid DEF RepeatInv, ShutdownInv, AckedInv, RepeatsNeedReasons
<1>2. Init => RepeatInv
  BY InitialRepeat
<1>3. RepeatInv /\ [Next]_vars => RepeatInv'
  BY RepeatStep
<1> QED BY <1>1, <1>2, <1>3, PTL DEF Spec
==============================================================================
