---------------------------- MODULE RedisDelayed ----------------------------
(***************************************************************************)
(* The delayed part of queue/redis: plans live in a sorted set and a hash  *)
(* of Redis, and every instance polls for due ones, claims a member with a *)
(* SET NX lock that expires, reads the payload, appends it to its stream   *)
(* and only then removes the plan.  Each Redis command or transaction is a *)
(* step; an instance may fail or die between any two of them.  Time is     *)
(* abstracted: a plan comes due at some moment after it was scheduled.     *)
(***************************************************************************)
EXTENDS DelayedMessages, FiniteSets

CONSTANTS Dispatchers, \* runDelayed goroutines, one in each instance
          MaxFaults    \* failures, crashes and premature expiries (bound)

ASSUME FaultBound == MaxFaults \in Nat
ASSUME InstancesAreFinite == IsFiniteSet(Dispatchers) /\ None \notin Dispatchers

VARIABLES schedule,   \* members of the sorted set
          due,        \* the members of it whose score is not in the future
          payload,    \* the hash: the version stored for each member, or None
          lock,       \* who set the member's lock key, None if it does not exist
          pc,         \* where each dispatcher is
          batch,      \* the members its scan returned and it has not tried yet
          member,     \* the member it works on
          raw,        \* the payload it has read
          fate,       \* "new", "planned", or "withdrawn" by Cancel or Schedule
          overlapped, \* versions stored between an HGet of their ID and its removal
          delivered,  \* delivered[v]: how often v was appended
          faults      \* faults so far

redis == <<schedule, due, payload>>
dispatcher == <<pc, batch, member, raw>>
history == <<fate, overlapped, delivered>>
vars == <<redis, lock, dispatcher, history, faults>>

Busy == {"claimed", "empty", "read", "appended", "unlock"}

TypeOK == /\ schedule \subseteq Ids /\ due \subseteq schedule
          /\ payload \in [Ids -> Versions \cup {None}]
          /\ lock \in [Ids -> Dispatchers \cup {None}]
          /\ pc \in [Dispatchers -> Busy \cup {"poll", "scan"}]
          /\ batch \in [Dispatchers -> SUBSET Ids]
          /\ member \in [Dispatchers -> Ids \cup {None}]
          /\ raw \in [Dispatchers -> Versions \cup {None}]
          /\ \A d \in Dispatchers : /\ pc[d] = "poll" => batch[d] = {}
                                    /\ pc[d] = "read" <=> raw[d] # None
                                    /\ pc[d] \in Busy <=> member[d] # None
          /\ fate \in [Versions -> {"new", "planned", "withdrawn"}]
          /\ overlapped \subseteq Versions
          /\ delivered \in [Versions -> Nat]
          /\ faults \in 0..MaxFaults

Init == /\ schedule = {} /\ due = {}
        /\ payload = [i \in Ids |-> None] /\ lock = [i \in Ids |-> None]
        /\ pc = [d \in Dispatchers |-> "poll"]
        /\ batch = [d \in Dispatchers |-> {}]
        /\ member = [d \in Dispatchers |-> None] /\ raw = [d \in Dispatchers |-> None]
        /\ fate = [v \in Versions |-> "new"] /\ overlapped = {}
        /\ delivered = [v \in Versions |-> 0]
        /\ faults = 0

\* The plan of i is given up for good: its version, if not delivered, is withdrawn.
Withdraw(i) == [v \in Versions |-> IF payload[i] = v THEN "withdrawn" ELSE fate[v]]
-----------------------------------------------------------------------------
(* Schedule and Cancel are one transaction each. *)

\* An instance has read what i held and is to remove what i holds by then.
AboutToRemove(i) ==
  \E d \in Dispatchers : member[d] = i /\ pc[d] \in {"empty", "read", "appended"}

Schedule(v) ==
  LET i == IdOf[v] IN
  /\ fate[v] = "new"
  /\ fate' = [Withdraw(i) EXCEPT ![v] = "planned"]
  /\ payload' = [payload EXCEPT ![i] = v]
  /\ schedule' = schedule \cup {i}
  /\ due' = due \ {i}
  /\ overlapped' = IF AboutToRemove(i) THEN overlapped \cup {v} ELSE overlapped
  /\ UNCHANGED <<lock, dispatcher, delivered, faults>>

Cancel(i) ==
  /\ i \in schedule \/ payload[i] # None
  /\ fate' = Withdraw(i)
  /\ payload' = [payload EXCEPT ![i] = None]
  /\ schedule' = schedule \ {i}
  /\ due' = due \ {i}
  /\ UNCHANGED <<lock, dispatcher, overlapped, delivered, faults>>

ComeDue(i) ==
  /\ i \in schedule \ due
  /\ due' = due \cup {i}
  /\ UNCHANGED <<schedule, payload, lock, dispatcher, history, faults>>
-----------------------------------------------------------------------------
(* dispatchDue and dispatchDelayedMember *)

Scan(d) ==
  /\ pc[d] = "poll" /\ due # {}
  /\ batch' = [batch EXCEPT ![d] = due]
  /\ pc' = [pc EXCEPT ![d] = "scan"]
  /\ UNCHANGED <<redis, lock, member, raw, history, faults>>

EndOfBatch(d) ==
  /\ pc[d] = "scan" /\ batch[d] = {}
  /\ pc' = [pc EXCEPT ![d] = "poll"]
  /\ UNCHANGED <<redis, lock, batch, member, raw, history, faults>>

ClaimAnyway(d, i) ==           \* mutant: SET without NX
  /\ pc[d] = "scan" /\ i \in batch[d]
  /\ batch' = [batch EXCEPT ![d] = @ \ {i}]
  /\ lock' = [lock EXCEPT ![i] = d]
  /\ member' = [member EXCEPT ![d] = i]
  /\ pc' = [pc EXCEPT ![d] = "claimed"]
  /\ UNCHANGED <<redis, raw, history, faults>>

Claim(d, i) ==
  /\ pc[d] = "scan" /\ i \in batch[d]
  /\ batch' = [batch EXCEPT ![d] = @ \ {i}]
  /\ IF lock[i] = None
       THEN /\ lock' = [lock EXCEPT ![i] = d]
            /\ member' = [member EXCEPT ![d] = i]
            /\ pc' = [pc EXCEPT ![d] = "claimed"]
       ELSE UNCHANGED <<lock, member, pc>>
  /\ UNCHANGED <<redis, raw, history, faults>>

ReadAndRemove(d) ==            \* mutant: the plan is removed before it is appended
  /\ pc[d] = "claimed"
  /\ schedule' = schedule \ {member[d]} /\ due' = due \ {member[d]}
  /\ payload' = [payload EXCEPT ![member[d]] = None]
  /\ raw' = [raw EXCEPT ![d] = payload[member[d]]]
  /\ pc' = [pc EXCEPT ![d] = IF payload[member[d]] = None THEN "empty" ELSE "read"]
  /\ UNCHANGED <<lock, batch, member, history, faults>>

Read(d) ==
  /\ pc[d] = "claimed"
  /\ raw' = [raw EXCEPT ![d] = payload[member[d]]]
  /\ pc' = [pc EXCEPT ![d] = IF payload[member[d]] = None THEN "empty" ELSE "read"]
  /\ UNCHANGED <<redis, lock, batch, member, history, faults>>

\* HGet answered nil, so the score is taken for a leftover, whatever it is by now.
DropScore(d) ==
  /\ pc[d] = "empty"
  /\ schedule' = schedule \ {member[d]} /\ due' = due \ {member[d]}
  /\ pc' = [pc EXCEPT ![d] = "unlock"]
  /\ UNCHANGED <<payload, lock, batch, member, raw, history, faults>>

AppendToStream(d) ==
  /\ pc[d] = "read"
  /\ delivered' = [delivered EXCEPT ![raw[d]] = @ + 1]
  /\ raw' = [raw EXCEPT ![d] = None]
  /\ pc' = [pc EXCEPT ![d] = "appended"]
  /\ UNCHANGED <<redis, lock, batch, member, fate, overlapped, faults>>

RemovePlan(d) ==
  /\ pc[d] = "appended"
  /\ schedule' = schedule \ {member[d]} /\ due' = due \ {member[d]}
  /\ payload' = [payload EXCEPT ![member[d]] = None]
  /\ pc' = [pc EXCEPT ![d] = "unlock"]
  /\ UNCHANGED <<lock, batch, member, raw, history, faults>>

\* The deferred DEL removes the lock key, whoever set it.
Unlock(d) ==
  /\ pc[d] = "unlock"
  /\ lock' = [lock EXCEPT ![member[d]] = None]
  /\ member' = [member EXCEPT ![d] = None]
  /\ pc' = [pc EXCEPT ![d] = "scan"]
  /\ UNCHANGED <<redis, batch, raw, history, faults>>
-----------------------------------------------------------------------------
(* Faults *)

\* A command fails, or the context is cancelled: the error ends this round.
\* The command may have taken effect; the deferred DEL may fail with it, and a
\* crash skips it.
Fail(d) ==
  /\ pc[d] \in Busy /\ faults < MaxFaults
  /\ faults' = faults + 1
  /\ \/ lock' = [lock EXCEPT ![member[d]] = None]
     \/ UNCHANGED lock
  /\ pc' = [pc EXCEPT ![d] = "poll"]
  /\ batch' = [batch EXCEPT ![d] = {}]
  /\ member' = [member EXCEPT ![d] = None] /\ raw' = [raw EXCEPT ![d] = None]
  /\ UNCHANGED <<redis, history>>

Orphaned(i) == lock[i] # None /\ member[lock[i]] # i

LockNeverExpires(i) ==         \* mutant: SETNX without a TTL
  /\ lock[i] # None
  /\ UNCHANGED vars

\* The TTL of a lock runs out, perhaps under a dispatcher that is only slow.
LockExpires(i) ==
  /\ lock[i] # None
  /\ \/ Orphaned(i) /\ UNCHANGED faults
     \/ ~Orphaned(i) /\ faults < MaxFaults /\ faults' = faults + 1
  /\ lock' = [lock EXCEPT ![i] = None]
  /\ UNCHANGED <<redis, dispatcher, history>>

DispatchStep(d) == \/ Scan(d) \/ EndOfBatch(d) \/ \E i \in Ids : Claim(d, i)
                   \/ Read(d) \/ DropScore(d)
                   \/ AppendToStream(d) \/ RemovePlan(d) \/ Unlock(d)

Next == \/ \E v \in Versions : Schedule(v)
        \/ \E i \in Ids : Cancel(i) \/ ComeDue(i) \/ LockExpires(i)
        \/ \E d \in Dispatchers : DispatchStep(d) \/ Fail(d)

\* Every instance goes on polling, and an orphaned lock's TTL runs out.
Fairness == /\ \A d \in Dispatchers : WF_vars(DispatchStep(d))
            /\ \A i \in Ids : WF_vars(Orphaned(i) /\ LockExpires(i))

Spec == Init /\ [][Next]_vars
FairSpec == Spec /\ Fairness
-----------------------------------------------------------------------------
Waiting(v) == IdOf[v] \in schedule /\ payload[IdOf[v]] = v

(* No crash, error or expired lock loses a plan: until it is cancelled or  *)
(* replaced it waits in Redis or has been delivered, because RemovePlan    *)
(* comes after AppendToStream.  The exception is a plan stored while an    *)
(* instance was between its HGet and the removal that follows: the score   *)
(* after a nil, score and payload after an append.                         *)
NothingLost == \A v \in Versions :
  fate[v] = "planned" /\ v \notin overlapped => Waiting(v) \/ delivered[v] > 0

(* The lock keeps two instances from delivering one plan: each further     *)
(* delivery of a message is paid for by a fault.                           *)
DuplicatesNeedFaults == \A v \in Versions : delivered[v] <= 1 + faults

(* A due plan is delivered, or cancelled or replaced first: a crashed      *)
(* instance's lock expires and another one (or the same) goes on.  Only a  *)
(* plan in overlapped may vanish otherwise.                                *)
DueIsDelivered ==
  \A v \in Versions :
    Waiting(v) /\ IdOf[v] \in due
      ~> (delivered[v] > 0 \/ fate[v] = "withdrawn" \/ (v \in overlapped /\ ~Waiting(v)))

(* What Schedule accepted is kept until it is delivered, replaced or       *)
(* cancelled: "相同流和消息编号会覆盖原计划", "成功写入 Stream 后才删除计划". *)
AcceptedPlanKept == \A v \in Versions : fate[v] = "planned" => Waiting(v) \/ delivered[v] > 0
=============================================================================
