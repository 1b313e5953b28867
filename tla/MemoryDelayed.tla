---------------------------- MODULE MemoryDelayed ----------------------------
(***************************************************************************)
(* The delayed part of queue/memory: Schedule and Cancel keep a map of     *)
(* plans beside the timer engine, and the timer's callback clears the plan *)
(* and appends the message.  The engine is taken as module HPTimer shows   *)
(* it: one task per ID, one loop that pops a due task and runs its         *)
(* callback, RemoveTask only for tasks that have not been popped.  A task  *)
(* may come due at any time after it was added.                            *)
(***************************************************************************)
EXTENDS DelayedMessages

CONSTANT Callers     \* goroutines that call Schedule and Cancel

VARIABLES plans,     \* Memory.plans
          heap,      \* the timer's waiting tasks
          firing,    \* the task its loop has popped, or None
          cleared,   \* the callback of that task has deleted the plan
          closing,   \* Memory.closing is closed
          stopped,   \* the engine no longer runs
          cpc, arg,  \* where each caller is; its version (Schedule) or ID (Cancel)
          outcome,   \* what Schedule, and a later Cancel, answered for each version
          appended,  \* appended[v]: how often v was appended (history)
          exposed    \* accepted versions that waited without a plan of theirs (history)

timer == <<heap, firing, cleared, stopped>>
memoryVars == <<plans, timer, closing, cpc, arg, outcome, appended, exposed>>

MemoryTypeOK == /\ plans \subseteq Ids
                /\ heap \subseteq Versions
                /\ firing \in Versions \cup {None}
                /\ cleared \in BOOLEAN /\ closing \in BOOLEAN /\ stopped \in BOOLEAN
                /\ cpc \in [Callers -> {"idle", "replace", "add", "store", "cancel"}]
                /\ arg \in [Callers -> Versions \cup Ids \cup {None}]
                /\ outcome \in [Versions -> {"new", "called", "ok", "refused", "cancelled"}]
                /\ appended \in [Versions -> Nat]
                /\ exposed \subseteq Versions

MemoryInit == /\ plans = {} /\ heap = {} /\ firing = None
              /\ cleared = FALSE /\ closing = FALSE /\ stopped = FALSE
              /\ cpc = [c \in Callers |-> "idle"] /\ arg = [c \in Callers |-> None]
              /\ outcome = [v \in Versions |-> "new"]
              /\ appended = [v \in Versions |-> 0]
              /\ exposed = {}

Goto(c, point, x) == cpc' = [cpc EXCEPT ![c] = point] /\ arg' = [arg EXCEPT ![c] = x]

WithId(i) == {v \in Versions : IdOf[v] = i}

\* The messages of i that Schedule accepted and that wait in the timer.
Accepted(i) == {v \in heap \cap WithId(i) : outcome[v] = "ok"}
-----------------------------------------------------------------------------
(* Schedule: look the plan up, remove its task, add the new one, store the plan. *)

MemorySchedule(c, v) ==
  /\ cpc[c] = "idle" /\ outcome[v] = "new" /\ ~closing
  /\ outcome' = [outcome EXCEPT ![v] = "called"]
  /\ Goto(c, IF IdOf[v] \in plans THEN "replace" ELSE "add", v)
  /\ UNCHANGED <<plans, timer, closing, appended, exposed>>

ScheduleReplace(c) ==
  /\ cpc[c] = "replace"
  /\ heap' = IF stopped THEN heap ELSE heap \ WithId(IdOf[arg[c]])
  /\ Goto(c, "add", arg[c])
  /\ UNCHANGED <<plans, firing, cleared, stopped, closing, outcome, appended, exposed>>

ScheduleAdd(c) ==
  /\ cpc[c] = "add"
  /\ IF ~stopped /\ heap \cap WithId(IdOf[arg[c]]) = {}
       THEN /\ heap' = heap \cup {arg[c]}
            /\ Goto(c, "store", arg[c])
            /\ UNCHANGED outcome
       ELSE /\ outcome' = [outcome EXCEPT ![arg[c]] = "refused"]
            /\ Goto(c, "idle", None)
            /\ UNCHANGED heap
  /\ UNCHANGED <<plans, firing, cleared, stopped, closing, appended, exposed>>

ScheduleStore(c) ==
  /\ cpc[c] = "store"
  /\ plans' = plans \cup {IdOf[arg[c]]}
  /\ outcome' = [outcome EXCEPT ![arg[c]] = "ok"]
  /\ Goto(c, "idle", None)
  /\ UNCHANGED <<timer, closing, appended, exposed>>

(* Cancel: take the plan, and only if there was one remove the task. *)

\* Cancel of i returns nil: i's accepted and untriggered messages are cancelled (history).
CancelReturns(i) ==
  outcome' = [v \in Versions |->
                IF outcome[v] = "ok" /\ IdOf[v] = i /\ appended[v] = 0 /\ firing # v
                  THEN "cancelled" ELSE outcome[v]]

\* Another Cancel that has taken the plan may not have removed the task yet.
MemoryCancel(c, i) ==
  /\ cpc[c] = "idle"
  /\ IF i \in plans
       THEN /\ plans' = plans \ {i}
            /\ Goto(c, "cancel", i)
            /\ UNCHANGED <<outcome, exposed>>
       ELSE /\ CancelReturns(i)
            /\ exposed' = IF \E d \in Callers : cpc[d] = "cancel" /\ arg[d] = i
                            THEN exposed \cup Accepted(i) ELSE exposed
            /\ UNCHANGED <<plans, cpc, arg>>
  /\ UNCHANGED <<timer, closing, appended>>

CancelKeepsTask(c) ==          \* mutant: the plan is dropped, the task is not
  /\ cpc[c] = "cancel"
  /\ CancelReturns(arg[c])
  /\ Goto(c, "idle", None)
  /\ UNCHANGED <<plans, timer, closing, appended, exposed>>

CancelRemove(c) ==
  /\ cpc[c] = "cancel"
  /\ heap' = IF stopped THEN heap ELSE heap \ WithId(arg[c])
  /\ CancelReturns(arg[c])
  /\ Goto(c, "idle", None)
  /\ UNCHANGED <<plans, firing, cleared, stopped, closing, appended, exposed>>
-----------------------------------------------------------------------------
(* The timer's loop, and Shutdown. *)

Pop(v) ==
  /\ firing = None /\ v \in heap /\ ~stopped
  /\ heap' = heap \ {v}
  /\ firing' = v
  /\ UNCHANGED <<plans, cleared, stopped, closing, cpc, arg, outcome, appended, exposed>>

\* The plan it deletes may be that of a newer message under the same ID.
CallbackClear ==
  /\ firing # None /\ ~cleared
  /\ plans' = plans \ {IdOf[firing]}
  /\ exposed' = exposed \cup Accepted(IdOf[firing])
  /\ cleared' = TRUE
  /\ UNCHANGED <<heap, firing, stopped, closing, cpc, arg, outcome, appended>>

\* Append refuses once closing is closed; the callback's error is only logged.
CallbackAppend ==
  /\ firing # None /\ cleared
  /\ appended' = IF closing THEN appended ELSE [appended EXCEPT ![firing] = @ + 1]
  /\ firing' = None /\ cleared' = FALSE
  /\ UNCHANGED <<plans, heap, stopped, closing, cpc, arg, outcome, exposed>>

Shutdown ==
  /\ ~closing
  /\ closing' = TRUE
  /\ UNCHANGED <<plans, timer, cpc, arg, outcome, appended, exposed>>

ShutdownStopsTimer ==
  /\ closing /\ ~stopped
  /\ stopped' = TRUE
  /\ heap' = {}
  /\ UNCHANGED <<plans, firing, cleared, closing, cpc, arg, outcome, appended, exposed>>

CallerStep(c) == ScheduleReplace(c) \/ ScheduleAdd(c) \/ ScheduleStore(c) \/ CancelRemove(c)
LoopStep == (\E v \in Versions : Pop(v)) \/ CallbackClear \/ CallbackAppend

MemoryNext == \/ \E c \in Callers : \/ \E v \in Versions : MemorySchedule(c, v)
                                    \/ \E i \in Ids : MemoryCancel(c, i)
                                    \/ CallerStep(c)
              \/ LoopStep
              \/ Shutdown \/ ShutdownStopsTimer

MemorySpec == MemoryInit /\ [][MemoryNext]_memoryVars
-----------------------------------------------------------------------------
(* What Cancel answered is final: a message that was accepted and had not  *)
(* been triggered is not in the timer any more, is not being appended and  *)
(* will not be, whatever the loop pops and other callers replace.  The     *)
(* exception is a message that waits without a plan: an older callback of  *)
(* its ID has deleted it, or a concurrent Cancel holds it.                 *)
CancelIsFinal ==
  \A v \in Versions \ exposed :
    outcome[v] = "cancelled" => v \notin heap /\ firing # v /\ appended[v] = 0

(* "Cancel 取消指定流中尚未触发的内存延迟消息": no message is appended that  *)
(* had not been triggered when Cancel returned nil for it.                 *)
CancelledStaysOut == \A v \in Versions : outcome[v] = "cancelled" => appended[v] = 0
=============================================================================
