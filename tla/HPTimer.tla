------------------------------- MODULE HPTimer -------------------------------
(***************************************************************************)
(* transport/hptimer: one goroutine (`run`) sleeps until the earliest task *)
(* of a heap is due, fires it and re-adds it if it repeats.  Callers add,  *)
(* upsert and remove tasks and stop the engine.  The sections under ht.mu  *)
(* are the atomic steps; the one-slot wakeup channel cuts a sleep short.   *)
(***************************************************************************)
EXTENDS Naturals, FiniteSets

CONSTANTS Tasks,      \* *TimerTask values the callers create, each used once
          IdOf,       \* IdOf[t]: the ID of t
          Interval,   \* Interval[t]: 0 for a one-shot task
          WithParent, \* the tasks whose Ctx the caller can cancel (WithContext)
          AwaitsCtx,  \* AwaitsCtx[t]: the callback of t returns when its Ctx is done
          Callers,    \* goroutines that use the engine
          Loops,      \* run goroutines, one for each effective Start
          MaxTime,    \* the clock stops here (bound)
          None

ASSUME TaskAttributes == /\ Interval \in [Tasks -> Nat]
                         /\ AwaitsCtx \in [Tasks -> BOOLEAN]
                         /\ None \notin Tasks
ASSUME ClockBound == MaxTime \in Nat

Time == 0..MaxTime

VARIABLES now,        \* the clock
          running,    \* ht.running
          ctxDone,    \* ht.ctx is cancelled
          pending,    \* the tasks in ht.heap and ht.tasks
          at,         \* at[t]: the At of t
          cancelled,  \* the tasks whose Ctx is done
          wakeup,     \* a signal waits in ht.wakeup
          pc, arg,    \* where each caller is, and the task it upserts
          lpc, ltask, \* where each run goroutine is, and its nextTask
          ltime,      \* its captured `now`, or the deadline it sleeps to
          unused,     \* tasks no caller has used yet
          last,       \* last[i]: the task last added under ID i, or None if there
                      \*   is none or RemoveTask has answered `true` since (history)
          removed     \* tasks a RemoveTask or an upsert took out (history)

engine == <<running, ctxDone, pending, at, cancelled, wakeup>>
caller == <<pc, arg>>
loop == <<lpc, ltask, ltime>>
history == <<unused, last, removed>>
vars == <<now, engine, caller, loop, history>>

Ids == {IdOf[t] : t \in Tasks}

TypeOK == /\ now \in Time
          /\ running \in BOOLEAN /\ ctxDone \in BOOLEAN /\ wakeup \in BOOLEAN
          /\ pending \subseteq Tasks /\ cancelled \subseteq Tasks
          /\ at \in [Tasks -> Nat]
          /\ pc \in [Callers -> {"idle", "upsert", "stopping", "waiting", "stopped"}]
          /\ arg \in [Callers -> Tasks \cup {None}]
          /\ lpc \in [Loops -> {"unborn", "check", "idle", "sleep", "popped",
                                "callback", "repeat", "done"}]
          /\ ltask \in [Loops -> Tasks \cup {None}]
          /\ ltime \in [Loops -> Nat]
          /\ unused \subseteq Tasks /\ removed \subseteq Tasks
          /\ last \in [Ids -> Tasks \cup {None}]

Init == /\ now = 0
        /\ running = FALSE /\ ctxDone = FALSE /\ wakeup = FALSE
        /\ pending = {} /\ cancelled = {}
        /\ at = [t \in Tasks |-> 0]
        /\ pc = [c \in Callers |-> "idle"] /\ arg = [c \in Callers |-> None]
        /\ lpc = [l \in Loops |-> "unborn"]
        /\ ltask = [l \in Loops |-> None] /\ ltime = [l \in Loops |-> 0]
        /\ unused = Tasks /\ removed = {}
        /\ last = [i \in Ids |-> None]

Tick == /\ now < MaxTime
        /\ now' = now + 1
        /\ UNCHANGED <<engine, caller, loop, history>>
-----------------------------------------------------------------------------
(* What the callers do. *)

Acceptable(t) == running /\ \A u \in pending : IdOf[u] # IdOf[t]

\* AddTask's section: push, and signal the loop if the task is the new heap top.
PushQuietly(t, time) ==        \* mutant: no signal for a new heap top
  /\ pending' = pending \cup {t}
  /\ at' = [at EXCEPT ![t] = time]
  /\ UNCHANGED wakeup

Push(t, time) ==
  /\ pending' = pending \cup {t}
  /\ at' = [at EXCEPT ![t] = time]
  /\ wakeup' = (wakeup \/ \A u \in pending : time < at[u])

PushOrRefuse(t, time) ==
  IF Acceptable(t)
    THEN /\ Push(t, time)
         /\ last' = [last EXCEPT ![IdOf[t]] = t]
    ELSE UNCHANGED <<pending, at, wakeup, last>>

AddTask(c, t, time) ==
  /\ pc[c] = "idle" /\ t \in unused
  /\ unused' = unused \ {t}
  /\ PushOrRefuse(t, time)
  /\ UNCHANGED <<now, running, ctxDone, cancelled, caller, loop, removed>>

\* UpsertTask's first section takes the task of the same ID out ...
UpsertRemove(c, t) ==
  LET existing == {u \in pending : IdOf[u] = IdOf[t]} IN
  /\ pc[c] = "idle" /\ t \in unused
  /\ unused' = unused \ {t}
  /\ pending' = pending \ existing
  /\ cancelled' = cancelled \cup existing
  /\ removed' = removed \cup existing
  /\ pc' = [pc EXCEPT ![c] = "upsert"]
  /\ arg' = [arg EXCEPT ![c] = t]
  /\ UNCHANGED <<now, running, ctxDone, at, wakeup, loop, last>>

\* ... and AddTask adds the new one in a section of its own.
UpsertAdd(c, time) ==
  /\ pc[c] = "upsert"
  /\ PushOrRefuse(arg[c], time)
  /\ pc' = [pc EXCEPT ![c] = "idle"]
  /\ arg' = [arg EXCEPT ![c] = None]
  /\ UNCHANGED <<now, running, ctxDone, cancelled, loop, unused, removed>>

RemoveTaskOnPaper(c, t) ==     \* mutant: answers true, leaves heap and Ctx alone
  /\ pc[c] = "idle"
  /\ running /\ t \in pending
  /\ removed' = removed \cup {t}
  /\ last' = [last EXCEPT ![IdOf[t]] = None]
  /\ UNCHANGED <<now, engine, caller, loop, unused>>

\* RemoveTask of an ID that has a task; it returns true.
RemoveTask(c, t) ==
  /\ pc[c] = "idle"
  /\ running /\ t \in pending
  /\ cancelled' = cancelled \cup {t}
  /\ pending' = pending \ {t}
  /\ removed' = removed \cup {t}
  /\ last' = [last EXCEPT ![IdOf[t]] = None]
  /\ UNCHANGED <<now, running, ctxDone, at, wakeup, caller, loop, unused>>

\* The parent given to WithContext is cancelled.
CancelParent(t) ==
  /\ t \in WithParent \ (unused \cup cancelled)
  /\ cancelled' = cancelled \cup {t}
  /\ UNCHANGED <<now, running, ctxDone, pending, at, wakeup, caller, loop, history>>

Start(c, l) ==
  /\ pc[c] = "idle" /\ ~running
  /\ lpc[l] = "unborn"
  /\ running' = TRUE
  /\ lpc' = [lpc EXCEPT ![l] = "check"]
  /\ UNCHANGED <<now, ctxDone, pending, at, cancelled, wakeup, caller, ltask, ltime, history>>

(* Stop: cancel the engine's context; then a section under ht.mu; then wg.Wait. *)
StopCancel(c) ==
  /\ pc[c] = "idle"
  /\ ctxDone' = TRUE
  /\ pc' = [pc EXCEPT ![c] = "stopping"]
  /\ UNCHANGED <<now, running, pending, at, cancelled, wakeup, arg, loop, history>>

StopSection(c) ==
  /\ pc[c] = "stopping"
  /\ IF running
       THEN /\ running' = FALSE
            /\ cancelled' = cancelled \cup pending
            /\ pending' = {}
            /\ pc' = [pc EXCEPT ![c] = "waiting"]
       ELSE /\ pc' = [pc EXCEPT ![c] = "idle"]
            /\ UNCHANGED <<running, cancelled, pending>>
  /\ UNCHANGED <<now, ctxDone, at, wakeup, arg, loop, history>>

StopNoWait(c) ==               \* mutant: Stop returns without wg.Wait
  /\ pc[c] = "waiting"
  /\ pc' = [pc EXCEPT ![c] = "stopped"]
  /\ UNCHANGED <<now, engine, arg, loop, history>>

StopWait(c) ==
  /\ pc[c] = "waiting"
  /\ \A l \in Loops : lpc[l] \in {"unborn", "done"}
  /\ pc' = [pc EXCEPT ![c] = "stopped"]
  /\ UNCHANGED <<now, engine, arg, loop, history>>
-----------------------------------------------------------------------------
(* What a run goroutine does. *)

NextRound(l) == /\ lpc' = [lpc EXCEPT ![l] = "check"]
                /\ ltask' = [ltask EXCEPT ![l] = None]
                /\ ltime' = [ltime EXCEPT ![l] = 0]

Earliest == {t \in pending : \A u \in pending : at[t] <= at[u]}

LoopExitAtTop(l) ==            \* mutant: the selects do not watch ctx.Done()
  /\ lpc[l] = "check" /\ (~running \/ ctxDone)
  /\ lpc' = [lpc EXCEPT ![l] = "done"]
  /\ UNCHANGED <<now, engine, caller, ltask, ltime, history>>

LoopExit(l) ==
  /\ \/ lpc[l] = "check" /\ (~running \/ ctxDone)
     \/ lpc[l] \in {"idle", "sleep"} /\ ctxDone
  /\ lpc' = [lpc EXCEPT ![l] = "done"]
  /\ UNCHANGED <<now, engine, caller, ltask, ltime, history>>

LoopNoTask(l) ==
  /\ lpc[l] = "check" /\ running /\ ~ctxDone
  /\ pending = {}
  /\ lpc' = [lpc EXCEPT ![l] = "idle"]
  /\ UNCHANGED <<now, engine, caller, ltask, ltime, history>>

LoopSleep(l) ==
  /\ lpc[l] = "check" /\ running /\ ~ctxDone
  /\ \E t \in Earliest :
       /\ at[t] > now
       /\ ltime' = [ltime EXCEPT ![l] = at[t]]
  /\ lpc' = [lpc EXCEPT ![l] = "sleep"]
  /\ UNCHANGED <<now, engine, caller, ltask, history>>

LoopPop(l) ==
  /\ lpc[l] = "check" /\ running /\ ~ctxDone
  /\ \E t \in Earliest :
       /\ at[t] <= now
       /\ pending' = pending \ {t}
       /\ ltask' = [ltask EXCEPT ![l] = t]
  /\ ltime' = [ltime EXCEPT ![l] = now]
  /\ lpc' = [lpc EXCEPT ![l] = "popped"]
  /\ UNCHANGED <<now, running, ctxDone, at, cancelled, wakeup, caller, history>>

\* The timer fires, or the wakeup channel does.
LoopResume(l) ==
  /\ \/ lpc[l] = "sleep" /\ now >= ltime[l] /\ UNCHANGED wakeup
     \/ lpc[l] \in {"idle", "sleep"} /\ wakeup /\ wakeup' = FALSE
  /\ NextRound(l)
  /\ UNCHANGED <<now, running, ctxDone, pending, at, cancelled, caller, history>>

LoopFire(l) ==
  /\ lpc[l] = "popped"
  /\ IF ltask[l] \in cancelled
       THEN NextRound(l)
       ELSE lpc' = [lpc EXCEPT ![l] = "callback"] /\ UNCHANGED <<ltask, ltime>>
  /\ UNCHANGED <<now, engine, caller, history>>

CallbackReturns(l) ==
  /\ lpc[l] = "callback"
  /\ AwaitsCtx[ltask[l]] => ltask[l] \in cancelled
  /\ lpc' = [lpc EXCEPT ![l] = "repeat"]
  /\ UNCHANGED <<now, engine, caller, ltask, ltime, history>>

RepeatOnlyInTime(l) ==         \* mutant: a task that overran its interval is not re-added
  LET t == ltask[l] nextAt == ltime[l] + Interval[t] IN
  /\ lpc[l] = "repeat"
  /\ IF t \notin cancelled /\ Interval[t] > 0 /\ nextAt > now /\ Acceptable(t)
       THEN Push(t, nextAt)
       ELSE UNCHANGED <<pending, at, wakeup>>
  /\ NextRound(l)
  /\ UNCHANGED <<now, running, ctxDone, cancelled, caller, history>>

RepeatBackwards(l) ==          \* mutant: the interval is subtracted
  LET t == ltask[l] IN
  /\ lpc[l] = "repeat"
  /\ IF t \notin cancelled /\ Interval[t] > 0 /\ Acceptable(t)
       THEN Push(t, ltime[l] - Interval[t])
       ELSE UNCHANGED <<pending, at, wakeup>>
  /\ NextRound(l)
  /\ UNCHANGED <<now, running, ctxDone, cancelled, caller, history>>

RepeatAlways(l) ==             \* mutant: re-adds without AddTask's duplicate check
  LET t == ltask[l] IN
  /\ lpc[l] = "repeat"
  /\ IF t \notin cancelled /\ Interval[t] > 0 /\ running
       THEN Push(t, ltime[l] + Interval[t])
       ELSE UNCHANGED <<pending, at, wakeup>>
  /\ NextRound(l)
  /\ UNCHANGED <<now, running, ctxDone, cancelled, caller, history>>

\* handleRepeatTask
Repeat(l) ==
  LET t == ltask[l] IN
  /\ lpc[l] = "repeat"
  /\ IF t \notin cancelled /\ Interval[t] > 0 /\ Acceptable(t)
       THEN Push(t, ltime[l] + Interval[t])
       ELSE UNCHANGED <<pending, at, wakeup>>
  /\ NextRound(l)
  /\ UNCHANGED <<now, running, ctxDone, cancelled, caller, history>>

LoopStep(l) == \/ LoopExit(l) \/ LoopNoTask(l) \/ LoopSleep(l) \/ LoopPop(l)
               \/ LoopResume(l) \/ LoopFire(l) \/ CallbackReturns(l) \/ Repeat(l)

CallStep(c) == \/ \E time \in Time : UpsertAdd(c, time)
               \/ StopSection(c) \/ StopWait(c)

Next == \/ Tick
        \/ \E t \in Tasks : CancelParent(t)
        \/ \E c \in Callers :
             \/ \E t \in Tasks, time \in Time : AddTask(c, t, time)
             \/ \E t \in Tasks : UpsertRemove(c, t) \/ RemoveTask(c, t)
             \/ \E l \in Loops : Start(c, l)
             \/ StopCancel(c) \/ CallStep(c)
        \/ \E l \in Loops : LoopStep(l)

\* The clock advances, and goroutines inside the engine or a callback run on.
Fairness == /\ WF_vars(Tick)
            /\ \A l \in Loops : WF_vars(LoopStep(l))
            /\ \A c \in Callers : WF_vars(CallStep(c))

Spec == Init /\ [][Next]_vars
FairSpec == Spec /\ Fairness
-----------------------------------------------------------------------------
(* AddTask and handleRepeatTask never let two tasks wait under one ID,     *)
(* however adds, upserts and repeats interleave.                           *)
OnePerId == \A t, u \in pending : IdOf[t] = IdOf[u] => t = u

(* While the engine is alive no wakeup is lost: a loop that sleeps to some *)
(* time, or for ever, either has a signal waiting or has nothing earlier   *)
(* to do (AddTask's select and run's two selects).                         *)
NoLostWakeup ==
  ~ctxDone => \A l \in Loops :
    /\ lpc[l] = "idle" => wakeup \/ pending = {}
    /\ lpc[l] = "sleep" => wakeup \/ \A t \in pending : ltime[l] <= at[t]

(* A task that RemoveTask or UpsertTask took out never starts again, also  *)
(* if it repeats and was in its callback at some point before.             *)
RemovedNeverRuns ==
  [][\A l \in Loops : lpc[l] # "callback" /\ lpc'[l] = "callback" => ltask[l] \notin removed]_vars

(* Once a Stop that ended the engine has returned, no callback runs and    *)
(* none ever will: Stop waits for run, and a later Start cannot revive it. *)
StoppedIsQuiet ==
  (\E c \in Callers : pc[c] = "stopped") => \A l \in Loops : lpc[l] \notin {"popped", "callback", "repeat"}

(* A repeating task keeps its place: until it is cancelled, the engine is  *)
(* stopped or another task is added under its ID, it waits or is being     *)
(* fired (run and handleRepeatTask).                                       *)
RepeatingStays ==
  ~ctxDone => \A t \in Tasks :
    Interval[t] > 0 /\ last[IdOf[t]] = t /\ t \notin cancelled =>
      t \in pending \/ \E l \in Loops : ltask[l] = t /\ lpc[l] \in {"popped", "callback", "repeat"}

(* A due task leaves the heap: the loop of an engine never sleeps through  *)
(* it (run, AddTask's signal).                                             *)
DueTaskLeaves ==
  \A t \in Tasks : t \in pending /\ at[t] <= now ~> t \notin pending \/ ctxDone

(* Stop returns, as "关闭服务时仍会等待调度引擎退出" promises.             *)
StopReturns == \A c \in Callers : pc[c] \in {"stopping", "waiting"} ~> pc[c] \in {"idle", "stopped"}

(* The engine neither sleeps nor hangs for ever: due tasks leave the heap  *)
(* and every Stop comes back (run, Stop).                                  *)
EngineMovesOn == DueTaskLeaves /\ StopReturns
=============================================================================
