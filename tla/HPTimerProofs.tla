--------------------------- MODULE HPTimerProofs ---------------------------
(***************************************************************************)
(* Proofs about transport/hptimer for any number of tasks, callers and run *)
(* goroutines.  What the safety properties rest on: a task value has one   *)
(* place at a time (a caller, the heap or a loop), and until somebody      *)
(* stops the engine at most one run goroutine exists, so that nobody else  *)
(* consumes its wakeup signal.                                             *)
(***************************************************************************)
EXTENDS HPTimer, TLAPS

Firing(l) == lpc[l] \in {"popped", "callback", "repeat"}

\* A loop that fires has a task, and so has a caller in the middle of UpsertTask.
HandlesHeld == /\ \A l \in Loops : Firing(l) => ltask[l] \in Tasks
               /\ \A c \in Callers : pc[c] = "upsert" => arg[c] \in Tasks

\* A task a caller still has in hand is nowhere else.
OwnedOnce == \A t \in Tasks :
  /\ t \in unused => /\ t \notin pending
                     /\ \A c \in Callers : arg[c] # t
                     /\ \A l \in Loops : ltask[l] # t
  /\ \A c \in Callers : arg[c] = t =>
       /\ t \notin pending
       /\ \A d \in Callers : arg[d] = t => d = c
       /\ \A l \in Loops : ltask[l] # t

\* Before a Stop there is at most one run goroutine, and it belongs to a running engine.
OneEngine == /\ \A c \in Callers : pc[c] \in {"stopping", "waiting", "stopped"} => ctxDone
             /\ ~ctxDone => \A l \in Loops : lpc[l] # "unborn" =>
                  running /\ \A m \in Loops : lpc[m] # "unborn" => m = l

RemovedCancelled == removed \subseteq cancelled

\* A task added under the ID of the one being fired is the last of that ID.
OvertakenNotLast ==
  ~ctxDone => \A l \in Loops : Firing(l) =>
    \A u \in pending : IdOf[u] = IdOf[ltask[l]] => last[IdOf[u]] # ltask[l]

IInv == /\ TypeOK
        /\ HandlesHeld
        /\ OwnedOnce
        /\ OneEngine
        /\ RemovedCancelled
        /\ OnePerId
        /\ NoLostWakeup
        /\ StoppedIsQuiet
        /\ OvertakenNotLast
        /\ RepeatingStays
-----------------------------------------------------------------------------
(* AddTask adds a task nobody has used to an engine without one of its ID. *)
LEMMA AddTaskIInv ==
  ASSUME IInv, NEW c \in Callers, NEW t \in Tasks, NEW time \in Time, AddTask(c, t, time)
  PROVE  IInv'
  <1> USE DEF IInv, AddTask, PushOrRefuse, Push, Acceptable, engine, caller, loop, history
  <1>1. TypeOK'
    BY ClockBound DEF TypeOK, Time, Ids
  <1>2. OwnedOnce'
    BY TaskAttributes DEF OwnedOnce, HandlesHeld, Firing, TypeOK
  <1>3. OnePerId'
    BY DEF OnePerId, TypeOK
  <1>4. NoLostWakeup'
    BY <1>1, ClockBound DEF NoLostWakeup, OneEngine, Time, TypeOK
  <1>5. OvertakenNotLast'
    BY TaskAttributes DEF OvertakenNotLast, OneEngine, OnePerId, OwnedOnce, HandlesHeld,
       Firing, Ids, TypeOK
  <1>6. RepeatingStays'
    BY TaskAttributes DEF RepeatingStays, OvertakenNotLast, OneEngine, OnePerId, OwnedOnce,
       HandlesHeld, Firing, Ids, TypeOK
  <1>7. HandlesHeld' /\ OneEngine' /\ RemovedCancelled' /\ StoppedIsQuiet'
    BY DEF HandlesHeld, OneEngine, RemovedCancelled, StoppedIsQuiet, Firing
  <1> QED
    BY <1>1, <1>2, <1>3, <1>4, <1>5, <1>6, <1>7

(* UpsertTask cancels the task of the same ID and takes the new one in hand. *)
LEMMA UpsertRemoveIInv ==
  ASSUME IInv, NEW c \in Callers, NEW t \in Tasks, UpsertRemove(c, t)
  PROVE  IInv'
  <1> USE DEF IInv, UpsertRemove, engine, caller, loop, history
  <1>1. TypeOK'
    BY DEF TypeOK, Ids
  <1>2. HandlesHeld'
    BY TaskAttributes DEF HandlesHeld, Firing, TypeOK
  <1>3. OwnedOnce'
    BY TaskAttributes DEF OwnedOnce, HandlesHeld, Firing, TypeOK
  <1>4. OneEngine'
    BY DEF OneEngine, TypeOK
  <1>5. RemovedCancelled'
    BY DEF RemovedCancelled, TypeOK
  <1>6. OnePerId'
    BY DEF OnePerId, TypeOK
  <1>7. NoLostWakeup'
    BY DEF NoLostWakeup, OneEngine, TypeOK
  <1>8. StoppedIsQuiet'
    BY DEF StoppedIsQuiet, OneEngine, TypeOK
  <1>9. OvertakenNotLast'
    BY TaskAttributes DEF OvertakenNotLast, OneEngine, OnePerId, OwnedOnce, HandlesHeld,
       Firing, TypeOK
  <1>10. RepeatingStays'
    BY TaskAttributes DEF RepeatingStays, OvertakenNotLast, OneEngine, OnePerId, OwnedOnce,
       HandlesHeld, Firing, TypeOK
  <1> QED
    BY <1>1, <1>2, <1>3, <1>4, <1>5, <1>6, <1>7, <1>8, <1>9, <1>10

(* UpsertTask adds the task it has in hand. *)
LEMMA UpsertAddIInv ==
  ASSUME IInv, NEW c \in Callers, NEW time \in Time, UpsertAdd(c, time)
  PROVE  IInv'
  <1> USE DEF IInv, UpsertAdd, PushOrRefuse, Push, Acceptable, engine, caller, loop, history
  <1>1. arg[c] \in Tasks /\ time \in Nat
    BY ClockBound DEF Time, HandlesHeld
  <1>2. TypeOK'
    BY <1>1 DEF TypeOK, Ids
  <1>3. HandlesHeld'
    BY <1>1, TaskAttributes DEF HandlesHeld, Firing, TypeOK
  <1>4. OwnedOnce'
    BY <1>1, TaskAttributes DEF OwnedOnce, HandlesHeld, Firing, TypeOK
  <1>5. OneEngine'
    BY <1>1 DEF OneEngine, TypeOK
  <1>6. OnePerId'
    BY <1>1 DEF OnePerId, TypeOK
  <1>7. NoLostWakeup'
    BY <1>1 DEF NoLostWakeup, OneEngine, TypeOK
  <1>8. StoppedIsQuiet'
    BY <1>1 DEF StoppedIsQuiet, OneEngine, TypeOK
  <1>9. OvertakenNotLast'
    BY <1>1, TaskAttributes DEF OvertakenNotLast, OneEngine, OnePerId, OwnedOnce,
       HandlesHeld, Firing, Ids, TypeOK
  <1>10. RepeatingStays'
    BY <1>1, TaskAttributes DEF RepeatingStays, OvertakenNotLast, OneEngine, OnePerId,
       OwnedOnce, HandlesHeld, Firing, Ids, TypeOK
  <1>11. RemovedCancelled'
    BY DEF RemovedCancelled
  <1> QED
    BY <1>2, <1>3, <1>4, <1>5, <1>6, <1>7, <1>8, <1>9, <1>10, <1>11

(* RemoveTask cancels a waiting task. *)
LEMMA RemoveTaskIInv ==
  ASSUME IInv, NEW c \in Callers, NEW t \in Tasks, RemoveTask(c, t)
  PROVE  IInv'
  <1> USE DEF IInv, RemoveTask, engine, caller, loop, history
  <1>1. TypeOK'
    BY DEF TypeOK, Ids
  <1>2. OwnedOnce'
    BY TaskAttributes DEF OwnedOnce, HandlesHeld, Firing, TypeOK
  <1>3. RemovedCancelled'
    BY DEF RemovedCancelled, TypeOK
  <1>4. OnePerId'
    BY DEF OnePerId, TypeOK
  <1>5. NoLostWakeup'
    BY DEF NoLostWakeup, OneEngine, TypeOK
  <1>6. OvertakenNotLast'
    BY TaskAttributes DEF OvertakenNotLast, OneEngine, OnePerId, OwnedOnce, HandlesHeld,
       Firing, Ids, TypeOK
  <1>7. RepeatingStays'
    BY TaskAttributes DEF RepeatingStays, OvertakenNotLast, OneEngine, OnePerId, OwnedOnce,
       HandlesHeld, Firing, Ids, TypeOK
  <1>8. HandlesHeld' /\ OneEngine' /\ StoppedIsQuiet'
    BY DEF HandlesHeld, OneEngine, StoppedIsQuiet, Firing
  <1> QED
    BY <1>1, <1>2, <1>3, <1>4, <1>5, <1>6, <1>7, <1>8

(* A parent context ends. *)
LEMMA CancelParentIInv ==
  ASSUME IInv, NEW t \in Tasks, CancelParent(t)
  PROVE  IInv'
  <1> USE DEF IInv, CancelParent, engine, caller, loop, history
  <1>1. TypeOK'
    BY DEF TypeOK
  <1>2. RemovedCancelled'
    BY DEF RemovedCancelled, TypeOK
  <1>3. RepeatingStays'
    BY TaskAttributes DEF RepeatingStays, OvertakenNotLast, OneEngine, OnePerId, OwnedOnce,
       HandlesHeld, Firing, TypeOK
  <1>4. HandlesHeld' /\ OwnedOnce' /\ OneEngine' /\ OnePerId' /\ NoLostWakeup' /\
     StoppedIsQuiet' /\ OvertakenNotLast'
    BY DEF HandlesHeld, OwnedOnce, OneEngine, OnePerId, NoLostWakeup, StoppedIsQuiet,
       OvertakenNotLast, Firing
  <1> QED
    BY <1>1, <1>2, <1>3, <1>4

(* Start makes a run goroutine; before a Stop it is the first one. *)
LEMMA StartIInv ==
  ASSUME IInv, NEW c \in Callers, NEW l \in Loops, Start(c, l)
  PROVE  IInv'
  <1> USE DEF IInv, Start, engine, caller, loop, history
  <1>1. TypeOK'
    BY DEF TypeOK
  <1>2. HandlesHeld'
    BY TaskAttributes DEF HandlesHeld, Firing, TypeOK
  <1>3. OneEngine'
    BY DEF OneEngine, TypeOK
  <1>4. NoLostWakeup'
    BY DEF NoLostWakeup, OneEngine, TypeOK
  <1>5. StoppedIsQuiet'
    BY DEF StoppedIsQuiet, OneEngine, TypeOK
  <1>6. OvertakenNotLast'
    BY TaskAttributes DEF OvertakenNotLast, OneEngine, OnePerId, OwnedOnce, HandlesHeld,
       Firing, TypeOK
  <1>7. RepeatingStays'
    BY TaskAttributes DEF RepeatingStays, OvertakenNotLast, OneEngine, OnePerId, OwnedOnce,
       HandlesHeld, Firing, TypeOK
  <1>8. OwnedOnce' /\ RemovedCancelled' /\ OnePerId'
    BY DEF OwnedOnce, RemovedCancelled, OnePerId
  <1> QED
    BY <1>1, <1>2, <1>3, <1>4, <1>5, <1>6, <1>7, <1>8

(* Stop cancels the context of the engine. *)
LEMMA StopCancelIInv ==
  ASSUME IInv, NEW c \in Callers, StopCancel(c)
  PROVE  IInv'
  <1> USE DEF IInv, StopCancel, engine, caller, loop, history
  <1>1. TypeOK'
    BY DEF TypeOK
  <1>2. HandlesHeld'
    BY TaskAttributes DEF HandlesHeld, Firing, TypeOK
  <1>3. OneEngine'
    BY DEF OneEngine, TypeOK
  <1>4. NoLostWakeup'
    BY DEF NoLostWakeup, OneEngine, TypeOK
  <1>5. StoppedIsQuiet'
    BY DEF StoppedIsQuiet, OneEngine, TypeOK
  <1>6. OvertakenNotLast'
    BY TaskAttributes DEF OvertakenNotLast, OneEngine, OnePerId, OwnedOnce, HandlesHeld,
       Firing, TypeOK
  <1>7. RepeatingStays'
    BY TaskAttributes DEF RepeatingStays, OvertakenNotLast, OneEngine, OnePerId, OwnedOnce,
       HandlesHeld, Firing, TypeOK
  <1>8. OwnedOnce' /\ RemovedCancelled' /\ OnePerId'
    BY DEF OwnedOnce, RemovedCancelled, OnePerId
  <1> QED
    BY <1>1, <1>2, <1>3, <1>4, <1>5, <1>6, <1>7, <1>8

(* Stop empties the heap. *)
LEMMA StopSectionIInv ==
  ASSUME IInv, NEW c \in Callers, StopSection(c)
  PROVE  IInv'
  <1> USE DEF IInv, StopSection, engine, caller, loop, history
  <1>1. TypeOK'
    BY DEF TypeOK
  <1>2. HandlesHeld'
    BY TaskAttributes DEF HandlesHeld, Firing, TypeOK
  <1>3. OwnedOnce'
    BY TaskAttributes DEF OwnedOnce, HandlesHeld, Firing, TypeOK
  <1>4. OneEngine'
    BY DEF OneEngine, TypeOK
  <1>5. RemovedCancelled'
    BY DEF RemovedCancelled, TypeOK
  <1>6. OnePerId'
    BY DEF OnePerId, TypeOK
  <1>7. NoLostWakeup'
    BY DEF NoLostWakeup, OneEngine, TypeOK
  <1>8. StoppedIsQuiet'
    BY DEF StoppedIsQuiet, OneEngine, TypeOK
  <1>9. OvertakenNotLast'
    BY TaskAttributes DEF OvertakenNotLast, OneEngine, OnePerId, OwnedOnce, HandlesHeld,
       Firing, TypeOK
  <1>10. RepeatingStays'
    BY TaskAttributes DEF RepeatingStays, OvertakenNotLast, OneEngine, OnePerId, OwnedOnce,
       HandlesHeld, Firing, TypeOK
  <1> QED
    BY <1>1, <1>2, <1>3, <1>4, <1>5, <1>6, <1>7, <1>8, <1>9, <1>10

(* Stop returns when every run goroutine has. *)
LEMMA StopWaitIInv ==
  ASSUME IInv, NEW c \in Callers, StopWait(c)
  PROVE  IInv'
  <1> USE DEF IInv, StopWait, engine, caller, loop, history
  <1>1. TypeOK'
    BY DEF TypeOK
  <1>2. HandlesHeld'
    BY TaskAttributes DEF HandlesHeld, Firing, TypeOK
  <1>3. OneEngine'
    BY DEF OneEngine, TypeOK
  <1>4. StoppedIsQuiet'
    BY DEF StoppedIsQuiet, OneEngine, TypeOK
  <1>5. OwnedOnce' /\ RemovedCancelled' /\ OnePerId' /\ NoLostWakeup' /\ OvertakenNotLast'
     /\ RepeatingStays'
    BY DEF OwnedOnce, RemovedCancelled, OnePerId, NoLostWakeup, OvertakenNotLast,
       RepeatingStays, Firing
  <1> QED
    BY <1>1, <1>2, <1>3, <1>4, <1>5

(* A run goroutine ends. *)
LEMMA LoopExitIInv ==
  ASSUME IInv, NEW l \in Loops, LoopExit(l)
  PROVE  IInv'
  <1> USE DEF IInv, LoopExit, engine, caller, loop, history
  <1>1. TypeOK'
    BY DEF TypeOK
  <1>2. HandlesHeld'
    BY TaskAttributes DEF HandlesHeld, Firing, TypeOK
  <1>3. OneEngine'
    BY DEF OneEngine, TypeOK
  <1>4. NoLostWakeup'
    BY DEF NoLostWakeup, OneEngine, TypeOK
  <1>5. StoppedIsQuiet'
    BY DEF StoppedIsQuiet, OneEngine, TypeOK
  <1>6. OvertakenNotLast'
    BY TaskAttributes DEF OvertakenNotLast, OneEngine, OnePerId, OwnedOnce, HandlesHeld,
       Firing, TypeOK
  <1>7. RepeatingStays'
    BY TaskAttributes DEF RepeatingStays, OvertakenNotLast, OneEngine, OnePerId, OwnedOnce,
       HandlesHeld, Firing, TypeOK
  <1>8. OwnedOnce' /\ RemovedCancelled' /\ OnePerId'
    BY DEF OwnedOnce, RemovedCancelled, OnePerId
  <1> QED
    BY <1>1, <1>2, <1>3, <1>4, <1>5, <1>6, <1>7, <1>8

(* A run goroutine finds no task. *)
LEMMA LoopNoTaskIInv ==
  ASSUME IInv, NEW l \in Loops, LoopNoTask(l)
  PROVE  IInv'
  <1> USE DEF IInv, LoopNoTask, engine, caller, loop, history
  <1>1. TypeOK'
    BY DEF TypeOK
  <1>2. HandlesHeld'
    BY TaskAttributes DEF HandlesHeld, Firing, TypeOK
  <1>3. OneEngine'
    BY DEF OneEngine, TypeOK
  <1>4. NoLostWakeup'
    BY DEF NoLostWakeup, OneEngine, TypeOK
  <1>5. StoppedIsQuiet'
    BY DEF StoppedIsQuiet, OneEngine, TypeOK
  <1>6. OvertakenNotLast'
    BY TaskAttributes DEF OvertakenNotLast, OneEngine, OnePerId, OwnedOnce, HandlesHeld,
       Firing, TypeOK
  <1>7. RepeatingStays'
    BY TaskAttributes DEF RepeatingStays, OvertakenNotLast, OneEngine, OnePerId, OwnedOnce,
       HandlesHeld, Firing, TypeOK
  <1>8. OwnedOnce' /\ RemovedCancelled' /\ OnePerId'
    BY DEF OwnedOnce, RemovedCancelled, OnePerId
  <1> QED
    BY <1>1, <1>2, <1>3, <1>4, <1>5, <1>6, <1>7, <1>8

(* A run goroutine sleeps to the earliest At. *)
LEMMA LoopSleepIInv ==
  ASSUME IInv, NEW l \in Loops, LoopSleep(l)
  PROVE  IInv'
  <1> USE DEF IInv, LoopSleep, Earliest, engine, caller, loop, history
  <1>1. TypeOK'
    BY DEF TypeOK
  <1>2. HandlesHeld'
    BY TaskAttributes DEF HandlesHeld, Firing, TypeOK
  <1>3. OneEngine'
    BY DEF OneEngine, TypeOK
  <1>4. NoLostWakeup'
    BY DEF NoLostWakeup, OneEngine, TypeOK
  <1>5. StoppedIsQuiet'
    BY DEF StoppedIsQuiet, OneEngine, TypeOK
  <1>6. OvertakenNotLast'
    BY TaskAttributes DEF OvertakenNotLast, OneEngine, OnePerId, OwnedOnce, HandlesHeld,
       Firing, TypeOK
  <1>7. RepeatingStays'
    BY TaskAttributes DEF RepeatingStays, OvertakenNotLast, OneEngine, OnePerId, OwnedOnce,
       HandlesHeld, Firing, TypeOK
  <1>8. OwnedOnce' /\ RemovedCancelled' /\ OnePerId'
    BY DEF OwnedOnce, RemovedCancelled, OnePerId
  <1> QED
    BY <1>1, <1>2, <1>3, <1>4, <1>5, <1>6, <1>7, <1>8

(* A run goroutine pops a due task. *)
LEMMA LoopPopIInv ==
  ASSUME IInv, NEW l \in Loops, LoopPop(l)
  PROVE  IInv'
  <1> USE DEF IInv, LoopPop, Earliest, engine, caller, loop, history
  <1>1. TypeOK'
    BY DEF TypeOK, Time
  <1>2. HandlesHeld'
    BY TaskAttributes DEF HandlesHeld, Firing, TypeOK
  <1>3. OwnedOnce'
    BY TaskAttributes DEF OwnedOnce, HandlesHeld, Firing, TypeOK
  <1>4. OneEngine'
    BY DEF OneEngine, TypeOK
  <1>5. OnePerId'
    BY DEF OnePerId, TypeOK
  <1>6. NoLostWakeup'
    BY DEF NoLostWakeup, OneEngine, TypeOK
  <1>7. StoppedIsQuiet'
    BY DEF StoppedIsQuiet, OneEngine, TypeOK
  <1>8. OvertakenNotLast'
    BY TaskAttributes DEF OvertakenNotLast, OneEngine, OnePerId, OwnedOnce, HandlesHeld,
       Firing, TypeOK
  <1>9. RepeatingStays'
    BY TaskAttributes DEF RepeatingStays, OvertakenNotLast, OneEngine, OnePerId, OwnedOnce,
       HandlesHeld, Firing, TypeOK
  <1>10. RemovedCancelled'
    BY DEF RemovedCancelled
  <1> QED
    BY <1>1, <1>2, <1>3, <1>4, <1>5, <1>6, <1>7, <1>8, <1>9, <1>10

(* A run goroutine is woken: before a Stop nobody else waits for the signal. *)
LEMMA LoopResumeIInv ==
  ASSUME IInv, NEW l \in Loops, LoopResume(l)
  PROVE  IInv'
  <1> USE DEF IInv, LoopResume, NextRound, engine, caller, loop, history
  <1>1. TypeOK'
    BY DEF TypeOK
  <1>2. HandlesHeld'
    BY TaskAttributes DEF HandlesHeld, Firing, TypeOK
  <1>3. OwnedOnce'
    BY TaskAttributes DEF OwnedOnce, HandlesHeld, Firing, TypeOK
  <1>4. OneEngine'
    BY DEF OneEngine, TypeOK
  <1>5. NoLostWakeup'
    BY DEF NoLostWakeup, OneEngine, TypeOK
  <1>6. StoppedIsQuiet'
    BY DEF StoppedIsQuiet, OneEngine, TypeOK
  <1>7. OvertakenNotLast'
    BY TaskAttributes DEF OvertakenNotLast, OneEngine, OnePerId, OwnedOnce, HandlesHeld,
       Firing, TypeOK
  <1>8. RepeatingStays'
    BY TaskAttributes DEF RepeatingStays, OvertakenNotLast, OneEngine, OnePerId, OwnedOnce,
       HandlesHeld, Firing, TypeOK
  <1>9. RemovedCancelled' /\ OnePerId'
    BY DEF RemovedCancelled, OnePerId
  <1> QED
    BY <1>1, <1>2, <1>3, <1>4, <1>5, <1>6, <1>7, <1>8, <1>9

(* A popped task is started, or dropped if it is cancelled. *)
LEMMA LoopFireIInv ==
  ASSUME IInv, NEW l \in Loops, LoopFire(l)
  PROVE  IInv'
  <1> USE DEF IInv, LoopFire, NextRound, engine, caller, loop, history
  <1>1. TypeOK'
    BY DEF TypeOK
  <1>2. HandlesHeld'
    BY TaskAttributes DEF HandlesHeld, Firing, TypeOK
  <1>3. OwnedOnce'
    BY TaskAttributes DEF OwnedOnce, HandlesHeld, Firing, TypeOK
  <1>4. OneEngine'
    BY DEF OneEngine, TypeOK
  <1>5. NoLostWakeup'
    BY DEF NoLostWakeup, OneEngine, TypeOK
  <1>6. StoppedIsQuiet'
    BY DEF StoppedIsQuiet, OneEngine, TypeOK
  <1>7. OvertakenNotLast'
    BY TaskAttributes DEF OvertakenNotLast, OneEngine, OnePerId, OwnedOnce, HandlesHeld,
       Firing, TypeOK
  <1>8. RepeatingStays'
    BY TaskAttributes DEF RepeatingStays, OvertakenNotLast, OneEngine, OnePerId, OwnedOnce,
       HandlesHeld, Firing, TypeOK
  <1>9. RemovedCancelled' /\ OnePerId'
    BY DEF RemovedCancelled, OnePerId
  <1> QED
    BY <1>1, <1>2, <1>3, <1>4, <1>5, <1>6, <1>7, <1>8, <1>9

(* A callback returns. *)
LEMMA CallbackReturnsIInv ==
  ASSUME IInv, NEW l \in Loops, CallbackReturns(l)
  PROVE  IInv'
  <1> USE DEF IInv, CallbackReturns, engine, caller, loop, history
  <1>1. TypeOK'
    BY DEF TypeOK
  <1>2. HandlesHeld'
    BY TaskAttributes DEF HandlesHeld, Firing, TypeOK
  <1>3. OneEngine'
    BY DEF OneEngine, TypeOK
  <1>4. NoLostWakeup'
    BY DEF NoLostWakeup, OneEngine, TypeOK
  <1>5. StoppedIsQuiet'
    BY DEF StoppedIsQuiet, OneEngine, TypeOK
  <1>6. OvertakenNotLast'
    BY TaskAttributes DEF OvertakenNotLast, OneEngine, OnePerId, OwnedOnce, HandlesHeld,
       Firing, TypeOK
  <1>7. RepeatingStays'
    BY TaskAttributes DEF RepeatingStays, OvertakenNotLast, OneEngine, OnePerId, OwnedOnce,
       HandlesHeld, Firing, TypeOK
  <1>8. OwnedOnce' /\ RemovedCancelled' /\ OnePerId'
    BY DEF OwnedOnce, RemovedCancelled, OnePerId
  <1> QED
    BY <1>1, <1>2, <1>3, <1>4, <1>5, <1>6, <1>7, <1>8

(* A repeating task is added again; if another task took its ID it was overtaken. *)
LEMMA RepeatIInv ==
  ASSUME IInv, NEW l \in Loops, Repeat(l)
  PROVE  IInv'
  <1> USE DEF IInv, Repeat, NextRound, Push, Acceptable, engine, caller, loop, history
  <1>1. ltask[l] \in Tasks /\ ltime[l] + Interval[ltask[l]] \in Nat
    BY TaskAttributes DEF TypeOK, HandlesHeld, Firing
  <1>2. TypeOK'
    BY <1>1 DEF TypeOK
  <1>3. HandlesHeld'
    BY <1>1, TaskAttributes DEF HandlesHeld, Firing, TypeOK
  <1>4. OwnedOnce'
    BY <1>1, TaskAttributes DEF OwnedOnce, HandlesHeld, Firing, TypeOK
  <1>5. OneEngine'
    BY <1>1 DEF OneEngine, TypeOK
  <1>6. OnePerId'
    BY <1>1 DEF OnePerId, TypeOK
  <1>7. NoLostWakeup'
    BY <1>1 DEF NoLostWakeup, OneEngine, TypeOK
  <1>8. StoppedIsQuiet'
    BY <1>1 DEF StoppedIsQuiet, OneEngine, TypeOK
  <1>9. OvertakenNotLast'
    BY <1>1, TaskAttributes DEF OvertakenNotLast, OneEngine, OnePerId, OwnedOnce,
       HandlesHeld, Firing, TypeOK
  <1>10. RepeatingStays'
    BY <1>1, TaskAttributes DEF RepeatingStays, OvertakenNotLast, OneEngine, OnePerId,
       OwnedOnce, HandlesHeld, Firing, TypeOK
  <1>11. RemovedCancelled'
    BY DEF RemovedCancelled
  <1> QED
    BY <1>2, <1>3, <1>4, <1>5, <1>6, <1>7, <1>8, <1>9, <1>10, <1>11

(* The invariant holds before the first call. *)
LEMMA InitIInv == Init => IInv
  <1> SUFFICES ASSUME Init PROVE IInv
    OBVIOUS
  <1>1. TypeOK
    <2>1. now \in Time /\ pending \subseteq Tasks /\ cancelled \subseteq Tasks /\ removed \subseteq Tasks
      BY ClockBound DEF Init, Time
    <2> QED
      BY <2>1 DEF Init, TypeOK
  <1>2. OwnedOnce /\ RepeatingStays
    BY TaskAttributes DEF Init, OwnedOnce, RepeatingStays, Ids
  <1> QED
    BY <1>1, <1>2 DEF Init, IInv, HandlesHeld, OneEngine, RemovedCancelled, OnePerId, NoLostWakeup,
       StoppedIsQuiet, OvertakenNotLast, Firing

(* Every step keeps the invariant. *)
LEMMA NextIInv == IInv /\ [Next]_vars => IInv'
  <1> SUFFICES ASSUME IInv, [Next]_vars PROVE IInv'
    OBVIOUS
  <1>1. CASE Tick
    <2>1. TypeOK'
      BY <1>1, ClockBound DEF Tick, engine, caller, loop, history, IInv, TypeOK, Time
    <2>2. UNCHANGED <<engine, caller, loop, history>>
      BY <1>1 DEF Tick
    <2> QED
      BY <2>1, <2>2 DEF engine, caller, loop, history, IInv, HandlesHeld, OwnedOnce, OneEngine,
         RemovedCancelled, OnePerId, NoLostWakeup, StoppedIsQuiet, OvertakenNotLast, RepeatingStays, Firing
  <1>2. CASE \E t \in Tasks : CancelParent(t)
    BY <1>2, CancelParentIInv
  <1>3. ASSUME NEW c \in Callers, NEW t \in Tasks, NEW time \in Time, AddTask(c, t, time)
        PROVE  IInv'
    BY <1>3, AddTaskIInv
  <1>4. ASSUME NEW c \in Callers, NEW t \in Tasks, UpsertRemove(c, t) \/ RemoveTask(c, t)
        PROVE  IInv'
    BY <1>4, UpsertRemoveIInv, RemoveTaskIInv
  <1>5. ASSUME NEW c \in Callers, NEW l \in Loops, Start(c, l)
        PROVE  IInv'
    BY <1>5, StartIInv
  <1>6. ASSUME NEW c \in Callers, StopCancel(c) \/ CallStep(c)
        PROVE  IInv'
    BY <1>6, StopCancelIInv, UpsertAddIInv, StopSectionIInv, StopWaitIInv DEF CallStep
  <1>7. ASSUME NEW l \in Loops, LoopStep(l)
        PROVE  IInv'
    BY <1>7, LoopExitIInv, LoopNoTaskIInv, LoopSleepIInv, LoopPopIInv, LoopResumeIInv, LoopFireIInv,
       CallbackReturnsIInv, RepeatIInv DEF LoopStep
  <1>8. CASE UNCHANGED vars
    BY <1>8
       DEF vars, engine, caller, loop, history, IInv, TypeOK, HandlesHeld, OwnedOnce, OneEngine,
       RemovedCancelled, OnePerId, NoLostWakeup, StoppedIsQuiet, OvertakenNotLast, RepeatingStays, Firing
  <1> QED
    BY <1>1, <1>2, <1>3, <1>4, <1>5, <1>6, <1>7, <1>8 DEF Next

(* The inductive invariant holds of every behaviour of the engine, without *)
(* any fairness.                                                           *)
THEOREM Invariance == Spec => []IInv
  BY InitIInv, NextIInv, PTL DEF Spec

(* Every variable of the engine keeps its type, whatever callers, loops and *)
(* the re-adding of repeating tasks do at the same time.                   *)
THEOREM TypesHold == Spec => []TypeOK
  <1>1. IInv => TypeOK
    BY DEF IInv
  <1> QED
    BY <1>1, Invariance, PTL

(* AddTask, UpsertTask and handleRepeatTask keep one waiting task per ID.  *)
THEOREM IdsUnique == Spec => []OnePerId
  <1>1. IInv => OnePerId
    BY DEF IInv
  <1> QED
    BY <1>1, Invariance, PTL

(* The one-slot wakeup channel and the two selects of run lose no signal,  *)
(* for any number of callers and of Start calls.                           *)
THEOREM WakeupsKept == Spec => []NoLostWakeup
  <1>1. IInv => NoLostWakeup
    BY DEF IInv
  <1> QED
    BY <1>1, Invariance, PTL

(* When Stop has returned no callback runs or will run, whoever calls Start. *)
THEOREM QuietAfterStop == Spec => []StoppedIsQuiet
  <1>1. IInv => StoppedIsQuiet
    BY DEF IInv
  <1> QED
    BY <1>1, Invariance, PTL

(* handleRepeatTask drops a repeating task only if it was cancelled, the   *)
(* engine is stopped or a newer task has its ID.                           *)
THEOREM RepeatersStay == Spec => []RepeatingStays
  <1>1. IInv => RepeatingStays
    BY DEF IInv
  <1> QED
    BY <1>1, Invariance, PTL

(* Only LoopFire starts a callback. *)
LEMMA OnlyFireStarts ==
  ASSUME TypeOK, Next, NEW l \in Loops, lpc[l] # "callback", lpc'[l] = "callback"
  PROVE  LoopFire(l)
  <1> USE DEF TypeOK, engine, caller, loop, history
  <1>1. ASSUME NEW c \in Callers PROVE ~CallStep(c)
    BY DEF CallStep, UpsertAdd, StopSection, StopWait
  <1>2. ASSUME NEW c \in Callers, NEW t \in Tasks, NEW time \in Time PROVE ~AddTask(c, t, time)
    BY DEF AddTask
  <1>3. ASSUME NEW c \in Callers, NEW t \in Tasks PROVE ~UpsertRemove(c, t) /\ ~RemoveTask(c, t)
    BY DEF UpsertRemove, RemoveTask
  <1>4. ASSUME NEW c \in Callers, NEW m \in Loops PROVE ~Start(c, m)
    BY DEF Start
  <1>5. ASSUME NEW c \in Callers PROVE ~StopCancel(c)
    BY DEF StopCancel
  <1>6. ~Tick /\ \A t \in Tasks : ~CancelParent(t)
    BY DEF Tick, CancelParent
  <1>7. PICK m \in Loops : LoopStep(m)
    BY <1>1, <1>2, <1>3, <1>4, <1>5, <1>6 DEF Next
  <1>8. CASE m = l
    BY <1>7, <1>8
       DEF LoopStep, LoopExit, LoopNoTask, LoopSleep, LoopPop, LoopResume, CallbackReturns,
       Repeat, NextRound
  <1>9. CASE m # l
    BY <1>7, <1>9 DEF LoopStep, LoopExit, LoopNoTask, LoopSleep, LoopPop, LoopResume, LoopFire,
       CallbackReturns, Repeat, NextRound
  <1> QED
    BY <1>8, <1>9

(* run never starts a task that RemoveTask or UpsertTask took out.         *)
THEOREM RemovedStaysOut == Spec => RemovedNeverRuns
  <1>1. ASSUME IInv, Next, NEW l \in Loops, lpc[l] # "callback", lpc'[l] = "callback"
        PROVE  ltask[l] \notin removed
    <2>1. LoopFire(l)
      BY <1>1, OnlyFireStarts DEF IInv
    <2> QED
      BY <1>1, <2>1 DEF LoopFire, NextRound, IInv, RemovedCancelled, TypeOK
  <1>2. IInv /\ [Next]_vars =>
          [\A l \in Loops : lpc[l] # "callback" /\ lpc'[l] = "callback" => ltask[l] \notin removed]_vars
    BY <1>1
  <1> QED
    BY <1>2, Invariance, PTL DEF Spec, RemovedNeverRuns
=============================================================================
