CONSTANTS
  r1 = r1
  s1 = s1
  s2 = s2
  Tasks = {r1, s1, s2}
  IdOf <- MCIdOf
  Interval <- MCInterval
  WithParent = {r1}
  AwaitsCtx <- NoneAwaits
  Callers = {c1, c2}
  Loops = {l1}
  MaxTime = 1
  None = None
SPECIFICATION FairSpec
CHECK_DEADLOCK FALSE
INVARIANTS OnePerId NoLostWakeup StoppedIsQuiet RepeatingStays
PROPERTIES RemovedNeverRuns EngineMovesOn
