CONSTANTS
  Msgs = {m1, m2}
  Workers = {w1}
  BufferSize = 1
  MaxLen = 1
  MaxFaults = 1
  MaxFails = 1
  Orderly = TRUE
  None = None
SPECIFICATION FairSpec
CHECK_DEADLOCK FALSE
INVARIANTS AckedMeansDone RepeatsNeedReasons OrderlyShutdown
PROPERTIES EveryMessageHandled ShutdownGetsThrough
