CONSTANTS
  Streams = {s1}
  Msgs = {m1, m2}
  StreamOf <- OneStream
  Producers = {p1, p2}
  Consumers = {c1, c2}
  Runners = {r1}
  Closers = {z1, z2}
  PoolNums = {0, 2}
  MaxErrors = 1
  None = None
SPECIFICATION FairSpec
CHECK_DEADLOCK FALSE
INVARIANTS OneCopy DrainedForGood
PROPERTIES AttendedMessageSettles RunReturns
