CONSTANTS
  v1 = v1
  v2 = v2
  v3 = v3
  i1 = i1
  i2 = i2
  Versions = {v1, v2, v3}
  Ids = {i1, i2}
  IdOf <- MCIdOf
  Callers = {c1}
  Dispatchers = {d1, d2}
  MaxFaults = 1
  None = None
SPECIFICATION DelayedSpec
CHECK_DEADLOCK FALSE
INVARIANT CancelledStaysOut
