CONSTANTS
  Procs = {p1, p2, p3}
  Keys = {k1, k2}
  Objs = {o1, o2, o3, o4, o5, o6}
  None = None
  Leases = {l1, l2}
  Nobody = Nobody
  Gone = Gone
  TTLs = {2, 6}
  Second = 2
  Patience = 1
SPECIFICATION LockerSpec
INVARIANTS MutualExclusion EntryWhileCounted ReleaseNeverBlocks LiveLeaseOwnsKey
PROPERTIES RefusedOnlyWhenHeld ImplementsContract LeasesSettle
