CONSTANTS
  s1 = s1
  s2 = s2
  w1 = w1
  w2 = w2
  w3 = w3
  Sessions = {s1, s2}
  Workers = {w1, w2}
  Stores = {"memory", "redis"}
  AccessTTL = 1
  RefreshTTL = 2
  Grace = 1
  Second = 1
  MaxTime = 3
  MaxCalls = 4
  None = None
SPECIFICATION Spec
SYMMETRY MCSymmetry
CHECK_DEADLOCK FALSE
INVARIANTS RevokedStaysRevoked  MarkerCoversTokens
  
