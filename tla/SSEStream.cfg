CONSTANTS
  e1 = e1
  e2 = e2
  Events = {e1, e2}
  Blanks <- MCBlanks
  OwnId <- MCOwnId
  Clients = {c1, c2}
  BufferSize = 1
  ConnCap = 1
  UnknownId = UnknownId
  None = None
SPECIFICATION FairSpec
CHECK_DEADLOCK FALSE
INVARIANTS InOrderGapFree NoSendOnClosed
PROPERTY NobodyWaitsForEver
