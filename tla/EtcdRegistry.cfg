CONSTANTS
  sa = sa
  sb = sb
  First = sa
  Services = {sa, sb}
  MaxRetry = 2
  MaxBeats = 2
  MaxLeases = 3
  MaxFaults = 2
SPECIFICATION FairSpec
CHECK_DEADLOCK FALSE
INVARIANTS ListedWhileBeating WatcherIsCurrent
PROPERTIES OnlyCurrentListed CurrentStaysListed
