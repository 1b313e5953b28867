CONSTANTS
  k1 = k1
  k2 = k2
  Keys = {k1, k2}
  Callers = {c1}
  Stores = {"memory", "redis"}
  RuleSets <- MCRules
  Slack = 1
  Interval = 3
  MaxTime = 5
  None = None
SPECIFICATION Spec
CHECK_DEADLOCK FALSE
PROPERTIES DecisionsMatchHistory RetryIsHonest
