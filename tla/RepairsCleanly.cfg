SPECIFICATION FairSpec
CONSTANTS
  s1 = s1
  t1 = t1
  t2 = t2
  None = None
  SourceAgents <- OneSource
  TargetAgents <- TwoTargets
  MaxSockets = 1
  MaxConnections = 3
  MaxRestarts = 0
CHECK_DEADLOCK FALSE
PROPERTY
  RepairsCleanly
