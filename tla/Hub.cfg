SPECIFICATION Spec
CONSTANTS
  s1 = s1
  t1 = t1
  t2 = t2
  None = None
  SourceAgents <- OneSource
  TargetAgents <- TwoTargets
  MaxSockets = 2
  MaxConnections = 3
  MaxRestarts = 1
SYMMETRY TargetsAlike
VIEW WithoutEvents
CHECK_DEADLOCK FALSE
INVARIANTS
  TypeOK
  RowLagsOnlyAfterRevival
  OneSocketPerRole
  PresentIsRegistered
PROPERTIES
  PreflightByOnePair
  CancelledBeforePreflight
