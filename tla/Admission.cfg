SPECIFICATION FairSpec
CONSTANTS
  Sockets = {s1, s2}
  None = None
  MaxAttempts = 5
  Ids = {i, j}
  Codes = {c, d}
  First = i
  RateMax = 2
  Window = 1
  MaxOthers = 3
  MaxRestarts = 1
CHECK_DEADLOCK FALSE
INVARIANTS
  TypeOK
  OneLinkAtATime
  NotStranded
  CodeLeadsHome
  BurstIsBounded
PROPERTIES
  NeverReopens
  LetInAgain
