SPECIFICATION Spec
CONSTANTS
  MaxAttempts = 1
  Sases = {a, b}
  None = None
  MaxLives = 2
  MaxStarts = 1
  HubMayStop = TRUE
  MaxFaults = 1
  MaxCommands = 1
  Backlog = 1
VIEW View
CHECK_DEADLOCK FALSE
INVARIANTS
  TypeOK
  ShowsTheRow
  ShowsTheSteps
PROPERTIES
  NoChangeMissed
  AlertStays
