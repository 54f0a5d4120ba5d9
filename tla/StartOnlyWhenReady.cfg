SPECIFICATION Spec
CONSTANTS
  MaxAttempts = 1
  Sases = {a}
  None = None
  MaxLives = 1
  MaxStarts = 1
  HubMayStop = TRUE
  MaxFaults = 0
  MaxCommands = 1
  Backlog = 1
VIEW View
CHECK_DEADLOCK FALSE
PROPERTY StartOnlyWhenReady
