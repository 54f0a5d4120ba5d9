SPECIFICATION FairSpec
CONSTANTS
  MaxAttempts = 1
  Sases = {a}
  None = None
  MaxLives = 1
  MaxStarts = 1
  HubMayStop = FALSE
  MaxFaults = 2
  MaxCommands = 1
  Backlog = 0
VIEW LiveView
CHECK_DEADLOCK FALSE
PROPERTIES
  EndIsShown
