SPECIFICATION FairSpec
CONSTANTS
  HasVoteKeypair = TRUE
  SkipQuietGate = FALSE
  Losable = {"target"}
  HubMayStop = FALSE
PROPERTIES
  SettlesUnlessCut
  RollbackIsTakenUp
