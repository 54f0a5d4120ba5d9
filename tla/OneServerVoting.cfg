SPECIFICATION Spec
CONSTANTS
  HasVoteKeypair = TRUE
  SkipQuietGate = FALSE
  Losable = {"source", "target"}
  HubMayStop = FALSE
INVARIANT OneServerVoting
