SPECIFICATION Spec
CONSTANTS
  HasVoteKeypair = TRUE
  SkipQuietGate = FALSE
  Losable = {"source", "target"}
  HubMayStop = TRUE
INVARIANTS
  TypeOK
  CleanTakeover
  DualOnlyAfterLateFailure
  WipeOnlyAfterTakeover
  KeyOnDisk
  ConfirmedBeforeCleanup
  CompleteIsHandedOver
  OneStepAtATime
PROPERTIES
  ImplementsHandover
