SPECIFICATION FairSpec
CONSTANTS
  None = None
  Plans <- TwoPlans
  LateEdits = {"value"}
  MaxApplies = 2
  MaxEdits = 1
  MaxFaults = 2
INVARIANTS TypeOK CredentialsAvailable NoLeakedSecret NothingPublishedIsUndone
PROPERTIES AtomicSpec RecoveryEnds
CHECK_DEADLOCK FALSE
