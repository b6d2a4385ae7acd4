SPECIFICATION Spec
CONSTANTS
  d1 = d1  d2 = d2  n1 = n1  n2 = n2  n3 = n3
  Devices = {d1, d2}
  Names = {n1, n2}
  Initial <- Joining
  FrontEnds <- Both
  MaxDecisions = 2
  Absent = Absent
INVARIANTS NoBlindOverwrite BaselineIsHistory ObservedIsMerged NothingStranded RetryIsExact InStepAgree
CHECK_DEADLOCK FALSE
