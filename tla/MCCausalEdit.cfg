SPECIFICATION Spec
CONSTANTS
  d1 = d1  d2 = d2  n1 = n1  n2 = n2  n3 = n3
  Devices = {d1, d2}
  Names = {n1, n2, n3}
  Initial <- Defaults
  FrontEnds <- Commands
  MaxDecisions = 2
  Absent = Absent
PROPERTY EditsRemain
CHECK_DEADLOCK FALSE
