CONSTANTS
  t1 = t1  t2 = t2  i1 = i1  i2 = i2
  None = None
  Tasks = {t1, t2}
  Transfers = {i1}
  Limits = {1, 2}
  MaxPermits = 2
  Jobs = {"directory", "agent"}
  MaxStarts = 2
  MaxRequests = 1
SPECIFICATION FairSpec
INVARIANTS ControlsOwned ShutdownReachesAll ShutdownKeepsProgress PermitsExact
PROPERTIES SweptStaysCancelled QueueMoves
CHECK_DEADLOCK FALSE
