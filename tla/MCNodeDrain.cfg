CONSTANTS
  n1 = n1  n2 = n2  t1 = t1  t2 = t2
  None = None
  Nodes = {n1, n2}
  Threads = {t1, t2}
  Capacity = 2
  Budget = 1
  MaxCalls = 2
  Programs <- MixedPrograms
SPECIFICATION FairSpec
INVARIANTS LevelOnce OverflowIsReliable GenerationsOrdered
PROPERTIES ReliableFifo MailboxDrains
CHECK_DEADLOCK FALSE
