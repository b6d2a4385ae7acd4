SPECIFICATION FairSpec
CONSTANTS
  NoNode = NoNode
  Nodes = {n1, n2}
  Snapshots <- TwoSnapshots
  MaxAttempts = 2
  MaxRequeue = 1
  MaxFaults = 2
  MaxConnects = 1
  MaxDisconnects = 1
INVARIANTS ActiveJobOwnsPipeline EndedIsTerminal DialsWithinBudget
CHECK_DEADLOCK FALSE
PROPERTIES ConnectingEnds PipelineMovesOn
