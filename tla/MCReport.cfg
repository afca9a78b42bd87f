CONSTANTS
  None = None
  Traces <- MCTraces
  TicksPerMs = 2
  Reads = 3
SPECIFICATION Spec
CHECK_DEADLOCK FALSE
INVARIANTS
  NodesAsRecorded
  StatsAddUp
  TreeHoldsEachNode
  SiblingsInOrder
