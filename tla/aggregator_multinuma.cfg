\* A pod holds a device that belongs to two NUMA nodes.
CONSTANTS
  Cases <- MCSharedCases
  NodeName = "worker"
  Configs <- MCNoneExcluded
SPECIFICATION Spec
CHECK_DEADLOCK FALSE
INVARIANT AvailableIsUnreserved
