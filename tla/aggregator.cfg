\* Legal allocations on two machines, pods in every order.
CONSTANTS
  Cases <- MCCases
  NodeName = "worker"
  Configs <- MCConfigs
SPECIFICATION Spec
CHECK_DEADLOCK FALSE
INVARIANTS AvailableBounded AvailableIsUnreserved MemoryConserved CPUCapacity ZonesAreTopology
  ExclusionHonoured
