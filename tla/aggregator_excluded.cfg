\* A pod holds a resource that the configuration excludes.
CONSTANTS
  Cases <- MCGpuCases
  NodeName = "worker"
  Configs <- MCGpuExcluded
SPECIFICATION Spec
CHECK_DEADLOCK FALSE
INVARIANT NoPanic
