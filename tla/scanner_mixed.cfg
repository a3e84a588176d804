\* A guaranteed pod with whole CPUs in one of its two containers.
CONSTANTS
  Names <- MCMixedName
  SpecsOf <- MCMixedSpec
  WatchNamespace = "*"
  PodFingerprint = TRUE
  NoPod = NoPod
  Absent = Absent
SPECIFICATION Spec
INVARIANT ExclusiveCPUsSeen
