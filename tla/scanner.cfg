\* Pods that come and go while scans run, one name used by two of them.
CONSTANTS
  Names <- MCNames
  SpecsOf <- MCSpecsOf
  WatchNamespace = "default"
  PodFingerprint = TRUE
  NoPod = NoPod
  Absent = Absent
SPECIFICATION Spec
INVARIANTS ScanOfOneMoment DevicesReported
