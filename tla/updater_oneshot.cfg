\* A one-shot process that only file events can wake.
CONSTANTS
  KubeletConfigs <- MCOneConfig
  ForeignValues <- MCForeignValues
  Absent = Absent
  NoObject = NoObject
  Configurations <- MCOneshotWatching
  MaxQueue = 2
  Overflows = FALSE
  MaxAlloc = 1
  MaxPods = 0
  EmptyPods <- MCEmptyPods
  MaxFailures = 0
SPECIFICATION Spec
CHECK_DEADLOCK FALSE
PROPERTY OneshotReturns
