\* Daemons that watch the state files; nothing fails.
CONSTANTS
  KubeletConfigs <- MCOneConfig
  ForeignValues <- MCForeignValues
  Absent = Absent
  NoObject = NoObject
  Configurations <- MCWatching
  MaxQueue = 3
  Overflows = FALSE
  MaxAlloc = 2
  MaxPods = 1
  EmptyPods <- MCEmptyPods
  MaxFailures = 0
SPECIFICATION Spec
CHECK_DEADLOCK FALSE
INVARIANTS NoLostWakeup
PROPERTIES AllocationPublished
