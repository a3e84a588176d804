\* Processes with a sleep interval, failures and overflows.
CONSTANTS
  KubeletConfigs <- MCKubeletConfigs
  ForeignValues <- MCForeignValues
  Absent = Absent
  NoObject = NoObject
  Configurations <- MCInterval
  MaxQueue = 1
  Overflows = TRUE
  MaxAlloc = 1
  MaxPods = 2
  EmptyPods <- MCEmptyPods
  MaxFailures = 2
SPECIFICATION Spec
CHECK_DEADLOCK FALSE
INVARIANTS TypeOK
PROPERTIES Converges StopHonoured OneshotReturns
