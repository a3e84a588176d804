\* One process, its crashes, its restarts and the requests it left behind.
CONSTANTS
  Updaters = {u1}
  ForeignValues = {f1, f2}
  KubeletConfigs <- MCKubeletConfigs
  EmptyNodes <- MCNoEmptyNodes
  MaxNode = 2
  MaxRV = 4
  MaxOrphans = 2
  Absent = Absent
  NoObject = NoObject
SPECIFICATION Spec
PROPERTY NoRegress
