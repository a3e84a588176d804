\* As publisher_order, on a node whose pod list becomes empty.
CONSTANTS
  Updaters = {u1}
  ForeignValues = {f1}
  KubeletConfigs <- MCKubeletConfigs
  EmptyNodes <- MCEmptiedNode
  MaxNode = 1
  MaxRV = 3
  MaxOrphans = 1
  Absent = Absent
  NoObject = NoObject
SPECIFICATION Spec
INVARIANT FingerprintMatchesZones
