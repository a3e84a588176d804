\* Two processes publishing for one node.
CONSTANTS
  Updaters = {u1, u2}
  ForeignValues = {f1}
  KubeletConfigs <- MCKubeletConfigs
  EmptyNodes <- MCNoEmptyNodes
  MaxNode = 1
  MaxRV = 3
  MaxOrphans = 1
  Absent = Absent
  NoObject = NoObject
SYMMETRY MCSymmetry
SPECIFICATION Spec
INVARIANTS TypeOK ForeignFieldsKept PolicyCoherent FingerprintMatchesZones InflightIsMutation
PROPERTY ImplementsStore
