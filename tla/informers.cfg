SPECIFICATION Spec
CONSTANTS
  Types = {"nrt", "other"}
  Channels = {"stopCh", "ctx"}
  MaxChanges <- MCMaxChanges
  Initial <- MCSelected
  Callers <- MCCallers
  Program <- MCProgram
  States <- MCStates
  Absent <- NoObject
  Selected <- MCSelected
INVARIANTS
  TypeOK
  ShutdownWaits
  ListedFromServer
  CacheFaithful
  ResultsAsDocumented
PROPERTIES
  ShutdownCompletes
  WaitCompletes
CHECK_DEADLOCK FALSE
