SPECIFICATION Spec
CONSTANTS
  Log <- MCLog
  Poison <- MCPoison
  MaxBatch = 2
  MaxFaults = 2
INVARIANTS
  TypeOK
  SettledMeansHandled
  LossesNeedFaults
  DuplicatesNeedFaults
PROPERTIES
  MessagesSettle
