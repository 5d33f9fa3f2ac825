SPECIFICATION Spec
CONSTANTS
  EventKinds <- MCEventKinds
  KnownGood <- MCKnownGood
  MinScore = 100
  Window = 1
  MaxTime = 3
  MaxEvents = 3
INVARIANTS
  TypeOK
  OneLiveIncident
  SuppressedIsNoise
PROPERTIES
  KeptStaysKept
CHECK_DEADLOCK FALSE
