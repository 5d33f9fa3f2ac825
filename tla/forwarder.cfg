SPECIFICATION Spec
CONSTANTS
  Bodies = {letter, a1, a2, a3}
  Parsable = {a1, a2, a3}
  NoBody = NoBody
  BatchSize = 2
  MaxLost = 1
  MaxCrashes = 1
INVARIANTS
  TypeOK
  AckedIsAccountedFor
  SentOncePerDelivery
PROPERTY QueueDrains
CHECK_DEADLOCK FALSE
