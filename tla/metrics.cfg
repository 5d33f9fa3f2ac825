SPECIFICATION Spec
CONSTANTS
  Events = {"e1", "e2", "junk"}
  Counters = {"ingested"}
  CounterOf <- MCCounterOf
  NoCounter = "none"
  Malformed = {"junk"}
  NoEvent = "nothing"
  MaxFaults = 2
CHECK_DEADLOCK FALSE
INVARIANTS
  TypeOK
  CountersMatchEvents
  StopSaves
PROPERTIES
  StoredCountersGrow
  MetricsSettle
