SPECIFICATION Spec
CONSTANTS
  Events = {e1, e2, e3, bad}
  Serialisable = {e1, e2, e3}
  BatchSize = 2
  MaxAttempts = 3
  MaxCrashes = 1
CHECK_DEADLOCK FALSE
INVARIANTS
  CrashesLoseOneBatch
  DuplicatesNeedLostAnswers
  FirstSeenInOrder
