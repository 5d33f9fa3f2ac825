SPECIFICATION Spec
CONSTANTS
  Bodies = {letter}
  Parsable = {}
  NoBody = NoBody
  BatchSize = 2
  MaxLost = 0
  MaxCrashes = 0
INVARIANT DeadLettersAreForwarded
