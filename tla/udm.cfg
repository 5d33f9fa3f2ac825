SPECIFICATION ParserSpec
CONSTANTS
  Calls <- MCCalls
INVARIANTS
  ValuesAreKeptOnce
  RoutedAsDetected
CHECK_DEADLOCK FALSE
