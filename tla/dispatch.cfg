SPECIFICATION Spec
CONSTANTS
  Keys <- MCKeys
  NoEvent = "none"
  Tables <- MCTables
  MaxWrites = 2
  Events = {"e1", "e2"}
  KeyOf <- MCKeyOf
  MaxRetries = 2
CHECK_DEADLOCK FALSE
INVARIANTS
  TypeOK
  LookupIsMostSpecific
  AnswersAreCurrent
  RepeatsNeedLostAnswers
PROPERTY CallsEnd
