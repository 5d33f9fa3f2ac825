SPECIFICATION FairSpec
CONSTANTS
  both = both
  second = second
  orphan = orphan
  garbage = garbage
  Alerts = {both, orphan, garbage}
  Malformed = {garbage}
  RouteOrder <- Registered
  QueueOf <- QueueOfRoute
  Verdict <- MCVerdict
  DLQ = "alerts.dlq"
  Routers = {r1, r2}
  RefusedQueues = {}
  NoAlert = NoAlert
  MaxFaults = 2
CHECK_DEADLOCK FALSE
INVARIANTS
  UnroutableAlertsDeadLettered
PROPERTIES
  ImplementsDelivery
  EveryAlertSettles
