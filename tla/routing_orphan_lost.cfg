SPECIFICATION Spec
CONSTANTS
  both = both
  second = second
  orphan = orphan
  garbage = garbage
  Alerts = {second, orphan}
  Malformed = {}
  RouteOrder <- Registered
  QueueOf <- QueueOfRoute
  Verdict <- MCVerdict
  DLQ = "alerts.dlq"
  Routers = {r1}
  RefusedQueues = {"runbook.k8s"}
  NoAlert = NoAlert
  MaxFaults = 0
INVARIANT UnroutableAlertsDeadLettered
