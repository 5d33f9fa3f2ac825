SPECIFICATION Spec
CONSTANTS
  both = both
  second = second
  orphan = orphan
  garbage = garbage
  Alerts = {both, second, orphan, garbage}
  Malformed = {garbage}
  RouteOrder <- Registered
  QueueOf <- QueueOfRoute
  Verdict <- MCVerdict
  DLQ = "alerts.dlq"
  Routers = {r1, r2}
  RefusedQueues = {"runbook.k8s"}
  NoAlert = NoAlert
  MaxFaults = 2
SYMMETRY Symmetry
CHECK_DEADLOCK FALSE
INVARIANTS
  MatchedAlertsSurvive
  HeldAlertIsInHand
  DuplicatesNeedFaults
  OneDestination
  IndInv
