--------------------------- MODULE MCAlertRouting ----------------------------
(***************************************************************************)
(* Small instances of AlertRouting: the routes of tengen/routing/routes/,  *)
(* and one alert for each way through the router.                          *)
(***************************************************************************)
EXTENDS AlertRouting, RouteMatchers, TLC

CONSTANTS
  both,     \* two matchers accept it: the first one takes it
  second,   \* a matcher raises on it, a later one accepts it
  orphan,   \* no matcher accepts it
  garbage   \* not an Alert at all

(* A CloudTrail record of a call made by EKS; a Kubernetes audit event     *)
(* whose annotations are null; an Azure record known only by its tenant;   *)
(* and a body that has no payload.                                         *)
Payload ==
  [a \in Alerts |->
     CASE a = both   -> [eventSource |-> "*.amazonaws.com", eventVersion |-> "other",
                         sourceIPAddress |-> "eks.amazonaws.com"]
       [] a = second -> [apiVersion |-> "audit.k8s.io/v1", annotations |-> "null"]
       [] a = orphan -> [tenantId |-> "other"]
       [] OTHER      -> [k \in {} |-> "null"]]

MCVerdict == [a \in Alerts |-> VerdictOf(Payload[a])]

Symmetry == Permutations(Routers)

=============================================================================
