---------------------------- MODULE RouteRegistry ----------------------------
(***************************************************************************)
(* The routing table of tengen/routing/registry.py: an ordered collection  *)
(* of routes, each with a destination queue and a matcher, and the lookup  *)
(* RouteRegistry.match.  Route files register at import time, before the   *)
(* router starts, so the table is constant here.                           *)
(***************************************************************************)
EXTENDS Integers, Sequences

CONSTANTS
  Alerts,      \* the message bodies that may be put on the alerts queue
  Malformed,   \* those that Alert.model_validate_json refuses
  RouteOrder,  \* the registered routes, in registration order
  QueueOf,     \* the runbook queue of each route (Route.queue)
  Verdict,     \* what each matcher does on each alert: "yes", "no", "raises"
  DLQ          \* QUEUE_DLQ

RouteNames == {RouteOrder[i] : i \in DOMAIN RouteOrder}

ASSUME RegistryAssumption ==
  /\ Malformed \subseteq Alerts
  /\ RouteOrder \in Seq(RouteNames)
  /\ QueueOf \in [RouteNames -> {QueueOf[n] : n \in RouteNames}]
  /\ Verdict \in [Alerts -> [RouteNames -> {"yes", "no", "raises"}]]
  /\ \A n \in RouteNames : QueueOf[n] # DLQ

\* register() raises ValueError on a name it already holds.
ASSUME NamesAreUnique ==
  \A i, j \in DOMAIN RouteOrder : RouteOrder[i] = RouteOrder[j] => i = j

RunbookQueues == {QueueOf[n] : n \in RouteNames}

Queues == RunbookQueues \cup {DLQ}

(* Mistake: a matcher that raises counts as a match. *)
HitsWithRaises(a) ==
  {i \in DOMAIN RouteOrder : Verdict[a][RouteOrder[i]] # "no"}

(* A matcher that raises is logged and treated as one that returned False. *)
Hits(a) == {i \in DOMAIN RouteOrder : Verdict[a][RouteOrder[i]] = "yes"}

Routable == {a \in Alerts \ Malformed : Hits(a) # {}}

Unroutable == {a \in Alerts \ Malformed : Hits(a) = {}}

(* RouteRegistry.match: the first route, in registration order, that says  *)
(* yes.  Defined for routable alerts; match() returns None for the others. *)
Match(a) == RouteOrder[CHOOSE i \in Hits(a) : \A j \in Hits(a) : i <= j]

(* The one queue an alert is meant to end up in. *)
Destination(a) == IF a \in Routable THEN QueueOf[Match(a)] ELSE DLQ

==============================================================================
