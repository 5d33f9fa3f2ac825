---------------------------- MODULE RouteMatchers -----------------------------
(***************************************************************************)
(* The routes of tengen/routing/routes/: what they are called, where they  *)
(* lead, and what their matchers do with a payload ("yes", "no" or         *)
(* "raises").                                                              *)
(*                                                                         *)
(* A payload is a record of the keys it has.  A value is the class of      *)
(* values the matchers tell apart, in the words of the code: a string that *)
(* ends with ".amazonaws.com" is "*.amazonaws.com", one that starts with   *)
(* "Microsoft." is "Microsoft.*", an object is named for what it holds,    *)
(* "null" is the JSON null, and "other" is any other string.               *)
(***************************************************************************)
EXTENDS Sequences

(* In the order in which routes/__init__.py imports them. *)
Registered == <<"cloud.aws.cloudtrail", "cloud.aws.eks", "cloud.aws.guardduty",
                "cloud.gcp.event_audit", "cloud.azure.activity",
                "edr.crowdstrike", "k8s.audit", "network.firewall">>

QueueOfRoute ==
  [n \in {Registered[i] : i \in DOMAIN Registered} |->
     CASE n = "cloud.aws.cloudtrail"  -> "runbook.cloudtrail"
       [] n = "cloud.aws.eks"         -> "runbook.eks"
       [] n = "cloud.aws.guardduty"   -> "runbook.guardduty"
       [] n = "cloud.gcp.event_audit" -> "runbook.gcp.event_audit"
       [] n = "cloud.azure.activity"  -> "runbook.azure.activity"
       [] n = "edr.crowdstrike"       -> "runbook.crowdstrike"
       [] n = "k8s.audit"             -> "runbook.k8s"
       [] n = "network.firewall"      -> "runbook.firewall"]

-------------------------------------------------------------------------------

Has(p, key) == key \in DOMAIN p

Is(p, key, values) == Has(p, key) /\ p[key] \in values

(* A value of the wrong type: an operation on it raises. *)
Untyped(p, key) == Is(p, key, {"null", "number"})

Strings(p, key) == Has(p, key) /\ ~ Untyped(p, key)

Matches(accepts) == IF accepts THEN "yes" ELSE "no"

(* Mistake: the event's version is not looked at. *)
CloudTrailUnversioned(p) == Matches(Is(p, "eventSource", {"*.amazonaws.com"}))

CloudTrail(p) ==
  Matches(Is(p, "eventSource", {"*.amazonaws.com"}) /\ Strings(p, "eventVersion"))

(* annotations defaults to {} only when it is absent. *)
Eks(p) ==
  IF \/ Is(p, "apiVersion", {"kubernetes.io"})
     \/ Is(p, "sourceIPAddress", {"eks.amazonaws.com"})
  THEN "yes"
  ELSE IF Untyped(p, "annotations") \/ Is(p, "annotations", {"other"}) THEN "raises"
       ELSE Matches(Is(p, "annotations", {"compute-type"}))

GuardDuty(p) ==
  IF ~ (Is(p, "detail-type", {"GuardDuty Finding"}) /\ Has(p, "detail")) THEN "no"
  ELSE IF Untyped(p, "detail") THEN "raises" ELSE Matches(Is(p, "detail", {"type"}))

EventAudit(p) ==
  IF Untyped(p, "logName") THEN "raises"
  ELSE Matches(Is(p, "logName", {"cloudaudit.googleapis.com"}))

(* operationName may be a string, as in a sign-in log, which has no get(). *)
Activity(p) ==
  CASE Untyped(p, "resourceProvider") \/ Is(p, "resourceProvider", {"object"}) -> "raises"
    [] Is(p, "resourceProvider", {"Microsoft.*"}) -> "yes"
    [] OTHER ->
         IF Is(p, "tenantId", {"azure"}) THEN "yes"
         ELSE IF Untyped(p, "operationName") \/ Is(p, "operationName", {"other", "value: null"})
              THEN "raises"
              ELSE Matches(Is(p, "operationName", {"value: Microsoft.*"}))

CrowdStrike(p) ==
  Matches(\/ Is(p, "Behaviors", {"FalconHostLink"})
          \/ Has(p, "DetectName") /\ p["DetectName"] # "null"
          \/ Is(p, "event_type", {"DetectionSummaryEvent", "EppDetectionSummaryEvent"}))

Audit(p) ==
  Matches(\/ Is(p, "apiVersion", {"audit.k8s.io/v1", "audit.k8s.io/v1beta1"})
          \/ {"requestURI", "userAgent", "objectRef"} \subseteq DOMAIN p)

Firewall(p) ==
  Matches(\/ Is(p, "action", {"DENY", "DROP", "BLOCK", "REJECT"})
          \/ Is(p, "log_type", {"firewall_deny", "ddos_flow", "pcap_summary"})
          \/ Is(p, "flags", {"SYN", "RST", "FIN,ACK"}))

VerdictOf(p) ==
  [n \in DOMAIN QueueOfRoute |->
     CASE n = "cloud.aws.cloudtrail"  -> CloudTrail(p)
       [] n = "cloud.aws.eks"         -> Eks(p)
       [] n = "cloud.aws.guardduty"   -> GuardDuty(p)
       [] n = "cloud.gcp.event_audit" -> EventAudit(p)
       [] n = "cloud.azure.activity"  -> Activity(p)
       [] n = "edr.crowdstrike"       -> CrowdStrike(p)
       [] n = "k8s.audit"             -> Audit(p)
       [] n = "network.firewall"      -> Firewall(p)]

===============================================================================
