------------------------------ MODULE Normalizers ------------------------------
(***************************************************************************)
(* The normalizers of tools/normalizers/: which raw fields each one reads  *)
(* into which field of a NormalizedEvent, on which values it raises, and   *)
(* how detect_source_type chooses among them.                              *)
(*                                                                         *)
(* A raw event is a function from its leaf paths, written as mappings.py   *)
(* writes them, to the values found there: one, or one per element for a   *)
(* path through a list ("[]"), all of whose elements have the same keys.   *)
(* A value is a class of values, as in RouteMatchers, and also "empty" for *)
(* the empty string, "odd" for a timestamp that datetime.fromisoformat     *)
(* refuses, and "*openshift.io/v1".  Where the code expects an object and  *)
(* finds something else, the path of the object is a leaf.                 *)
(***************************************************************************)
EXTENDS RouteMatchers, SequencesExt

Sources == {"aws", "gcp", "azure", "crowdstrike", "firewall", "ddos", "k8s",
            "openshift", "unknown"}

-------------------------------------------------------------------------------
(* detect_source_type *)

AuditKeys == {"requestURI", "objectRef", "userAgent"}

(* On the top-level keys of the raw event; "raises" for a string method    *)
(* called on something else.                                               *)
DetectSourceType(p) ==
  IF Untyped(p, "eventSource") THEN "raises"
  ELSE IF Is(p, "eventSource", {"*.amazonaws.com"}) /\ Has(p, "eventVersion") THEN "aws"
  ELSE IF Is(p, "detail-type", {"GuardDuty Finding"}) THEN "aws"
  ELSE IF Untyped(p, "logName") THEN "raises"
  ELSE IF Is(p, "logName", {"cloudaudit.googleapis.com"}) THEN "gcp"
  ELSE IF \/ Is(p, "resourceProvider", {"Microsoft.*"})
          \/ Is(p, "operationName", {"value: Microsoft.*"})
          \/ Has(p, "tenantId") THEN "azure"
  ELSE IF \/ Is(p, "event_type", {"DetectionSummaryEvent", "EppDetectionSummaryEvent"})
          \/ Is(p, "Behaviors", {"FalconHostLink"})
          \/ Has(p, "DetectName") /\ p["DetectName"] # "null" THEN "crowdstrike"
  ELSE IF Is(p, "apiVersion", {"audit.k8s.io/v1", "audit.k8s.io/v1beta1"}) THEN "k8s"
  ELSE IF AuditKeys \subseteq DOMAIN p
       THEN IF Untyped(p, "apiVersion") THEN "raises"
            ELSE IF Is(p, "apiVersion", {"*openshift.io/v1"}) THEN "openshift" ELSE "k8s"
  ELSE IF Is(p, "action", {"DENY", "DROP", "BLOCK", "REJECT"}) THEN "firewall"
  ELSE IF Is(p, "log_type", {"firewall_deny", "ddos_flow", "pcap_summary"}) THEN "ddos"
  ELSE "unknown"

-------------------------------------------------------------------------------
(* What each normalizer reads: for a field, the paths it tries, the first  *)
(* of those present being taken (get with a default), or, for the AWS      *)
(* identity, the first that is not empty.  Of a list it reads the first    *)
(* element.  The tags that repeat other fields are left out.               *)

AwsReads ==
  [event_id |-> <<"eventID">>, timestamp |-> <<"eventTime">>,
   identity |-> <<"userIdentity.arn", "userIdentity.userName">>,
   identity_type |-> <<"userIdentity.type">>, account_id |-> <<"userIdentity.accountId">>,
   resource_name |-> <<"resources[].ARN", "resources[].resourceName">>,
   resource_type |-> <<"resources[].type">>, region |-> <<"awsRegion">>,
   src_ip |-> <<"sourceIPAddress">>, user_agent |-> <<"userAgent">>,
   event_name |-> <<"eventName">>, outcome |-> <<"errorCode">>]

GcpReads ==
  [timestamp |-> <<"timestamp">>,
   identity |-> <<"protoPayload.authenticationInfo.principalEmail">>,
   account_id |-> <<"resource.labels.project_id">>,
   resource_name |-> <<"protoPayload.resourceName">>, resource_type |-> <<"resource.type">>,
   src_ip |-> <<"protoPayload.requestMetadata.callerIp">>,
   user_agent |-> <<"protoPayload.requestMetadata.callerSuppliedUserAgent">>,
   event_name |-> <<"protoPayload.methodName">>,
   outcome |-> <<"protoPayload.status.code">>, severity |-> <<"severity">>]

AzureReads ==
  [timestamp |-> <<"eventTimestamp", "time">>, identity |-> <<"caller">>,
   account_id |-> <<"subscriptionId">>, resource_name |-> <<"resourceId">>,
   resource_type |-> <<"resourceProvider", "resourceProvider.value">>,
   src_ip |-> <<"httpRequest.clientIpAddress">>,
   event_name |-> <<"operationName", "operationName.value">>,
   outcome |-> <<"status", "status.value">>, severity |-> <<"level">>]

CrowdStrikeReads ==
  [timestamp |-> <<"CreatedTimestamp", "ProcessStartTime">>,
   identity |-> <<"Behaviors[].UserName">>, account_id |-> <<"CustomerIdentifier">>,
   resource_name |-> <<"DeviceDetails.Hostname", "Hostname">>,
   src_ip |-> <<"LocalIP">>, dst_ip |-> <<"ExternalIP">>,
   event_name |-> <<"DetectName", "Behaviors[].Technique">>,
   severity |-> <<"MaxSeverity">>, tags |-> <<"Behaviors[].Tactic">>]

(* The event's name is the verb with objectRef.resource. *)
K8sReads ==
  [timestamp |-> <<"requestReceivedTimestamp", "stageTimestamp">>,
   identity |-> <<"user.username">>, resource_name |-> <<"objectRef.name">>,
   resource_type |-> <<"objectRef.resource">>, namespace |-> <<"objectRef.namespace">>,
   src_ip |-> <<"sourceIPs[]">>, user_agent |-> <<"userAgent">>,
   event_name |-> <<"verb">>, outcome |-> <<"responseStatus.code">>]

FirewallReads ==
  [timestamp |-> <<"timestamp", "time">>, log_type |-> <<"log_type">>,
   src_ip |-> <<"src_ip">>, dst_ip |-> <<"dst_ip">>,
   src_port |-> <<"src_port">>, dst_port |-> <<"dst_port">>,
   protocol |-> <<"protocol">>, bytes_in |-> <<"bytes_in">>, bytes_out |-> <<"bytes_out">>,
   event_name |-> <<"action">>, tags |-> <<"interface">>]

DdosReads ==
  [timestamp |-> <<"timestamp", "start_time">>,
   identity |-> <<"src_ip", "top_src_ip">>, resource_name |-> <<"dst_ip", "target_ip">>,
   src_ip |-> <<"src_ip">>, dst_ip |-> <<"dst_ip">>, dst_port |-> <<"dst_port">>,
   protocol |-> <<"protocol">>, bytes_in |-> <<"bytes_received">>,
   event_name |-> <<"attack_type">>, severity |-> <<"packets_per_second">>,
   tags |-> <<"attack_vector">>]

UnknownReads ==
  [timestamp |-> <<"timestamp", "eventTime">>, event_name |-> <<"eventName", "event_type">>]

Reads(s) ==
  CASE s = "aws" -> AwsReads [] s = "gcp" -> GcpReads [] s = "azure" -> AzureReads
    [] s = "crowdstrike" -> CrowdStrikeReads [] s \in {"k8s", "openshift"} -> K8sReads
    [] s = "firewall" -> FirewallReads [] s = "ddos" -> DdosReads
    [] s = "unknown" -> UnknownReads

(* The path a field's value is taken from, or "default". *)
TakenFrom(raw, s, f) ==
  LET tried == Reads(s)[f]
      found == {i \in DOMAIN tried :
                  /\ tried[i] \in DOMAIN raw
                  /\ s = "aws" /\ f = "identity" => Head(raw[tried[i]]) # "empty"}
  IN  IF found = {} THEN "default" ELSE tried[CHOOSE i \in found : \A j \in found : i <= j]

-------------------------------------------------------------------------------
(* When it raises. *)

(* The objects and the lists of objects it reads into with get(). *)
ObjectsOf(s) ==
  CASE s = "aws" -> {"userIdentity"}
    [] s = "gcp" -> {"protoPayload", "protoPayload.authenticationInfo",
                     "protoPayload.requestMetadata", "protoPayload.status",
                     "resource", "resource.labels"}
    [] s = "azure" -> {"httpRequest"}
    [] s = "crowdstrike" -> {"DeviceDetails"}
    [] s \in {"k8s", "openshift"} -> {"user", "objectRef", "responseStatus"}
    [] OTHER -> {}

ListsOf(s) == CASE s = "aws" -> {"resources"} [] s = "crowdstrike" -> {"Behaviors"}
                [] OTHER -> {}

Numbers == {"src_port", "dst_port", "bytes_in", "bytes_out"}

(* Whether the normalizer, or the NormalizedEvent it builds, takes value v *)
(* for field f: an Azure operation or status need not be an object, nor    *)
(* need a failure code be anything.                                        *)
Accepts(s, f, q, v) ==
  CASE f \in Numbers -> v \in {"number", "null"}
    [] f = "outcome" -> s \in {"k8s", "openshift"} => v = "number"
    [] f = "severity" /\ s \in {"crowdstrike", "ddos"} -> v = "number"
    [] q = "operationName" -> v # "value: null"
    [] OTHER -> v \notin {"null", "number"}

Raises(raw, s) ==
  \/ ObjectsOf(s) \cap DOMAIN raw # {}
  \/ \E l \in ListsOf(s) \cap DOMAIN raw : Head(raw[l]) \notin {"empty", "null"}
  \/ \E f \in DOMAIN Reads(s) :
       LET q == TakenFrom(raw, s, f) IN q # "default" /\ ~ Accepts(s, f, q, Head(raw[q]))
  \/ /\ s \in {"k8s", "openshift"} /\ "apiVersion" \in DOMAIN raw
     /\ Head(raw["apiVersion"]) \in {"null", "number"}

(* The Kubernetes normalizer looks at the version again. *)
EffectiveSource(raw, s) ==
  IF s \in {"k8s", "openshift"}
  THEN IF "apiVersion" \in DOMAIN raw /\ Head(raw["apiVersion"]) = "*openshift.io/v1"
       THEN "openshift" ELSE "k8s"
  ELSE s

===============================================================================
