------------------------------- MODULE UDMParser ------------------------------
(***************************************************************************)
(* UDMParser.parse of tengen/udm/parser.py: a raw event is normalized,     *)
(* projected onto a UDM event (NormalizedEvent.to_udm), and searched for   *)
(* leaves that CONSUMED_PATHS (tengen/udm/mappings.py) does not list for   *)
(* its source.  Those are kept under additional.unmapped and recorded in   *)
(* the field registry, each in a transaction of its own.                   *)
(*                                                                         *)
(* A value of the raw event is named by its path and, within a list, the   *)
(* element.  A field of the UDM event is known by the value it holds; the  *)
(* values that are only classified, severities and outcomes, leave no      *)
(* value behind.  The suggestion for an unmapped field is FieldRegistry's  *)
(* constant Heuristic and is left out here.                                *)
(***************************************************************************)
EXTENDS Normalizers

CONSTANT Calls  \* what parse() is called with: a raw event and a source type,
                \* or "none" to have it detected

(* A path to a value does not lead to an object as well. *)
ValueOrObject ==
  {{"operationName", "operationName.value"}, {"resourceProvider", "resourceProvider.value"},
   {"status", "status.value"}}

IsEvent(r) ==
  /\ DOMAIN r \subseteq STRING /\ r \in [DOMAIN r -> Seq(STRING) \ {<<>>}]
  /\ \A paths \in ValueOrObject : ~ paths \subseteq DOMAIN r

ASSUME UDMParserAssumption ==
  \A c \in Calls : IsEvent(c.raw) /\ c.given \in Sources \cup {"none"}

VARIABLES
  raw, given,  \* the arguments of parse()
  step,        \* "called", "recording", "returned" or "raised"
  source,      \* the source type of the normalized event
  udm,         \* the values in the UDM event's own fields
  unmapped,    \* the values under additional.unmapped
  recorded     \* the paths observed in the field registry

parserVars == <<raw, given, step, source, udm, unmapped, recorded>>

-------------------------------------------------------------------------------
(* mappings.py *)

Consumed(s) ==
  CASE s = "aws" ->
         {"eventID", "eventTime", "eventName", "eventVersion", "eventSource", "awsRegion",
          "sourceIPAddress", "userAgent", "errorCode", "userIdentity.arn",
          "userIdentity.accountId", "userIdentity.type", "userIdentity.userName",
          "resources[].ARN", "resources[].resourceName", "resources[].type"}
    [] s = "gcp" ->
         {"logName", "timestamp", "severity",
          "protoPayload.authenticationInfo.principalEmail",
          "protoPayload.requestMetadata.callerIp",
          "protoPayload.requestMetadata.callerSuppliedUserAgent",
          "protoPayload.resourceName", "protoPayload.methodName",
          "protoPayload.status.code", "resource.type", "resource.labels.project_id"}
    [] s = "azure" ->
         {"tenantId", "eventTimestamp", "time", "caller", "subscriptionId", "resourceId",
          "resourceProvider", "resourceProvider.value", "operationName",
          "operationName.value", "status", "status.value",
          "httpRequest.clientIpAddress", "level"}
    [] s = "crowdstrike" ->
         {"event_type", "CreatedTimestamp", "ProcessStartTime", "CustomerIdentifier",
          "DeviceDetails.Hostname", "Hostname", "LocalIP", "ExternalIP", "MaxSeverity",
          "DetectName", "Behaviors[].UserName", "Behaviors[].Technique",
          "Behaviors[].Tactic"}
    [] s \in {"k8s", "openshift"} ->
         {"apiVersion", "verb", "userAgent", "requestReceivedTimestamp", "stageTimestamp",
          "user.username", "objectRef.name", "objectRef.resource", "objectRef.namespace",
          "sourceIPs[]", "responseStatus.code"}
    [] s = "firewall" ->
         {"timestamp", "time", "log_type", "src_ip", "dst_ip", "src_port", "dst_port",
          "protocol", "bytes_in", "bytes_out", "action", "interface"}
    [] s = "ddos" ->
         {"timestamp", "start_time", "src_ip", "top_src_ip", "dst_ip", "target_ip",
          "dst_port", "protocol", "bytes_received", "attack_type", "attack_vector",
          "packets_per_second"}
    [] s = "unknown" -> {}

ScalarLists == {"sourceIPs[]", "extra[]"}

(* flatten(): of a list of scalars the first stays, of the objects in a    *)
(* list the last.                                                          *)
Flattened(r) == {<<q, IF q \in ScalarLists THEN 1 ELSE Len(r[q])>> : q \in DOMAIN r}

(* Mistake: the tables of all the sources count. *)
UnmappedByAnySource(r, s) ==
  {v \in Flattened(r) : \A t \in Sources : v[1] \notin Consumed(t)}

(* discover_unmapped *)
Unmapped(r, s) == {v \in Flattened(r) : v[1] \notin Consumed(s)}

-------------------------------------------------------------------------------
(* to_udm() leaves out target.region, which Noun could hold, and puts a    *)
(* timestamp that cannot be parsed down as None.                           *)
Projected(r, s) ==
  LET fields == DOMAIN Reads(s) \ {"region", "outcome", "severity"}
      taken  == [f \in fields |-> TakenFrom(r, s, f)]
  IN  {<<taken[f], 1>> : f \in {g \in fields :
         /\ taken[g] # "default"
         /\ g = "timestamp" => Head(r[taken[g]]) # "odd"}}

(* The top-level key that holds a leaf, and what it then holds. *)
TopKey(q) ==
  CASE q = "operationName.value" -> "operationName"
    [] q = "resourceProvider.value" -> "resourceProvider"
    [] q = "annotations.compute-type" -> "annotations"
    [] q = "detail.type" -> "detail"
    [] q = "Behaviors[].Tactic" -> "Behaviors"
    [] q \in {"objectRef.name", "objectRef.resource", "objectRef.namespace"} -> "objectRef"
    [] OTHER -> q

TopValue(q, v) ==
  CASE q = "operationName.value" -> "value: " \o v
    [] q = "annotations.compute-type" -> "compute-type"
    [] q = "detail.type" -> "type"
    [] q \in {"resourceProvider.value", "objectRef.name", "objectRef.resource",
              "objectRef.namespace"} -> "object"
    [] OTHER -> v

TopLevel(r) ==
  [k \in {TopKey(q) : q \in DOMAIN r} |->
     LET q == CHOOSE q \in DOMAIN r : TopKey(q) = k IN TopValue(q, Head(r[q]))]

(* parse(), up to the registry, which a caller may leave out. *)
Parse ==
  /\ step = "called"
  /\ LET s == IF given = "none" THEN DetectSourceType(TopLevel(raw)) ELSE given
     IN  IF s = "raises"
         THEN step' = "raised" /\ UNCHANGED <<source, udm, unmapped>>
         ELSE IF Raises(raw, s)
         THEN step' = "raised" /\ UNCHANGED <<source, udm, unmapped>>
         ELSE /\ source' = EffectiveSource(raw, s)
              /\ udm' = Projected(raw, s)
              /\ unmapped' = Unmapped(raw, source')
              /\ \/ unmapped' # {} /\ step' = "recording"
                 \/ step' = "returned"
  /\ UNCHANGED <<raw, given, recorded>>

(* registry.observe() for one field. *)
Record(v) ==
  /\ step = "recording" /\ v \in unmapped /\ v[1] \notin recorded
  /\ recorded' = recorded \cup {v[1]}
  /\ step' = IF {w[1] : w \in unmapped} = recorded' THEN "returned" ELSE "recording"
  /\ UNCHANGED <<raw, given, source, udm, unmapped>>

(* The registry's database fails: what was recorded before stays.          *)
RecordFails ==
  /\ step = "recording" /\ step' = "raised"
  /\ UNCHANGED <<raw, given, source, udm, unmapped, recorded>>

-------------------------------------------------------------------------------

ParserInit ==
  /\ \E c \in Calls : raw = c.raw /\ given = c.given
  /\ step = "called" /\ source = "unknown"
  /\ udm = {} /\ unmapped = {} /\ recorded = {}

ParserNext == Parse \/ (\E v \in unmapped : Record(v)) \/ RecordFails

ParserSpec == ParserInit /\ [][ParserNext]_parserVars

-------------------------------------------------------------------------------
(* Properties. *)

Parsed == step \in {"recording", "returned"}

(* Read by no field of the UDM event, though listed as consumed: only a    *)
(* class of them survives, or nothing.                                     *)
Classified(s) ==
  CASE s = "aws" -> {"errorCode"}
    [] s = "gcp" -> {"severity", "protoPayload.status.code"}
    [] s = "azure" -> {"level", "status", "status.value"}
    [] s = "crowdstrike" -> {"MaxSeverity"}
    [] s \in {"k8s", "openshift"} -> {"responseStatus.code"}
    [] s = "ddos" -> {"packets_per_second"}
    [] OTHER -> {}

Dropped(s) ==
  CASE s = "aws" -> {"eventVersion", "eventSource", "awsRegion"}
    [] s = "gcp" -> {"logName"}
    [] s = "azure" -> {"tenantId"}
    [] s = "crowdstrike" -> {"event_type"}
    [] s \in {"k8s", "openshift"} -> {"apiVersion"}
    [] OTHER -> {}

(* Two raw names for one field. *)
Alternatives ==
  {{"userIdentity.arn", "userIdentity.userName"},
   {"resources[].ARN", "resources[].resourceName"}, {"eventTimestamp", "time"},
   {"CreatedTimestamp", "ProcessStartTime"}, {"DeviceDetails.Hostname", "Hostname"},
   {"DetectName", "Behaviors[].Technique"},
   {"requestReceivedTimestamp", "stageTimestamp"}, {"timestamp", "time"},
   {"timestamp", "start_time"}, {"src_ip", "top_src_ip"}, {"dst_ip", "target_ip"}}

(* parser.py keeps unmapped values "so nothing is lost".  A value of the   *)
(* raw event is in a field of the UDM event or under additional.unmapped,  *)
(* and not in both, except for: null and empty values; elements of a list  *)
(* but one; a timestamp that does not parse; the second of two names for a *)
(* field; what is only classified; and what the table lists as consumed    *)
(* and to_udm() leaves out.  For an unknown source the fields that are     *)
(* mapped are kept under unmapped as well.                                 *)
ValuesAreKeptOnce ==
  Parsed =>
    \A q \in DOMAIN raw : \A i \in DOMAIN raw[q] :
      /\ \/ <<q, i>> \in udm \cup unmapped
         \/ raw[q][i] \in {"null", "empty", "odd"}
         \/ i # IF q \in Consumed(source) \cup ScalarLists THEN 1 ELSE Len(raw[q])
         \/ q \in Classified(source) \cup Dropped(source)
         \/ \E A \in Alternatives : q \in A /\ A \subseteq DOMAIN raw
      /\ source # "unknown" => <<q, i>> \notin udm \cap unmapped

Routing(p) == INSTANCE RouteRegistry WITH
  Alerts <- {p}, Malformed <- {}, RouteOrder <- Registered, QueueOf <- QueueOfRoute,
  Verdict <- [a \in {p} |-> VerdictOf(p)], DLQ <- "alerts.dlq"

SourceOfRoute(n) ==
  CASE n \in {"cloud.aws.cloudtrail", "cloud.aws.eks", "cloud.aws.guardduty"} -> {"aws"}
    [] n = "cloud.gcp.event_audit" -> {"gcp"}
    [] n = "cloud.azure.activity" -> {"azure"}
    [] n = "edr.crowdstrike" -> {"crowdstrike"}
    [] n = "k8s.audit" -> {"k8s", "openshift"}
    [] n = "network.firewall" -> {"firewall", "ddos"}

(* What the routes other than the EKS route would take an event for.      *)
SourcesWithoutEks(p) ==
  LET others == {i \in Routing(p)!Hits(p) : Registered[i] # "cloud.aws.eks"}
  IN  IF others = {} THEN {"unknown"}
      ELSE SourceOfRoute(Registered[CHOOSE i \in others : \A j \in others : i <= j])

(* The matchers of the routes and detect_source_type each judge the raw    *)
(* event, in another order and by other conditions.  An event that the     *)
(* router sends to a vendor's runbook is normalized as that vendor's,      *)
(* except where the two differ, in six places: TCP flags are enough for    *)
(* the firewall's route alone; any tenantId, any eventVersion, a GuardDuty *)
(* finding without its detail and a resourceProvider that is an object, as *)
(* the normalizer expects it, for detection alone; and detection knows     *)
(* none of the three signs of an EKS event (eks.py), which are enough for  *)
(* that route: such an event is normalized as what the other routes would  *)
(* take it for, or as unknown, and never as AWS's for being EKS's.         *)
RoutedAsDetected ==
  given = "none" /\ Parsed =>
    LET p == TopLevel(raw)
        route == Routing(p)!Match(p)
    IN  p \in Routing(p)!Routable =>
          \/ source \in SourceOfRoute(route)
          \/ route = "cloud.aws.eks" /\ source \in SourcesWithoutEks(p)
          \/ source = "unknown" /\ Has(p, "flags")
               /\ route \in {"network.firewall", "cloud.aws.eks"}
          \/ source = "azure" /\ Has(p, "tenantId") /\ p["tenantId"] # "azure"
          \/ source = "azure" /\ Is(p, "resourceProvider", {"object"})
          \/ source = "aws" /\ Untyped(p, "eventVersion")
          \/ source = "aws" /\ Has(p, "detail-type") /\ GuardDuty(p) # "yes"

===============================================================================
