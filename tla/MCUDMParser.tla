------------------------------ MODULE MCUDMParser -----------------------------
EXTENDS UDMParser

EventsOver(paths, values(_)) ==
  {r \in [paths -> UNION {values(q) : q \in paths}] : \A q \in paths : r[q] \in values(q)}

(* The sets of at most n elements. *)
Small(S, n) == {{}} \cup {Range(s) : s \in [1 .. n -> S]}

-------------------------------------------------------------------------------
(* The keys the router and detect_source_type look at, with the values     *)
(* they tell apart; three of them at a time, or two beside the keys of a   *)
(* Kubernetes audit event.                                                 *)
TopValues ==
  [eventSource |-> {"*.amazonaws.com", "null"}, eventVersion |-> {"other", "null"},
   sourceIPAddress |-> {"eks.amazonaws.com"}, logName |-> {"cloudaudit.googleapis.com", "number"},
   resourceProvider |-> {"Microsoft.*", "other"}, operationName |-> {"other"},
   tenantId |-> {"azure", "other"}, event_type |-> {"DetectionSummaryEvent"},
   DetectName |-> {"other", "null"}, apiVersion |-> {"audit.k8s.io/v1", "*openshift.io/v1", "kubernetes.io"},
   requestURI |-> {"other"}, userAgent |-> {"other"}, action |-> {"DENY", "other"},
   log_type |-> {"ddos_flow", "other"}, flags |-> {"SYN"}, annotations |-> {"null"},
   detail |-> {"null"}]

Nested == {"operationName.value", "resourceProvider.value", "annotations.compute-type",
           "Behaviors[].Tactic", "objectRef.resource", "detail-type", "detail.type"}

ValuesToDetect(q) ==
  CASE q = "operationName.value" -> {<<"Microsoft.*">>, <<"other">>}
    [] q = "Behaviors[].Tactic" -> {<<"FalconHostLink">>, <<"other">>}
    [] q = "detail-type" -> {<<"GuardDuty Finding">>}
    [] q \in Nested -> {<<"other">>}
    [] OTHER -> {<<v>> : v \in TopValues[q]}

AuditPaths == {"requestURI", "objectRef.resource", "userAgent"}

PathsToDetect(keys, n) ==
  {K \in Small(keys, n) : ~ \E q \in K : TopKey(q) # q /\ TopKey(q) \in K}

EventsOfKeys(keys, n) == UNION {EventsOver(K, ValuesToDetect) : K \in PathsToDetect(keys, n)}

KeysToDetect == DOMAIN TopValues \cup Nested

EventsToDetect ==
  EventsOfKeys(KeysToDetect, 3)
    \cup {[q \in AuditPaths |-> <<"other">>] @@ r :
             r \in EventsOfKeys(KeysToDetect \ (AuditPaths \cup {"objectRef.name"}), 2)}

-------------------------------------------------------------------------------
(* Two of the paths a source's normalizer reads, or that none does.        *)

ThroughObjects == {"resources[].ARN", "resources[].resourceName", "resources[].type",
                   "Behaviors[].UserName", "Behaviors[].Technique", "Behaviors[].Tactic",
                   "extra[].key"}

Timestamps == {"eventTime", "timestamp", "eventTimestamp", "CreatedTimestamp",
               "requestReceivedTimestamp", "start_time"}

ValuesToMap(q) ==
  {<<v>> : v \in {"other", "null", "empty", "number"}}
    \cup (IF q \in Timestamps THEN {<<"odd">>} ELSE {})
    \cup (IF q \in ThroughObjects \cup ScalarLists
          THEN {<<"other", "other">>, <<"other", "null">>} ELSE {})

(* The members of an object, or the object's own path. *)
Within(q) ==
  CASE q = "userIdentity" -> {"userIdentity.arn", "userIdentity.userName",
                              "userIdentity.type", "userIdentity.accountId"}
    [] q = "status" -> {"status.value"}
    [] q = "operationName" -> {"operationName.value"}
    [] q = "resourceProvider" -> {"resourceProvider.value"}
    [] q = "httpRequest" -> {"httpRequest.clientIpAddress"}
    [] q = "DeviceDetails" -> {"DeviceDetails.Hostname"}
    [] q = "resources" -> {"resources[].ARN", "resources[].resourceName", "resources[].type"}
    [] q = "Behaviors" -> {"Behaviors[].UserName", "Behaviors[].Technique", "Behaviors[].Tactic"}
    [] q = "extra" -> {"extra[]", "extra[].key"}
    [] OTHER -> {}

PathsToMap(s) ==
  {K \in Small(Consumed(s) \cup ObjectsOf(s) \cup ListsOf(s)
                 \cup {"extra", "extra[]", "extra[].key", "timestamp", "eventName"}, 2) :
     /\ \A q \in K : Within(q) \cap K = {}
     /\ K \cap {"protoPayload", "resource", "resource.labels", "user", "objectRef",
                "responseStatus"} = {} \/ Cardinality(K) = 1}

EventsToMap(s) == UNION {EventsOver(K, ValuesToMap) : K \in PathsToMap(s)}

-------------------------------------------------------------------------------

MCCalls ==
  [raw : EventsToDetect, given : {"none"}]
    \cup UNION {[raw : EventsToMap(s), given : {s}] : s \in Sources}

===============================================================================
