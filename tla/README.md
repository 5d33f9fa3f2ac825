# Tengen in TLA+

Tengen (`src/tengen/`) is a security-alert pipeline in Python: consumers take
alerts from message sources, RabbitMQ queues carry them, a router distributes
them over runbook queues, agents hand them to n8n workflows, forwarders send
results and dead letters to Splunk, and metrics and a registry of unmapped
fields are kept on the side. This directory holds a TLA+ model of it, the TLC
configurations that check small instances, and TLAPS proofs of the safety
properties of eight modules.

Paths below are relative to `src/tengen/`. "Mistake" in a module's comment
marks the mutated form of the definition after it: a plausible bug that the
properties are shown to catch (`PROJECT.json`, "mutants").

## 1. Inventory

### The parts, their state and what they do

| Part | State | Operations | Talks to |
|---|---|---|---|
| Ingestion consumers, `consumers/` | source position (Kafka offset, SQS/Pub-Sub leases, HTTP requests), `_running`; a publisher with a connection of its own | connect, consume (poll, build `Alert`, callback, settle at the source), stop, disconnect | the publisher (callback), the source, the emitter |
| RabbitMQ publisher and consumer, `queue/` | connection, channel, `_running` | publish, publish_to_queue, consume/_on_message (parse, callback, ack/nack), stop, disconnect | the broker |
| Router and routing table, `routing/` | one connection with two channels; the registered routes | run, _route_alert, _publish_to_dlq, stop; register, match | both of the above |
| Route matchers, `routing/routes/` | none | one predicate on the payload each | the routing table |
| Splunk client and forwarders, `forwarder/` | `_buffer`; a consumer each | send, flush, _post_with_retry, close; run, _forward | the broker, Splunk |
| n8n client, resolver, dispatch agent, `n8n/`, `agents/router.py` | the route table and its mtime | execute (retries), resolve (hot reload), parse_response | n8n, the route file |
| Metrics, `metrics/`, `dashboard/metrics_*.py` | emitter connection; counters, deque, SQLite | emit; record, ack; increment, snapshot, flush loop, stop, load | the broker, SQLite |
| Dashboard API, `dashboard/app.py` | none of its own | PATCH of a field candidate; reads | the field registry, the counters |
| Field registry and model updater, `udm/` | SQLite table of candidates with a status | observe, set_status, set_suggested_field; propose, render, create_update_branch | git, several processes on one database |
| UDM parser, mappings, `udm/` | none | parse (detect, normalize, project, keep and record what is unmapped) | normalizers, the field registry |
| Triage, `tools/triage_tools.py`, `agents/triage.py` | none: the incidents come with the call | correlate_event, score_incident, update_incident_score, check_suppression | whoever keeps a session's incidents |
| Normalizers, `tools/normalizers/` | none | detect_source_type, normalize per vendor; `to_udm` | - |
| Orchestrator and LLM agents, `agents/` | none of their own | prompts and tool lists | the tools |
| Tools for enrichment and notification, `tools/` | none | stateless calls | external services |
| TUI, `tui/` | presentation | - | dashboard API |

### How they interact

    source --poll--> consumer --callback--> publisher --> [alerts] --> router
                        |                                               |
                        +--settle at the source        match, publish --+--> [runbook.*]
                                                                        +--> [alerts.dlq] --> DLQ forwarder --> Splunk
    agents --resolve--> n8n webhook                                          [enriched]  --> forwarder ------> Splunk
    emitter --> [metrics] --> metrics consumer --> counters --flush--> SQLite
    normaliser --unmapped paths--> field registry <--review-- dashboard, CLI, model updater

Every arrow into a queue is a message whose loss, repetition or redelivery the
two ends have to agree about; that is where most of the behaviour that is hard
to test sits.

### What is hard, and what would be correct

* **Routing.** Unconfirmed publishes and acks share a connection that may be
  lost with frames on it; replicas crash between any two frames; a refused
  `queue_declare` closes the publisher channel for good; `_publish_to_dlq`
  swallows its failures while `_route_alert` re-raises others. Correct: an alert
  is acked only when it is stored where it belongs, stored nowhere else,
  repeated only because of a fault, and every alert is settled in the end.
* **Ingestion.** The callback and the settling are two steps with a crash, an
  expired lease or a failing call between them, and each source has its own way
  of settling. The publisher's connection has no confirms and is never opened
  again. Correct: nothing is settled before it was published; what is lost or
  published twice is explained by a fault; nothing waits for ever.
* **Forwarding.** Events are acked while they are only in memory; a batch is
  removed from the buffer before it is delivered; a post without an answer is
  repeated. Correct: losses and repetitions are bounded by crashes and lost
  answers, and order is kept.
* **Dispatch to n8n.** A timed-out webhook may have run; retries run it again;
  the route file is re-read when its mtime changes, while somebody writes it.
  Correct: bounded executions, a result or one error class, lookups against one
  version of the file.
* **Metrics.** Counters are written to SQLite by two threads, outside the lock
  under which they were read. Correct: the stored counters never go back, and
  survive an orderly stop.
* **Field registry.** Several processes read a status and write one derived from
  it in another transaction; updaters run four git commands one by one, on a
  checkout they share and leave as it is when one fails. Correct: an analyst's
  decision is not undone by a step that did not see it; what is marked promoted
  is on a branch.
* **Triage.** Correlation windows, scores and suppression over a sequence of
  events, with an agent that may leave out the score update and somebody who
  contains and closes incidents in between. Correct: one actor has one open
  incident per source; a verdict to keep an incident lasts; what is suppressed
  is noise.
* **Normalization.** The table of consumed paths repeats by hand what seven
  normalizers read, and detection repeats what the route matchers decide.
  Correct: a value is mapped, or kept and reported as unmapped, never both or
  neither; the router and the normalizers agree on the vendor.
* **Terminal UI.** A refresh runs in a thread that `exclusive=True` cannot stop:
  two of them may end in the opposite order and show the older counters. Not
  modelled (section 7).

`PROJECT.json` "hazards" lists these at their lines.

## 2. Modules

| Module | Models | Kind |
|---|---|---|
| `RouteRegistry` | `routing/registry.py`: the table and `match` | operators |
| `RouteMatchers` | `routing/routes/`: the eight routes, their queues, what each matcher does with a payload | operators |
| `AlertDelivery` | what routing promises: at-least-once delivery to one target | abstract specification |
| `AlertRouting` | `routing/router.py` on `queue/rabbitmq*.py` and the broker | detailed specification |
| `MCAlertRouting` | the eight routes, up to four alerts, two routers | TLC instance |
| `AlertRoutingProofs` | theorems about `AlertRouting` | TLAPS |
| `SplunkHEC` | `forwarder/splunk_client.py` | component |
| `Forwarder` | `forwarder/*_forwarder.py`: consumer and client together | composition, instantiates `SplunkHEC` |
| `SplunkHECProofs`, `ForwarderProofs` | theorems about each of the two | TLAPS |
| `Ingest` | `consumers/*.py` | component |
| `MCIngest` | a source of three messages | TLC instance |
| `IngestProofs` | theorems about `Ingest` | TLAPS |
| `RouteResolver` | `n8n/route_resolver.py`, the route file and its writer | component |
| `N8nDispatch` | `agents/router.py` on the resolver and `n8n/client.py` | composition, extends `RouteResolver` |
| `MCN8nDispatch` | two sessions, two tables | TLC instance |
| `N8nDispatchProofs` | theorems about `N8nDispatch` and the resolver's lookup | TLAPS |
| `MetricsPipeline` | `metrics/emitter.py`, `dashboard/metrics_consumer.py`, `metrics_store.py`, the shutdown in `dashboard/app.py` | component |
| `MCMetricsPipeline` | two counted events and a malformed one | TLC instance |
| `MetricsPipelineProofs` | theorems about `MetricsPipeline` | TLAPS |
| `FieldRegistry` | `udm/field_registry.py`, the PATCH handler of `dashboard/app.py`, `udm/model_updater.py`, `udm_main.py` | component |
| `MCFieldRegistry` | two fields and the model fields they may stand for | TLC instance |
| `Triage` | `tools/triage_tools.py` as `agents/triage.py` uses it, and the session that keeps the incidents | component |
| `MCTriage` | four kinds of events of two actors | TLC instance |
| `TriageProofs` | theorems about `Triage` | TLAPS |
| `Normalizers` | `tools/normalizers/`: detection, what each normalizer reads, when it raises | operators |
| `UDMParser` | `udm/parser.py`, `udm/mappings.py`, `NormalizedEvent.to_udm` | component on `Normalizers`, compared with `RouteMatchers` |
| `MCUDMParser` | events over a few keys | TLC instance |
| `UDMProofs` | theorems about `udm/`: `FieldRegistry` and `UDMParser` | TLAPS |

### AlertRouting

A router holds one connection; the model has its state (`link`), the frames it
wrote that the broker has not read (`wire`), the publisher channel (`pubChan`),
the position in the handler (`pc`) and the alert in hand (`alert`). The broker
has, per alert, where it is on the alerts queue (`place`: unsent, ready, held
for a router, acked, dropped), the copies in each destination queue (`copies`)
and the queues that exist (`declared`). One action per step the code can be
interrupted at: `RejectMalformed`, `MatchRoute`, `DeclareRoute`, `PublishRoute`,
`DeclareDlq`, `PublishDlq`, `Ack`, `Nack` are the handler `_on_message` with
`_route_alert` inside; `Start`, `NoticeLoss`, `Stop` are `run` and `stop`;
`Receive` and `Deliver` are the broker; `LoseConnection` and `Crash` are faults.

Frames go down the connection in order. A lost connection loses what the
broker has not read, and the broker requeues what the router held. The router
may write into a lost connection without noticing (`link = "broken"`) before
pika raises (`"closed"`). A synchronous call (`queue_declare`) always notices.

What each matcher says of an alert ("yes", "no", "raises") is the constant
`Verdict`. `Match` is `RouteRegistry.match`: first match in registration order,
a raising matcher counted as "no". The proofs hold for every `Verdict`; the
instance takes it from `RouteMatchers`, where a payload is a record of the keys
it has and a value is the class of values the eight matchers tell apart. Its
alerts are a CloudTrail record written by EKS, which two matchers accept; a
Kubernetes audit record with null annotations, on which the EKS matcher raises
before the audit matcher accepts; an Azure sign-in record known only by its
`tenantId`, which no matcher accepts; and a body that is no alert.

### SplunkHEC and Forwarder

`SplunkHEC` has the buffer, the batch being posted and how often it was posted,
what Splunk indexed, and the events whose flush raised. `flush` empties the
buffer before it serialises and posts; 200 ends, other answers than 429 and 5xx
raise at once, the rest is tried three times. A post that got no answer may or
may not have been indexed.

`Forwarder` runs a consumer with prefetch 1 and a client in one thread, with a
connection that may be lost and a process that may crash. Two facts about the
data decide its behaviour, and the module's header states them: the bodies the
router puts on `alerts.dlq` do not parse as `Alert`, and what the handler sends
(`model_dump()`) contains a `datetime`, which `json.dumps` rejects. So
`Serialisable <- {}` in the instance. The handler swallows what `send` raises.

### Ingest

One consumer process of one of four kinds, fixed initially, with its
`RabbitMQPublisher`. `Poll` takes a message (Kafka, HTTP) or a batch (SQS,
Pub/Sub) in any order the source may choose; `Handle` is a callback that returns
with the settling that follows; `HandleRaises` a body that does not parse (the
constant `Poison`) or a `publish()` that raises; `HandleUnsettled` a settling
that fails, or (Kafka commits asynchronously) does not arrive; `Acknowledge` and
`AcknowledgeRaises` Pub/Sub's one acknowledgement per batch. Leases end, also
under a consumer that is still handling the message. What it settles after that
(`Settle`) the source may heed or ignore; ignored, the message is offered again
and published a second time, for which the lease that ran out pays in
`DuplicatesNeedFaults`. An HTTP client that gave up never sees the answer.

The callback is `publisher.publish`. `publish_to_queue` declares the queue first,
a call that waits for the broker, so that at most the last message is on its way
(`wire`) when a connection is lost (`connected`); what is lost then was
acknowledged to its source. Nothing opens the connection again while the process
lives: each later `publish` raises. `queued` counts the copies on the alerts
queue.

### RouteResolver and N8nDispatch

A route table is the set of paths that hold a webhook. `Lookup` follows the
code's descent with its fallbacks; `MostSpecific` is the docstring's order, the
path of the least index that no webhook above it hides. A load is two steps, the
read and the `getmtime` after it, and the owner of the file may replace it,
write it in place (torn for a while) or remove it between any two steps. `seen`
collects what the file held during a call, `blind` notes a change the
modification time cannot show: one in the tick of the loaded version, or between
the read and the `getmtime`.

`N8nDispatch` adds a session per event: `ResolveRoute`, then `ExecuteWebhook`,
whose posts succeed, are refused (4xx), fail (5xx, timeout, no connection: the
workflow may have run) or raise. Tool calls block the event loop, so at most one
runs at a time; sessions interleave between calls.

### MetricsPipeline

The queue, the consumer thread with its inbox and its answer, and the store with
three threads: the consumer increments, the snapshot thread and `stop()` save.
`snapshot()` holds the lock, `_save_to_db` does not, so a save is two steps and
an older snapshot may be written over a newer one (`overlapped`). A process that
could not load its counters starts from zero (`unloaded`). Emission never fails;
it drops.

### FieldRegistry

One row per raw field, its `status` and suggestion; a PATCH request is up to
four statements on the table (status, or read and write back for notes only;
then the suggestion), each a transaction of its own. `decided` remembers the
analysts' last decision on each field with a number, and what a request or an
updater read carries the number it saw, so that a write over a later decision
can be told (`stale`). `covered` are the fields that were proposed and not put up
for review again.

An updater reads what is approved (`Propose`, kept in `plan`), then takes the
steps of `create_update_branch` one by one: `Checkout` of a new branch,
`WriteScaffold`, `Add`, `Commit`, and `Mark` for row after row; `--no-commit` ends
the git commands after the scaffold, `--no-promote` leaves out the marking. All
updaters work on one checkout. Of it the model has the scaffold, as the set of
model fields it lists, in the working tree (`file`), in the index (`index`), at
the tip of the branch that is checked out (`tip`), and the fields at the tips of
the branches that were checked out before (`left`). `Checkout` takes file and
index along, `Add` takes the file as it is, whoever wrote it, and `Commit` puts
the index on the branch that is checked out by then: two updaters between their
checkout and their commit can overwrite or commit each other's scaffold. Each
step may fail or be the last of a process that dies, and leaves the checkout to
the next run as it is.

`unsafe` are the updaters whose rows cannot be relied upon: two that were on the
checkout together, and one that did not commit. `unbacked` are the promoted rows
that `PromotedMeansOffered` does not speak of: those marked by an unsafe updater,
promoted by an analyst, or re-mapped after they were planned. What analysts do
with git themselves is left out.

### Triage

`CorrelateEvent`, `ScoreIncident`, `UpdateScore` and `CheckSuppression` are the
four tools, called in the order of the agent's instructions; a language model
calls them, so `CheckSuppression` may come before the update, or before the
score. The tools keep nothing: `store` belongs to whoever runs the session (no
code in `src/` does; the orchestrator passes an empty store), which puts back
what the triage returned and may contain or close incidents between triages.
Times are minutes; scores are integers, in hundredths, rounded half up. The code
rounds floats, which may come out a hundredth lower on a half (1.575 gives 1.57);
no property depends on such a hundredth.

### Normalizers and UDMParser

A raw event is a function from leaf paths to value classes, one class per list
element. `Reads` has a table per normalizer, the paths each field is taken from;
`Raises` says on which values the normalizer, or the model it builds, raises.
`Projected` is `to_udm()`: which values arrive in the UDM event. `Consumed` is
`CONSUMED_PATHS`, `Flattened` what `flatten` makes of lists, `Unmapped` the
difference. `Parse` is everything up to the registry; `Record` is one `observe`
each, in a transaction of its own, and `RecordFails` one that raises.

`ValuesAreKeptOnce` compares the tables: a value is projected or kept as
unmapped, and not both. Its exceptions are what the code does otherwise, each
named in the module: nulls, empty values, all but one element of a list,
timestamps that do not parse, the second of two names for a field, values that
are only classified (severity, outcome), and the paths that are listed as
consumed and projected nowhere (`Dropped`). `RoutedAsDetected` runs the matchers
of `RouteMatchers` and `detect_source_type` on the same event; its exceptions
are the six places where the two differ. An EKS event should be AWS's
(README.md:284), but detection knows none of EKS's signs: the property says what
such an event is normalized as instead, namely as what the other routes would
take it for (`SourcesWithoutEks`), or as unknown. Both tables of conditions are ordered,
and the order is part of the definitions: `DetectSourceType` tries one condition
after another, `Match` takes the least hit.

`IsEvent` is what any raw event is: paths to non-empty lists of values, where
the path of a value does not lead to an object as well
(`operationName` and `operationName.value`). `UDMParserAssumption` says that
`parse` is called with such events; TLC evaluates it on the calls of the
instance.

## 3. Runs

| Run | Instance | Shows |
|---|---|---|
| `routing` | two routers, three alerts, two faults, all queues declarable | routing implements `AlertDelivery`; every alert settles |
| `routing_refused` | two routers, four alerts, two faults, one refused runbook queue | what still holds: routed alerts survive, one destination (no dead letter for malformed bodies and refused publications), duplicates only by faults, nothing held and forgotten |
| `routing_orphan_lost` | one router, no fault, one refused queue | an alert without a route is acked and nowhere (finding) |
| `hec` | four events, one unserialisable, batches of 2, one crash | losses need crashes or exceptions; repetitions need lost answers; order is kept |
| `forwarder` | one unparsable and three parsable bodies, one lost connection, one crash | acked messages are accounted for; the queue drains |
| `forwarder_dropped` | one dead letter | it is rejected and gone (finding) |
| `ingest` | every kind, three messages of which one does not parse, batches of 2, two faults | settled means published; losses and duplicates need faults, an ignored late settling among them; every lease-based source drains while the publisher is connected |
| `dispatch` | two sessions (with and without an event type), two tables, two changes of the file, two posts per call | lookups are the most specific and answer from a version the file had; repeats need lost answers; calls end |
| `metrics` | two events on one counter and a malformed one, two faults | nothing is counted twice without a fault or acked uncounted; stored counters grow and survive a stop, but for the overlap; the queue drains |
| `registry` | two fields (mapped: known on the model; unmapped: each new), one request, two updaters on one checkout, two decisions, two runs, one fault | decisions stand, promoted fields are at the tip of a branch or on the model, none is proposed twice |
| `triage` | three events of four kinds, four minutes, a window of one, the default threshold | one open incident per actor and source; verdicts to keep last; suppression is for noise |
| `udm` | events of up to three keys that decide detection or routing (two beside those of a Kubernetes audit event); per source, of up to two paths | every value is kept once; router and normalizers agree |

### Bounds, and why they are enough

`MaxFaults`, `MaxCrashes`, `MaxLost` cap the faults of a behaviour in the guards
of the fault actions. Two faults allow a fault during the recovery from another;
one message more than a batch allows a batch that is full, one that is partial,
and one left over; two routers are needed for an alert redelivered to another
replica while the first one's handler still believes it has it. The routing
instance has an alert for each way through the handler (both routes accept; the
first raises and the second accepts; none accepts; not an alert). `BatchSize` 2
stands for the default 50: the code only compares the length with it.
`MaxAttempts` is the code's 3; `MaxRetries` 2 leaves one retry, and the code
only compares with it. `MaxWrites` 2 allows an in-place write to begin and end
within a call. `LookupIsMostSpecific` does not stop at the two tables: it
compares the lookup with the reference on every table over the paths of the
instance's keys. `MaxDecisions` 2 allows a decision and one against it; the
counters are shared by both fields. One request stands for the dashboard's
thread pool: `Command` decides at any time, as a second request would. Two
updaters and `MaxRuns` 2 allow overlapping runs and a run on what an earlier one
left on the checkout; a git command may fail in each of them without a fault,
and the one fault is a crash or a locked database on top. `Window` 1 and `MaxTime` 3 put an incident
inside the window, on its edge and outside it, twice; three events are what
`info_only_low_recurrence` counts to, and the recurrence factor grows with each.
The paths of an event interact in pairs (two names for one field, an object and
its source), and detection tests at most three keys together. Deadlock checking
is off where the system may rightly stop: a client that was closed, a quiet
queue, a source that is drained, a session without further events, a parse that
returned.

Symmetry is used over routers in `routing_refused` and over updaters and fields
in `registry` (the instance treats both fields alike), which check invariants
only; runs with liveness have none.

### Fairness

* Routing: a router that can take a step takes it (its thread runs), a router
  that is down is started again (the Helm chart and docker-compose restart it),
  the broker reads each connection (weak fairness). An alert that is ready is
  delivered if routers ask for one again and again (strong fairness per alert:
  RabbitMQ serves a queue in order, a requeued message near its head).
* Forwarder: the handler and the broker proceed; nothing restarts a thread, so
  there is no fairness on `Start`, and `QueueDrains` speaks of a living thread.
* Ingest: the process is restarted, its loop polls again in some life, leases
  end, and no source holds a message back for ever while it offers others. A
  publisher without a connection raises for ever, so "drained" is under the
  proviso that the process does not live on without one.
* Dispatch: a tool call that was made runs (it blocks the loop); nothing says
  that a model makes one, and the owner of the file owes nothing.
* Metrics: the dashboard is restarted, a shutdown that began ends, the consumer
  thread runs and the broker delivers. The snapshot thread needs no fairness.

## 4. Proofs

Every safety property of the runs is a theorem: it holds for every value of the
constants that the named assumptions allow. Each `...Proofs` module has the same
layout: lemmas about the helpers, the inductive invariant `IndInv` with its
parts named, a lemma that `Init` establishes it
(`InitInd`), one that each action keeps it, `NextInd`, and the theorems. All
assumptions are evaluated by TLC in the runs of the module that states them.

### Routing

`AlertRoutingProofs` proves, for any number of routers, alerts, routes, refused
queues and faults:

* `TypeCorrect`, `MatchedAlertsAreSafe`, `UnroutableAlertsAreSafe` (if the
  broker refuses no queue), `DuplicatesAreBounded`, `CopiesHaveOneDestination`,
  `HeldAlertsAreInHand`: the invariants the runs check;
* `Invariance`: `Spec => []IndInv`;
* `RoutingImplementsDelivery`: if no queue is refused, every step of routing is
  a step of `AlertDelivery` or a stutter.

Assumptions: `RegistryAssumption`, `NamesAreUnique` (register raises on a name
it holds; no route uses the dead-letter queue) and `RoutingAssumption` (model
values are distinct). TLC evaluates them in every routing run.

The argument. None of the properties is inductive: that an acked alert has a
copy depends on what is on the wire when the ack is read. `IndInv` says, per
router, what its `pc` implies about the alert (`HandlerInv`), that the wire is
one of six shapes for the one alert the broker holds for it (`WireInv`: empty,
publish, publish-ack, ack, requeue, reject), and that an ack at the head of the
wire, or about to be written to an empty one, belongs to an alert that is stored
(`StorageInv`); and, globally, that acked alerts are stored and copies are only
at the destination (`OutcomeInv`), and that each copy beyond the first is paid
for by a fault (`CopiesInv`, with `Spent` the moment the current delivery's copy
has arrived). The proof has a lemma per action for the acting router, one lemma
(`Undisturbed`) for all other routers, and one for each global part.

### Field registry

`UDMProofs` proves, for any fields, mappings, requests, updaters,
decisions, runs and faults, from `RegistryAssumption` (the shapes of the constants;
TLC evaluates it in the registry runs): `TypeCorrect`, `DecisionsOutlast`,
`PromotedAreOffered` and `ProposalsAreUnique`, the invariants of `registry`.
They depend on what requests and updaters have read and not yet written, so the
invariant adds: what an updater holds, if the decision it read is still the last
one, was approved, and stands for the row's model field unless the row was re-mapped
since (`PlansHold`); what a request is about to write back agrees with the
decision it read (`EchoesHold`); a covered field is promoted or in the hands of
an updater that marks (`CoveredAreMarked`). About the checkout it says how far an
updater that is safe has brought its plan (`GitHolds`): once the scaffold is
written the file lists it, once it is added the index does, and while it marks it
is `Safe` (`PlansHold`): at the tip of a branch left behind, or of the one checked
out if nobody is at work on it. `Backed` is `PromotedMeansOffered` with `Safe` in
the place of any tip, which later runs keep: a run moves the tip to `left` when it
checks out a branch of its own, before it can commit over it. There is a lemma per action and in it a step
per part of the invariant.

### UDM parser

The second half of `UDMProofs` is about `UDMParser`, and proves, for any calls and for events of any number of paths, from
`UDMParserAssumption`: `RoutesAgree` (`RoutedAsDetected`) and `NothingIsLost`
(`ValuesAreKeptOnce`). Both follow from `ParserInv` (`ParserInvariance`): what
`parse` has returned or is recording is what its arguments make of it, and the
normalizer did not raise.

`RoutesAgree`. `DetectionIs` says what each result of detection implies and
which conditions imply which results; `FirstHit` that a routed event takes the
first route that says yes and that the earlier ones did not, and `FirstOther`
the same of the routes other than EKS's. If detection stops
before the condition of the route that is hit, the vendor it names has a route
of its own, which comes earlier and did not say yes: `DetectedBefore` shows that
this leaves only the named exceptions, and `Agreement` goes through the seven
other routes, also for an event that the EKS route takes before them; `OnlyEks`
says that an event which no other route takes is normalized as unknown, or
excused. One step needs the normalizer: a `resourceProvider` that is null or a
number makes the matcher raise as an object does, but then the Azure normalizer
raises as well (`UntypedProviderRaises`), and the event is not parsed.

`NothingIsLost`. `TableFits` is what the property comes down to for one source:
every field reads paths that are listed as consumed, and every path that is
listed, and neither classified nor dropped, is read by some field, alone or as
one of two names. There is a lemma per source (`AwsFits` and so on), which puts
the table of the normalizer beside the one in `mappings.py`; a path that is read
is taken if its other name is absent (`ReadIsTaken`, from the lemmas on
`TakenFrom`), and what is projected is listed, so that it is not unmapped as
well (`ProjectedAreConsumed`).

### Ingestion

`IngestProofs` proves `TypeCorrect`, `SettledAreHandled`, `DuplicatesAreBounded`
and `LossesAreBounded`, from `IngestAssumption`: the source's log lists distinct
messages, batches hold at least one. A copy too many needs a message that may
still be handled after it was published, so `CountInv` counts, per message, the
copies made or on the wire together with the publishes that may follow without
another fault (`Chances`: an uncommitted offset, a message in the batch in hand,
one that is offered or will be when its lease ends), and bounds the sum by the
faults (`SettleEffect`: a settling, ignored or not, adds no chance); and it bounds what was handed to the publisher and is neither queued nor
on the wire (`Unread`). What is settled was handled because Kafka has the last
message polled in hand and everything before it behind it, or no connection any
more (`KafkaInv`), and because the other sources have only what was handled in
`done` (`LeaseInv`).

### Forwarding

`SplunkHECProofs` proves `TypeCorrect`, `LossesAreCrashes`,
`DuplicatesAreBounded` and `OrderIsKept`, from `SplunkAssumption` (batches and
attempts of at least one). That Splunk first sees events in the order they were
sent needs to know where memory stands: buffer and batch are in the order of
sending, the buffer behind everything indexed, and the batch too unless all of
it was indexed already by a post without an answer (`OrderInv`). The copies of
an event in the batch in hand are bounded by its attempts and by the posts that
were not confirmed (`CopiesInv`); one of buffer and batch is empty (`MemoryInv`),
so that a crash takes one batch. The lemma behind the order is `FirstAtConcat`:
where the elements of a concatenation first occur.

`ForwarderProofs` proves `TypeCorrect`, `AcksAreAccountedFor` and
`SendsAreBounded`, from `ForwarderAssumption`. What a forwarder sends does not
serialise, so a flush fails before it posts and no batch stays in hand
(`ClientInv`); an alert whose ack is still to be written is in the buffer or
failed (`AckInv`); and the sends of a body, with those that may follow without
a fault, are bounded by the faults (`SendInv`).

### Dispatch

`N8nDispatchProofs` proves `TypeCorrect`, `LookupFindsMostSpecific`,
`AnswersAreFresh` and `RepeatsAreUnreported`, from `ResolverAssumption` (keys are
strings; no webhook at the root of a table, where the resolver never looks) and
`DispatchAssumption`. The lemma `LookupIs` says `Lookup(W, k) =
MostSpecific(W, k)` for every key and every set of paths, those that put a
webhook below another included: four cases on which of the key's prefixes are
webhooks or inner nodes. Answers are current because what the resolver holds is
what the file holds whenever the modification times agree and no change was
hidden (`CacheInv`), and what a call may go by is something the file held since
the call began, at each of its steps (`SeenInv`).

### Metrics

`MetricsPipelineProofs` proves `TypeCorrect`, `CountersAreRecordings`,
`StopsSave` and the action property `SavesGrow`, from `MetricsAssumption`.
`CountInv` bounds the recordings of an event and those that may follow without a
fault (a shutdown, itself a fault, pays for the event in hand when it ends);
`SaveInv` puts a snapshot that is about to be written between SQLite and memory,
until two writes overlap; `StopInv` carries what was counted when the shutdown
began through memory, the snapshot and SQLite, the snapshot thread's late write
included. `RecordingsInv` bounds each counter by the set of recordings it counts.

### Triage

`TriageProofs` proves `TypeCorrect`, `IncidentsAreUnique`,
`OnlyNoiseIsSuppressed` and the action property `KeptIsKept`, from
`TriageAssumption` (sources and severities are those of the code's tables). The
lemmas about the score carry the argument: one more event never lowers it
(`ScoreGrows`, rounding included), and one event above INFO lifts it to the
default threshold (`SignificantScore`). Stored scores are never above the
incident's own (`ScoreInv`), every incident has one actor and one source
(`UniformInv`), and while one is in the agent's hands no other in the store
takes its events (`LiveInv`).

### What is only model-checked

* Liveness, `EveryAlertSettles`, `QueueDrains`, `MessagesSettle`, `CallsEnd` and
  `MetricsSettle`: fairness is out of the prover's reach.

`IsEvent` bounds the shape of raw events and not their size; the classes a value
may be of are those of the modules' headers, in the runs as in the proofs.

## 5. Findings

Two places where a document and the code disagree have a run that exhibits
the disagreement; see `PROJECT.json` "findings":

1. After one refused `queue_declare`, alerts without a route are acked and lost.
2. Dead letters are dropped by the forwarder that should deliver them.

Seen while modelling, without a run of their own, and named as an exception in
a property where one is concerned:

* Ingestion: README.md:405 says Kafka offsets are committed "only on successful
  message processing"; a message that does not parse is skipped, and the next
  commit covers it (exception of `SettledMeansHandled`). A message whose publish
  fails is not covered, because the publisher goes on failing. On SQS, Pub/Sub
  and HTTP such a message is offered again for ever.

* Routing: README.md:428 calls `alerts.dlq` the queue of "unroutable or failed
  events", README.md:435 says the consumer nacks without requeue "on failure to
  route to DLQ", and `router.py:94` writes a dead letter with the reason
  `publish_failed`. No failed event becomes a dead letter, and `OneDestination`
  says so, against these lines and naming them: a body that does not parse is
  nacked without requeue and dropped, since the alerts queue is declared without
  a dead-letter exchange; the failure that leads to `publish_failed` has closed
  the channel or the connection the dead letter is then published on, and the
  alert is nacked with requeue (finding 1's run takes this step). After one
  refused declaration the healthy routes of that router fail too and their
  alerts circulate.
* Matchers: `registry.py:20` says they "must never raise", but those of EKS,
  GuardDuty, GCP and Azure raise on nulls or strings (`match` then goes on to
  the next route); README.md's table matches Azure on `tenantId present` and EKS
  on a cluster name in the request parameters, the code on other keys; an EKS
  call recorded by CloudTrail always goes to `runbook.cloudtrail`.
* Forwarding: README.md:737 gives a default batch of 25, the code 50; nothing
  publishes to `enriched`; `router_main` and `forwarder_main` pass keyword
  arguments the constructors do not have.
* Dispatch: README.md:611 and 1119 say a changed route file serves the next
  request; a change between the read and the `getmtime`, or in the tick of the
  loaded version, stays unseen until the next one. `N8nRequestFailed` reports
  one attempt for a 4xx even after retries (`client.py:64`). `parse_response`
  has no caller.
* Metrics: `metrics_store.py:18` says counters survive restarts; overlapping
  saves move stored counters back, and events acked after the last snapshot are
  lost. No entry point but the HTTP consumer's passes an emitter.
* Triage: README.md's rolling window is kept, but nothing in `src/` ever sets an
  incident to closed or suppressed, and the orchestrator's pipeline hands the
  agent an empty store, so that there every event opens an incident. Events
  without an identity correlate with each other.
* UDM parser: `parser.py:7` keeps unmapped values "so nothing is lost", and
  `mappings.py:3` lists paths the normalizers "already read and map into the UDM
  model"; `eventVersion`, `eventSource`, `awsRegion`, `logName`, `tenantId`,
  `event_type` and `apiVersion` are listed and arrive nowhere (`region` is read,
  and `to_udm()` leaves it out), and of a list one element is kept.
* Detection: README.md:284 gives AWS EKS the AWS normalizer, but
  `detect_source_type` (`tools/normalizers/registry.py:12`) knows none of the
  signs by which `eks.py:8` sends an event to `runbook.eks`:
  `{"sourceIPAddress": "eks.amazonaws.com"}` goes there and is normalized as
  unknown, and with a `tenantId` as Azure's. Further, any `tenantId` makes an event Azure's, the route wants the value
  `azure`; TCP flags are enough for the firewall's route and mean nothing to
  detection; a GuardDuty finding without its detail, or a CloudTrail record with
  a null version, is AWS's for detection alone. An activity log entry whose
  `resourceProvider` is an object, the form `azure_normalizer.py:38` reads, makes
  the Azure matcher raise (`activity.py:8` calls `startswith` on it): such an
  event is Azure's for detection, by its `operationName` or `tenantId`, and goes
  to no Azure runbook. The proof of `RoutesAgree` found this one; the instance
  had no such event before.
* Field registry: a field that an analyst ignores while `tengen-udm branch` runs
  git ends as promoted (`model_updater.py:283` does not look again;
  README.md:518 gives `ignored` as an end of its own; exception `stale` of
  `DecisionsStand`); `field_registry.py:34` calls a field promoted when "a PR
  adding it to the model has been opened/merged", but `tengen-udm branch
  --no-commit` promotes rows with nothing on a branch, only a file that the next
  run overwrites, and two updaters that overlap on one checkout can commit each
  other's scaffold (exceptions of `PromotedMeansOffered`); a PATCH with notes only writes back the status it read; the
  limit of `list_fields` cuts before its status filter; approved rows whose
  fields exist on the model already are promoted only together with new ones.

## 6. Plan

Done: 1. `AlertRouting` with its proofs and the matchers; 2. `SplunkHEC`,
`Forwarder`; 3. `Ingest`, with the publisher's unconfirmed connection;
4. `N8nDispatch` with `RouteResolver`; 5. `MetricsPipeline`; 6. `FieldRegistry`
with its proofs; 7. `Normalizers` and `UDMParser`; 8. `Triage`.

Theorems: done for `AlertRouting`, `FieldRegistry`, `Ingest`, `SplunkHEC`,
`Forwarder`, `N8nDispatch`, `MetricsPipeline`, `Triage` and `UDMParser`. Left: an
abstract specification of ingestion (a copy per message and fault, a loss per
fault) and that `Ingest` implements it.

## 7. Not modelled

The orchestrator's and the LLM agents' control flow is prose interpreted by a
language model; of the agents with tools, `agents/router.py` and
`agents/triage.py` are modelled through their tools, and the containment agent's
tools call modules (`tools/containment/`) that the repository does not contain.
Enrichment, query and notification tools are stateless calls with a default on
failure. `suggest_udm_field` is a table of substrings, and appears as the
constant `Heuristic` of `FieldRegistry`. The dashboard's read endpoints format
what other parts keep. The TUI polls them: its refresh threads may overlap and
its query screen takes one question at a time, which is the only state it has.
`config.py` and the records of `models/` have no behaviour but the projection
modelled in `UDMParser`. Each is listed in `PROJECT.json` "components" with its
reason.
