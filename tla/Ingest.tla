-------------------------------- MODULE Ingest --------------------------------
(***************************************************************************)
(* The ingestion consumers of tengen/consumers/ and the RabbitMQPublisher  *)
(* whose publish() they are given as their callback.  Each hands a message *)
(* to the callback and then settles it at its source, in a way of its own: *)
(*   kafka   one message at a time; commit after the callback              *)
(*   sqs     up to MaxBatch messages; delete_message after each callback   *)
(*   pubsub  up to MaxBatch messages; one acknowledge for the whole batch  *)
(*   http    one request at a time; the answer 202 or 500 is the settling  *)
(* A consumer process runs one of them, fixed by the initial state.        *)
(*                                                                         *)
(* SQS and Pub/Sub lease a message to the consumer and offer it again when *)
(* the lease runs out, whether or not the consumer is still at it; an HTTP *)
(* client sends its request again when it gets no answer, or an error.     *)
(* Kafka keeps one committed offset per partition.                         *)
(*                                                                         *)
(* The publisher opens one connection when the process starts, and never   *)
(* another.  Nothing serves its heartbeats while the consumer polls, so    *)
(* the broker may close it at any time.  publish() declares the queue,     *)
(* which waits for the broker's answer, and then sends the message without *)
(* waiting for one: at most the last message is still on the wire.         *)
(*                                                                         *)
(* Emitting alert_ingested before the callback does not raise and is left  *)
(* out.                                                                    *)
(***************************************************************************)
EXTENDS Integers, Sequences, FiniteSets, SequencesExt

CONSTANTS
  Log,        \* the messages of the source; for Kafka, in offset order
  Poison,     \* those that never parse into an Alert
  MaxBatch,   \* _MAX_MESSAGES, max_messages
  MaxFaults   \* bound: crashes, lost connections, leases that run out,
              \* settlings that fail

Messages == Range(Log)

ASSUME IngestAssumption ==
  /\ MaxBatch \in Nat \ {0} /\ MaxFaults \in Nat
  /\ Log \in Seq(Messages) /\ IsInjective(Log)
  /\ Poison \subseteq Messages

Kinds == {"kafka", "sqs", "pubsub", "http"}

VARIABLES
  kind,       \* which consumer runs
  status,     \* each message at its source: "offered", "leased", "settled"
  committed,  \* Kafka's committed offset: messages 1..committed are settled
  position,   \* Kafka's poll position: messages 1..position were polled
  running,    \* the process is in consume()
  todo,       \* the messages polled and not yet handled, in order
  done,       \* ack_ids: handled by Pub/Sub, not yet acknowledged
  connected,  \* the publisher's connection is open
  wire,       \* messages published that the broker has not read yet
  queued,     \* copies of each message that reached the alerts queue
  handed,     \* the messages for which the callback returned
  faults

sourceVars == <<status, committed>>
publisherVars == <<connected, wire, queued>>
vars == <<kind, status, committed, position, running, todo, done, connected,
          wire, queued, handed, faults>>

Fault == faults < MaxFaults /\ faults' = faults + 1

OffsetOf(m) == CHOOSE i \in DOMAIN Log : Log[i] = m

SetStatus(S, s) == status' = [m \in Messages |-> IF m \in S THEN s ELSE status[m]]

BatchLimit == IF kind \in {"sqs", "pubsub"} THEN MaxBatch ELSE 1

-------------------------------------------------------------------------------
(* The publisher. *)

WithRead(w) == [m \in Messages |-> queued[m] + Cardinality({i \in DOMAIN w : w[i] = m})]

(* The connection ends: in order, when everything sent was read ... *)
Disconnect == connected' = FALSE /\ wire' = <<>> /\ queued' = WithRead(wire)

(* ... or not, and then what is on the wire may be lost. *)
Drop == connected' = FALSE /\ wire' = <<>> /\ queued' \in {queued, WithRead(wire)}

(* Mistake: without the declaration, nothing waits for the broker. *)
PublishUndeclared(m) ==
  /\ connected
  /\ wire' = Append(wire, m)
  /\ UNCHANGED <<connected, queued>>

(* publish(): the answer to queue_declare means the broker has read what   *)
(* was sent before it.                                                     *)
Publish(m) ==
  /\ connected
  /\ queued' = WithRead(wire) /\ wire' = <<m>>
  /\ UNCHANGED connected

(* publish() raises: the connection was lost before, or is lost in the     *)
(* middle of it, and the message may have been sent all the same.          *)
PublishRaises(m) ==
  \/ ~ connected /\ UNCHANGED <<publisherVars, faults>>
  \/ /\ connected /\ Fault
     /\ connected' = FALSE /\ wire' = <<>>
     /\ queued' \in {WithRead(wire), WithRead(Append(wire, m))}

(* The broker reads what was sent, or the connection is lost. *)
BrokerReads ==
  /\ wire # <<>>
  /\ queued' = WithRead(wire) /\ wire' = <<>>
  /\ UNCHANGED <<kind, sourceVars, position, running, todo, done, connected, handed, faults>>

LoseConnection ==
  /\ connected /\ Fault /\ Drop
  /\ UNCHANGED <<kind, sourceVars, position, running, todo, done, handed>>

-------------------------------------------------------------------------------
(* The consumers. *)

(* Mistake: the committed offset is not used. *)
StartFromBeginning ==
  /\ ~ running
  /\ running' = TRUE /\ connected' = TRUE
  /\ position' = 0
  /\ UNCHANGED <<kind, sourceVars, todo, done, wire, queued, handed, faults>>

(* connect() of both, and consume() up to its loop. *)
Start ==
  /\ ~ running
  /\ running' = TRUE /\ connected' = TRUE
  /\ position' = committed
  /\ UNCHANGED <<kind, sourceVars, todo, done, wire, queued, handed, faults>>

(* poll(), receive_message(), pull(), or a request that arrives. *)
Poll ==
  /\ running /\ todo = <<>> /\ done = {}
  /\ IF kind = "kafka"
     THEN /\ position < Len(Log)
          /\ todo' = <<Log[position + 1]>>
          /\ position' = position + 1
          /\ UNCHANGED status
     ELSE /\ \E S \in SUBSET {m \in Messages : status[m] = "offered"} :
               /\ Cardinality(S) \in 1 .. BatchLimit
               /\ todo' \in SetToSeqs(S)
               /\ SetStatus(S, "leased")
          /\ UNCHANGED position
  /\ UNCHANGED <<kind, committed, running, done, publisherVars, handed, faults>>

(* The source is told that the messages of S are done with.  When a lease  *)
(* ran out under the consumer, SQS and Pub/Sub may heed a delete_message   *)
(* or an acknowledge that comes late, or ignore it; an HTTP client that    *)
(* gave up sees no answer.                                                 *)
Settle(S) ==
  \E late \in SUBSET {m \in S : status[m] = "offered"} :
    /\ kind = "http" => late = {}
    /\ SetStatus({m \in S : status[m] = "leased"} \cup late, "settled")

(* Settling the message just handled; Pub/Sub only notes its ack_id. *)
SettleOne(m) ==
  \/ kind = "kafka" /\ committed' = OffsetOf(m) /\ UNCHANGED <<status, done>>
  \/ kind \in {"sqs", "http"} /\ Settle({m}) /\ UNCHANGED <<committed, done>>
  \/ kind = "pubsub" /\ done' = done \cup {m} /\ UNCHANGED sourceVars

(* Mistake: the message is settled before the callback is called. *)
HandleSettlesFirst ==
  /\ running /\ todo # <<>>
  /\ SettleOne(Head(todo))
  /\ \/ Publish(Head(todo)) /\ handed' = handed \cup {Head(todo)} /\ UNCHANGED faults
     \/ PublishRaises(Head(todo)) /\ UNCHANGED handed
  /\ todo' = Tail(todo)
  /\ UNCHANGED <<kind, position, running>>

(* The callback returns, and the message is settled. *)
Handle ==
  /\ running /\ todo # <<>> /\ Head(todo) \notin Poison
  /\ Publish(Head(todo)) /\ handed' = handed \cup {Head(todo)}
  /\ SettleOne(Head(todo))
  /\ todo' = Tail(todo)
  /\ UNCHANGED <<kind, position, running, faults>>

(* commit() or delete_message() raises inside the try block, Kafka's       *)
(* commit, which does not wait for an answer, never arrives, or the client *)
(* is gone before the 202: the message was published all the same.         *)
HandleUnsettled ==
  /\ running /\ todo # <<>> /\ Head(todo) \notin Poison /\ kind # "pubsub"
  /\ Fault
  /\ Publish(Head(todo)) /\ handed' = handed \cup {Head(todo)}
  /\ todo' = Tail(todo)
  /\ UNCHANGED <<kind, sourceVars, position, running, done>>

(* Mistake: a message that fails is tried again at once. *)
HandleRetries ==
  /\ running /\ todo # <<>>
  /\ IF Head(todo) \in Poison THEN UNCHANGED <<publisherVars, faults>>
                              ELSE PublishRaises(Head(todo))
  /\ UNCHANGED <<kind, sourceVars, position, running, todo, done, handed>>

(* The body does not parse, or the callback raises: it is logged, and the  *)
(* loop goes on to the next message.                                       *)
HandleRaises ==
  /\ running /\ todo # <<>>
  /\ IF Head(todo) \in Poison THEN UNCHANGED <<publisherVars, faults>>
                              ELSE PublishRaises(Head(todo))
  /\ todo' = Tail(todo)
  /\ UNCHANGED <<kind, sourceVars, position, running, done, handed>>

(* Mistake: the batch is never acknowledged. *)
AcknowledgeNothing ==
  /\ running /\ todo = <<>> /\ done # {}
  /\ done' = {}
  /\ UNCHANGED <<kind, sourceVars, position, running, todo, publisherVars, handed, faults>>

(* PubSubConsumer: one acknowledge for all that was handled. *)
Acknowledge ==
  /\ running /\ todo = <<>> /\ done # {}
  /\ Settle(done)
  /\ done' = {}
  /\ UNCHANGED <<kind, committed, position, running, todo, publisherVars, handed, faults>>

(* It is outside any try block: when it raises, consume() ends, and with   *)
(* it the process.                                                         *)
AcknowledgeRaises ==
  /\ running /\ todo = <<>> /\ done # {}
  /\ Fault
  /\ done' = {} /\ running' = FALSE
  /\ Disconnect
  /\ UNCHANGED <<kind, sourceVars, position, todo, handed>>

(* stop() clears _running: the loop ends when the batch is done.           *)
Stop ==
  /\ running /\ todo = <<>> /\ done = {}
  /\ running' = FALSE
  /\ Disconnect
  /\ UNCHANGED <<kind, sourceVars, position, todo, done, handed, faults>>

(* The process dies. *)
Crash ==
  /\ running
  /\ Fault
  /\ running' = FALSE /\ todo' = <<>> /\ done' = {}
  /\ Drop
  /\ UNCHANGED <<kind, sourceVars, position, handed>>

(* A visibility timeout, an acknowledgement deadline or an HTTP client's   *)
(* patience runs out, possibly while the message is being handled.         *)
LeaseEnds(m) ==
  /\ status[m] = "leased"
  /\ IF m \in Range(todo) \cup done THEN Fault ELSE UNCHANGED faults
  /\ SetStatus({m}, "offered")
  /\ UNCHANGED <<kind, committed, position, running, todo, done, publisherVars, handed>>

-------------------------------------------------------------------------------

Init ==
  /\ kind \in Kinds
  /\ status = [m \in Messages |-> "offered"]
  /\ committed = 0 /\ position = 0
  /\ running = FALSE
  /\ todo = <<>> /\ done = {}
  /\ connected = FALSE /\ wire = <<>>
  /\ queued = [m \in Messages |-> 0]
  /\ handed = {}
  /\ faults = 0

Next ==
  \/ Start \/ Poll \/ Handle \/ HandleUnsettled \/ HandleRaises
  \/ Acknowledge \/ AcknowledgeRaises
  \/ Stop \/ Crash
  \/ BrokerReads \/ LoseConnection
  \/ \E m \in Messages : LeaseEnds(m)

(* The process is restarted when it ends, and its loop runs, so that       *)
(* however often it is stopped it polls again.  Leases run out, and a      *)
(* source does not hold a message back for ever while it offers others.    *)
Fairness ==
  /\ WF_vars(Start) /\ SF_vars(Handle \/ HandleRaises) /\ SF_vars(Acknowledge)
  /\ \A m \in Messages :
       /\ SF_vars(Poll /\ m \in Range(todo'))
       /\ WF_vars(LeaseEnds(m) /\ m \notin Range(todo) \cup done)

Spec == Init /\ [][Next]_vars /\ Fairness

-------------------------------------------------------------------------------
(* Properties. *)

(* What is being handled was polled; Kafka's committed offset never passes *)
(* its poll position; only the last message is ever on the wire.           *)
TypeOK ==
  /\ kind \in Kinds
  /\ status \in [Messages -> {"offered", "leased", "settled"}]
  /\ running \in BOOLEAN /\ connected \in BOOLEAN
  /\ connected => running
  /\ position \in 0 .. Len(Log) /\ committed \in 0 .. Len(Log)
  /\ running => committed <= position
  /\ todo \in Seq(Messages) /\ Len(todo) <= BatchLimit
  /\ done \subseteq Messages
  /\ wire \in Seq(Messages) /\ Len(wire) <= 1
  /\ wire # <<>> => connected
  /\ queued \in [Messages -> Nat] /\ handed \subseteq Messages
  /\ faults \in 0 .. MaxFaults

Settled(m) == IF kind = "kafka" THEN OffsetOf(m) <= committed ELSE status[m] = "settled"

(* A message that its source will not offer again was published.  Kafka    *)
(* alone gives up messages, and only those that do not parse: a publisher  *)
(* that fails goes on failing, so that no later commit in the same process *)
(* covers what it failed to publish.                                       *)
SettledMeansHandled ==
  \A m \in Messages :
    Settled(m) => m \in handed \/ (kind = "kafka" /\ m \in Poison)

(* A message settled at its source, and neither on the alerts queue nor on *)
(* its way there, is lost for good.  Publishes are not confirmed, but each *)
(* lost connection or crash costs one message at most.                     *)
LossesNeedFaults ==
  Cardinality({m \in Messages \ Poison :
                 Settled(m) /\ queued[m] = 0 /\ m \notin Range(wire)}) <= faults

(* The alerts queue gets a message once, and once more only for a crash, a *)
(* lost connection, a settling that failed or a lease that ran out under   *)
(* the consumer.                                                           *)
DuplicatesNeedFaults == \A m \in Messages : queued[m] <= 1 + faults

(* SQS, Pub/Sub and HTTP settle every message that parses, unless the      *)
(* publisher has lost its connection: the process runs on without one, and *)
(* fails on every message until somebody restarts it.                      *)
MessagesSettle ==
  \/ <>[](running /\ ~ connected)
  \/ \A m \in Messages \ Poison : kind # "kafka" ~> Settled(m)

===============================================================================
