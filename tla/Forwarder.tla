------------------------------ MODULE Forwarder -------------------------------
(***************************************************************************)
(* One forwarder thread (DLQForwarder.run, EnrichedAlertForwarder.run in   *)
(* tengen/forwarder/): a RabbitMQConsumer with a connection of its own     *)
(* drains a queue, and its handler gives every alert to a SplunkHECClient. *)
(*                                                                         *)
(* The consumer parses every body as an Alert.  The router's dead letters  *)
(* ({"alert", "dlq_reason", ...}) and EnrichedAlert bodies are no Alerts.  *)
(* What the handler sends is alert.model_dump(), which holds the datetime  *)
(* received_at: json.dumps rejects it, so no event of a forwarder is       *)
(* serialisable, flush() raises before it posts, and the handler swallows  *)
(* what send() raises.                                                     *)
(*                                                                         *)
(* The threads are daemons: stopping the process is a crash for them, and  *)
(* no code starts a thread again that ended.                               *)
(***************************************************************************)
EXTENDS Integers, Sequences, FiniteSets, Functions

CONSTANTS
  Bodies,     \* the message bodies on the queue
  Parsable,   \* those that Alert.model_validate_json accepts
  NoBody,     \* a handler that handles nothing
  BatchSize,  \* SPLUNK_BATCH_SIZE
  MaxLost,    \* bound: lost connections in a behaviour
  MaxCrashes  \* bound: crashes in a behaviour

ASSUME ForwarderAssumption ==
  /\ Parsable \subseteq Bodies /\ NoBody \notin Bodies
  /\ BatchSize \in Nat \ {0}
  /\ MaxLost \in Nat /\ MaxCrashes \in Nat

VARIABLES
  place,   \* where each body is: "unsent", "ready", "held", "acked", "dropped"
  pc,      \* what the thread does next
  inHand,  \* the body its handler has
  link,    \* its connection: "none", "up", "broken" (lost, not noticed)
  lost,    \* lost connections so far
  sent, buffer, batch, attempt, indexed, failed, unsure, crashes, closed

HEC == INSTANCE SplunkHEC WITH
  Events <- Bodies, Serialisable <- {}, MaxAttempts <- 3

hecVars == <<sent, buffer, batch, attempt, indexed, failed, unsure, crashes, closed>>
vars == <<place, pc, inHand, link, lost, hecVars>>

Goto(step) == pc' = step

Settle(outcome) == place' = [place EXCEPT ![inHand] = outcome]

Requeued == [b \in Bodies |-> IF place[b] = "held" THEN "ready" ELSE place[b]]

(* The handler is done; on a lost connection its answer is lost as well.   *)
Answer(outcome) ==
  /\ IF link = "up" THEN Settle(outcome) ELSE UNCHANGED place
  /\ Goto("idle") /\ inHand' = NoBody
  /\ UNCHANGED <<link, hecVars>>

(* An exception leaves consume(): both context managers are left, and the  *)
(* client's __exit__ flushes.                                              *)
Exit ==
  /\ link = "broken"
  /\ link' = "none"
  /\ Goto("down") /\ inHand' = NoBody
  /\ HEC!Close
  /\ UNCHANGED place

-------------------------------------------------------------------------------

Start ==
  /\ pc = "down"
  /\ Goto("idle") /\ link' = "up" /\ closed' = FALSE
  /\ UNCHANGED <<place, inHand, lost, sent, buffer, batch, attempt, indexed,
                 failed, unsure, crashes>>

Publish(b) ==
  /\ place[b] = "unsent"
  /\ place' = [place EXCEPT ![b] = "ready"]
  /\ UNCHANGED <<pc, inHand, link, lost, hecVars>>

Deliver(b) ==
  /\ pc = "idle" /\ link = "up"
  /\ place[b] = "ready"
  /\ place' = [place EXCEPT ![b] = "held"]
  /\ inHand' = b
  /\ Goto("received")
  /\ UNCHANGED <<link, lost, hecVars>>

(* Mistake: a body that is no Alert is acked. *)
RejectAcks ==
  /\ pc = "received" /\ inHand \notin Parsable
  /\ Answer("acked") \/ Exit
  /\ UNCHANGED lost

(* RabbitMQConsumer._on_message: nack without requeue, and the queue has   *)
(* no dead-letter exchange.                                                *)
Reject ==
  /\ pc = "received" /\ inHand \notin Parsable
  /\ Answer("dropped") \/ Exit
  /\ UNCHANGED lost

(* Mistake: what send() raises reaches the consumer, which nacks with      *)
(* requeue.                                                                *)
ForwardRaises ==
  /\ pc = "received" /\ inHand \in Parsable
  /\ HEC!Send(inHand)
  /\ IF failed' = failed
     THEN Goto("ack") /\ UNCHANGED <<place, inHand>>
     ELSE Goto("idle") /\ inHand' = NoBody /\ place' = Requeued
  /\ UNCHANGED <<link, lost>>

(* _forward_dlq, _forward: whatever send() does, they return. *)
Forward ==
  /\ pc = "received" /\ inHand \in Parsable
  /\ HEC!Send(inHand)
  /\ Goto("ack")
  /\ UNCHANGED <<place, inHand, link, lost>>

(* Mistake: the ack waits until the event has left the buffer. *)
AckAfterFlush ==
  /\ pc = "ack" /\ inHand \notin Range(buffer)
  /\ Answer("acked") \/ Exit
  /\ UNCHANGED lost

(* basic_ack; when it raises, so does the basic_nack that follows. *)
Ack ==
  /\ pc = "ack"
  /\ Answer("acked") \/ Exit
  /\ UNCHANGED lost

NoticeLoss ==
  /\ pc = "idle"
  /\ Exit
  /\ UNCHANGED lost

LoseConnection ==
  /\ lost < MaxLost
  /\ lost' = lost + 1
  /\ link = "up"
  /\ link' = "broken"
  /\ place' = Requeued
  /\ UNCHANGED <<pc, inHand, hecVars>>

Crash ==
  /\ pc # "down"
  /\ HEC!Crash
  /\ Goto("down") /\ inHand' = NoBody /\ link' = "none"
  /\ place' = Requeued
  /\ UNCHANGED lost

-------------------------------------------------------------------------------

Init ==
  /\ place = [b \in Bodies |-> "unsent"]
  /\ pc = "down" /\ inHand = NoBody /\ link = "none" /\ lost = 0
  /\ HEC!Init

Handle == Reject \/ Forward \/ Ack

Next ==
  \/ Start
  \/ \E b \in Bodies : Publish(b) \/ Deliver(b)
  \/ Handle
  \/ NoticeLoss
  \/ LoseConnection \/ Crash

(* While the thread lives it runs, and the broker serves it; nothing says  *)
(* that it is started again.                                               *)
Fairness ==
  /\ WF_vars(Handle) /\ WF_vars(NoticeLoss)
  /\ \A b \in Bodies : SF_vars(Deliver(b))

Spec == Init /\ [][Next]_vars /\ Fairness

-------------------------------------------------------------------------------
(* Properties. *)

(* The consumer's and the handler's state fit together. *)
TypeOK ==
  /\ place \in [Bodies -> {"unsent", "ready", "held", "acked", "dropped"}]
  /\ pc \in {"down", "idle", "received", "ack"}
  /\ inHand \in Bodies \cup {NoBody}
  /\ (inHand = NoBody) <=> (pc \in {"down", "idle"})
  /\ link \in {"none", "up", "broken"}
  /\ (link = "none") <=> (pc = "down")
  /\ lost \in 0 .. MaxLost
  /\ HEC!TypeOK

(* A message that was acked is in the buffer or was in a batch whose       *)
(* failure was logged, but for one batch per crash: the ack promises no    *)
(* more, for it does not wait for the flush.                               *)
AckedIsAccountedFor ==
  Cardinality({b \in Bodies : place[b] = "acked"} \ (Range(buffer) \cup failed))
    <= crashes * BatchSize

(* Only a redelivery sends a message to Splunk again, and only a lost      *)
(* connection or a crash makes the broker redeliver: a failed batch never  *)
(* does, because the handler swallows the exception.                       *)
SentOncePerDelivery ==
  \A b \in Bodies :
    Cardinality({i \in DOMAIN sent : sent[i] = b}) <= 1 + lost + crashes

(* As long as its thread lives, a forwarder settles every message: the     *)
(* batch size exceeds the prefetch count of 1, and that blocks nobody.     *)
QueueDrains ==
  \A b \in Bodies :
    place[b] = "ready" ~> place[b] \in {"acked", "dropped"} \/ pc = "down"

(* README.md: "Dead-letter events are never dropped - they are always      *)
(* forwarded for analyst review."                                          *)
DeadLettersAreForwarded ==
  \A b \in Bodies :
    place[b] \in {"acked", "dropped"} => b \in Range(buffer) \cup Range(indexed)

===============================================================================
