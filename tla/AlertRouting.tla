---------------------------- MODULE AlertRouting -----------------------------
(***************************************************************************)
(* The router process of tengen/routing/router.py, with the RabbitMQ       *)
(* consumer and publisher it is built on (tengen/queue/) and the broker    *)
(* they talk to.                                                           *)
(*                                                                         *)
(* A router holds ONE connection with two channels: the consumer channel   *)
(* (prefetch 1, manual acks) and the publisher channel (no confirms).      *)
(* What the router writes travels down that connection in order; a lost    *)
(* connection loses every frame the broker has not read yet, and the       *)
(* broker then puts the unacknowledged alert back on the alerts queue.     *)
(* The router notices a lost connection only when it next uses it.         *)
(*                                                                         *)
(* queue_declare is a call that waits for the broker's answer; a queue     *)
(* that already exists with other arguments makes the broker close the     *)
(* publisher channel, which no code reopens until the router restarts.     *)
(*                                                                         *)
(* The emitter is left out: the router is never given one, and emit() does *)
(* not raise, uses a connection of its own and has no effect on routing.   *)
(***************************************************************************)
EXTENDS RouteRegistry

CONSTANTS
  Routers,        \* the router replicas, competing for the alerts queue
  RefusedQueues,  \* runbook queues the broker refuses to declare as durable
  NoAlert,        \* a router that handles nothing
  MaxFaults       \* bound: lost connections, crashes and stops in a behaviour

ASSUME RoutingAssumption ==
  /\ MaxFaults \in Nat
  /\ RefusedQueues \subseteq RunbookQueues
  /\ Routers \cap {"unsent", "ready", "acked", "dropped"} = {}
  /\ NoAlert \notin Alerts

VARIABLES
  place,     \* where the broker has each alert: a queue state or its router
  copies,    \* how many copies of each alert each destination queue holds
  declared,  \* the destination queues that exist
  wire,      \* frames each router wrote and the broker has not read
  link,      \* each router's connection
  pubChan,   \* each router's publisher channel
  pc,        \* what each router does next
  alert,     \* the alert each router handles
  faults     \* lost connections, crashes and stops so far

brokerVars == <<place, copies, declared>>
routerVars == <<link, pubChan, pc, alert>>
vars == <<place, copies, declared, wire, link, pubChan, pc, alert, faults>>

Places == {"unsent", "ready", "acked", "dropped"} \cup Routers

Links == {"none",      \* no connection
          "up",
          "broken",    \* lost, and the router has not noticed
          "closed"}    \* lost, and pika raises on every use

Frames == [type : {"publish"}, queue : Queues, alert : Alerts]
            \cup [type : {"ack", "requeue", "reject"}, alert : Alerts]

PublishTo(q, a) == [type |-> "publish", queue |-> q, alert |-> a]

Answer(a, t) == [type |-> t, alert |-> a]

Steps == {"down", "idle", "received", "declare", "publish",
          "dlqDeclare", "dlqPublish", "ack", "nack"}

Goto(r, step) == pc' = [pc EXCEPT ![r] = step]

(* The handler returns to start_consuming. *)
Return(r) == Goto(r, "idle") /\ alert' = [alert EXCEPT ![r] = NoAlert]

(* The broker puts every alert that router r holds back on the queue. *)
Requeued(r) == [a \in Alerts |-> IF place[a] = r THEN "ready" ELSE place[a]]

-------------------------------------------------------------------------------
(* Writing to the connection.  A write to a connection that is lost but    *)
(* not yet known to be may still succeed locally; the frame is gone.       *)

Write(r, frame) ==
  /\ link[r] \in {"up", "broken"}
  /\ wire' = IF link[r] = "up" THEN [wire EXCEPT ![r] = Append(@, frame)]
                               ELSE wire
  /\ UNCHANGED link

ConnectionRaises(r) ==
  /\ link[r] \in {"broken", "closed"}
  /\ link' = [link EXCEPT ![r] = "closed"]
  /\ UNCHANGED wire

(* An exception leaves start_consuming: run() closes what it opened. *)
Exit(r) ==
  /\ link' = [link EXCEPT ![r] = "none"]
  /\ pubChan' = [pubChan EXCEPT ![r] = "closed"]
  /\ alert' = [alert EXCEPT ![r] = NoAlert]
  /\ Goto(r, "down")

-------------------------------------------------------------------------------
(* Router.run: the connection, the two channels, the dead-letter queue. *)
Start(r) ==
  /\ pc[r] = "down"
  /\ link' = [link EXCEPT ![r] = "up"]
  /\ pubChan' = [pubChan EXCEPT ![r] = "open"]
  /\ declared' = declared \cup {DLQ}
  /\ Goto(r, "idle")
  /\ UNCHANGED <<place, copies, wire, alert, faults>>

(* Mistake: returning from the handler without an answer. *)
RejectUnanswered(r) ==
  /\ pc[r] = "received"
  /\ alert[r] \in Malformed
  /\ Return(r)
  /\ UNCHANGED <<brokerVars, wire, link, pubChan, faults>>

(* RabbitMQConsumer._on_message, first half: a body that is no Alert is    *)
(* nacked without requeue, outside any try block.                          *)
RejectMalformed(r) ==
  /\ pc[r] = "received"
  /\ alert[r] \in Malformed
  /\ \/ /\ Write(r, Answer(alert[r], "reject"))
        /\ Return(r)
        /\ UNCHANGED pubChan
     \/ /\ link[r] \in {"broken", "closed"}
        /\ Exit(r)
        /\ UNCHANGED wire
  /\ UNCHANGED <<brokerVars, faults>>

(* Mistake: an alert without a route is acked at once. *)
MatchRouteDropsUnroutable(r) ==
  /\ pc[r] = "received"
  /\ alert[r] \notin Malformed
  /\ Goto(r, IF alert[r] \in Routable THEN "declare" ELSE "ack")
  /\ UNCHANGED <<brokerVars, wire, link, pubChan, alert, faults>>

(* Mistake: the missing route is not noticed. *)
MatchRouteUnchecked(r) ==
  /\ pc[r] = "received"
  /\ alert[r] \notin Malformed
  /\ Goto(r, "declare")
  /\ UNCHANGED <<brokerVars, wire, link, pubChan, alert, faults>>

(* Router._route_alert, up to the first use of the publisher channel. *)
MatchRoute(r) ==
  /\ pc[r] = "received"
  /\ alert[r] \notin Malformed
  /\ Goto(r, IF alert[r] \in Routable THEN "declare" ELSE "dlqDeclare")
  /\ UNCHANGED <<brokerVars, wire, link, pubChan, alert, faults>>

(* RabbitMQPublisher.publish_to_queue, its queue_declare. *)
DeclareAnswered(r, queue) ==
  /\ link[r] = "up" /\ pubChan[r] = "open"
  /\ queue \notin RefusedQueues
  /\ declared' = declared \cup {queue}
  /\ UNCHANGED <<link, pubChan>>

DeclareRaises(r, queue) ==
  /\ \/ /\ link[r] = "up" /\ pubChan[r] = "open"
        /\ queue \in RefusedQueues
        /\ pubChan' = [pubChan EXCEPT ![r] = "closed"]
        /\ UNCHANGED link
     \/ /\ pubChan[r] = "closed"
        /\ UNCHANGED <<pubChan, link>>
     \/ /\ link[r] \in {"broken", "closed"}
        /\ link' = [link EXCEPT ![r] = "closed"]
        /\ UNCHANGED pubChan
  /\ UNCHANGED declared

(* Mistake: publishing without declaring the queue first. *)
DeclareRouteSkipped(r) ==
  /\ pc[r] = "declare"
  /\ Goto(r, "publish")
  /\ UNCHANGED <<brokerVars, wire, link, pubChan, alert, faults>>

DeclareRoute(r) ==
  /\ pc[r] = "declare"
  /\ LET queue == Destination(alert[r])
     IN \/ DeclareAnswered(r, queue) /\ Goto(r, "publish")
        \/ DeclareRaises(r, queue) /\ Goto(r, "dlqDeclare")
  /\ UNCHANGED <<place, copies, wire, alert, faults>>

PublishRoute(r) ==
  /\ pc[r] = "publish"
  /\ \/ /\ Write(r, PublishTo(Destination(alert[r]), alert[r]))
        /\ Goto(r, "ack")
     \/ ConnectionRaises(r) /\ Goto(r, "dlqDeclare")
  /\ UNCHANGED <<brokerVars, pubChan, alert, faults>>

(* Mistake: the failed publish is not re-raised. *)
AfterDlqSwallowed(r) == "ack"

(* After _publish_to_dlq, which swallows its own failure, an alert without *)
(* a route returns normally and is acked; one whose publish failed         *)
(* re-raises and is nacked with requeue.                                   *)
AfterDlq(r) == IF alert[r] \in Routable THEN "nack" ELSE "ack"

DeclareDlq(r) ==
  /\ pc[r] = "dlqDeclare"
  /\ \/ DeclareAnswered(r, DLQ) /\ Goto(r, "dlqPublish")
     \/ DeclareRaises(r, DLQ) /\ Goto(r, AfterDlq(r))
  /\ UNCHANGED <<place, copies, wire, alert, faults>>

PublishDlq(r) ==
  /\ pc[r] = "dlqPublish"
  /\ \/ Write(r, PublishTo(DLQ, alert[r]))
     \/ ConnectionRaises(r)
  /\ Goto(r, AfterDlq(r))
  /\ UNCHANGED <<brokerVars, pubChan, alert, faults>>

(* Mistake: the success path requeues. *)
AckRequeues(r) ==
  /\ pc[r] = "ack"
  /\ \/ Write(r, Answer(alert[r], "requeue")) /\ Return(r)
     \/ ConnectionRaises(r) /\ Goto(r, "nack") /\ UNCHANGED alert
  /\ UNCHANGED <<brokerVars, pubChan, faults>>

(* _on_message, second half.  basic_ack is inside the try block: when it   *)
(* raises, the handler goes on to nack.                                    *)
Ack(r) ==
  /\ pc[r] = "ack"
  /\ \/ Write(r, Answer(alert[r], "ack")) /\ Return(r)
     \/ ConnectionRaises(r) /\ Goto(r, "nack") /\ UNCHANGED alert
  /\ UNCHANGED <<brokerVars, pubChan, faults>>

Nack(r) ==
  /\ pc[r] = "nack"
  /\ \/ /\ Write(r, Answer(alert[r], "requeue"))
        /\ Return(r)
        /\ UNCHANGED pubChan
     \/ /\ link[r] \in {"broken", "closed"}
        /\ Exit(r)
        /\ UNCHANGED wire
  /\ UNCHANGED <<brokerVars, faults>>

(* Mistake: the exception is swallowed and the dead connection polled. *)
NoticeLossSwallowed(r) ==
  /\ pc[r] = "idle"
  /\ link[r] = "broken"
  /\ UNCHANGED vars

(* start_consuming meets the lost connection. *)
NoticeLoss(r) ==
  /\ pc[r] = "idle"
  /\ link[r] = "broken"
  /\ Exit(r)
  /\ UNCHANGED <<brokerVars, wire, faults>>

-------------------------------------------------------------------------------
(* The broker. *)

(* An ingestion consumer publishes to the alerts queue. *)
Publish(a) ==
  /\ place[a] = "unsent"
  /\ place' = [place EXCEPT ![a] = "ready"]
  /\ UNCHANGED <<copies, declared, wire, routerVars, faults>>

(* basic_qos(prefetch_count=1): one unacknowledged alert per router. *)
Deliver(r, a) ==
  /\ pc[r] = "idle" /\ link[r] = "up"
  /\ place[a] = "ready"
  /\ \A b \in Alerts : place[b] # r
  /\ place' = [place EXCEPT ![a] = r]
  /\ alert' = [alert EXCEPT ![r] = a]
  /\ Goto(r, "received")
  /\ UNCHANGED <<copies, declared, wire, link, pubChan, faults>>

(* The default exchange drops a message whose queue does not exist.  The   *)
(* alerts queue is declared without a dead-letter exchange, so a reject    *)
(* drops the message.                                                      *)
Receive(r) ==
  /\ wire[r] # <<>>
  /\ wire' = [wire EXCEPT ![r] = Tail(@)]
  /\ LET frame == Head(wire[r])
     IN \/ /\ frame.type = "publish"
           /\ copies' = IF frame.queue \in declared
                        THEN [copies EXCEPT ![frame.queue][frame.alert] = @ + 1]
                        ELSE copies
           /\ UNCHANGED place
        \/ /\ frame.type = "ack"
           /\ place' = [place EXCEPT ![frame.alert] = "acked"]
           /\ UNCHANGED copies
        \/ /\ frame.type = "requeue"
           /\ place' = [place EXCEPT ![frame.alert] = "ready"]
           /\ UNCHANGED copies
        \/ /\ frame.type = "reject"
           /\ place' = [place EXCEPT ![frame.alert] = "dropped"]
           /\ UNCHANGED copies
  /\ UNCHANGED <<declared, routerVars, faults>>

-------------------------------------------------------------------------------
(* Faults, each bounded by MaxFaults. *)

Fault == faults < MaxFaults /\ faults' = faults + 1

LoseConnection(r) ==
  /\ Fault
  /\ link[r] = "up"
  /\ link' = [link EXCEPT ![r] = "broken"]
  /\ wire' = [wire EXCEPT ![r] = <<>>]
  /\ place' = Requeued(r)
  /\ UNCHANGED <<copies, declared, pubChan, pc, alert>>

(* The process dies, or is interrupted, between any two of its steps. *)
Crash(r) ==
  /\ Fault
  /\ pc[r] # "down"
  /\ Exit(r)
  /\ wire' = [wire EXCEPT ![r] = <<>>]
  /\ place' = Requeued(r)
  /\ UNCHANGED <<copies, declared>>

(* Router.stop while start_consuming waits: channels and connection are    *)
(* closed in order, so nothing written before is lost.                     *)
Stop(r) ==
  /\ Fault
  /\ pc[r] = "idle" /\ link[r] = "up"
  /\ wire[r] = <<>>
  /\ Exit(r)
  /\ UNCHANGED <<brokerVars, wire>>

-------------------------------------------------------------------------------

Init ==
  /\ place = [a \in Alerts |-> "unsent"]
  /\ copies = [q \in Queues |-> [a \in Alerts |-> 0]]
  /\ declared = {}
  /\ wire = [r \in Routers |-> <<>>]
  /\ link = [r \in Routers |-> "none"]
  /\ pubChan = [r \in Routers |-> "closed"]
  /\ pc = [r \in Routers |-> "down"]
  /\ alert = [r \in Routers |-> NoAlert]
  /\ faults = 0

Handle(r) ==
  \/ RejectMalformed(r) \/ MatchRoute(r)
  \/ DeclareRoute(r) \/ PublishRoute(r)
  \/ DeclareDlq(r) \/ PublishDlq(r)
  \/ Ack(r) \/ Nack(r)

Next ==
  \/ \E a \in Alerts : Publish(a)
  \/ \E r \in Routers :
       \/ Start(r)
       \/ Handle(r)
       \/ NoticeLoss(r)
       \/ \E a \in Alerts : Deliver(r, a)
       \/ Receive(r)
       \/ LoseConnection(r) \/ Crash(r) \/ Stop(r)

Spec == Init /\ [][Next]_vars

(* The process runs, is restarted when it is down, and the broker serves   *)
(* each connection; each alert waiting on the queue gets its turn as long  *)
(* as some router keeps asking.                                            *)
Fairness ==
  /\ \A r \in Routers : /\ WF_vars(Start(r))
                        /\ WF_vars(Handle(r))
                        /\ WF_vars(NoticeLoss(r))
                        /\ WF_vars(Receive(r))
  /\ \A a \in Alerts : SF_vars(\E r \in Routers : Deliver(r, a))

FairSpec == Spec /\ Fairness

-------------------------------------------------------------------------------
(* Properties. *)

(* Every variable has its type: the state of RabbitMQConsumer,             *)
(* RabbitMQPublisher and Router, and the broker's queues.                  *)
TypeOK ==
  /\ place \in [Alerts -> Places]
  /\ copies \in [Queues -> [Alerts -> Nat]]
  /\ declared \subseteq Queues
  /\ wire \in [Routers -> Seq(Frames)]
  /\ link \in [Routers -> Links]
  /\ pubChan \in [Routers -> {"open", "closed"}]
  /\ pc \in [Routers -> Steps]
  /\ alert \in [Routers -> Alerts \cup {NoAlert}]
  /\ faults \in 0..MaxFaults

(* An alert that has a route leaves the alerts queue only when its runbook *)
(* queue holds a copy, whatever connections are lost, routers crash or     *)
(* declarations are refused: the ack follows the publish down the one      *)
(* shared connection (router.py:48), though publishes are not confirmed.   *)
MatchedAlertsSurvive ==
  \A a \in Routable :
    place[a] = "acked" => copies[Destination(a)][a] > 0

(* An alert without a route is acked only once the dead-letter queue holds *)
(* it, although _publish_to_dlq swallows its failures (router.py:110).     *)
(* This needs every runbook queue to be declarable.                        *)
UnroutableAlertsDeadLettered ==
  \A a \in Unroutable : place[a] = "acked" => copies[DLQ][a] > 0

(* An alert the broker holds for a router is either in that router's       *)
(* handler or answered by the last frame on its wire: with prefetch 1, an  *)
(* alert that is neither would silence the router for good.                *)
HeldAlertIsInHand ==
  \A a \in Alerts, r \in Routers :
    place[a] = r =>
      \/ alert[r] = a
      \/ /\ wire[r] # <<>>
         /\ wire[r][Len(wire[r])].type # "publish"
         /\ wire[r][Len(wire[r])].alert = a

(* Redelivery is the only source of duplicates: each lost connection,      *)
(* crash or stop adds at most one copy of an alert, and a failed publish   *)
(* (nack with requeue) none.                                               *)
DuplicatesNeedFaults ==
  \A q \in Queues, a \in Alerts : copies[q][a] <= 1 + faults

(* Over all its redeliveries an alert reaches only the queue of the first  *)
(* registered route whose matcher accepts it, or only the dead-letter      *)
(* queue when none does.  Of the failed events that the documents send to  *)
(* the dead-letter queue, by README.md:428 and :435 and by the reason      *)
(* "publish_failed" of router.py:94, it says that none gets there, which   *)
(* is what the code does.  A malformed body is nacked without requeue, and *)
(* the alerts queue has no dead-letter exchange: it is dropped and reaches *)
(* no queue.  The failure of a publication closes the channel or the       *)
(* connection, on which the dead letter that reports it is then published: *)
(* a routable alert never reaches the dead-letter queue, and is tried      *)
(* again.                                                                  *)
OneDestination ==
  \A q \in Queues, a \in Alerts :
    copies[q][a] > 0 =>
      /\ a \notin Malformed
      /\ \/ /\ q = DLQ
            /\ \A n \in RouteNames : Verdict[a][n] # "yes"
         \/ \E i \in DOMAIN RouteOrder :
              /\ q = QueueOf[RouteOrder[i]]
              /\ Verdict[a][RouteOrder[i]] = "yes"
              /\ \A j \in 1..(i - 1) : Verdict[a][RouteOrder[j]] # "yes"

(* Every alert published to the alerts queue is eventually settled: acked, *)
(* or dropped when its body is malformed.                                  *)
EveryAlertSettles ==
  \A a \in Alerts :
    place[a] = "ready" ~> place[a] = IF a \in Malformed THEN "dropped"
                                                       ELSE "acked"

-------------------------------------------------------------------------------
(* The inductive invariant behind the safety properties. *)

Published(a) == PublishTo(Destination(a), a)

Stored(a) == copies[Destination(a)][a] > 0

(* The alerts whose storage the code guarantees before it acks them. *)
Guaranteed(a) == a \in Routable \/ (a \in Unroutable /\ RefusedQueues = {})

Holds(r, a) == place[a] = r /\ \A b \in Alerts : place[b] = r => b = a

HoldsNothing(r) == \A a \in Alerts : place[a] # r

(* What a router does fits the alert it does it to. *)
HandlerInv(r) ==
  /\ alert[r] = NoAlert <=> pc[r] \in {"down", "idle"}
  /\ link[r] = "none" <=> pc[r] = "down"
  /\ pc[r] = "idle" => link[r] # "closed"
  /\ pc[r] = "nack" /\ link[r] = "up" => alert[r] \in Routable
  /\ pc[r] \in {"declare", "publish"} => alert[r] \in Routable
  /\ pc[r] = "dlqPublish" => alert[r] \in Unroutable
  /\ pc[r] \in {"dlqDeclare", "ack", "nack"} => alert[r] \notin Malformed
  /\ pc[r] \in {"publish", "dlqPublish"} => Destination(alert[r]) \in declared
  /\ pc[r] = "dlqDeclare" /\ alert[r] \in Routable
       => pubChan[r] = "closed" \/ link[r] = "closed"
  /\ RefusedQueues = {} /\ link[r] # "none" => pubChan[r] = "open"

(* The wire carries at most one publish and one answer, in that order, for *)
(* the one alert the broker holds for the router.                          *)
WireInv(r) ==
  /\ link[r] # "up" => wire[r] = <<>> /\ HoldsNothing(r)
  /\ link[r] = "up" /\ alert[r] # NoAlert =>
       /\ Holds(r, alert[r])
       /\ wire[r] = <<>> \/ (pc[r] = "ack" /\ wire[r] = <<Published(alert[r])>>)
  /\ link[r] = "up" /\ alert[r] = NoAlert =>
       \/ wire[r] = <<>> /\ HoldsNothing(r)
       \/ \E a \in Alerts :
            /\ Holds(r, a)
            /\ \/ a \notin Malformed /\ wire[r] = <<Published(a), Answer(a, "ack")>>
               \/ a \notin Malformed /\ wire[r] = <<Answer(a, "ack")>>
               \/ a \in Routable    /\ wire[r] = <<Answer(a, "requeue")>>
               \/ a \in Malformed   /\ wire[r] = <<Answer(a, "reject")>>

(* A publish on the wire will find its queue; an alert about to be acked,  *)
(* or whose ack has no publish ahead of it, is stored.                     *)
StorageInv(r) ==
  \A a \in Alerts :
    place[a] = r =>
      /\ wire[r] # <<>> /\ wire[r][1] = Published(a) => Destination(a) \in declared
      /\ pc[r] = "ack" /\ wire[r] = <<>> /\ Guaranteed(a) => Stored(a)
      /\ wire[r] = <<Answer(a, "ack")>> /\ Guaranteed(a) => Stored(a)

(* Acked alerts are stored, and copies are only where they belong. *)
OutcomeInv ==
  /\ \A a \in Alerts : place[a] = "acked" => a \notin Malformed
  /\ \A a \in Alerts : place[a] = "acked" /\ Guaranteed(a) => Stored(a)
  /\ \A a \in Alerts : place[a] = "dropped" => a \in Malformed
  /\ \A q \in Queues, a \in Alerts :
       copies[q][a] > 0 => q = Destination(a) /\ a \notin Malformed

(* The copy the current delivery adds, once the broker has stored it. *)
Spent(a) ==
  \/ place[a] = "acked"
  \/ \E r \in Routers :
       /\ place[a] = r
       /\ \/ wire[r] = <<>> /\ pc[r] = "ack"
          \/ wire[r] = <<Answer(a, "ack")>>

CopiesInv ==
  \A a \in Alerts :
    copies[Destination(a)][a] <= faults + (IF Spent(a) THEN 1 ELSE 0)

RouterInv(r) == HandlerInv(r) /\ WireInv(r) /\ StorageInv(r)

(* Safety of routing as one state predicate that every step preserves: it  *)
(* implies each invariant above (UnroutableAlertsDeadLettered when no      *)
(* runbook queue is refused).                                              *)
IndInv ==
  /\ TypeOK
  /\ \A r \in Routers : RouterInv(r)
  /\ OutcomeInv
  /\ CopiesInv

-------------------------------------------------------------------------------
(* What the router promises: AlertDelivery, with the acked and dropped     *)
(* alerts finished and the destination queues as its stores.               *)
PhaseOf(p) == CASE p = "unsent"  -> "unsent"
                [] p = "acked"   -> "finished"
                [] p = "dropped" -> "discarded"
                [] OTHER         -> "accepted"

Delivery == INSTANCE AlertDelivery WITH
  Target <- [a \in Alerts |-> Destination(a)],
  stored <- copies,
  phase  <- [a \in Alerts |-> PhaseOf(place[a])]

(* The router implements at-least-once delivery: an alert is finished only *)
(* after it is stored at its target, and nothing is stored anywhere else   *)
(* or afterwards.                                                          *)
ImplementsDelivery == Delivery!Spec

==============================================================================
