------------------------- MODULE AlertRoutingProofs --------------------------
(***************************************************************************)
(* Proofs about AlertRouting, for any routers, alerts, routes, matchers,   *)
(* refused queues and number of faults.                                    *)
(***************************************************************************)
EXTENDS AlertRouting, SequenceTheorems, WellFoundedInduction, TLAPS

-------------------------------------------------------------------------------
(* The routing table. *)

(* A non-empty set of naturals has a least element. *)
LEMMA LeastExists ==
  ASSUME NEW T \in SUBSET Nat, T # {}
  PROVE  \E i \in T : \A j \in T : i <= j
<1>1. PICK i \in T : \A j \in T : <<j, i>> \notin OpToRel(<, Nat)
  BY NatLessThanWellFounded, WFMin, Zenon
<1>2. \A j \in T : ~ (j < i)
  BY <1>1 DEF OpToRel
<1> QED
  BY <1>2

(* RouteRegistry.match returns a registered route, the first that accepts. *)
LEMMA MatchIsFirst ==
  ASSUME NEW a \in Routable
  PROVE  \E i \in DOMAIN RouteOrder :
           /\ Match(a) = RouteOrder[i]
           /\ Verdict[a][RouteOrder[i]] = "yes"
           /\ \A j \in 1..(i - 1) : Verdict[a][RouteOrder[j]] # "yes"
<1>1. DOMAIN RouteOrder = 1..Len(RouteOrder) /\ Len(RouteOrder) \in Nat
  BY RegistryAssumption
<1>2. Hits(a) \in SUBSET Nat /\ Hits(a) # {}
  BY <1>1 DEF Hits, Routable
<1> DEFINE i == CHOOSE i \in Hits(a) : \A j \in Hits(a) : i <= j
<1>3. i \in Hits(a) /\ \A j \in Hits(a) : i <= j
  BY <1>2, LeastExists
<1>4. Match(a) = RouteOrder[i]
  BY DEF Match
<1> HIDE DEF i
<1>5. i \in 1..Len(RouteOrder) /\ Verdict[a][RouteOrder[i]] = "yes"
  BY <1>1, <1>3 DEF Hits
<1>6. ASSUME NEW j \in 1..(i - 1) PROVE Verdict[a][RouteOrder[j]] # "yes"
  <2>1. j \in 1..Len(RouteOrder) /\ ~ (i <= j)
    BY <1>1, <1>5
  <2> QED
    BY <2>1, <1>1, <1>3 DEF Hits
<1> QED
  BY <1>1, <1>4, <1>5, <1>6

(* Every alert has a destination the router knows; only an alert with a    *)
(* route is destined elsewhere than the dead-letter queue.                 *)
LEMMA DestinationType ==
  ASSUME NEW a \in Alerts
  PROVE  /\ Destination(a) \in Queues
         /\ a \in Routable => Destination(a) \in RunbookQueues
         /\ a \notin Routable => Destination(a) = DLQ
<1>1. CASE a \in Routable
  <2>1. Match(a) \in RouteNames
    BY <1>1, MatchIsFirst DEF RouteNames
  <2> QED
    BY <1>1, <2>1 DEF Destination, Queues, RunbookQueues
<1>2. CASE a \notin Routable
  BY <1>2 DEF Destination, Queues
<1> QED
  BY <1>1, <1>2

(* The dead-letter queue is no runbook queue, so it is never refused. *)
LEMMA DlqNotRefused == DLQ \in Queues /\ DLQ \notin RunbookQueues /\ DLQ \notin RefusedQueues
BY RegistryAssumption, RoutingAssumption DEF Queues, RunbookQueues

-------------------------------------------------------------------------------
(* The wire. *)

(* Appending to a sequence of one element. *)
LEMMA AppendToOne ==
  ASSUME NEW x, NEW y
  PROVE  Append(<<x>>, y) = <<x, y>>
<1> DEFINE s == Append(<<x>>, y)
<1>1. <<x>> \in Seq({x, y}) /\ Len(<<x>>) = 1 /\ <<x>>[1] = x
  OBVIOUS
<1>2. s \in Seq({x, y}) /\ Len(s) = 2 /\ s[1] = x /\ s[2] = y
  BY <1>1, AppendProperties
<1>3. /\ <<x, y>> \in Seq({x, y}) /\ Len(<<x, y>>) = 2
      /\ <<x, y>>[1] = x /\ <<x, y>>[2] = y
  OBVIOUS
<1>4. \A i \in 1..2 : i = 1 \/ i = 2
  OBVIOUS
<1> HIDE DEF s
<1>5. s = <<x, y>>
  BY <1>2, <1>3, <1>4, SeqEqual
<1> QED
  BY <1>5 DEF s

(* Reading the head of the one- and two-frame wires that occur. *)
LEMMA ShortWires ==
  ASSUME NEW x, NEW y
  PROVE  /\ Append(<<>>, x) = <<x>>
         /\ Head(<<x>>) = x /\ Tail(<<x>>) = <<>> /\ <<x>>[1] = x
         /\ Head(<<x, y>>) = x /\ Tail(<<x, y>>) = <<y>> /\ <<x, y>>[1] = x
         /\ <<x>> # <<>> /\ <<x, y>> # <<>> /\ <<x, y>> # <<y>>
         /\ <<x, y>> # <<x>> /\ (<<x>> = <<y>> => x = y)
         /\ Len(<<x>>) = 1 /\ Len(<<x, y>>) = 2 /\ <<x, y>>[2] = y
OBVIOUS

(* The frames routers write are frames, and tell their types apart. *)
LEMMA FrameFacts ==
  ASSUME NEW a \in Alerts
  PROVE  /\ \A q \in Queues :
              /\ PublishTo(q, a) \in Frames
              /\ PublishTo(q, a).type = "publish"
              /\ PublishTo(q, a).alert = a /\ PublishTo(q, a).queue = q
         /\ \A t \in {"ack", "requeue", "reject"} :
              /\ Answer(a, t) \in Frames
              /\ Answer(a, t).type = t /\ Answer(a, t).alert = a
BY DEF PublishTo, Answer, Frames

(* Wires that carry different frames are different. *)
LEMMA WiresDiffer ==
  ASSUME NEW a \in Alerts
  PROVE  /\ \A t \in {"ack", "requeue", "reject"} :
              /\ Published(a) # Answer(a, t)
              /\ <<Published(a)>> # <<Answer(a, t)>>
              /\ <<Published(a), Answer(a, t)>> # <<Answer(a, t)>>
         /\ \A t \in {"requeue", "reject"} :
              <<Answer(a, t)>> # <<Answer(a, "ack")>>
<1>1. \A t \in {"ack", "requeue", "reject"} : Published(a) # Answer(a, t)
  BY DestinationType, FrameFacts DEF Published
<1>2. \A t \in {"requeue", "reject"} : Answer(a, t) # Answer(a, "ack")
  BY FrameFacts
<1> QED
  BY <1>1, <1>2, ShortWires

-------------------------------------------------------------------------------
(* A router is undisturbed by a step that leaves its own state alone,      *)
(* takes nothing from it, declares no queue away and loses no copy.        *)
LEMMA Undisturbed ==
  ASSUME NEW s \in Routers, RouterInv(s), TypeOK,
         wire'[s] = wire[s], link'[s] = link[s], pubChan'[s] = pubChan[s],
         pc'[s] = pc[s], alert'[s] = alert[s],
         declared \subseteq declared',
         \A a \in Alerts : place'[a] = s <=> place[a] = s,
         \A a \in Alerts : Stored(a) => Stored(a)'
  PROVE  RouterInv(s)'
<1>1. HandlerInv(s)'
  BY DEF RouterInv, HandlerInv
<1>2. WireInv(s)'
  <2>1. /\ HoldsNothing(s)' <=> HoldsNothing(s)
        /\ \A a \in Alerts : Holds(s, a)' <=> Holds(s, a)
    BY DEF Holds, HoldsNothing
  <2>2. alert[s] # NoAlert => alert[s] \in Alerts
    BY DEF TypeOK
  <2>3. alert[s] # NoAlert => (Holds(s, alert[s])' <=> Holds(s, alert[s]))
    BY <2>2 DEF Holds
  <2> QED
    BY <2>1, <2>3 DEF RouterInv, WireInv
<1>3. StorageInv(s)'
  BY DEF RouterInv, StorageInv
<1> QED
  BY <1>1, <1>2, <1>3 DEF RouterInv

(* A step that stores nothing and has no fault keeps the duplicate bound   *)
(* if no alert that had used up its delivery is given it back.             *)
LEMMA SameCopies ==
  ASSUME CopiesInv, UNCHANGED <<copies, faults>>, TypeOK,
         \A a \in Alerts : Spent(a) => Spent(a)'
  PROVE  CopiesInv'
<1> SUFFICES ASSUME NEW a \in Alerts
             PROVE  copies[Destination(a)][a]
                      <= faults + (IF Spent(a)' THEN 1 ELSE 0)
  BY DEF CopiesInv
<1>1. copies[Destination(a)][a] <= faults + (IF Spent(a) THEN 1 ELSE 0)
  BY DEF CopiesInv
<1>2. copies[Destination(a)][a] \in Nat /\ faults \in Nat
  BY DestinationType, RoutingAssumption DEF TypeOK
<1> QED
  BY <1>1, <1>2

-------------------------------------------------------------------------------
(* Type correctness. *)

(* The initial state is well-typed. *)
LEMMA InitTypeOK == Init => TypeOK
BY RoutingAssumption, EmptySeq DEF Init, TypeOK, Places, Links, Steps, Queues

(* What a router writes is a frame. *)
LEMMA WriteType ==
  ASSUME TypeOK, NEW r \in Routers, NEW frame \in Frames, Write(r, frame)
  PROVE  wire' \in [Routers -> Seq(Frames)] /\ link' \in [Routers -> Links]
BY DEF TypeOK, Write

(* Every step of a handler is well-typed. *)
LEMMA HandleType ==
  ASSUME TypeOK, NEW r \in Routers, HandlerInv(r), Handle(r)
  PROVE  TypeOK'
<1>1. alert[r] \in Alerts
  BY DEF TypeOK, HandlerInv, Handle, RejectMalformed, MatchRoute, DeclareRoute,
         PublishRoute, DeclareDlq, PublishDlq, Ack, Nack
<1>2. /\ Destination(alert[r]) \in Queues /\ DLQ \in Queues
      /\ \A q \in Queues : PublishTo(q, alert[r]) \in Frames
      /\ \A t \in {"ack", "requeue", "reject"} : Answer(alert[r], t) \in Frames
  BY <1>1, DestinationType, DlqNotRefused, FrameFacts
<1>3. \A f \in Frames : Write(r, f) => wire' \in [Routers -> Seq(Frames)]
                                     /\ link' \in [Routers -> Links]
  BY WriteType
<1> USE DEF TypeOK, Goto, Return, Exit, Links, Steps, ConnectionRaises,
            DeclareAnswered, DeclareRaises, brokerVars
<1>4. CASE RejectMalformed(r)
  BY <1>2, <1>3, <1>4 DEF RejectMalformed
<1>5. CASE MatchRoute(r)
  BY <1>5 DEF MatchRoute
<1>6. CASE DeclareRoute(r)
  BY <1>2, <1>6 DEF DeclareRoute
<1>7. CASE PublishRoute(r)
  BY <1>2, <1>3, <1>7 DEF PublishRoute
<1>8. CASE DeclareDlq(r)
  BY <1>2, <1>8 DEF DeclareDlq, AfterDlq
<1>9. CASE PublishDlq(r)
  BY <1>2, <1>3, <1>9 DEF PublishDlq, AfterDlq
<1>10. CASE Ack(r)
  BY <1>2, <1>3, <1>10 DEF Ack
<1>11. CASE Nack(r)
  BY <1>2, <1>3, <1>11 DEF Nack
<1> QED
  BY <1>4, <1>5, <1>6, <1>7, <1>8, <1>9, <1>10, <1>11 DEF Handle

(* Storing one more copy. *)
LEMMA AddCopy ==
  ASSUME TypeOK, NEW q \in Queues, NEW a \in Alerts,
         copies' = [copies EXCEPT ![q][a] = @ + 1]
  PROVE  /\ copies' \in [Queues -> [Alerts -> Nat]]
         /\ copies'[q][a] = copies[q][a] + 1
         /\ \A p \in Queues, b \in Alerts :
              p # q \/ b # a => copies'[p][b] = copies[p][b]
<1>1. [copies[q] EXCEPT ![a] = @ + 1] \in [Alerts -> Nat]
  BY DEF TypeOK
<1>2. copies' = [copies EXCEPT ![q] = [copies[q] EXCEPT ![a] = @ + 1]]
  BY DEF TypeOK
<1> QED
  BY <1>1, <1>2 DEF TypeOK

(* A frame the broker reads, and what is left on the wire. *)
LEMMA ReceiveWire ==
  ASSUME TypeOK, NEW r \in Routers, Receive(r)
  PROVE  /\ Head(wire[r]) \in Frames /\ Tail(wire[r]) \in Seq(Frames)
         /\ wire' = [wire EXCEPT ![r] = Tail(wire[r])]
<1>1. wire[r] \in Seq(Frames) /\ wire[r] # <<>>
  BY DEF TypeOK, Receive
<1> QED
  BY <1>1, HeadTailProperties DEF Receive

(* Publishing an alert is well-typed. *)
LEMMA PublishType ==
  ASSUME TypeOK, NEW a \in Alerts, Publish(a)
  PROVE  TypeOK'
BY DEF TypeOK, Publish, Places, routerVars

(* Every other step is well-typed. *)
LEMMA OtherType ==
  ASSUME TypeOK, NEW r \in Routers
  PROVE  /\ Start(r) => TypeOK'
         /\ NoticeLoss(r) => TypeOK'
         /\ \A a \in Alerts : Deliver(r, a) => TypeOK'
         /\ Receive(r) => TypeOK'
         /\ LoseConnection(r) \/ Crash(r) \/ Stop(r) => TypeOK'
<1> USE DEF TypeOK, Goto, Exit, Links, Steps, brokerVars, routerVars
<1>1. ASSUME Start(r) PROVE TypeOK'
  BY <1>1, DlqNotRefused DEF Start
<1>2. ASSUME NoticeLoss(r) PROVE TypeOK'
  BY <1>2 DEF NoticeLoss
<1>3. ASSUME NEW a \in Alerts, Deliver(r, a) PROVE TypeOK'
  <2>1. r \in Places
    BY DEF Places
  <2>2. place' \in [Alerts -> Places] /\ pc' \in [Routers -> Steps]
    BY <1>3, <2>1 DEF Deliver
  <2>3. alert' \in [Routers -> Alerts \cup {NoAlert}]
    BY <1>3 DEF Deliver
  <2> QED
    BY <1>3, <2>2, <2>3 DEF Deliver
<1>4. ASSUME Receive(r) PROVE TypeOK'
  <2> DEFINE frame == Head(wire[r])
  <2>1. frame \in Frames /\ Tail(wire[r]) \in Seq(Frames)
        /\ wire' = [wire EXCEPT ![r] = Tail(wire[r])]
    BY <1>4, ReceiveWire
  <2>2. /\ frame.alert \in Alerts
        /\ frame.type = "publish" => frame.queue \in Queues
    BY <2>1 DEF Frames
  <2> HIDE DEF frame
  <2>3. /\ UNCHANGED <<declared, routerVars, faults>>
        /\ \/ /\ frame.type = "publish"
              /\ \/ copies' = [copies EXCEPT ![frame.queue][frame.alert] = @ + 1]
                 \/ copies' = copies
              /\ place' = place
           \/ /\ \E s \in {"acked", "ready", "dropped"} :
                   place' = [place EXCEPT ![frame.alert] = s]
              /\ copies' = copies
    BY <1>4 DEF Receive, frame
  <2>4. {"acked", "ready", "dropped"} \subseteq Places
    BY DEF Places
  <2>5. place' \in [Alerts -> Places]
    BY <2>2, <2>3, <2>4
  <2>6. copies' \in [Queues -> [Alerts -> Nat]]
    BY <2>2, <2>3, AddCopy
  <2>7. wire' \in [Routers -> Seq(Frames)]
    BY <2>1
  <2> QED
    BY <2>3, <2>5, <2>6, <2>7
<1>5. ASSUME LoseConnection(r) \/ Crash(r) \/ Stop(r) PROVE TypeOK'
  <2>1. faults' \in 0..MaxFaults
    BY <1>5, RoutingAssumption DEF LoseConnection, Crash, Stop, Fault
  <2>2. Requeued(r) \in [Alerts -> Places]
    BY DEF Requeued, Places
  <2>3. <<>> \in Seq(Frames)
    BY EmptySeq
  <2> QED
    BY <1>5, <2>1, <2>2, <2>3 DEF LoseConnection, Crash, Stop
<1> QED
  BY <1>1, <1>2, <1>3, <1>4, <1>5

-------------------------------------------------------------------------------
(* The invariant of the router that takes a handler step. *)

(* Taking the alert apart and looking up its route keeps the invariant. *)
LEMMA MatchLocal ==
  ASSUME IndInv, NEW r \in Routers, MatchRoute(r)
  PROVE  RouterInv(r)'
<1>1. RouterInv(r) /\ TypeOK
  BY DEF IndInv
<1>2. alert[r] \in Alerts /\ (alert[r] \in Routable \/ alert[r] \in Unroutable)
  BY <1>1 DEF MatchRoute, TypeOK, RouterInv, HandlerInv, Routable, Unroutable
<1>3. /\ UNCHANGED <<place, copies, declared, wire, link, pubChan, alert>>
      /\ pc[r] = "received" /\ pc'[r] \in {"declare", "dlqDeclare"}
      /\ alert[r] \in Routable <=> pc'[r] = "declare"
      /\ alert[r] \notin Malformed
  BY <1>1 DEF MatchRoute, Goto, TypeOK, brokerVars
<1>4. HandlerInv(r)'
  BY <1>1, <1>2, <1>3 DEF RouterInv, HandlerInv
<1>5. WireInv(r)'
  BY <1>1, <1>2, <1>3 DEF RouterInv, WireInv, Holds, HoldsNothing
<1>6. StorageInv(r)'
  BY <1>1, <1>3 DEF RouterInv, StorageInv, Stored
<1> QED
  BY <1>4, <1>5, <1>6 DEF RouterInv

(* What a declaration that raises leaves behind. *)
LEMMA RaisedDeclare ==
  ASSUME TypeOK, NEW r \in Routers, NEW q, DeclareRaises(r, q)
  PROVE  /\ UNCHANGED declared
         /\ pubChan'[r] = "closed" \/ link'[r] = "closed"
         /\ link'[r] = link[r] \/ (link[r] = "broken" /\ link'[r] = "closed")
         /\ pubChan'[r] = pubChan[r] \/ q \in RefusedQueues
         /\ \A s \in Routers \ {r} : link'[s] = link[s] /\ pubChan'[s] = pubChan[s]
<1>1. CASE link[r] = "up" /\ pubChan[r] = "open" /\ q \in RefusedQueues
           /\ pubChan' = [pubChan EXCEPT ![r] = "closed"] /\ UNCHANGED link
  BY <1>1 DEF DeclareRaises, TypeOK
<1>2. CASE pubChan[r] = "closed" /\ UNCHANGED <<pubChan, link>>
  BY <1>2 DEF DeclareRaises
<1>3. CASE /\ link[r] \in {"broken", "closed"}
           /\ link' = [link EXCEPT ![r] = "closed"] /\ UNCHANGED pubChan
  BY <1>3 DEF DeclareRaises, TypeOK
<1> QED
  BY <1>1, <1>2, <1>3 DEF DeclareRaises

(* Declaring the runbook queue keeps the invariant: it is declared, or the *)
(* publisher channel or the connection is known to be closed.              *)
LEMMA DeclareRouteLocal ==
  ASSUME IndInv, NEW r \in Routers, DeclareRoute(r)
  PROVE  RouterInv(r)'
<1>1. RouterInv(r) /\ TypeOK
  BY DEF IndInv
<1>2. alert[r] \in Alerts /\ alert[r] \in Routable /\ alert[r] \notin Malformed
  BY <1>1 DEF DeclareRoute, TypeOK, RouterInv, HandlerInv, Routable
<1>3. /\ UNCHANGED <<place, copies, wire, alert>>
      /\ declared \subseteq declared'
      /\ pc[r] = "declare"
      /\ \/ /\ pc'[r] = "publish" /\ link[r] = "up"
            /\ Destination(alert[r]) \in declared'
            /\ UNCHANGED <<link, pubChan>>
         \/ /\ pc'[r] = "dlqDeclare"
            /\ pubChan'[r] = "closed" \/ link'[r] = "closed"
            /\ link'[r] = link[r] \/ (link[r] = "broken" /\ link'[r] = "closed")
            /\ pubChan'[r] = pubChan[r] \/ RefusedQueues # {}
  <2>1. CASE DeclareAnswered(r, Destination(alert[r])) /\ Goto(r, "publish")
    BY <1>1, <2>1 DEF DeclareRoute, DeclareAnswered, Goto, TypeOK
  <2>2. CASE DeclareRaises(r, Destination(alert[r])) /\ Goto(r, "dlqDeclare")
    BY <1>1, <2>2, RaisedDeclare DEF DeclareRoute, Goto, TypeOK
  <2> QED
    BY <2>1, <2>2 DEF DeclareRoute
<1>4. HandlerInv(r)'
  BY <1>1, <1>2, <1>3 DEF RouterInv, HandlerInv, TypeOK
<1>5. WireInv(r)'
  BY <1>1, <1>2, <1>3 DEF RouterInv, WireInv, Holds, HoldsNothing, HandlerInv
<1>6. StorageInv(r)'
  BY <1>1, <1>3 DEF RouterInv, StorageInv, Stored
<1> QED
  BY <1>4, <1>5, <1>6 DEF RouterInv

(* What writing and raising leave behind. *)
LEMMA WriteEffect ==
  ASSUME TypeOK, NEW r \in Routers, NEW frame, Write(r, frame)
  PROVE  /\ link[r] \in {"up", "broken"} /\ UNCHANGED link
         /\ link[r] = "up" => wire'[r] = Append(wire[r], frame)
         /\ link[r] = "broken" => wire'[r] = wire[r]
         /\ \A s \in Routers \ {r} : wire'[s] = wire[s]
BY DEF Write, TypeOK

(* A write that raises leaves the wire alone and marks the connection lost. *)
LEMMA RaiseEffect ==
  ASSUME TypeOK, NEW r \in Routers, ConnectionRaises(r)
  PROVE  /\ link[r] \in {"broken", "closed"} /\ link'[r] = "closed"
         /\ UNCHANGED wire
         /\ \A s \in Routers \ {r} : link'[s] = link[s]
BY DEF ConnectionRaises, TypeOK

(* Publishing to the runbook queue keeps the invariant: the publish is on  *)
(* the wire before the ack can be, or the connection is lost.              *)
LEMMA PublishRouteLocal ==
  ASSUME IndInv, NEW r \in Routers, PublishRoute(r)
  PROVE  RouterInv(r)'
<1>1. RouterInv(r) /\ TypeOK
  BY DEF IndInv
<1>2. /\ alert[r] \in Alerts /\ alert[r] \in Routable /\ alert[r] \notin Malformed
      /\ Destination(alert[r]) \in declared
  BY <1>1 DEF PublishRoute, TypeOK, RouterInv, HandlerInv, Routable
<1>3. /\ UNCHANGED <<place, copies, declared, pubChan, alert>> /\ pc[r] = "publish"
  BY DEF PublishRoute, brokerVars
<1>4. CASE Write(r, Published(alert[r])) /\ Goto(r, "ack")
  <2>1. pc'[r] = "ack"
    BY <1>1, <1>4 DEF Goto, TypeOK
  <2>2. link[r] \in {"up", "broken"} /\ UNCHANGED link
    BY <1>1, <1>4, WriteEffect
  <2>3. wire[r] = <<>>
    BY <1>1, <1>2, <1>3, <2>2 DEF RouterInv, WireInv, HandlerInv
  <2>4. /\ link[r] = "up" => wire'[r] = <<Published(alert[r])>>
        /\ link[r] = "broken" => wire'[r] = <<>>
    BY <1>1, <1>4, <2>3, WriteEffect, ShortWires
  <2>5. HandlerInv(r)'
    BY <1>1, <1>2, <1>3, <2>1, <2>2 DEF RouterInv, HandlerInv
  <2>6. WireInv(r)'
    <3>1. alert[r] # NoAlert
      BY <1>2, RoutingAssumption
    <3>2. link[r] = "up" => Holds(r, alert[r])'
      BY <1>1, <1>3, <3>1 DEF RouterInv, WireInv, Holds
    <3>3. link[r] # "up" => HoldsNothing(r)'
      BY <1>1, <1>3 DEF RouterInv, WireInv, HoldsNothing
    <3> QED
      BY <1>3, <2>1, <2>2, <2>4, <3>1, <3>2, <3>3 DEF WireInv
  <2>7. StorageInv(r)'
    <3>1. \A a \in Alerts : place'[a] = r => link[r] = "up" /\ a = alert[r]
      BY <1>1, <1>2, <1>3, RoutingAssumption
         DEF RouterInv, WireInv, Holds, HoldsNothing
    <3>2. link[r] = "up" => /\ wire'[r] # <<>>
                            /\ wire'[r] # <<Answer(alert[r], "ack")>>
      BY <1>2, <2>4, ShortWires, WiresDiffer
    <3> QED
      BY <1>2, <1>3, <3>1, <3>2 DEF StorageInv
  <2> QED
    BY <2>5, <2>6, <2>7 DEF RouterInv
<1>5. CASE ConnectionRaises(r) /\ Goto(r, "dlqDeclare")
  <2>1. /\ pc'[r] = "dlqDeclare" /\ link[r] # "up" /\ link[r] # "none"
        /\ link'[r] = "closed" /\ wire' = wire
    BY <1>1, <1>5, RaiseEffect DEF Goto, TypeOK
  <2>2. HandlerInv(r)'
    BY <1>1, <1>2, <1>3, <2>1 DEF RouterInv, HandlerInv
  <2>3. WireInv(r)' /\ StorageInv(r)'
    BY <1>1, <1>2, <1>3, <2>1
       DEF RouterInv, WireInv, StorageInv, Holds, HoldsNothing
  <2> QED
    BY <2>2, <2>3 DEF RouterInv
<1> QED
  BY <1>4, <1>5 DEF PublishRoute, Published

(* What the invariant says of a router that is handling an alert. *)
LEMMA BusyRouter ==
  ASSUME IndInv, NEW r \in Routers, pc[r] \notin {"down", "idle"}
  PROVE  /\ alert[r] \in Alerts /\ alert[r] # NoAlert
         /\ link[r] \in {"up", "broken", "closed"}
         /\ link[r] = "up" =>
              /\ Holds(r, alert[r])
              /\ wire[r] = <<>> \/ (pc[r] = "ack" /\ wire[r] = <<Published(alert[r])>>)
         /\ link[r] # "up" => HoldsNothing(r) /\ wire[r] = <<>>
BY DEF IndInv, RouterInv, HandlerInv, WireInv, TypeOK, Links

(* A router that closes the connection it has already lost. *)
LEMMA ExitLocal ==
  ASSUME IndInv, NEW r \in Routers, Exit(r), link[r] \in {"broken", "closed"},
         UNCHANGED <<brokerVars, wire>>
  PROVE  RouterInv(r)'
<1>1. /\ pc'[r] = "down" /\ link'[r] = "none" /\ pubChan'[r] = "closed"
      /\ alert'[r] = NoAlert
  BY DEF Exit, Goto, IndInv, TypeOK
<1>2. HandlerInv(r)'
  BY <1>1 DEF HandlerInv
<1>3. HoldsNothing(r) /\ wire[r] = <<>>
  BY DEF IndInv, RouterInv, WireInv
<1>4. WireInv(r)' /\ StorageInv(r)'
  BY <1>1, <1>3 DEF WireInv, StorageInv, HoldsNothing, brokerVars
<1> QED
  BY <1>2, <1>4 DEF RouterInv

(* Declaring the dead-letter queue keeps the invariant: for an alert whose *)
(* publish failed it always raises; for one without a route it raises only *)
(* on a lost connection, or on a channel a refused declaration closed.     *)
LEMMA DeclareDlqLocal ==
  ASSUME IndInv, NEW r \in Routers, DeclareDlq(r)
  PROVE  RouterInv(r)'
<1>1. RouterInv(r) /\ TypeOK
  BY DEF IndInv
<1>2. /\ UNCHANGED <<place, copies, wire, alert>> /\ pc[r] = "dlqDeclare"
      /\ declared \subseteq declared'
  BY DEF DeclareDlq, DeclareAnswered, DeclareRaises
<1>3. /\ alert[r] \in Alerts /\ alert[r] # NoAlert /\ alert[r] \notin Malformed
      /\ alert[r] \in Routable \/ alert[r] \in Unroutable
      /\ ~ (alert[r] \in Routable /\ alert[r] \in Unroutable)
      /\ link[r] \in {"up", "broken", "closed"} /\ wire[r] = <<>>
      /\ link[r] = "up" => Holds(r, alert[r])
      /\ link[r] # "up" => HoldsNothing(r)
  BY <1>1, <1>2, BusyRouter DEF RouterInv, HandlerInv, Routable, Unroutable
<1>4. CASE DeclareAnswered(r, DLQ) /\ Goto(r, "dlqPublish")
  <2>1. /\ pc'[r] = "dlqPublish" /\ link[r] = "up" /\ pubChan[r] = "open"
        /\ DLQ \in declared' /\ UNCHANGED <<link, pubChan>>
    BY <1>1, <1>4 DEF DeclareAnswered, Goto, TypeOK
  <2>2. alert[r] \in Unroutable /\ Destination(alert[r]) = DLQ
    BY <1>1, <1>2, <1>3, <2>1, DestinationType DEF RouterInv, HandlerInv
  <2>3. HandlerInv(r)'
    BY <1>1, <1>2, <1>3, <2>1, <2>2 DEF RouterInv, HandlerInv
  <2>4. WireInv(r)' /\ StorageInv(r)'
    BY <1>2, <1>3, <2>1 DEF WireInv, StorageInv, Holds, HoldsNothing
  <2> QED
    BY <2>3, <2>4 DEF RouterInv
<1>5. CASE DeclareRaises(r, DLQ) /\ Goto(r, AfterDlq(r))
  <2>1. /\ UNCHANGED declared /\ pubChan'[r] = pubChan[r]
        /\ pubChan'[r] = "closed" \/ link'[r] = "closed"
        /\ link'[r] = link[r] \/ (link[r] = "broken" /\ link'[r] = "closed")
    BY <1>1, <1>5, RaisedDeclare, DlqNotRefused
  <2>2. pc'[r] = IF alert[r] \in Routable THEN "nack" ELSE "ack"
    BY <1>1, <1>5 DEF Goto, TypeOK, AfterDlq
  <2>3. HandlerInv(r)'
    BY <1>1, <1>2, <1>3, <2>1, <2>2 DEF RouterInv, HandlerInv
  <2>4. WireInv(r)'
    BY <1>2, <1>3, <2>1, <2>2 DEF WireInv, Holds, HoldsNothing
  <2>5. link[r] = "up" => ~ Guaranteed(alert[r]) \/ alert[r] \in Routable
    BY <1>1, <1>3, <2>1 DEF RouterInv, HandlerInv, Guaranteed
  <2>6. \A a \in Alerts : place[a] = r => link[r] = "up" /\ a = alert[r]
    BY <1>3 DEF Holds, HoldsNothing
  <2>7. StorageInv(r)'
    BY <1>2, <1>3, <2>2, <2>5, <2>6, ShortWires DEF StorageInv
  <2> QED
    BY <2>3, <2>4, <2>7 DEF RouterInv
<1> QED
  BY <1>4, <1>5 DEF DeclareDlq

(* Publishing to the dead-letter queue keeps the invariant. *)
LEMMA PublishDlqLocal ==
  ASSUME IndInv, NEW r \in Routers, PublishDlq(r)
  PROVE  RouterInv(r)'
<1>1. RouterInv(r) /\ TypeOK
  BY DEF IndInv
<1>2. /\ UNCHANGED <<place, copies, declared, pubChan, alert>>
      /\ pc[r] = "dlqPublish"
  BY DEF PublishDlq, brokerVars
<1>3. /\ alert[r] \in Alerts /\ alert[r] # NoAlert /\ alert[r] \notin Malformed
      /\ alert[r] \in Unroutable /\ alert[r] \notin Routable
      /\ link[r] \in {"up", "broken", "closed"} /\ wire[r] = <<>>
      /\ link[r] = "up" => Holds(r, alert[r])
      /\ link[r] # "up" => HoldsNothing(r)
      /\ Destination(alert[r]) \in declared
  BY <1>1, <1>2, BusyRouter DEF RouterInv, HandlerInv, Routable, Unroutable
<1>4. pc'[r] = "ack"
  BY <1>1, <1>3 DEF PublishDlq, Goto, TypeOK, AfterDlq
<1>5. Destination(alert[r]) = DLQ
  BY <1>3, DestinationType
<1>6. /\ link'[r] = link[r] \/ (link[r] # "up" /\ link'[r] = "closed")
      /\ link[r] = "up" => wire'[r] = <<Published(alert[r])>>
      /\ link[r] # "up" => wire'[r] = <<>>
  <2>1. CASE Write(r, PublishTo(DLQ, alert[r]))
    BY <1>1, <1>3, <1>5, <2>1, WriteEffect, ShortWires DEF Published
  <2>2. CASE ConnectionRaises(r)
    BY <1>1, <1>3, <2>2, RaiseEffect
  <2> QED
    BY <2>1, <2>2 DEF PublishDlq
<1>7. HandlerInv(r)'
  BY <1>1, <1>2, <1>3, <1>4, <1>6 DEF RouterInv, HandlerInv
<1>8. WireInv(r)'
  <2>1. link[r] = "up" => Holds(r, alert[r])'
    BY <1>2, <1>3 DEF Holds
  <2>2. link[r] # "up" => HoldsNothing(r)'
    BY <1>2, <1>3 DEF HoldsNothing
  <2> QED
    BY <1>2, <1>3, <1>4, <1>6, <2>1, <2>2 DEF WireInv
<1>9. StorageInv(r)'
  <2>1. \A a \in Alerts : place'[a] = r => link[r] = "up" /\ a = alert[r]
    BY <1>2, <1>3 DEF Holds, HoldsNothing
  <2>2. link[r] = "up" => /\ wire'[r] # <<>>
                          /\ wire'[r] # <<Answer(alert[r], "ack")>>
    BY <1>3, <1>6, ShortWires, WiresDiffer
  <2> QED
    BY <1>2, <1>3, <2>1, <2>2 DEF StorageInv
<1> QED
  BY <1>7, <1>8, <1>9 DEF RouterInv

(* An answer goes out, and the handler returns. *)
LEMMA AnswerLocal ==
  ASSUME IndInv, NEW r \in Routers, pc[r] \notin {"down", "idle"},
         NEW t \in {"ack", "requeue", "reject"},
         t = "ack" => pc[r] = "ack",
         t # "ack" => pc[r] # "ack",
         t = "ack" => alert[r] \notin Malformed,
         link[r] = "up" /\ t = "requeue" => alert[r] \in Routable,
         t = "reject" => alert[r] \in Malformed,
         Write(r, Answer(alert[r], t)), Return(r),
         UNCHANGED <<brokerVars, pubChan>>
  PROVE  RouterInv(r)'
<1>1. RouterInv(r) /\ TypeOK
  BY DEF IndInv
<1>0. PICK a \in Alerts : a = alert[r]
  BY BusyRouter
<1>2. /\ link[r] \in {"up", "broken"} /\ UNCHANGED link
      /\ link[r] = "up" => /\ Holds(r, a)
                           /\ \/ wire[r] = <<>>
                              \/ t = "ack" /\ wire[r] = <<Published(a)>>
      /\ link[r] = "broken" => HoldsNothing(r) /\ wire[r] = <<>>
  BY <1>0, <1>1, BusyRouter, WriteEffect
<1>3. /\ pc'[r] = "idle" /\ alert'[r] = NoAlert
      /\ UNCHANGED <<place, copies, declared, pubChan>>
  BY <1>1 DEF Return, Goto, TypeOK, brokerVars
<1>4. /\ link[r] = "up" => \/ wire[r] = <<>> /\ wire'[r] = <<Answer(a, t)>>
                           \/ /\ t = "ack" /\ wire[r] = <<Published(a)>>
                              /\ wire'[r] = <<Published(a), Answer(a, t)>>
      /\ link[r] = "broken" => wire'[r] = <<>>
  BY <1>0, <1>1, <1>2, WriteEffect, ShortWires, AppendToOne
<1>5. HandlerInv(r)'
  BY <1>1, <1>2, <1>3 DEF RouterInv, HandlerInv
<1>6. link[r] = "up" => Holds(r, a)'
  BY <1>2, <1>3 DEF Holds
<1>7. link[r] = "broken" => HoldsNothing(r)'
  BY <1>2, <1>3 DEF HoldsNothing
<1>8. WireInv(r)'
  BY <1>2, <1>3, <1>4, <1>6, <1>7, <1>0 DEF WireInv
<1>9. StorageInv(r)'
  <2>1. \A b \in Alerts : place'[b] = r => link[r] = "up" /\ b = a
    BY <1>2, <1>3 DEF Holds, HoldsNothing
  <2>2. /\ link[r] = "up" => wire'[r] # <<>>
        /\ link[r] = "up" /\ wire'[r][1] = Published(a) => wire[r] = <<Published(a)>>
        /\ link[r] = "up" /\ wire'[r] = <<Answer(a, "ack")>>
             => wire[r] = <<>> /\ pc[r] = "ack"
    BY <1>2, <1>4, ShortWires, WiresDiffer
  <2>3. link[r] = "up" /\ wire[r] = <<Published(a)>> => Destination(a) \in declared
    BY <1>1, <1>2, ShortWires DEF RouterInv, StorageInv, Holds
  <2>4. link[r] = "up" /\ wire[r] = <<>> /\ pc[r] = "ack" /\ Guaranteed(a)
          => Stored(a)
    BY <1>1, <1>2 DEF RouterInv, StorageInv, Holds
  <2> QED
    BY <1>2, <1>3, <2>1, <2>2, <2>3, <2>4 DEF StorageInv, Stored
<1> QED
  BY <1>5, <1>8, <1>9 DEF RouterInv

(* Every handler step keeps its own router's invariant. *)
LEMMA HandleLocal ==
  ASSUME IndInv, NEW r \in Routers, Handle(r)
  PROVE  RouterInv(r)'
<1>1. HandlerInv(r)
  BY DEF IndInv, RouterInv
<1>2. CASE RejectMalformed(r)
  <2>1. pc[r] = "received" /\ alert[r] \in Malformed
        /\ UNCHANGED brokerVars
    BY <1>2 DEF RejectMalformed
  <2>2. CASE Write(r, Answer(alert[r], "reject")) /\ Return(r) /\ UNCHANGED pubChan
    BY <2>1, <2>2, AnswerLocal
  <2>3. CASE link[r] \in {"broken", "closed"} /\ Exit(r) /\ UNCHANGED wire
    BY <2>1, <2>3, ExitLocal
  <2> QED
    BY <1>2, <2>2, <2>3 DEF RejectMalformed
<1>3. CASE Ack(r)
  <2>1. /\ pc[r] = "ack" /\ alert[r] \notin Malformed
        /\ UNCHANGED <<brokerVars, pubChan>>
    BY <1>1, <1>3 DEF Ack, HandlerInv
  <2>2. CASE Write(r, Answer(alert[r], "ack")) /\ Return(r)
    BY <2>1, <2>2, AnswerLocal
  <2>3. CASE ConnectionRaises(r) /\ Goto(r, "nack") /\ UNCHANGED alert
    <3>1. /\ pc'[r] = "nack" /\ link[r] \in {"broken", "closed"}
          /\ link'[r] = "closed" /\ UNCHANGED wire
      BY <2>3, RaiseEffect DEF IndInv, Goto, TypeOK
    <3>2. alert[r] # NoAlert /\ HoldsNothing(r) /\ wire[r] = <<>>
      BY <2>1, <3>1, BusyRouter
    <3>3. HandlerInv(r)'
      BY <1>1, <2>1, <2>3, <3>1, <3>2 DEF HandlerInv, brokerVars
    <3>4. WireInv(r)' /\ StorageInv(r)'
      BY <2>1, <2>3, <3>1, <3>2 DEF WireInv, StorageInv, HoldsNothing, brokerVars
    <3> QED
      BY <3>3, <3>4 DEF RouterInv
  <2> QED
    BY <1>3, <2>2, <2>3 DEF Ack
<1>4. CASE Nack(r)
  <2>1. /\ pc[r] = "nack" /\ link[r] = "up" => alert[r] \in Routable
        /\ UNCHANGED brokerVars
    BY <1>1, <1>4 DEF Nack, HandlerInv
  <2>2. CASE Write(r, Answer(alert[r], "requeue")) /\ Return(r) /\ UNCHANGED pubChan
    BY <1>4, <2>1, <2>2, AnswerLocal DEF Nack
  <2>3. CASE link[r] \in {"broken", "closed"} /\ Exit(r) /\ UNCHANGED wire
    BY <2>1, <2>3, ExitLocal
  <2> QED
    BY <1>4, <2>2, <2>3 DEF Nack
<1> QED
  BY <1>2, <1>3, <1>4, MatchLocal, DeclareRouteLocal, PublishRouteLocal,
     DeclareDlqLocal, PublishDlqLocal DEF Handle

(* A handler step changes nothing of another router, stores nothing and    *)
(* moves no alert.                                                         *)
LEMMA HandleFrame ==
  ASSUME TypeOK, NEW r \in Routers, Handle(r)
  PROVE  /\ UNCHANGED <<place, copies, faults>>
         /\ declared \subseteq declared'
         /\ \A s \in Routers \ {r} :
              /\ wire'[s] = wire[s] /\ link'[s] = link[s]
              /\ pubChan'[s] = pubChan[s]
              /\ pc'[s] = pc[s] /\ alert'[s] = alert[s]
<1> USE DEF TypeOK, Goto, Return, Exit, Write, ConnectionRaises,
            DeclareAnswered, DeclareRaises, brokerVars
<1>1. CASE RejectMalformed(r)
  BY <1>1 DEF RejectMalformed
<1>2. CASE MatchRoute(r)
  BY <1>2 DEF MatchRoute
<1>3. CASE DeclareRoute(r)
  BY <1>3 DEF DeclareRoute
<1>4. CASE PublishRoute(r)
  BY <1>4 DEF PublishRoute
<1>5. CASE DeclareDlq(r)
  BY <1>5 DEF DeclareDlq
<1>6. CASE PublishDlq(r)
  BY <1>6 DEF PublishDlq
<1>7. CASE Ack(r)
  BY <1>7 DEF Ack
<1>8. CASE Nack(r)
  BY <1>8 DEF Nack
<1> QED
  BY <1>1, <1>2, <1>3, <1>4, <1>5, <1>6, <1>7, <1>8 DEF Handle

(* A handler step does not give back a used-up delivery: the only step a   *)
(* router about to ack can take on a live connection is the ack.           *)
LEMMA HandleSpent ==
  ASSUME IndInv, NEW r \in Routers, Handle(r), NEW a \in Alerts, Spent(a)
  PROVE  Spent(a)'
<1>1. TypeOK /\ RouterInv(r)
  BY DEF IndInv
<1>2. UNCHANGED place
  BY <1>1, HandleFrame
<1>3. CASE place[a] = "acked"
  BY <1>2, <1>3 DEF Spent
<1>4. CASE \E s \in Routers \ {r} :
             /\ place[a] = s
             /\ \/ wire[s] = <<>> /\ pc[s] = "ack"
                \/ wire[s] = <<Answer(a, "ack")>>
  BY <1>1, <1>2, <1>4, HandleFrame DEF Spent
<1>5. CASE /\ place[a] = r
           /\ \/ wire[r] = <<>> /\ pc[r] = "ack"
              \/ wire[r] = <<Answer(a, "ack")>>
  <2>1. pc[r] \notin {"down", "idle"}
    BY DEF Handle, RejectMalformed, MatchRoute, DeclareRoute, PublishRoute,
           DeclareDlq, PublishDlq, Ack, Nack
  <2>2. link[r] = "up" /\ alert[r] = a
    BY <1>5, <2>1, BusyRouter DEF HoldsNothing, Holds
  <2>3. wire[r] = <<>> /\ pc[r] = "ack"
    BY <1>5, <2>1, <2>2, BusyRouter, WiresDiffer, ShortWires
  <2>4. Ack(r)
    BY <2>3 DEF Handle, RejectMalformed, MatchRoute, DeclareRoute, PublishRoute,
                DeclareDlq, PublishDlq, Nack
  <2>5. Write(r, Answer(a, "ack"))
    BY <1>1, <2>2, <2>4, RaiseEffect DEF Ack
  <2>6. wire'[r] = <<Answer(a, "ack")>>
    BY <1>1, <2>2, <2>3, <2>5, WriteEffect, ShortWires
  <2> QED
    BY <1>2, <1>5, <2>6 DEF Spent
<1> QED
  BY <1>3, <1>4, <1>5 DEF Spent

(* Handler steps preserve the inductive invariant. *)
LEMMA HandleInd ==
  ASSUME IndInv, NEW r \in Routers, Handle(r)
  PROVE  IndInv'
<1>1. TypeOK /\ HandlerInv(r) /\ OutcomeInv /\ CopiesInv
  BY DEF IndInv, RouterInv
<1>2. TypeOK'
  BY <1>1, HandleType
<1>3. UNCHANGED <<place, copies, faults>>
  BY <1>1, HandleFrame
<1>4. ASSUME NEW s \in Routers PROVE RouterInv(s)'
  <2>1. CASE s = r
    BY <2>1, HandleLocal
  <2>2. CASE s # r
    <3>1. RouterInv(s)
      BY DEF IndInv
    <3>2. \A a \in Alerts : Stored(a) => Stored(a)'
      BY <1>3 DEF Stored
    <3> QED
      BY <1>1, <1>3, <2>2, <3>1, <3>2, HandleFrame, Undisturbed
  <2> QED
    BY <2>1, <2>2
<1>5. OutcomeInv'
  BY <1>1, <1>3 DEF OutcomeInv, Stored
<1>6. CopiesInv'
  BY <1>1, <1>3, HandleSpent, SameCopies
<1> QED
  BY <1>2, <1>4, <1>5, <1>6 DEF IndInv

-------------------------------------------------------------------------------
(* Connections come and go. *)

(* Starting a router, or giving up a connection it knows is lost. *)
LEMMA StartInd ==
  ASSUME IndInv, NEW r \in Routers, Start(r) \/ NoticeLoss(r)
  PROVE  IndInv'
<1>1. TypeOK /\ RouterInv(r) /\ OutcomeInv /\ CopiesInv
  BY DEF IndInv
<1>2. TypeOK'
  BY <1>1, OtherType
<1>3. UNCHANGED <<place, copies, wire, faults>> /\ declared \subseteq declared'
  BY DEF Start, NoticeLoss, brokerVars
<1>4. HoldsNothing(r) /\ wire[r] = <<>> /\ alert[r] = NoAlert /\ pc[r] # "ack"
  BY <1>1 DEF Start, NoticeLoss, RouterInv, HandlerInv, WireInv
<1>5. ASSUME NEW s \in Routers PROVE RouterInv(s)'
  <2>1. \A a \in Alerts : Stored(a) => Stored(a)'
    BY <1>3 DEF Stored
  <2>2. CASE s # r
    <3>1. /\ link'[s] = link[s] /\ pubChan'[s] = pubChan[s]
          /\ pc'[s] = pc[s] /\ alert'[s] = alert[s]
      BY <1>1, <2>2 DEF Start, NoticeLoss, Exit, Goto, TypeOK
    <3> QED
      BY <1>1, <1>3, <2>1, <3>1, Undisturbed DEF IndInv
  <2>3. CASE Start(r) /\ s = r
    <3>1. /\ pc'[r] = "idle" /\ link'[r] = "up" /\ pubChan'[r] = "open"
          /\ alert'[r] = NoAlert
      BY <1>1, <1>4, <2>3 DEF Start, Goto, TypeOK
    <3>2. HandlerInv(r)'
      BY <3>1 DEF HandlerInv
    <3>3. WireInv(r)' /\ StorageInv(r)'
      BY <1>3, <1>4, <3>1 DEF WireInv, StorageInv, HoldsNothing
    <3> QED
      BY <2>3, <3>2, <3>3 DEF RouterInv
  <2>4. CASE NoticeLoss(r) /\ s = r
    BY <2>4, ExitLocal DEF NoticeLoss
  <2> QED
    BY <2>2, <2>3, <2>4
<1>6. OutcomeInv'
  BY <1>1, <1>3 DEF OutcomeInv, Stored
<1>7. CopiesInv'
  <2>1. ASSUME NEW a \in Alerts, Spent(a) PROVE Spent(a)'
    <3>1. CASE place[a] = "acked"
      BY <1>3, <3>1 DEF Spent
    <3>2. CASE \E s \in Routers : /\ place[a] = s
                                  /\ \/ wire[s] = <<>> /\ pc[s] = "ack"
                                     \/ wire[s] = <<Answer(a, "ack")>>
      <4>1. PICK s \in Routers : /\ place[a] = s
                                 /\ \/ wire[s] = <<>> /\ pc[s] = "ack"
                                    \/ wire[s] = <<Answer(a, "ack")>>
        BY <3>2
      <4>2. s # r
        BY <1>4, <4>1 DEF HoldsNothing
      <4>3. pc'[s] = pc[s]
        BY <1>1, <4>2 DEF Start, NoticeLoss, Exit, Goto, TypeOK
      <4> QED
        BY <1>3, <4>1, <4>3 DEF Spent
    <3> QED
      BY <2>1, <3>1, <3>2 DEF Spent
  <2> QED
    BY <1>1, <1>3, <2>1, SameCopies
<1> QED
  BY <1>2, <1>5, <1>6, <1>7 DEF IndInv

(* Faults: what was held returns to the queue, and the duplicate bound     *)
(* grows by the fault that may have cost one.                              *)
LEMMA FaultInd ==
  ASSUME IndInv, NEW r \in Routers, LoseConnection(r) \/ Crash(r) \/ Stop(r)
  PROVE  IndInv'
<1>1. TypeOK /\ RouterInv(r) /\ OutcomeInv /\ CopiesInv
  BY DEF IndInv
<1>2. TypeOK'
  BY <1>1, OtherType
<1>3. /\ UNCHANGED <<copies, declared>> /\ faults' = faults + 1
      /\ wire'[r] = <<>>
      /\ \A s \in Routers \ {r} :
           /\ wire'[s] = wire[s] /\ link'[s] = link[s]
           /\ pubChan'[s] = pubChan[s]
           /\ pc'[s] = pc[s] /\ alert'[s] = alert[s]
  BY <1>1 DEF LoseConnection, Crash, Stop, Fault, Exit, Goto, TypeOK, brokerVars
<1>4. place' = Requeued(r) \/ (place' = place /\ HoldsNothing(r))
  BY <1>1, RoutingAssumption, ShortWires
     DEF LoseConnection, Crash, Stop, brokerVars, RouterInv, WireInv, HandlerInv,
         Fault
<1>5. \A a \in Alerts : /\ place[a] = r => place'[a] = "ready"
                        /\ place[a] # r => place'[a] = place[a]
  BY <1>4 DEF Requeued, HoldsNothing
<1>6. "ready" \notin Routers
  BY RoutingAssumption
<1>7. ASSUME NEW s \in Routers PROVE RouterInv(s)'
  <2>1. CASE s # r
    <3>1. \A a \in Alerts : Stored(a) => Stored(a)'
      BY <1>3 DEF Stored
    <3>2. \A a \in Alerts : place'[a] = s <=> place[a] = s
      BY <1>5, <1>6, <2>1
    <3> QED
      BY <1>1, <1>3, <2>1, <3>1, <3>2, Undisturbed DEF IndInv
  <2>2. CASE s = r
    <3>1. HoldsNothing(r)'
      BY <1>5, <1>6 DEF HoldsNothing
    <3>2. \/ /\ link[r] = "up" /\ link'[r] = "broken"
             /\ UNCHANGED <<pubChan, pc, alert>>
          \/ /\ link'[r] = "none" /\ pc'[r] = "down" /\ alert'[r] = NoAlert
      BY <1>1 DEF LoseConnection, Crash, Stop, Exit, Goto, TypeOK
    <3>3. HandlerInv(r)'
      BY <1>1, <1>3, <3>2 DEF RouterInv, HandlerInv
    <3>4. WireInv(r)' /\ StorageInv(r)'
      BY <1>3, <3>1, <3>2 DEF WireInv, StorageInv, HoldsNothing
    <3> QED
      BY <2>2, <3>3, <3>4 DEF RouterInv
  <2> QED
    BY <2>1, <2>2
<1>8. OutcomeInv'
  <2>1. \A a \in Alerts : /\ place'[a] = "acked" => place[a] = "acked"
                          /\ place'[a] = "dropped" => place[a] = "dropped"
    BY <1>5
  <2> QED
    BY <1>1, <1>3, <2>1 DEF OutcomeInv, Stored
<1>9. CopiesInv'
  <2> SUFFICES ASSUME NEW a \in Alerts
               PROVE  copies[Destination(a)][a]
                        <= faults' + (IF Spent(a)' THEN 1 ELSE 0)
    BY <1>3 DEF CopiesInv
  <2>1. copies[Destination(a)][a] <= faults + (IF Spent(a) THEN 1 ELSE 0)
    BY <1>1 DEF CopiesInv
  <2>2. copies[Destination(a)][a] \in Nat /\ faults \in Nat
    BY <1>1, DestinationType, RoutingAssumption DEF TypeOK
  <2>3. CASE Spent(a)'
    <3>1. copies[Destination(a)][a] <= faults + 1
      BY <2>1, <2>2
    <3> QED
      BY <1>3, <2>2, <2>3, <3>1
  <2>4. CASE ~ Spent(a)'
    <3>1. copies[Destination(a)][a] <= faults + 1
      BY <2>1, <2>2
    <3> QED
      BY <1>3, <2>2, <2>4, <3>1
  <2> QED
    BY <2>3, <2>4
<1> QED
  BY <1>2, <1>7, <1>8, <1>9 DEF IndInv

-------------------------------------------------------------------------------
(* The broker. *)

(* An alert that no router held is published, or delivered to a router     *)
(* that holds nothing.                                                     *)
LEMMA DeliverInd ==
  ASSUME IndInv, NEW a \in Alerts,
         Publish(a) \/ (\E r \in Routers : Deliver(r, a))
  PROVE  IndInv'
<1>1. TypeOK /\ OutcomeInv /\ CopiesInv
  BY DEF IndInv
<1>2. /\ TypeOK' /\ UNCHANGED <<copies, declared, wire, link, pubChan, faults>>
  <2>1. CASE Publish(a)
    BY <1>1, <2>1, PublishType DEF Publish, routerVars
  <2>2. CASE \E r \in Routers : Deliver(r, a)
    BY <1>1, <2>2, OtherType DEF Deliver
  <2> QED
    BY <2>1, <2>2
<1>3. /\ place[a] \in {"unsent", "ready"} /\ place[a] \notin Routers
      /\ \A b \in Alerts \ {a} : place'[b] = place[b]
  BY <1>1, RoutingAssumption DEF Publish, Deliver, TypeOK
<1>4. \A b \in Alerts : Stored(b) => Stored(b)'
  BY <1>2 DEF Stored
<1>5. CASE Publish(a)
  <2>1. place'[a] = "ready" /\ "ready" \notin Routers
        /\ UNCHANGED <<pc, alert>>
    BY <1>1, <1>5, RoutingAssumption DEF Publish, TypeOK, routerVars
  <2>2. ASSUME NEW s \in Routers PROVE RouterInv(s)'
    <3>1. \A b \in Alerts : place'[b] = s <=> place[b] = s
      BY <1>3, <2>1
    <3>2. RouterInv(s)
      BY DEF IndInv
    <3> QED
      BY <1>1, <1>2, <1>4, <2>1, <3>1, <3>2, Undisturbed
  <2>3. OutcomeInv'
    BY <1>1, <1>2, <1>3, <2>1 DEF OutcomeInv, Stored
  <2>4. ASSUME NEW b \in Alerts, Spent(b) PROVE Spent(b)'
    <3>1. b # a
      BY <1>3, <2>4 DEF Spent
    <3> QED
      BY <1>2, <1>3, <2>1, <2>4, <3>1 DEF Spent
  <2> QED
    BY <1>1, <1>2, <2>2, <2>3, <2>4, SameCopies DEF IndInv
<1>6. ASSUME NEW r \in Routers, Deliver(r, a) PROVE IndInv'
  <2>1. RouterInv(r)
    BY DEF IndInv
  <2>2. /\ place'[a] = r /\ pc'[r] = "received" /\ alert'[r] = a
        /\ pc[r] = "idle" /\ link[r] = "up" /\ HoldsNothing(r)
        /\ a # NoAlert
    BY <1>1, <1>6, RoutingAssumption DEF Deliver, TypeOK, Goto, HoldsNothing
  <2>3. alert[r] = NoAlert /\ wire[r] = <<>>
    BY <2>1, <2>2 DEF RouterInv, HandlerInv, WireInv, HoldsNothing, Holds
  <2>4. ASSUME NEW s \in Routers PROVE RouterInv(s)'
    <3>1. CASE s # r
      <4>1. pc'[s] = pc[s] /\ alert'[s] = alert[s]
        BY <1>1, <1>6, <3>1 DEF Deliver, TypeOK, Goto
      <4>2. \A b \in Alerts : place'[b] = s <=> place[b] = s
        BY <1>3, <2>2, <3>1
      <4>3. RouterInv(s)
        BY DEF IndInv
      <4> QED
        BY <1>1, <1>2, <1>4, <4>1, <4>2, <4>3, Undisturbed
    <3>2. CASE s = r
      <4>1. HandlerInv(r)'
        BY <1>2, <2>1, <2>2 DEF RouterInv, HandlerInv
      <4>2. Holds(r, a)'
        BY <1>3, <2>2 DEF Holds, HoldsNothing
      <4>3. WireInv(r)'
        BY <1>2, <2>2, <2>3, <4>2 DEF WireInv
      <4>4. StorageInv(r)'
        BY <1>2, <2>2, <2>3, ShortWires DEF StorageInv
      <4> QED
        BY <3>2, <4>1, <4>3, <4>4 DEF RouterInv
    <3> QED
      BY <3>1, <3>2
  <2>5. OutcomeInv'
    BY <1>1, <1>2, <1>3, <2>2, RoutingAssumption DEF OutcomeInv, Stored
  <2>6. ASSUME NEW b \in Alerts, Spent(b) PROVE Spent(b)'
    <3>1. b # a
      BY <1>3, <2>6 DEF Spent
    <3>2. place[b] # r
      BY <2>2 DEF HoldsNothing
    <3>3. \A s \in Routers \ {r} : pc'[s] = pc[s]
      BY <1>1, <1>6 DEF Deliver, TypeOK, Goto
    <3> QED
      BY <1>2, <1>3, <2>6, <3>1, <3>2, <3>3 DEF Spent
  <2> QED
    BY <1>1, <1>2, <2>4, <2>5, <2>6, SameCopies DEF IndInv
<1> QED
  BY <1>5, <1>6

(* What the broker can find at the head of a wire: the publish of the      *)
(* alert it holds for the router, or its answer.                           *)
LEMMA ReceiveCases ==
  ASSUME IndInv, NEW r \in Routers, Receive(r)
  PROVE  /\ link[r] = "up"
         /\ UNCHANGED <<declared, link, pubChan, pc, alert, faults>>
         /\ \A s \in Routers \ {r} : wire'[s] = wire[s]
         /\ \E a \in Alerts :
              /\ Holds(r, a)
              /\ \/ /\ a \notin Malformed /\ Destination(a) \in declared
                    /\ \/ /\ wire[r] = <<Published(a)>> /\ wire'[r] = <<>>
                          /\ pc[r] = "ack" /\ alert[r] = a
                       \/ /\ wire[r] = <<Published(a), Answer(a, "ack")>>
                          /\ wire'[r] = <<Answer(a, "ack")>>
                          /\ pc[r] = "idle" /\ alert[r] = NoAlert
                    /\ copies' = [copies EXCEPT ![Destination(a)][a] = @ + 1]
                    /\ UNCHANGED place
                 \/ /\ wire'[r] = <<>> /\ UNCHANGED copies
                    /\ pc[r] = "idle" /\ alert[r] = NoAlert
                    /\ \/ /\ a \notin Malformed /\ wire[r] = <<Answer(a, "ack")>>
                          /\ place' = [place EXCEPT ![a] = "acked"]
                       \/ /\ a \in Routable /\ wire[r] = <<Answer(a, "requeue")>>
                          /\ place' = [place EXCEPT ![a] = "ready"]
                       \/ /\ a \in Malformed /\ wire[r] = <<Answer(a, "reject")>>
                          /\ place' = [place EXCEPT ![a] = "dropped"]
<1>1. TypeOK /\ RouterInv(r) /\ wire[r] # <<>>
  BY DEF IndInv, Receive
<1>2. link[r] = "up"
  BY <1>1 DEF RouterInv, WireInv
<1>3. /\ UNCHANGED <<declared, link, pubChan, pc, alert, faults>>
      /\ wire' = [wire EXCEPT ![r] = Tail(wire[r])]
  BY <1>1, ReceiveWire DEF Receive, routerVars
<1>4. wire'[r] = Tail(wire[r]) /\ \A s \in Routers \ {r} : wire'[s] = wire[s]
  BY <1>1, <1>3 DEF TypeOK
<1>5. CASE alert[r] # NoAlert
  <2>1. PICK a \in Alerts : a = alert[r]
    BY <1>1, <1>5 DEF TypeOK
  <2>2. Holds(r, a) /\ pc[r] = "ack" /\ wire[r] = <<Published(a)>>
    BY <1>1, <1>2, <1>5, <2>1 DEF RouterInv, WireInv
  <2>3. a \notin Malformed /\ Destination(a) \in declared
    BY <1>1, <2>1, <2>2, ShortWires DEF RouterInv, HandlerInv, StorageInv, Holds
  <2>4. Head(wire[r]) = Published(a) /\ wire'[r] = <<>>
    BY <1>4, <2>2, ShortWires
  <2>5. copies' = [copies EXCEPT ![Destination(a)][a] = @ + 1] /\ UNCHANGED place
    BY <2>3, <2>4, FrameFacts, DestinationType DEF Receive, Published
  <2> QED
    BY <1>2, <1>3, <1>4, <2>1, <2>2, <2>3, <2>4, <2>5
<1>6. CASE alert[r] = NoAlert
  <2>1. PICK a \in Alerts :
          /\ Holds(r, a)
          /\ \/ a \notin Malformed /\ wire[r] = <<Published(a), Answer(a, "ack")>>
             \/ a \notin Malformed /\ wire[r] = <<Answer(a, "ack")>>
             \/ a \in Routable    /\ wire[r] = <<Answer(a, "requeue")>>
             \/ a \in Malformed   /\ wire[r] = <<Answer(a, "reject")>>
    BY <1>1, <1>2, <1>6 DEF RouterInv, WireInv
  <2>2. pc[r] = "idle"
    BY <1>1, <1>2, <1>6 DEF RouterInv, HandlerInv
  <2>3. CASE a \notin Malformed /\ wire[r] = <<Published(a), Answer(a, "ack")>>
    <3>1. Destination(a) \in declared
      BY <1>1, <2>1, <2>3, ShortWires DEF RouterInv, StorageInv, Holds
    <3>2. Head(wire[r]) = Published(a) /\ wire'[r] = <<Answer(a, "ack")>>
      BY <1>4, <2>3, ShortWires
    <3>3. copies' = [copies EXCEPT ![Destination(a)][a] = @ + 1] /\ UNCHANGED place
      BY <3>1, <3>2, FrameFacts, DestinationType DEF Receive, Published
    <3> QED
      BY <1>2, <1>3, <1>4, <1>6, <2>1, <2>2, <2>3, <3>1, <3>2, <3>3
  <2>4. ASSUME NEW t \in {"ack", "requeue", "reject"}, wire[r] = <<Answer(a, t)>>
        PROVE  /\ wire'[r] = <<>> /\ UNCHANGED copies
               /\ t = "ack" => place' = [place EXCEPT ![a] = "acked"]
               /\ t = "requeue" => place' = [place EXCEPT ![a] = "ready"]
               /\ t = "reject" => place' = [place EXCEPT ![a] = "dropped"]
    <3>1. Head(wire[r]) = Answer(a, t) /\ wire'[r] = <<>>
      BY <1>4, <2>4, ShortWires
    <3>2. Head(wire[r]).type = t /\ Head(wire[r]).alert = a
      BY <3>1, FrameFacts
    <3> QED
      BY <3>1, <3>2 DEF Receive
  <2> QED
    BY <1>2, <1>3, <1>4, <1>6, <2>1, <2>2, <2>3, <2>4
<1> QED
  BY <1>5, <1>6

(* The broker stores the copy on the wire: the alert is stored, and its    *)
(* delivery used up.                                                       *)
LEMMA ReceivePublishInd ==
  ASSUME IndInv, TypeOK', NEW r \in Routers, NEW a \in Alerts,
         UNCHANGED <<place, declared, link, pubChan, pc, alert, faults>>,
         \A s \in Routers \ {r} : wire'[s] = wire[s],
         Holds(r, a), link[r] = "up",
         a \notin Malformed, Destination(a) \in declared,
         copies' = [copies EXCEPT ![Destination(a)][a] = @ + 1],
         \/ /\ wire[r] = <<Published(a)>> /\ wire'[r] = <<>>
            /\ pc[r] = "ack" /\ alert[r] = a
         \/ /\ wire[r] = <<Published(a), Answer(a, "ack")>>
            /\ wire'[r] = <<Answer(a, "ack")>>
            /\ pc[r] = "idle" /\ alert[r] = NoAlert
  PROVE  IndInv'
<1>1. TypeOK /\ RouterInv(r) /\ OutcomeInv /\ CopiesInv /\ place[a] = r
  BY DEF IndInv, Holds
<1>2. \A b \in Alerts : Destination(b) \in Queues /\ copies[Destination(b)][b] \in Nat
  BY <1>1, DestinationType DEF TypeOK
<1>3. /\ copies'[Destination(a)][a] = copies[Destination(a)][a] + 1
      /\ \A q \in Queues, b \in Alerts :
           q # Destination(a) \/ b # a => copies'[q][b] = copies[q][b]
  <2>1. PICK q \in Queues : q = Destination(a)
    BY <1>2
  <2>2. copies' = [copies EXCEPT ![q][a] = @ + 1]
    BY <2>1
  <2>3. /\ copies'[q][a] = copies[q][a] + 1
        /\ \A p \in Queues, b \in Alerts :
             p # q \/ b # a => copies'[p][b] = copies[p][b]
    BY <1>1, <2>2, AddCopy
  <2> QED
    BY <2>1, <2>3
<1>4. Stored(a)' /\ \A b \in Alerts : Stored(b) => Stored(b)'
  BY <1>2, <1>3 DEF Stored
<1>5. ASSUME NEW s \in Routers PROVE RouterInv(s)'
  <2>1. CASE s # r
    BY <1>1, <1>4, <2>1, Undisturbed DEF IndInv
  <2>2. CASE s = r
    <3>1. HandlerInv(r)'
      BY <1>1 DEF RouterInv, HandlerInv
    <3>2. Holds(r, a)'
      BY DEF Holds
    <3>3. a # NoAlert
      BY RoutingAssumption
    <3>4. WireInv(r)'
      BY <3>2, <3>3 DEF WireInv
    <3>5. \A b \in Alerts : place[b] = r => b = a
      BY DEF Holds
    <3>6. StorageInv(r)'
      BY <1>4, <3>5, ShortWires, WiresDiffer DEF StorageInv
    <3> QED
      BY <2>2, <3>1, <3>4, <3>6 DEF RouterInv
  <2> QED
    BY <2>1, <2>2
<1>6. OutcomeInv'
  <2>1. \A b \in Alerts : place[b] = "acked" /\ Guaranteed(b) => Stored(b)'
    BY <1>1, <1>4 DEF OutcomeInv
  <2>2. \A q \in Queues, b \in Alerts :
          copies'[q][b] > 0 => q = Destination(b) /\ b \notin Malformed
    BY <1>1, <1>3 DEF OutcomeInv
  <2> QED
    BY <1>1, <2>1, <2>2 DEF OutcomeInv
<1>7. CopiesInv'
  <2> SUFFICES ASSUME NEW b \in Alerts
               PROVE  copies'[Destination(b)][b]
                        <= faults + (IF Spent(b)' THEN 1 ELSE 0)
    BY DEF CopiesInv
  <2>1. copies[Destination(b)][b] <= faults + (IF Spent(b) THEN 1 ELSE 0)
    BY <1>1 DEF CopiesInv
  <2>2. faults \in Nat
    BY <1>1, RoutingAssumption DEF TypeOK
  <2>3. CASE b = a
    <3>1. ~ Spent(a)
      <4>1. a \notin {b2 \in Alerts : place[b2] = "acked"}
        BY <1>1, RoutingAssumption
      <4>2. wire[r] # <<>> /\ wire[r] # <<Answer(a, "ack")>>
        BY ShortWires, WiresDiffer
      <4> QED
        BY <1>1, <4>1, <4>2 DEF Spent
    <3>2. Spent(a)'
      BY <1>1 DEF Spent
    <3> QED
      BY <1>2, <1>3, <2>1, <2>2, <2>3, <3>1, <3>2
  <2>4. CASE b # a
    <3>1. copies'[Destination(b)][b] = copies[Destination(b)][b]
      BY <1>2, <1>3, <2>4
    <3>2. Spent(b) => Spent(b)'
      <4>1. place[b] # r
        BY <2>4 DEF Holds
      <4> QED
        BY <4>1 DEF Spent
    <3> QED
      BY <1>2, <2>1, <2>2, <3>1, <3>2
  <2> QED
    BY <2>3, <2>4
<1> QED
  BY <1>5, <1>6, <1>7 DEF IndInv

(* The broker reads an answer: the alert leaves the router. *)
LEMMA ReceiveAnswerInd ==
  ASSUME IndInv, TypeOK', NEW r \in Routers, NEW a \in Alerts,
         UNCHANGED <<copies, declared, link, pubChan, pc, alert, faults>>,
         \A s \in Routers \ {r} : wire'[s] = wire[s],
         Holds(r, a), link[r] = "up", pc[r] = "idle", alert[r] = NoAlert,
         wire'[r] = <<>>,
         \/ /\ a \notin Malformed /\ wire[r] = <<Answer(a, "ack")>>
            /\ place' = [place EXCEPT ![a] = "acked"]
         \/ /\ a \in Routable /\ wire[r] = <<Answer(a, "requeue")>>
            /\ place' = [place EXCEPT ![a] = "ready"]
         \/ /\ a \in Malformed /\ wire[r] = <<Answer(a, "reject")>>
            /\ place' = [place EXCEPT ![a] = "dropped"]
  PROVE  IndInv'
<1>1. TypeOK /\ RouterInv(r) /\ OutcomeInv /\ CopiesInv /\ place[a] = r
  BY DEF IndInv, Holds
<1>2. /\ place'[a] \in {"acked", "ready", "dropped"} /\ place'[a] \notin Routers
      /\ \A b \in Alerts \ {a} : place'[b] = place[b]
      /\ \A b \in Alerts \ {a} : place[b] # r
  BY <1>1, RoutingAssumption DEF TypeOK, Holds
<1>3. \A b \in Alerts : Stored(b) => Stored(b)'
  BY DEF Stored
<1>4. ASSUME NEW s \in Routers PROVE RouterInv(s)'
  <2>1. CASE s # r
    <3>1. \A b \in Alerts : place'[b] = s <=> place[b] = s
      BY <1>1, <1>2, <2>1
    <3> QED
      BY <1>1, <1>3, <2>1, <3>1, Undisturbed DEF IndInv
  <2>2. CASE s = r
    <3>1. HandlerInv(r)'
      BY <1>1 DEF RouterInv, HandlerInv
    <3>2. HoldsNothing(r)'
      BY <1>2 DEF HoldsNothing
    <3>3. WireInv(r)' /\ StorageInv(r)'
      BY <3>2 DEF WireInv, StorageInv, HoldsNothing
    <3> QED
      BY <2>2, <3>1, <3>3 DEF RouterInv
  <2> QED
    BY <2>1, <2>2
<1>5. OutcomeInv'
  <2>1. wire[r] = <<Answer(a, "ack")>> /\ Guaranteed(a) => Stored(a)
    BY <1>1 DEF RouterInv, StorageInv
  <2>2. /\ place'[a] = "acked" => a \notin Malformed /\ wire[r] = <<Answer(a, "ack")>>
        /\ place'[a] = "dropped" => a \in Malformed
    BY <1>1, <1>2 DEF TypeOK
  <2> QED
    BY <1>1, <1>2, <1>3, <2>1, <2>2 DEF OutcomeInv, Stored
<1>6. ASSUME NEW b \in Alerts, Spent(b) PROVE Spent(b)'
  <2>1. CASE b = a
    <3>1. wire[r] = <<Answer(a, "ack")>>
      BY <1>1, <1>6, <2>1, RoutingAssumption, ShortWires DEF Spent
    <3>2. place'[a] = "acked"
      BY <1>1, <3>1, WiresDiffer DEF TypeOK
    <3> QED
      BY <2>1, <3>2 DEF Spent
  <2>2. CASE b # a
    BY <1>2, <1>6, <2>2 DEF Spent
  <2> QED
    BY <2>1, <2>2
<1>7. CopiesInv'
  BY <1>1, <1>6, SameCopies
<1> QED
  BY <1>4, <1>5, <1>7 DEF IndInv

(* What the broker reads preserves the inductive invariant. *)
LEMMA ReceiveInd ==
  ASSUME IndInv, NEW r \in Routers, Receive(r)
  PROVE  IndInv'
<1>1. TypeOK'
  BY OtherType DEF IndInv
<1> QED
  BY <1>1, ReceiveCases, ReceivePublishInd, ReceiveAnswerInd

-------------------------------------------------------------------------------
(* The theorems. *)

(* The initial state satisfies the inductive invariant. *)
LEMMA InitInd == Init => IndInv
<1> SUFFICES ASSUME Init PROVE IndInv
  OBVIOUS
<1>1. TypeOK
  BY InitTypeOK
<1>2. ASSUME NEW r \in Routers PROVE RouterInv(r)
  <2>1. HoldsNothing(r)
    BY RoutingAssumption DEF Init, HoldsNothing
  <2>2. HandlerInv(r)
    BY DEF Init, HandlerInv
  <2>3. WireInv(r) /\ StorageInv(r)
    BY <2>1 DEF Init, WireInv, StorageInv, HoldsNothing
  <2> QED
    BY <2>2, <2>3 DEF RouterInv
<1>3. /\ \A a \in Alerts : place[a] = "unsent"
      /\ \A q \in Queues, a \in Alerts : copies[q][a] = 0
      /\ faults = 0
  BY DEF Init
<1>4. OutcomeInv
  <2>1. ASSUME NEW q \in Queues, NEW a \in Alerts PROVE ~ (copies[q][a] > 0)
    <3>1. copies[q][a] = 0
      BY <1>3
    <3> QED
      BY <3>1
  <2> QED
    BY <1>3, <2>1 DEF OutcomeInv
<1>5. CopiesInv
  <2>1. \A a \in Alerts : copies[Destination(a)][a] = 0
    BY <1>3, DestinationType
  <2>2. \A a \in Alerts : 0 <= 0 + (IF Spent(a) THEN 1 ELSE 0)
    OBVIOUS
  <2> QED
    BY <1>3, <2>1, <2>2 DEF CopiesInv
<1> QED
  BY <1>1, <1>2, <1>4, <1>5 DEF IndInv

(* Every step preserves it. *)
LEMMA NextInd == IndInv /\ [Next]_vars => IndInv'
<1> SUFFICES ASSUME IndInv, [Next]_vars PROVE IndInv'
  OBVIOUS
<1>1. CASE Next
  <2>1. ASSUME NEW a \in Alerts, Publish(a) PROVE IndInv'
    BY <2>1, DeliverInd
  <2>2. ASSUME NEW r \in Routers, Handle(r) PROVE IndInv'
    BY <2>2, HandleInd
  <2>3. ASSUME NEW r \in Routers, Start(r) \/ NoticeLoss(r) PROVE IndInv'
    BY <2>3, StartInd
  <2>4. ASSUME NEW r \in Routers, NEW a \in Alerts, Deliver(r, a) PROVE IndInv'
    BY <2>4, DeliverInd
  <2>5. ASSUME NEW r \in Routers, Receive(r) PROVE IndInv'
    BY <2>5, ReceiveInd
  <2>6. ASSUME NEW r \in Routers, LoseConnection(r) \/ Crash(r) \/ Stop(r)
        PROVE  IndInv'
    BY <2>6, FaultInd
  <2> QED
    BY <1>1, <2>1, <2>2, <2>3, <2>4, <2>5, <2>6 DEF Next
<1>2. CASE UNCHANGED vars
  <2>1. TypeOK /\ OutcomeInv /\ CopiesInv
    BY DEF IndInv
  <2>2. TypeOK'
    BY <1>2, <2>1 DEF vars, TypeOK
  <2>3. ASSUME NEW r \in Routers PROVE RouterInv(r)'
    <3>1. RouterInv(r) /\ \A a \in Alerts : Stored(a) => Stored(a)'
      BY <1>2 DEF IndInv, vars, Stored
    <3> QED
      BY <1>2, <2>1, <3>1, Undisturbed DEF vars
  <2>4. OutcomeInv'
    BY <1>2, <2>1 DEF vars, OutcomeInv, Stored
  <2>5. \A a \in Alerts : Spent(a) => Spent(a)'
    BY <1>2 DEF vars, Spent
  <2>6. CopiesInv'
    BY <1>2, <2>1, <2>5, SameCopies DEF vars
  <2> QED
    BY <2>2, <2>3, <2>4, <2>6 DEF IndInv
<1> QED
  BY <1>1, <1>2

(* The inductive invariant holds in every reachable state. *)
THEOREM Invariance == Spec => []IndInv
BY InitInd, NextInd, PTL DEF Spec

(* Every variable of the router, its connection and the broker keeps its   *)
(* type.                                                                   *)
THEOREM TypeCorrect == Spec => []TypeOK
<1>1. IndInv => TypeOK
  BY DEF IndInv
<1> QED
  BY <1>1, Invariance, PTL

(* No alert with a route is ever lost by the router: it leaves the alerts  *)
(* queue only after its runbook queue has a copy, with any number of       *)
(* routers and faults and any set of refused queues.                       *)
THEOREM MatchedAlertsAreSafe == Spec => []MatchedAlertsSurvive
<1>1. IndInv => MatchedAlertsSurvive
  BY DEF IndInv, OutcomeInv, MatchedAlertsSurvive, Guaranteed, Stored, Routable
<1> QED
  BY <1>1, Invariance, PTL

(* If the broker refuses no runbook queue, an alert without a route is     *)
(* acked only when the dead-letter queue holds it.                         *)
THEOREM UnroutableAlertsAreSafe ==
  ASSUME RefusedQueues = {}
  PROVE  Spec => []UnroutableAlertsDeadLettered
<1>1. IndInv => UnroutableAlertsDeadLettered
  BY DestinationType
     DEF IndInv, OutcomeInv, UnroutableAlertsDeadLettered, Guaranteed, Stored,
         Unroutable, Routable
<1> QED
  BY <1>1, Invariance, PTL

(* Copies beyond the first are paid for by faults, for any number of them. *)
THEOREM DuplicatesAreBounded == Spec => []DuplicatesNeedFaults
<1>1. IndInv => DuplicatesNeedFaults
  <2> SUFFICES ASSUME IndInv, NEW q \in Queues, NEW a \in Alerts
               PROVE  copies[q][a] <= 1 + faults
    BY DEF DuplicatesNeedFaults
  <2>1. copies[q][a] \in Nat /\ faults \in Nat
    BY RoutingAssumption DEF IndInv, TypeOK
  <2>2. CASE copies[q][a] > 0
    <3>1. q = Destination(a)
      BY <2>2 DEF IndInv, OutcomeInv
    <3>2. copies[q][a] <= faults + (IF Spent(a) THEN 1 ELSE 0)
      BY <3>1 DEF IndInv, CopiesInv
    <3> QED
      BY <2>1, <3>2
  <2>3. CASE ~ (copies[q][a] > 0)
    BY <2>1, <2>3
  <2> QED
    BY <2>2, <2>3
<1> QED
  BY <1>1, Invariance, PTL

(* Every copy of an alert is in the queue of the first route that accepts  *)
(* it, or in the dead-letter queue when none does.                         *)
THEOREM CopiesHaveOneDestination == Spec => []OneDestination
<1>1. IndInv => OneDestination
  <2> SUFFICES ASSUME IndInv, NEW q \in Queues, NEW a \in Alerts, copies[q][a] > 0
               PROVE  /\ a \notin Malformed
                      /\ \/ /\ q = DLQ
                            /\ \A n \in RouteNames : Verdict[a][n] # "yes"
                         \/ \E i \in DOMAIN RouteOrder :
                              /\ q = QueueOf[RouteOrder[i]]
                              /\ Verdict[a][RouteOrder[i]] = "yes"
                              /\ \A j \in 1..(i - 1) :
                                   Verdict[a][RouteOrder[j]] # "yes"
    BY DEF OneDestination
  <2>1. q = Destination(a) /\ a \notin Malformed
    BY DEF IndInv, OutcomeInv
  <2>2. CASE a \in Routable
    BY <2>1, <2>2, MatchIsFirst DEF Destination
  <2>3. CASE a \notin Routable
    BY <2>1, <2>3 DEF Destination, Routable, Hits, RouteNames
  <2> QED
    BY <2>1, <2>2, <2>3
<1> QED
  BY <1>1, Invariance, PTL

(* With prefetch 1, the broker never waits for an answer that no handler   *)
(* will give.                                                              *)
THEOREM HeldAlertsAreInHand == Spec => []HeldAlertIsInHand
<1>1. IndInv => HeldAlertIsInHand
  <2> SUFFICES ASSUME IndInv, NEW a \in Alerts, NEW r \in Routers, place[a] = r,
                      alert[r] # a
               PROVE  /\ wire[r] # <<>>
                      /\ wire[r][Len(wire[r])].type # "publish"
                      /\ wire[r][Len(wire[r])].alert = a
    BY DEF HeldAlertIsInHand
  <2>1. WireInv(r)
    BY DEF IndInv, RouterInv
  <2>2. link[r] = "up" /\ alert[r] = NoAlert /\ ~ HoldsNothing(r)
    BY <2>1 DEF WireInv, HoldsNothing, Holds
  <2>3. PICK t \in {"ack", "requeue", "reject"} :
          \/ wire[r] = <<Published(a), Answer(a, "ack")>> /\ t = "ack"
          \/ wire[r] = <<Answer(a, t)>>
    BY <2>1, <2>2 DEF WireInv, Holds
  <2>4. wire[r] # <<>> /\ wire[r][Len(wire[r])] = Answer(a, t)
    <3>1. CASE wire[r] = <<Answer(a, t)>>
      BY <3>1, ShortWires
    <3>2. CASE wire[r] = <<Published(a), Answer(a, "ack")>> /\ t = "ack"
      <4>1. Len(wire[r]) = 2 /\ wire[r][2] = Answer(a, t) /\ wire[r] # <<>>
        BY <3>2, ShortWires
      <4> QED
        BY <4>1
    <3> QED
      BY <2>3, <3>1, <3>2
  <2> QED
    BY <2>4, FrameFacts
<1> QED
  BY <1>1, Invariance, PTL

-------------------------------------------------------------------------------
(* Refinement: the router implements AlertDelivery. *)

(* Only alerts that are unsent, acked or dropped are not "accepted". *)
LEMMA Phases ==
  /\ PhaseOf("unsent") = "unsent" /\ PhaseOf("acked") = "finished"
  /\ PhaseOf("dropped") = "discarded" /\ PhaseOf("ready") = "accepted"
  /\ \A r \in Routers : PhaseOf(r) = "accepted"
BY RoutingAssumption DEF PhaseOf

(* Every step of the router implements a step of AlertDelivery, or none. *)
LEMMA StepRefines ==
  ASSUME RefusedQueues = {}, IndInv, [Next]_vars
  PROVE  [Delivery!Next]_<<[a \in Alerts |-> PhaseOf(place[a])], copies>>
<1> DEFINE phase == [a \in Alerts |-> PhaseOf(place[a])]
<1>1. TypeOK
  BY DEF IndInv
<1> SUFFICES Delivery!Next \/ (phase' = phase /\ copies' = copies)
  OBVIOUS
<1>2. ASSUME NEW a \in Alerts, Publish(a)
      PROVE  Delivery!Accept(a)
  <2>1. phase[a] = "unsent" /\ copies' = copies
    BY <1>2, Phases DEF Publish
  <2>2. phase' = [phase EXCEPT ![a] = "accepted"]
    BY <1>1, <1>2, Phases DEF Publish, TypeOK
  <2> QED
    BY <2>1, <2>2 DEF Delivery!Accept, Delivery!Move
<1>3. ASSUME NEW r \in Routers, Receive(r)
      PROVE  Delivery!Next \/ (phase' = phase /\ copies' = copies)
  <2>1. PICK a \in Alerts :
          /\ Holds(r, a)
          /\ \/ /\ a \notin Malformed
                /\ copies' = [copies EXCEPT ![Destination(a)][a] = @ + 1]
                /\ UNCHANGED place
             \/ /\ UNCHANGED copies
                /\ \/ /\ a \notin Malformed /\ wire[r] = <<Answer(a, "ack")>>
                      /\ place' = [place EXCEPT ![a] = "acked"]
                   \/ place' = [place EXCEPT ![a] = "ready"]
                   \/ /\ a \in Malformed
                      /\ place' = [place EXCEPT ![a] = "dropped"]
    BY <1>3, ReceiveCases
  <2>2. place[a] = r /\ phase[a] = "accepted"
    BY <2>1, Phases DEF Holds
  <2>3. CASE /\ a \notin Malformed
             /\ copies' = [copies EXCEPT ![Destination(a)][a] = @ + 1]
             /\ UNCHANGED place
    BY <2>2, <2>3 DEF Delivery!Next, Delivery!Store
  <2>4. CASE /\ UNCHANGED copies /\ a \notin Malformed
             /\ wire[r] = <<Answer(a, "ack")>>
             /\ place' = [place EXCEPT ![a] = "acked"]
    <3>1. Guaranteed(a)
      BY <2>4 DEF Guaranteed, Routable, Unroutable
    <3>2. copies[Destination(a)][a] > 0
      BY <2>2, <2>4, <3>1 DEF IndInv, RouterInv, StorageInv, Stored
    <3>3. phase' = [phase EXCEPT ![a] = "finished"]
      BY <1>1, <2>4, Phases DEF TypeOK
    <3>4. Delivery!Finish(a)
      BY <2>2, <2>4, <3>2, <3>3 DEF Delivery!Finish, Delivery!Move
    <3> QED
      BY <3>4 DEF Delivery!Next
  <2>5. CASE UNCHANGED copies /\ place' = [place EXCEPT ![a] = "ready"]
    BY <1>1, <2>2, <2>5, Phases DEF TypeOK
  <2>6. CASE /\ UNCHANGED copies /\ a \in Malformed
             /\ place' = [place EXCEPT ![a] = "dropped"]
    <3>1. phase' = [phase EXCEPT ![a] = "discarded"]
      BY <1>1, <2>6, Phases DEF TypeOK
    <3>2. Delivery!Discard(a)
      BY <2>2, <2>6, <3>1 DEF Delivery!Discard, Delivery!Move
    <3> QED
      BY <3>2 DEF Delivery!Next
  <2> QED
    BY <2>1, <2>3, <2>4, <2>5, <2>6
<1>4. ASSUME NEW r \in Routers, Handle(r)
      PROVE  phase' = phase /\ copies' = copies
  BY <1>1, <1>4, HandleFrame
<1>5. ASSUME NEW r \in Routers, Start(r) \/ NoticeLoss(r) \/ Stop(r)
      PROVE  phase' = phase /\ copies' = copies
  BY <1>5 DEF Start, NoticeLoss, Stop, brokerVars
<1>6. ASSUME NEW r \in Routers, NEW a \in Alerts, Deliver(r, a)
      PROVE  phase' = phase /\ copies' = copies
  BY <1>1, <1>6, Phases DEF Deliver, TypeOK
<1>7. ASSUME NEW r \in Routers, LoseConnection(r) \/ Crash(r)
      PROVE  phase' = phase /\ copies' = copies
  <2>1. place' = Requeued(r) /\ copies' = copies
    BY <1>7 DEF LoseConnection, Crash
  <2> QED
    BY <2>1, Phases DEF Requeued
<1>8. CASE UNCHANGED vars
  BY <1>8 DEF vars
<1>9. CASE Next
  BY <1>2, <1>3, <1>4, <1>5, <1>6, <1>7, <1>9 DEF Next, Delivery!Next
<1> QED
  BY <1>8, <1>9

(* If the broker refuses no runbook queue, the routing stage delivers      *)
(* every alert at least once, to one queue, before it is done with it.     *)
THEOREM RoutingImplementsDelivery ==
  ASSUME RefusedQueues = {}
  PROVE  Spec => ImplementsDelivery
<1>1. Init => Delivery!Init
  BY Phases DEF Init, Delivery!Init
<1>2. IndInv /\ [Next]_vars
        => [Delivery!Next]_<<[a \in Alerts |-> PhaseOf(place[a])], copies>>
  BY StepRefines
<1> QED
  BY <1>1, <1>2, Invariance, PTL DEF Spec, ImplementsDelivery, Delivery!Spec

==============================================================================
