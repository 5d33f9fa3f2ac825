--------------------------- MODULE AlertDelivery -----------------------------
(***************************************************************************)
(* What the routing stage promises to the stages around it: at-least-once  *)
(* delivery of every alert to one target queue.                            *)
(***************************************************************************)
EXTENDS Naturals

CONSTANTS
  Alerts,     \* the alerts that may be accepted
  Malformed,  \* those that cannot be parsed and are discarded
  Queues,     \* the queues alerts are stored in
  Target      \* the one queue each alert belongs in

VARIABLES
  phase,   \* "unsent", "accepted", "finished" or "discarded", per alert
  stored   \* copies of each alert in each queue

Init ==
  /\ phase = [a \in Alerts |-> "unsent"]
  /\ stored = [q \in Queues |-> [a \in Alerts |-> 0]]

Move(a, from, to) ==
  /\ phase[a] = from
  /\ phase' = [phase EXCEPT ![a] = to]

Accept(a) == Move(a, "unsent", "accepted") /\ UNCHANGED stored

(* A copy is stored, at the target and only while the alert is accepted. *)
Store(a) ==
  /\ a \notin Malformed
  /\ phase[a] = "accepted"
  /\ stored' = [stored EXCEPT ![Target[a]][a] = @ + 1]
  /\ UNCHANGED phase

(* The alert is given up as the input stage's responsibility. *)
Finish(a) ==
  /\ a \notin Malformed
  /\ stored[Target[a]][a] > 0
  /\ Move(a, "accepted", "finished")
  /\ UNCHANGED stored

Discard(a) ==
  /\ a \in Malformed
  /\ Move(a, "accepted", "discarded")
  /\ UNCHANGED stored

Next == \E a \in Alerts : Accept(a) \/ Store(a) \/ Finish(a) \/ Discard(a)

Spec == Init /\ [][Next]_<<phase, stored>>

==============================================================================
