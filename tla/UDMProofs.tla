------------------------------- MODULE UDMProofs ------------------------------
(***************************************************************************)
(* Theorems about tengen/udm/: about FieldRegistry, for any fields,        *)
(* mappings, requests, updaters, decisions and faults, and then about      *)
(* UDMParser, for any calls of parse() and events of any size.             *)
(***************************************************************************)
EXTENDS FieldRegistry, UDMParser, TLAPS

(* The model fields at the tips of branches on which no updater is at work: *)
(* what a later step cannot take back.                                      *)
Safe == left \cup (IF Working = {} THEN tip ELSE {})

(* What an updater holds: the decision it read is not of the future and, if *)
(* it is still the last one, it was an approval; the model field it read is *)
(* the row's unless a request changed it; once it marks, it is on a branch, *)
(* unless the updater is unsafe.                                            *)
PlanHolds(u, f) ==
  /\ plan[u][f].number \in 0 .. decisions
  /\ \/ f \in stale \/ plan[u][f].number # decided[f].number
     \/ decided[f].status = "approved"
  /\ f \in unbacked \/ plan[u][f].model = ModelField(f)
  /\ updater[u] = "marking" /\ u \notin unsafe => plan[u][f].model \in Safe \cup Known

PlansHold == \A u \in Updaters : \A f \in DOMAIN plan[u] : PlanHolds(u, f)

(* What an updater that is alone on the checkout wrote and added is there. *)
GitHolds ==
  \A u \in Updaters \ unsafe :
    /\ updater[u] = "add" => file = NewOnModel(plan[u])
    /\ updater[u] = "commit" => index = NewOnModel(plan[u])

(* The model fields of promoted rows cannot be taken back. *)
Backed ==
  \A f \in Fields :
    status[f] = "promoted" /\ f \notin unbacked => ModelField(f) \in Safe \cup Known

(* What a request is about to write back agrees with the decision it read. *)
EchoHolds(q) ==
  \/ q.field \in stale \/ q.number # decided[q.field].number
  \/ q.status \in Outcomes(decided[q.field].status)

EchoesHold == \A r \in Requests : request[r].at = "echo" => EchoHolds(request[r])

(* A covered field is promoted, or is about to be. *)
CoveredAreMarked ==
  \A f \in covered :
    \/ status[f] = "promoted"
    \/ \E u \in Updaters : updater[u] = "marking" /\ f \in DOMAIN plan[u]

(* plan is a function of the updaters. *)
PlanShape == plan = [u \in Updaters |-> plan[u]]

(* The invariants, and what makes them inductive. *)
IndInv ==
  /\ TypeOK /\ PlanShape
  /\ PlansHold /\ GitHolds /\ Backed /\ EchoesHold /\ CoveredAreMarked
  /\ DecisionsStand /\ ProposedOnce

(* What may have become of a row, per decision.                            *)
LEMMA OutcomesOf ==
  /\ Outcomes("none") = {"absent", "new"}
  /\ Outcomes("approved") = {"approved", "promoted"}
  /\ \A s : s \notin {"none", "approved"} => Outcomes(s) = {s}
BY DEF Outcomes

(* Steps of others leave the branches and the checkout alone.              *)
LEMMA SafeSame ==
  UNCHANGED <<updaterVars, gitVars>> => Safe' = Safe /\ Working' = Working
BY DEF Safe, Working, updaterVars, gitVars

(* observe() writes no status but that of a row that did not exist.        *)
LEMMA ObserveInv ==
  ASSUME IndInv, NEW f \in Fields, Observe(f)
  PROVE  IndInv'
<1>1. TypeOK'
  <2>1. status' \in [Fields -> Statuses \cup {"absent"}] /\ Rows \subseteq Rows'
    BY DEF IndInv, TypeOK, Rows, Statuses, Observe
  <2>2. suggested' \in [Fields -> Mappings]
    BY <2>1, RegistryAssumption DEF IndInv, TypeOK, Observe, Map, Planned
  <2>3. (request \in [Requests -> {Idle} \cup [at : {"notes", "map"}, field : Rows]
                       \cup [at : {"echo"}, field : Rows, status : Statuses,
                             number : 0 .. decisions]])'
    BY <2>1 DEF IndInv, TypeOK, Observe
  <2>4. (/\ updater \in [Updaters -> {"idle", "checkout", "write", "add", "commit", "marking"}]
       /\ \A v \in Updaters :
            /\ DOMAIN plan[v] \subseteq Rows
            /\ updater[v] = "idle" <=> DOMAIN plan[v] = {})'
    BY <2>1 DEF IndInv, TypeOK, Observe, updaterVars
  <2>5. (decided \in [Fields -> [status : Statuses \cup {"none"}, number : 0 .. decisions]])'
    BY <2>1 DEF IndInv, TypeOK, Observe
  <2>6. (\A g \in Fields \ Rows : suggested[g] = NoSuggestion /\ decided[g].number = 0)'
    BY <2>1 DEF IndInv, TypeOK, Rows, Observe, Map
  <2>7. (/\ decisions \in 0 .. MaxDecisions /\ runs \in 0 .. MaxRuns /\ faults \in 0 .. MaxFaults
       /\ stale \cup unbacked \cup covered \subseteq Rows)'
    BY <2>1 DEF IndInv, TypeOK, Rows, updaterVars, Observe, Map
  <2>8. CheckoutOK'
    BY DEF IndInv, TypeOK, CheckoutOK, Working, Observe, updaterVars, gitVars
  <2> QED BY <2>1, <2>2, <2>3, <2>4, <2>5, <2>6, <2>7, <2>8 DEF TypeOK
<1>2. PlansHold'
  BY RegistryAssumption, SafeSame
  DEF IndInv, PlansHold, PlanHolds, gitVars, ModelField, TypeOK, Rows, Observe, Map,
      updaterVars, Planned
<1>3. EchoesHold'
  BY DEF IndInv, EchoesHold, EchoHolds, Observe
<1>4. CoveredAreMarked'
  BY DEF IndInv, CoveredAreMarked, Observe, updaterVars
<1>5. DecisionsStand'
  <2> SUFFICES ASSUME NEW g \in Fields, g \notin stale
               PROVE  status'[g] \in Outcomes(decided[g].status)
    BY DEF DecisionsStand, Observe
  <2>1. status[g] \in Outcomes(decided[g].status)
    BY DEF IndInv, DecisionsStand
  <2>2. CASE status'[g] = status[g]
    BY <2>1, <2>2
  <2>3. CASE status'[g] # status[g]
    <3>1. status[g] = "absent" /\ status'[g] = "new"
      BY <2>3 DEF IndInv, TypeOK, Observe
    <3>2. decided[g].status = "none"
      BY <2>1, <3>1, OutcomesOf DEF IndInv, TypeOK, Statuses
    <3> QED BY <3>1, <3>2, OutcomesOf
  <2> QED BY <2>2, <2>3
<1>6. Backed'
  BY SafeSame DEF IndInv, Backed, gitVars, ModelField, TypeOK, Observe, Map,
         updaterVars
<1>7. ProposedOnce'
  BY DEF IndInv, ProposedOnce, Working, Observe, updaterVars
<1>8. PlanShape'
  BY DEF IndInv, PlanShape, Observe, updaterVars
<1>9. GitHolds'
  BY DEF IndInv, GitHolds, NewOnModel, Observe, updaterVars, gitVars
<1> QED BY <1>1, <1>2, <1>3, <1>4, <1>5, <1>6, <1>7, <1>8, <1>9 DEF IndInv

(* approve and ignore: the decision they make is the last one.             *)
LEMMA CommandInv ==
  ASSUME IndInv, NEW f \in Fields, Command(f)
  PROVE  IndInv'
<1>1. TypeOK'
  BY RegistryAssumption
  DEF IndInv, TypeOK, CheckoutOK, Working, gitVars, Rows, Statuses, Command, Decide, updaterVars
<1>2. PlansHold'
  BY SafeSame DEF IndInv, PlansHold, PlanHolds, gitVars, ModelField, TypeOK, Command, Decide,
         updaterVars
<1>3. EchoesHold'
  BY DEF IndInv, EchoesHold, EchoHolds, TypeOK, Command, Decide, Idle, Planned
<1>4. CoveredAreMarked'
  BY DEF IndInv, CoveredAreMarked, Command, Decide, updaterVars
<1>5. DecisionsStand'
  BY OutcomesOf DEF IndInv, DecisionsStand, TypeOK, Command, Decide
<1>6. Backed'
  BY SafeSame DEF IndInv, Backed, gitVars, ModelField, Command, Decide, updaterVars
<1>7. ProposedOnce'
  BY DEF IndInv, ProposedOnce, Working, Command, Decide, updaterVars
<1>8. PlanShape'
  BY DEF IndInv, PlanShape, Command, updaterVars
<1>9. GitHolds'
  BY DEF IndInv, GitHolds, NewOnModel, Command, updaterVars, gitVars
<1> QED BY <1>1, <1>2, <1>3, <1>4, <1>5, <1>6, <1>7, <1>8, <1>9 DEF IndInv

(* A PATCH with a status, ...                                              *)
LEMMA PatchStatusInv ==
  ASSUME IndInv, NEW r \in Requests, NEW f \in Rows, NEW s \in Reviews,
         request[r] = Idle, Decide(f, s), Goto(r, [at |-> "map", field |-> f]),
         UNCHANGED <<suggested, updaterVars, gitVars, faults>>
  PROVE  IndInv'
<1>1. TypeOK'
  BY RegistryAssumption
  DEF IndInv, TypeOK, CheckoutOK, Working, gitVars, Rows, Statuses, Decide, Goto, updaterVars
<1>2. PlansHold'
  BY SafeSame DEF IndInv, PlansHold, PlanHolds, gitVars, ModelField, TypeOK, Rows, Decide,
         updaterVars
<1>3. EchoesHold'
  BY DEF IndInv, EchoesHold, EchoHolds, TypeOK, Rows, Decide, Goto, Idle,
         Planned
<1>4. CoveredAreMarked'
  BY DEF IndInv, CoveredAreMarked, Decide, updaterVars
<1>5. DecisionsStand'
  <2>1. s \in Outcomes(s)
    BY OutcomesOf, RegistryAssumption DEF Statuses
  <2> QED BY <2>1 DEF IndInv, DecisionsStand, TypeOK, Rows, Decide
<1>6. Backed'
  BY SafeSame DEF IndInv, Backed, gitVars, ModelField, Decide, updaterVars
<1>7. ProposedOnce'
  BY DEF IndInv, ProposedOnce, Working, Decide, updaterVars
<1>8. PlanShape'
  BY DEF IndInv, PlanShape, updaterVars
<1>9. GitHolds'
  BY DEF IndInv, GitHolds, NewOnModel, updaterVars, gitVars
<1> QED BY <1>1, <1>2, <1>3, <1>4, <1>5, <1>6, <1>7, <1>8, <1>9 DEF IndInv

(* ... and one without.                                                    *)
LEMMA PatchOtherInv ==
  ASSUME IndInv, NEW r \in Requests, NEW f \in Rows, NEW s \in {"notes", "map"},
         request[r] = Idle, Goto(r, [at |-> s, field |-> f]),
         UNCHANGED <<tableVars, updaterVars, gitVars, historyVars, faults>>
  PROVE  IndInv'
<1>1. TypeOK'
  BY DEF IndInv, TypeOK, CheckoutOK, Working, gitVars, Rows, Goto, tableVars, updaterVars,
         historyVars
<1>2. PlansHold'
  BY SafeSame DEF IndInv, PlansHold, PlanHolds, gitVars, ModelField, tableVars, updaterVars,
         historyVars
<1>3. EchoesHold'
  BY DEF IndInv, EchoesHold, EchoHolds, Goto, historyVars
<1>4. CoveredAreMarked'
  BY DEF IndInv, CoveredAreMarked, tableVars, updaterVars, historyVars
<1>5. DecisionsStand'
  BY DEF IndInv, DecisionsStand, tableVars, historyVars
<1>6. Backed'
  BY SafeSame DEF IndInv, Backed, gitVars, ModelField, tableVars, updaterVars,
         historyVars
<1>7. ProposedOnce'
  BY DEF IndInv, ProposedOnce, Working, updaterVars, historyVars
<1>8. PlanShape'
  BY DEF IndInv, PlanShape, updaterVars
<1>9. GitHolds'
  BY DEF IndInv, GitHolds, NewOnModel, updaterVars, gitVars
<1> QED BY <1>1, <1>2, <1>3, <1>4, <1>5, <1>6, <1>7, <1>8, <1>9 DEF IndInv

(* A status that is read agrees with the last decision.                    *)
LEMMA ReadStatusInv ==
  ASSUME IndInv, NEW r \in Requests, ReadStatus(r)
  PROVE  IndInv'
<1>1. TypeOK'
  BY DEF IndInv, TypeOK, CheckoutOK, Working, gitVars, Rows, ReadStatus, Goto, tableVars,
         updaterVars, historyVars, Idle
<1>2. PlansHold'
  BY SafeSame DEF IndInv, PlansHold, PlanHolds, gitVars, ModelField, ReadStatus, tableVars,
         updaterVars, historyVars
<1>3. EchoesHold'
  BY DEF IndInv, EchoesHold, EchoHolds, DecisionsStand, TypeOK, Rows,
         ReadStatus, Goto, historyVars, Idle, Planned
<1>4. CoveredAreMarked'
  BY DEF IndInv, CoveredAreMarked, ReadStatus, tableVars, updaterVars,
         historyVars
<1>5. DecisionsStand'
  BY DEF IndInv, DecisionsStand, ReadStatus, tableVars, historyVars
<1>6. Backed'
  BY SafeSame DEF IndInv, Backed, gitVars, ModelField, ReadStatus, tableVars,
         updaterVars, historyVars
<1>7. ProposedOnce'
  BY DEF IndInv, ProposedOnce, Working, ReadStatus, updaterVars, historyVars
<1>8. PlanShape'
  BY DEF IndInv, PlanShape, ReadStatus, updaterVars
<1>9. GitHolds'
  BY DEF IndInv, GitHolds, NewOnModel, ReadStatus, updaterVars, gitVars
<1> QED BY <1>1, <1>2, <1>3, <1>4, <1>5, <1>6, <1>7, <1>8, <1>9 DEF IndInv

(* It is written back over that decision, or the field becomes stale.      *)
LEMMA EchoInv ==
  ASSUME IndInv, NEW r \in Requests, Echo(r)
  PROVE  IndInv'
<1>1. TypeOK'
  BY DEF IndInv, TypeOK, CheckoutOK, Working, gitVars, Rows, Statuses, Echo, Overwrite, Goto,
         updaterVars, Idle
<1>2. PlansHold'
  BY SafeSame DEF IndInv, PlansHold, PlanHolds, gitVars, ModelField, Echo, Overwrite, updaterVars
<1>3. EchoesHold'
  BY DEF IndInv, EchoesHold, EchoHolds, Echo, Overwrite, Goto
<1>4. CoveredAreMarked'
  BY DEF IndInv, CoveredAreMarked, Echo, Overwrite, updaterVars
<1>5. DecisionsStand'
  BY DEF IndInv, DecisionsStand, EchoesHold, EchoHolds, Echo, Overwrite
<1>6. Backed'
  BY SafeSame DEF IndInv, Backed, gitVars, ModelField, Echo, Overwrite, updaterVars
<1>7. ProposedOnce'
  BY DEF IndInv, ProposedOnce, Working, Echo, updaterVars
<1>8. PlanShape'
  BY DEF IndInv, PlanShape, Echo, updaterVars
<1>9. GitHolds'
  BY DEF IndInv, GitHolds, NewOnModel, Echo, updaterVars, gitVars
<1> QED BY <1>1, <1>2, <1>3, <1>4, <1>5, <1>6, <1>7, <1>8, <1>9 DEF IndInv

(* Re-mapping a field that is promoted or planned makes it unbacked.         *)
LEMMA RemapInv ==
  ASSUME IndInv, NEW r \in Requests, Remap(r)
  PROVE  IndInv'
<1>0. /\ UNCHANGED <<status, updaterVars, gitVars, decided, decisions, stale>>
      /\ request[r].at = "map"
      /\ (\E m \in Mappings : Map(request[r].field, m)) \/ UNCHANGED <<suggested, unbacked>>
  BY DEF Remap
<1>1. TypeOK'
  <2>1. status' \in [Fields -> Statuses \cup {"absent"}] /\ Rows \subseteq Rows'
    BY DEF IndInv, TypeOK, Rows, Remap
  <2>2. suggested' \in [Fields -> Mappings]
    BY <2>1 DEF IndInv, TypeOK, Remap, Map
  <2>3. (request \in [Requests -> {Idle} \cup [at : {"notes", "map"}, field : Rows]
                       \cup [at : {"echo"}, field : Rows, status : Statuses,
                             number : 0 .. decisions]])'
    BY <2>1 DEF IndInv, TypeOK, Remap, Goto
  <2>4. (/\ updater \in [Updaters -> {"idle", "checkout", "write", "add", "commit", "marking"}]
       /\ \A v \in Updaters :
            /\ DOMAIN plan[v] \subseteq Rows
            /\ updater[v] = "idle" <=> DOMAIN plan[v] = {})'
    BY <2>1 DEF IndInv, TypeOK, Remap, updaterVars
  <2>5. (decided \in [Fields -> [status : Statuses \cup {"none"}, number : 0 .. decisions]])'
    BY <2>1 DEF IndInv, TypeOK, Remap
  <2>6. (\A g \in Fields \ Rows : suggested[g] = NoSuggestion /\ decided[g].number = 0)'
    BY <2>1 DEF IndInv, TypeOK, Remap, Map, Idle
  <2>7. (/\ decisions \in 0 .. MaxDecisions /\ runs \in 0 .. MaxRuns /\ faults \in 0 .. MaxFaults
       /\ stale \cup unbacked \cup covered \subseteq Rows)'
    BY <2>1 DEF IndInv, TypeOK, Remap, Map, Idle, updaterVars
  <2>8. CheckoutOK'
    <3>1. CheckoutOK /\ UNCHANGED <<updater, unsafe, file, index, tip, left>>
      BY <1>0 DEF IndInv, TypeOK, updaterVars, gitVars
    <3> QED BY <3>1 DEF CheckoutOK, Working
  <2> QED BY <2>1, <2>2, <2>3, <2>4, <2>5, <2>6, <2>7, <2>8 DEF TypeOK
<1>2. PlansHold'
  <2> SUFFICES ASSUME NEW u \in Updaters, NEW f \in DOMAIN plan[u]
               PROVE  PlanHolds(u, f)'
    BY <1>0 DEF PlansHold, updaterVars
  <2>1. PlanHolds(u, f) /\ f \in Planned /\ f \in Fields
    BY DEF IndInv, PlansHold, TypeOK, Rows, Planned
  <2>2. f \in unbacked' \/ plan[u][f].model = ModelField(f)'
    <3>1. ASSUME NEW m \in Mappings, Map(request[r].field, m)
          PROVE  f \in unbacked' \/ plan[u][f].model = ModelField(f)'
      BY <2>1, <3>1 DEF IndInv, TypeOK, PlanHolds, ModelField, Map
    <3>2. CASE UNCHANGED <<suggested, unbacked>>
      BY <2>1, <3>2 DEF PlanHolds, ModelField
    <3> QED BY <1>0, <3>1, <3>2
  <2>3. Safe' = Safe
    BY <1>0, SafeSame
  <2> QED BY <1>0, <2>1, <2>2, <2>3 DEF PlanHolds, updaterVars
<1>3. EchoesHold'
  BY DEF IndInv, EchoesHold, EchoHolds, Remap, Goto, Idle
<1>4. CoveredAreMarked'
  BY DEF IndInv, CoveredAreMarked, Remap, updaterVars
<1>5. DecisionsStand'
  BY DEF IndInv, DecisionsStand, Remap
<1>6. Backed'
  BY SafeSame DEF IndInv, Backed, gitVars, ModelField, TypeOK, Remap, Map,
         updaterVars
<1>7. ProposedOnce'
  BY DEF IndInv, ProposedOnce, Working, Remap, updaterVars
<1>8. PlanShape'
  BY DEF IndInv, PlanShape, Remap, updaterVars
<1>9. GitHolds'
  BY DEF IndInv, GitHolds, NewOnModel, Remap, updaterVars, gitVars
<1> QED BY <1>1, <1>2, <1>3, <1>4, <1>5, <1>6, <1>7, <1>8, <1>9 DEF IndInv

(* A request that dies leaves what it wrote.                               *)
LEMMA RequestEndsInv ==
  ASSUME IndInv, NEW r \in Requests, RequestEnds(r)
  PROVE  IndInv'
<1>1. TypeOK'
  BY RegistryAssumption
  DEF IndInv, TypeOK, CheckoutOK, Working, gitVars, Rows, RequestEnds, Goto, Fault, tableVars,
      updaterVars, historyVars
<1>2. PlansHold'
  BY SafeSame DEF IndInv, PlansHold, PlanHolds, gitVars, ModelField, RequestEnds, tableVars,
         updaterVars, historyVars
<1>3. EchoesHold'
  BY DEF IndInv, EchoesHold, EchoHolds, RequestEnds, Goto, historyVars, Idle,
         Planned
<1>4. CoveredAreMarked'
  BY DEF IndInv, CoveredAreMarked, RequestEnds, tableVars, updaterVars,
         historyVars
<1>5. DecisionsStand'
  BY DEF IndInv, DecisionsStand, RequestEnds, tableVars, historyVars
<1>6. Backed'
  BY SafeSame DEF IndInv, Backed, gitVars, ModelField, RequestEnds, tableVars,
         updaterVars, historyVars
<1>7. ProposedOnce'
  BY DEF IndInv, ProposedOnce, Working, RequestEnds, updaterVars, historyVars
<1>8. PlanShape'
  BY DEF IndInv, PlanShape, RequestEnds, updaterVars
<1>9. GitHolds'
  BY DEF IndInv, GitHolds, NewOnModel, RequestEnds, updaterVars, gitVars
<1> QED BY <1>1, <1>2, <1>3, <1>4, <1>5, <1>6, <1>7, <1>8, <1>9 DEF IndInv

(* What is approved now is planned; what was planned is not covered.       *)
LEMMA ProposeInv ==
  ASSUME IndInv, NEW u \in Updaters, Propose(u)
  PROVE  IndInv'
<1>0. /\ Working' = Working /\ Safe' = Safe
      /\ \A v \in Updaters \ {u} : updater'[v] = updater[v] /\ plan'[v] = plan[v]
  BY DEF Propose, Advance, Working, Safe, gitVars, IndInv, TypeOK, PlanShape
<1>1. TypeOK'
  <2>1. CheckoutOK'
    BY <1>0 DEF IndInv, TypeOK, CheckoutOK, Propose, Advance, gitVars
  <2>2. /\ updater'[u] = "checkout" /\ DOMAIN plan'[u] = Approved /\ Approved # {}
        /\ updater' = [updater EXCEPT ![u] = "checkout"]
    BY DEF IndInv, TypeOK, PlanShape, Propose, Advance, NewOnModel
  <2>3. Approved \subseteq Rows
    BY DEF Approved, Rows
  <2>4. \A v \in Updaters :
          DOMAIN plan'[v] \subseteq Rows /\ (updater'[v] = "idle" <=> DOMAIN plan'[v] = {})
    BY <1>0, <2>2, <2>3 DEF IndInv, TypeOK
  <2>5. /\ updater' \in [Updaters -> {"idle", "checkout", "write", "add", "commit", "marking"}]
        /\ covered' \subseteq Rows
    BY <2>2 DEF IndInv, TypeOK, Propose
  <2>6. runs' \in 0 .. MaxRuns
    BY RegistryAssumption DEF IndInv, TypeOK, Propose
  <2> QED
    BY <2>1, <2>4, <2>5, <2>6 DEF IndInv, TypeOK, Rows, Propose, tableVars
<1>2. PlansHold'
  <2>1. PICK p : p = [f \in Approved |-> Proposal(f)] /\ plan' = [plan EXCEPT ![u] = p]
                 /\ updater' = [updater EXCEPT ![u] = "checkout"]
    BY DEF Propose, Advance
  <2>2. \A f \in Approved : f \in stale \/ decided[f].status = "approved"
    BY OutcomesOf DEF IndInv, DecisionsStand, TypeOK, Statuses, Approved
  <2>3. \A f \in DOMAIN plan'[u] : PlanHolds(u, f)'
    BY <2>1, <2>2
    DEF IndInv, TypeOK, Propose, Approved, Proposal, PlanHolds, ModelField,
        tableVars
  <2>4. \A v \in Updaters \ {u} : \A f \in DOMAIN plan'[v] : PlanHolds(v, f)'
    BY <1>0 DEF IndInv, PlansHold, Propose, PlanHolds, ModelField, tableVars
  <2> QED BY <2>3, <2>4 DEF PlansHold
<1>3. EchoesHold'
  BY DEF IndInv, EchoesHold, EchoHolds, Propose
<1>4. CoveredAreMarked'
  BY DEF IndInv, CoveredAreMarked, Propose, Advance, tableVars
<1>5. DecisionsStand'
  BY DEF IndInv, DecisionsStand, Propose, tableVars
<1>6. Backed'
  BY <1>0 DEF IndInv, Backed, ModelField, Propose, tableVars
<1>7. ProposedOnce'
  <2>1. PICK p : p = [f \in Approved |-> Proposal(f)] /\ plan' = [plan EXCEPT ![u] = p]
                 /\ updater' = [updater EXCEPT ![u] = "checkout"] /\ covered' = covered \ Planned
    BY DEF Propose, Advance
  <2>2. DOMAIN plan'[u] \cap covered' = {}
    <3>1. Approved \cap covered \subseteq Planned
      BY DEF IndInv, CoveredAreMarked, Approved, Planned
    <3> QED BY <2>1, <3>1 DEF IndInv, PlanShape
  <2>3. \A v \in Updaters \ {u} :
          updater'[v] = "checkout" \/ v \in Working' => DOMAIN plan'[v] \cap covered' = {}
    BY <1>0, <2>1 DEF IndInv, ProposedOnce
  <2> QED BY <2>2, <2>3 DEF ProposedOnce
<1>8. PlanShape'
  BY DEF IndInv, PlanShape, Propose, Advance
<1>9. GitHolds'
  <2>1. updater'[u] = "checkout" /\ UNCHANGED <<unsafe, file, index>>
    BY DEF IndInv, TypeOK, Propose, Advance, gitVars
  <2> QED BY <1>0, <2>1 DEF IndInv, GitHolds, NewOnModel
<1> QED BY <1>1, <1>2, <1>3, <1>4, <1>5, <1>6, <1>7, <1>8, <1>9 DEF IndInv

(* What the steps of an updater on the checkout, or its end, must see to:  *)
(* the branches lose nothing, and what it is about to mark is on one.      *)
LEMMA GitStep ==
  ASSUME IndInv, NEW u \in Updaters, updater[u] # "idle",
         NEW s \in {"idle", "write", "add", "commit", "marking"},
         updater' = [updater EXCEPT ![u] = s],
         plan' = [plan EXCEPT ![u] = IF s = "idle" THEN NoPlan ELSE plan[u]],
         UNCHANGED <<tableVars, request, runs, decided, decisions, stale, unbacked>>,
         faults' \in 0 .. MaxFaults,
         s # "idle" => updater[u] = "checkout" \/ u \in Working,
         unsafe \ {u} \subseteq unsafe',
         Safe \subseteq Safe',
         s = "marking" /\ u \notin unsafe' => NewOnModel(plan[u]) \subseteq Safe',
         \/ covered' = covered /\ updater[u] # "marking"
         \/ covered' = covered \ DOMAIN plan[u]
         \/ /\ s = "marking"
            /\ covered' = covered \cup
                 (DOMAIN plan[u] \ UNION {DOMAIN plan[v] : v \in Updaters \ {u}}),
         GitHolds', CheckoutOK'
  PROVE  IndInv'
<1>0. /\ updater'[u] = s /\ plan'[u] = (IF s = "idle" THEN NoPlan ELSE plan[u])
      /\ \A v \in Updaters \ {u} : updater'[v] = updater[v] /\ plan'[v] = plan[v]
      /\ DOMAIN NoPlan = {}
  BY DEF IndInv, TypeOK, PlanShape, NoPlan
<1>1. TypeOK'
  <2>1. covered' \subseteq Rows
    BY DEF IndInv, TypeOK
  <2>2. \A v \in Updaters :
          DOMAIN plan'[v] \subseteq Rows /\ (updater'[v] = "idle" <=> DOMAIN plan'[v] = {})
    BY <1>0 DEF IndInv, TypeOK
  <2>3. updater' \in [Updaters -> {"idle", "checkout", "write", "add", "commit", "marking"}]
    BY DEF IndInv, TypeOK
  <2> QED BY <2>1, <2>2, <2>3 DEF IndInv, TypeOK, Rows, tableVars
<1>2. PlansHold'
  <2> SUFFICES ASSUME NEW v \in Updaters, NEW f \in DOMAIN plan'[v] PROVE PlanHolds(v, f)'
    BY DEF PlansHold
  <2>1. PlanHolds(v, f) /\ plan'[v] = plan[v] /\ f \in DOMAIN plan[v]
    BY <1>0 DEF IndInv, PlansHold
  <2>2. updater'[v] = "marking" /\ v \notin unsafe'
          => plan[v][f].model \in Safe' \cup Known
    <3>1. CASE v = u
      BY <1>0, <2>1, <3>1 DEF NewOnModel
    <3>2. CASE v # u
      BY <1>0, <2>1, <3>2 DEF PlanHolds
    <3> QED BY <3>1, <3>2
  <2> QED BY <2>1, <2>2 DEF PlanHolds, ModelField, tableVars
<1>3. EchoesHold'
  BY DEF IndInv, EchoesHold, EchoHolds
<1>4. CoveredAreMarked'
  <2> SUFFICES ASSUME NEW f \in covered', status'[f] # "promoted"
               PROVE  \E v \in Updaters : updater'[v] = "marking" /\ f \in DOMAIN plan'[v]
    BY DEF CoveredAreMarked
  <2>1. CASE f \in covered /\ (updater[u] # "marking" \/ f \notin DOMAIN plan[u])
    <3>1. PICK v \in Updaters : updater[v] = "marking" /\ f \in DOMAIN plan[v]
      BY <2>1 DEF IndInv, CoveredAreMarked, tableVars
    <3> QED BY <1>0, <2>1, <3>1
  <2>2. CASE s = "marking" /\ f \in DOMAIN plan[u]
    BY <1>0, <2>2
  <2>3. s = "marking" => updater[u] # "marking"
    BY DEF Working
  <2> QED BY <2>1, <2>2, <2>3
<1>5. DecisionsStand'
  BY DEF IndInv, DecisionsStand, tableVars
<1>6. Backed'
  BY DEF IndInv, Backed, ModelField, tableVars
<1>7. ProposedOnce'
  <2> SUFFICES ASSUME NEW v \in Updaters, updater'[v] = "checkout" \/ v \in Working'
               PROVE  DOMAIN plan'[v] \cap covered' = {}
    BY DEF ProposedOnce
  <2>1. CASE v = u
    <3>1. updater[u] = "checkout" \/ u \in Working
      BY <1>0, <2>1 DEF Working
    <3>2. s # "marking" /\ plan'[u] = plan[u]
      BY <1>0, <2>1 DEF Working
    <3> QED BY <2>1, <3>1, <3>2 DEF IndInv, ProposedOnce
  <2>2. CASE v # u
    <3>1. (updater[v] = "checkout" \/ v \in Working) /\ plan'[v] = plan[v]
      BY <1>0, <2>2 DEF Working
    <3> QED BY <2>2, <3>1 DEF IndInv, ProposedOnce
  <2> QED BY <2>1, <2>2
<1>8. PlanShape'
  BY DEF IndInv, PlanShape
<1> QED BY <1>1, <1>2, <1>3, <1>4, <1>5, <1>6, <1>7, <1>8 DEF IndInv

(* The branch that is left keeps its scaffold; an updater that finds       *)
(* another one on the checkout makes both unsafe.                          *)
LEMMA CheckoutInv ==
  ASSUME IndInv, NEW u \in Updaters, Checkout(u)
  PROVE  IndInv'
<1>1. /\ updater[u] = "checkout" /\ left' = left \cup tip
      /\ updater' = [updater EXCEPT ![u] = "write"]
      /\ plan' = [plan EXCEPT ![u] = plan[u]]
      /\ unsafe' = unsafe \cup (IF Working = {} THEN {} ELSE Working \cup {u})
      /\ UNCHANGED <<tableVars, request, runs, file, index, tip, historyVars, faults>>
  BY DEF Checkout, Advance
<1>2. /\ updater'[u] = "write" /\ plan'[u] = plan[u]
      /\ \A v \in Updaters \ {u} : updater'[v] = updater[v] /\ plan'[v] = plan[v]
      /\ Working' = Working \cup {u}
  BY <1>1 DEF IndInv, TypeOK, PlanShape, Working
<1>3. Safe \subseteq Safe'
  BY <1>1 DEF Safe
<1>4. GitHolds'
  BY <1>1, <1>2 DEF IndInv, GitHolds, NewOnModel
<1>5. CheckoutOK'
  <2>1. unsafe' \subseteq {v \in Updaters : updater'[v] # "idle"}
    BY <1>1, <1>2 DEF IndInv, TypeOK, CheckoutOK, Working
  <2>2. \A v, w \in Working' : v = w \/ {v, w} \subseteq unsafe'
    BY <1>1, <1>2 DEF IndInv, TypeOK, CheckoutOK
  <2> QED BY <1>1, <2>1, <2>2 DEF IndInv, TypeOK, CheckoutOK
<1> QED BY <1>1, <1>3, <1>4, <1>5, GitStep DEF historyVars, IndInv, TypeOK

(* The scaffold of an updater that is alone is its own; without a commit   *)
(* it is unsafe.                                                           *)
LEMMA WriteScaffoldInv ==
  ASSUME IndInv, NEW u \in Updaters, WriteScaffold(u)
  PROVE  IndInv'
<1>1. /\ updater[u] = "write" /\ file' = NewOnModel(plan[u])
      /\ UNCHANGED <<tableVars, request, runs, index, tip, left, decided, decisions, stale,
                     unbacked, faults>>
  BY DEF WriteScaffold
<1>2. PICK s \in {"add", "marking", "idle"} :
        /\ updater' = [updater EXCEPT ![u] = s]
        /\ plan' = [plan EXCEPT ![u] = IF s = "idle" THEN NoPlan ELSE plan[u]]
        /\ \/ s = "add" /\ unsafe' = unsafe
           \/ s = "marking" /\ unsafe' = unsafe \cup {u}
           \/ s = "idle" /\ unsafe' = unsafe \ {u}
        /\ \/ covered' = covered
           \/ /\ s = "marking"
              /\ covered' = covered \cup
                   (DOMAIN plan[u] \ UNION {DOMAIN plan[v] : v \in Updaters \ {u}})
  BY DEF WriteScaffold, Advance, ToMarking, WithoutMarking, End
<1>3. /\ updater'[u] = s /\ (s # "idle" => plan'[u] = plan[u])
      /\ \A v \in Updaters \ {u} : updater'[v] = updater[v] /\ plan'[v] = plan[v]
      /\ u \in Working /\ Working' \subseteq Working
  BY <1>1, <1>2 DEF IndInv, TypeOK, PlanShape, Working
<1>4. Safe \subseteq Safe'
  BY <1>1, <1>3 DEF Safe
<1>5. GitHolds'
  <2> SUFFICES ASSUME NEW v \in Updaters, v \notin unsafe'
               PROVE  /\ updater'[v] = "add" => file' = NewOnModel(plan'[v])
                      /\ updater'[v] = "commit" => index' = NewOnModel(plan'[v])
    BY DEF GitHolds, NewOnModel
  <2>1. CASE v = u
    BY <1>1, <1>2, <1>3, <2>1
  <2>2. CASE v # u
    <3>1. v \notin unsafe /\ updater'[v] = updater[v] /\ plan'[v] = plan[v]
      BY <1>2, <1>3, <2>2
    <3>2. v \notin Working
      BY <1>3, <2>2, <3>1 DEF IndInv, TypeOK, CheckoutOK
    <3> QED BY <3>1, <3>2 DEF Working
  <2> QED BY <2>1, <2>2
<1>6. CheckoutOK'
  <2>1. unsafe' \subseteq {v \in Updaters : updater'[v] # "idle"}
    BY <1>1, <1>2, <1>3 DEF IndInv, TypeOK, CheckoutOK
  <2>2. \A v, w \in Working' : v = w \/ {v, w} \subseteq unsafe'
    <3>1. s = "idle" => u \notin Working'
      BY <1>3 DEF Working
    <3> QED BY <1>2, <1>3, <3>1 DEF IndInv, TypeOK, CheckoutOK
  <2>3. (file' \cup index' \cup tip' \cup left') \cap Known = {}
    BY <1>1 DEF IndInv, TypeOK, CheckoutOK, NewOnModel
  <2> QED BY <2>1, <2>2, <2>3 DEF CheckoutOK
<1> QED BY <1>1, <1>2, <1>3, <1>4, <1>5, <1>6, GitStep DEF IndInv, TypeOK

(* What an updater that is alone adds is what it wrote.                    *)
LEMMA AddInv ==
  ASSUME IndInv, NEW u \in Updaters, Add(u)
  PROVE  IndInv'
<1>1. /\ updater[u] = "add" /\ index' = file
      /\ updater' = [updater EXCEPT ![u] = "commit"]
      /\ plan' = [plan EXCEPT ![u] = plan[u]]
      /\ UNCHANGED <<tableVars, request, runs, file, tip, left, unsafe, historyVars, faults>>
  BY DEF Add, Advance
<1>2. /\ updater'[u] = "commit" /\ plan'[u] = plan[u]
      /\ \A v \in Updaters \ {u} : updater'[v] = updater[v] /\ plan'[v] = plan[v]
      /\ u \in Working /\ Working' = Working
  BY <1>1 DEF IndInv, TypeOK, PlanShape, Working
<1>3. Safe \subseteq Safe'
  BY <1>1, <1>2 DEF Safe
<1>4. GitHolds'
  <2> SUFFICES ASSUME NEW v \in Updaters, v \notin unsafe
               PROVE  /\ updater'[v] = "add" => file' = NewOnModel(plan'[v])
                      /\ updater'[v] = "commit" => index' = NewOnModel(plan'[v])
    BY <1>1 DEF GitHolds, NewOnModel
  <2>1. CASE v = u
    BY <1>1, <1>2, <2>1 DEF IndInv, GitHolds
  <2>2. CASE v # u
    <3>1. v \notin Working
      BY <1>2, <2>2 DEF IndInv, TypeOK, CheckoutOK
    <3> QED BY <1>2, <2>2, <3>1 DEF Working
  <2> QED BY <2>1, <2>2
<1>5. CheckoutOK'
  BY <1>1, <1>2 DEF IndInv, TypeOK, CheckoutOK
<1> QED BY <1>1, <1>2, <1>3, <1>4, <1>5, GitStep DEF historyVars, IndInv, TypeOK

(* The branch holds every planned model field before any is marked, unless *)
(* another updater is on the checkout.                                     *)
LEMMA CommitInv ==
  ASSUME IndInv, NEW u \in Updaters, Commit(u)
  PROVE  IndInv'
<1>1. /\ updater[u] = "commit" /\ tip' = index
      /\ UNCHANGED <<tableVars, request, runs, file, index, left, decided, decisions, stale,
                     unbacked, faults>>
  BY DEF Commit
<1>2. PICK s \in {"marking", "idle"} :
        /\ updater' = [updater EXCEPT ![u] = s]
        /\ plan' = [plan EXCEPT ![u] = IF s = "idle" THEN NoPlan ELSE plan[u]]
        /\ \/ s = "marking" /\ unsafe' = unsafe
           \/ s = "idle" /\ unsafe' = unsafe \ {u}
        /\ \/ covered' = covered
           \/ /\ s = "marking"
              /\ covered' = covered \cup
                   (DOMAIN plan[u] \ UNION {DOMAIN plan[v] : v \in Updaters \ {u}})
  BY DEF Commit, Advance, ToMarking, WithoutMarking, End
<1>3. /\ updater'[u] = s
      /\ \A v \in Updaters \ {u} : updater'[v] = updater[v] /\ plan'[v] = plan[v]
      /\ u \in Working /\ Working' = Working \ {u}
  BY <1>1, <1>2 DEF IndInv, TypeOK, PlanShape, Working
<1>4. Safe \subseteq Safe'
  BY <1>1, <1>3 DEF Safe
<1>5. s = "marking" /\ u \notin unsafe' => NewOnModel(plan[u]) \subseteq Safe'
  <2> SUFFICES ASSUME u \notin unsafe PROVE NewOnModel(plan[u]) \subseteq Safe'
    BY <1>2
  <2>1. index = NewOnModel(plan[u])
    BY <1>1 DEF IndInv, GitHolds
  <2>2. Working' = {}
    BY <1>3 DEF IndInv, TypeOK, CheckoutOK
  <2> QED BY <1>1, <2>1, <2>2 DEF Safe
<1>6. GitHolds'
  BY <1>1, <1>2, <1>3 DEF IndInv, GitHolds, NewOnModel
<1>7. CheckoutOK'
  BY <1>1, <1>2, <1>3 DEF IndInv, TypeOK, CheckoutOK
<1> QED BY <1>1, <1>2, <1>3, <1>4, <1>5, <1>7, <1>6, GitStep DEF IndInv, TypeOK

(* An updater that ends early leaves the branches as they are.             *)
LEMMA EndEffect ==
  ASSUME IndInv, NEW u \in Updaters, End(u), UNCHANGED gitVars
  PROVE  /\ updater' = [updater EXCEPT ![u] = "idle"]
         /\ plan' = [plan EXCEPT ![u] = NoPlan]
         /\ unsafe \ {u} \subseteq unsafe'
         /\ Safe \subseteq Safe' /\ GitHolds' /\ CheckoutOK'
<1>1. /\ updater' = [updater EXCEPT ![u] = "idle"]
      /\ plan' = [plan EXCEPT ![u] = NoPlan]
      /\ unsafe' = unsafe \ {u}
      /\ UNCHANGED <<file, index, tip, left>>
  BY DEF End, Advance, gitVars
<1>2. /\ updater'[u] = "idle"
      /\ \A v \in Updaters \ {u} : updater'[v] = updater[v] /\ plan'[v] = plan[v]
      /\ Working' \subseteq Working /\ u \notin Working'
  BY <1>1 DEF IndInv, TypeOK, PlanShape, Working
<1>3. Safe \subseteq Safe'
  BY <1>1, <1>2 DEF Safe
<1>4. GitHolds'
  BY <1>1, <1>2 DEF IndInv, GitHolds, NewOnModel
<1>5. CheckoutOK'
  BY <1>1, <1>2 DEF IndInv, TypeOK, CheckoutOK
<1> QED BY <1>1, <1>3, <1>4, <1>5

(* A failing git command leaves nothing planned.                           *)
LEMMA GitFailsInv ==
  ASSUME IndInv, NEW u \in Updaters, GitFails(u)
  PROVE  IndInv'
<1>1. /\ updater[u] \in {"checkout", "add", "commit"}
      /\ End(u) /\ UNCHANGED gitVars
      /\ UNCHANGED <<tableVars, request, runs, decided, decisions, stale, unbacked,
                     covered, faults>>
  BY DEF GitFails, historyVars
<1> QED BY <1>1, EndEffect, GitStep DEF IndInv, TypeOK

(* What a dying updater had not marked is not covered any more.            *)
LEMMA UpdaterDiesInv ==
  ASSUME IndInv, NEW u \in Updaters, UpdaterDies(u)
  PROVE  IndInv'
<1>1. /\ updater[u] # "idle"
      /\ End(u) /\ UNCHANGED gitVars
      /\ covered' = covered \ DOMAIN plan[u]
      /\ UNCHANGED <<tableVars, request, runs, decided, decisions, stale, unbacked>>
      /\ faults' \in 0 .. MaxFaults
  BY RegistryAssumption DEF UpdaterDies, Fault, IndInv, TypeOK
<1> QED BY <1>1, EndEffect, GitStep

(* A marked row is on the branch, or its updater is unsafe; the others     *)
(* remain planned.                                                         *)
LEMMA MarkInv ==
  ASSUME IndInv, NEW u \in Updaters, NEW f \in Fields, Mark(u, f)
  PROVE  IndInv'
<1> DEFINE rest == Restrict(plan[u], DOMAIN plan[u] \ {f})
<1>1. /\ updater[u] = "marking" /\ f \in DOMAIN plan[u]
      /\ updater' = [updater EXCEPT ![u] = IF rest = NoPlan THEN "idle" ELSE "marking"]
      /\ plan' = [plan EXCEPT ![u] = rest]
      /\ unsafe' = IF rest = NoPlan THEN unsafe \ {u} ELSE unsafe
      /\ Overwrite(f, "promoted", plan[u][f].number)
      /\ unbacked' = unbacked \cup (IF u \in unsafe THEN {f} ELSE {})
      /\ UNCHANGED <<suggested, request, runs, gitVars, decided, decisions, covered, faults>>
  BY DEF Mark, End, Advance
<1>2. /\ \A v \in Updaters \ {u} :
           updater'[v] = updater[v] /\ plan'[v] = plan[v] /\ (v \in unsafe' <=> v \in unsafe)
      /\ updater'[u] = (IF rest = NoPlan THEN "idle" ELSE "marking") /\ plan'[u] = rest
      /\ \A g \in DOMAIN rest : g \in DOMAIN plan[u] /\ rest[g] = plan[u][g]
      /\ DOMAIN rest = DOMAIN plan[u] \ {f}
      /\ (rest = NoPlan <=> DOMAIN rest = {})
  BY <1>1 DEF IndInv, TypeOK, PlanShape, Restrict, NoPlan
<1> HIDE DEF rest
<1>3. Working' = Working /\ Safe' = Safe
  BY <1>1, <1>2 DEF Working, Safe, gitVars
<1>4. TypeOK'
  <2>1. CheckoutOK'
    BY <1>1, <1>2, <1>3 DEF IndInv, TypeOK, CheckoutOK, Working, gitVars
  <2>2. /\ status' \in [Fields -> Statuses \cup {"absent"}] /\ f \in Rows /\ Rows' = Rows
        /\ stale' \cup unbacked' \cup covered' \subseteq Rows
    BY <1>1 DEF IndInv, TypeOK, Rows, Statuses, Overwrite
  <2>3. updater' \in [Updaters -> {"idle", "checkout", "write", "add", "commit", "marking"}]
    BY <1>1 DEF IndInv, TypeOK
  <2>4. \A v \in Updaters :
          DOMAIN plan'[v] \subseteq Rows /\ (updater'[v] = "idle" <=> DOMAIN plan'[v] = {})
    BY <1>1, <1>2 DEF IndInv, TypeOK
  <2> QED BY <1>1, <2>1, <2>2, <2>3, <2>4 DEF IndInv, TypeOK
<1>5. PlansHold'
  <2> SUFFICES ASSUME NEW v \in Updaters, NEW g \in DOMAIN plan'[v] PROVE PlanHolds(v, g)'
    BY DEF PlansHold
  <2>1. PlanHolds(v, g) /\ plan'[v][g] = plan[v][g]
    BY <1>2 DEF IndInv, PlansHold
  <2>2. updater'[v] = "marking" /\ v \notin unsafe' => updater[v] = "marking" /\ v \notin unsafe
    BY <1>1, <1>2
  <2> QED BY <1>1, <1>3, <2>1, <2>2 DEF PlanHolds, ModelField, Overwrite
<1>6. EchoesHold'
  BY <1>1 DEF IndInv, EchoesHold, EchoHolds, Overwrite
<1>7. CoveredAreMarked'
  <2> SUFFICES ASSUME NEW g \in covered, status'[g] # "promoted"
               PROVE  \E v \in Updaters : updater'[v] = "marking" /\ g \in DOMAIN plan'[v]
    BY <1>1 DEF CoveredAreMarked
  <2>1. g # f /\ status[g] # "promoted"
    BY <1>1 DEF IndInv, TypeOK, Rows, Overwrite
  <2>2. PICK v \in Updaters : updater[v] = "marking" /\ g \in DOMAIN plan[v]
    BY <2>1 DEF IndInv, CoveredAreMarked
  <2>3. CASE v = u
    BY <1>2, <2>1, <2>2, <2>3
  <2>4. CASE v # u
    BY <1>2, <2>2, <2>4
  <2> QED BY <2>3, <2>4
<1>8. DecisionsStand'
  BY <1>1, OutcomesOf
  DEF IndInv, DecisionsStand, PlansHold, PlanHolds, Overwrite
<1>9. Backed'
  <2> SUFFICES ASSUME NEW g \in Fields, status'[g] = "promoted", g \notin unbacked'
               PROVE  ModelField(g) \in Safe \cup Known
    BY <1>1, <1>3 DEF Backed, ModelField
  <2>1. CASE g = f
    BY <1>1, <2>1 DEF IndInv, PlansHold, PlanHolds
  <2>2. CASE g # f
    BY <1>1, <2>2 DEF IndInv, Backed, Overwrite, TypeOK
  <2> QED BY <2>1, <2>2
<1>10. ProposedOnce'
  BY <1>1, <1>2, <1>3 DEF IndInv, ProposedOnce, Working
<1>11. PlanShape'
  BY <1>1 DEF IndInv, PlanShape
<1>12. GitHolds'
  BY <1>1, <1>2 DEF IndInv, GitHolds, NewOnModel, gitVars
<1> QED BY <1>4, <1>5, <1>6, <1>7, <1>8, <1>9, <1>10, <1>11, <1>12 DEF IndInv

(* The two together.                                                       *)
LEMMA PatchInv ==
  ASSUME IndInv, NEW r \in Requests, NEW f \in Fields, Patch(r, f)
  PROVE  IndInv'
<1>1. /\ f \in Rows /\ request[r] = Idle
      /\ UNCHANGED <<suggested, updaterVars, gitVars, faults>>
  BY DEF Patch
<1>2. CASE \E s \in Reviews : Decide(f, s) /\ Goto(r, [at |-> "map", field |-> f])
  BY <1>1, <1>2, PatchStatusInv
<1>3. CASE /\ \E s \in {"notes", "map"} : Goto(r, [at |-> s, field |-> f])
           /\ UNCHANGED <<status, historyVars>>
  BY <1>1, <1>3, PatchOtherInv DEF tableVars
<1> QED BY <1>2, <1>3 DEF Patch

(* Steps that change nothing, and the initial state.                       *)
LEMMA StutterInv == IndInv /\ UNCHANGED vars => IndInv'
<1> SUFFICES ASSUME IndInv, UNCHANGED vars PROVE IndInv'
  OBVIOUS
<1>1. Safe' = Safe /\ Working' = Working
  BY SafeSame DEF vars, updaterVars, gitVars
<1>2. CheckoutOK'
  BY <1>1 DEF IndInv, TypeOK, CheckoutOK, vars
<1>3. (TypeOK /\ PlanShape /\ DecisionsStand /\ ProposedOnce)'
  BY <1>1, <1>2 DEF IndInv, vars, TypeOK, Rows, PlanShape, DecisionsStand, ProposedOnce
<1>4. (PlansHold /\ GitHolds /\ Backed)'
  BY <1>1 DEF IndInv, vars, PlansHold, PlanHolds, ModelField, GitHolds, NewOnModel, Backed
<1>5. (EchoesHold /\ CoveredAreMarked)'
  BY DEF IndInv, vars, EchoesHold, EchoHolds, CoveredAreMarked
<1> QED BY <1>3, <1>4, <1>5 DEF IndInv

(* Nothing is planned, in hand or covered at first. *)
LEMMA InitInv == Init => IndInv
<1> SUFFICES ASSUME Init PROVE IndInv
  OBVIOUS
<1>1. TypeOK /\ PlanShape
  BY RegistryAssumption
  DEF Init, TypeOK, CheckoutOK, Working, PlanShape, Mappings, NoPlan
<1>2. PlansHold /\ GitHolds /\ EchoesHold /\ CoveredAreMarked /\ ProposedOnce
  BY DEF Init, PlansHold, GitHolds, EchoesHold, CoveredAreMarked, ProposedOnce, NoPlan,
         Idle
<1>3. DecisionsStand /\ Backed
  BY OutcomesOf DEF Init, DecisionsStand, Backed
<1> QED BY <1>1, <1>2, <1>3 DEF IndInv

-------------------------------------------------------------------------------

(* Every behaviour of the registry satisfies the invariant.                *)
THEOREM Invariance == Spec => []IndInv
<1>1. IndInv /\ [Next]_vars => IndInv'
  <2> SUFFICES ASSUME IndInv, Next PROVE IndInv'
    BY StutterInv
  <2>1. ASSUME NEW f \in Fields, Observe(f) PROVE IndInv'
    BY <2>1, ObserveInv
  <2>2. ASSUME NEW f \in Fields, Command(f) PROVE IndInv'
    BY <2>2, CommandInv
  <2>3. ASSUME NEW f \in Fields, NEW r \in Requests, Patch(r, f) PROVE IndInv'
    BY <2>3, PatchInv
  <2>4. ASSUME NEW r \in Requests, ReadStatus(r) PROVE IndInv'
    BY <2>4, ReadStatusInv
  <2>5. ASSUME NEW r \in Requests, Echo(r) PROVE IndInv'
    BY <2>5, EchoInv
  <2>6. ASSUME NEW r \in Requests, Remap(r) PROVE IndInv'
    BY <2>6, RemapInv
  <2>7. ASSUME NEW r \in Requests, RequestEnds(r) PROVE IndInv'
    BY <2>7, RequestEndsInv
  <2>8. ASSUME NEW u \in Updaters, Propose(u) PROVE IndInv'
    BY <2>8, ProposeInv
  <2>9. ASSUME NEW u \in Updaters, GitFails(u) PROVE IndInv'
    BY <2>9, GitFailsInv
  <2>10. ASSUME NEW u \in Updaters, Commit(u) PROVE IndInv'
    BY <2>10, CommitInv
  <2>11. ASSUME NEW u \in Updaters, UpdaterDies(u) PROVE IndInv'
    BY <2>11, UpdaterDiesInv
  <2>12. ASSUME NEW u \in Updaters, NEW f \in Fields, Mark(u, f) PROVE IndInv'
    BY <2>12, MarkInv
  <2>13. ASSUME NEW u \in Updaters, Checkout(u) PROVE IndInv'
    BY <2>13, CheckoutInv
  <2>14. ASSUME NEW u \in Updaters, WriteScaffold(u) PROVE IndInv'
    BY <2>14, WriteScaffoldInv
  <2>15. ASSUME NEW u \in Updaters, Add(u) PROVE IndInv'
    BY <2>15, AddInv
  <2> QED BY <2>1, <2>2, <2>3, <2>4, <2>5, <2>6, <2>7, <2>8, <2>9, <2>10,
             <2>11, <2>12, <2>13, <2>14, <2>15
          DEF Next
<1> QED BY <1>1, InitInv, PTL DEF Spec

(* Only rows that exist carry a suggestion, a decision, a request or a     *)
(* proposal, in any interleaving of the processes on the table.            *)
THEOREM TypeCorrect == Spec => []TypeOK
<1>1. IndInv => TypeOK
  BY DEF IndInv
<1> QED BY <1>1, Invariance, PTL

(* A decision of an analyst outlasts sightings, other requests and the     *)
(* marks of updaters, but for a write of what was read before it.          *)
THEOREM DecisionsOutlast == Spec => []DecisionsStand
<1>1. IndInv => DecisionsStand
  BY DEF IndInv
<1> QED BY <1>1, Invariance, PTL

(* What create_update_branch marked promoted is at the tip of a branch or  *)
(* on the model, whatever git commands fail, processes die and later runs  *)
(* do, as long as the run commits and no other one is on its checkout.     *)
THEOREM PromotedAreOffered == Spec => []PromotedMeansOffered
<1>1. IndInv => PromotedMeansOffered
  <2>1. Safe \subseteq left \cup tip
    BY DEF Safe
  <2> QED BY <2>1 DEF IndInv, Backed, PromotedMeansOffered
<1> QED BY <1>1, Invariance, PTL

(* create_update_branch does not propose a field again that it has         *)
(* proposed and nobody put up again.                                       *)
THEOREM ProposalsAreUnique == Spec => []ProposedOnce
<1>1. IndInv => ProposedOnce
  BY DEF IndInv
<1> QED BY <1>1, Invariance, PTL

-------------------------------------------------------------------------------
(* UDMParser: routing and detection.                                       *)

(* The routes, by their place.                                             *)
LEMMA RoutesAre ==
  /\ Len(Registered) = 8 /\ DOMAIN Registered = 1 .. 8
  /\ Registered[1] = "cloud.aws.cloudtrail"
  /\ Registered[2] = "cloud.aws.eks"
  /\ Registered[3] = "cloud.aws.guardduty"
  /\ Registered[4] = "cloud.gcp.event_audit"
  /\ Registered[5] = "cloud.azure.activity"
  /\ Registered[6] = "edr.crowdstrike"
  /\ Registered[7] = "k8s.audit"
  /\ Registered[8] = "network.firewall"
BY DEF Registered

(* What the matcher of the i-th route does. *)
Verdict(p, i) == VerdictOf(p)[Registered[i]]

LEMMA VerdictsAre ==
  ASSUME NEW p
  PROVE  /\ Verdict(p, 1) = CloudTrail(p) /\ Verdict(p, 2) = Eks(p)
         /\ Verdict(p, 3) = GuardDuty(p) /\ Verdict(p, 4) = EventAudit(p)
         /\ Verdict(p, 5) = Activity(p) /\ Verdict(p, 6) = CrowdStrike(p)
         /\ Verdict(p, 7) = Audit(p) /\ Verdict(p, 8) = Firewall(p)
<1>1. \A i \in 1 .. 8 : Registered[i] \in DOMAIN QueueOfRoute
  BY RoutesAre DEF QueueOfRoute
<1> QED
  BY <1>1, RoutesAre DEF Verdict, VerdictOf

(* When a matcher says yes.                                                *)
LEMMA Matchers ==
  ASSUME NEW p
  PROVE  /\ CloudTrail(p) = "yes" <=>
              /\ Is(p, "eventSource", {"*.amazonaws.com"})
              /\ Strings(p, "eventVersion")
         /\ GuardDuty(p) = "yes" => Is(p, "detail-type", {"GuardDuty Finding"})
         /\ EventAudit(p) = "yes" <=>
              Is(p, "logName", {"cloudaudit.googleapis.com"})
         /\ CrowdStrike(p) = "yes" <=>
              \/ Is(p, "event_type", {"DetectionSummaryEvent", "EppDetectionSummaryEvent"})
              \/ Is(p, "Behaviors", {"FalconHostLink"})
              \/ Has(p, "DetectName") /\ p["DetectName"] # "null"
         /\ Audit(p) = "yes" <=>
              \/ Is(p, "apiVersion", {"audit.k8s.io/v1", "audit.k8s.io/v1beta1"})
              \/ AuditKeys \subseteq DOMAIN p
         /\ Firewall(p) = "yes" <=>
              \/ Is(p, "action", {"DENY", "DROP", "BLOCK", "REJECT"})
              \/ Is(p, "log_type", {"firewall_deny", "ddos_flow", "pcap_summary"})
              \/ Is(p, "flags", {"SYN", "RST", "FIN,ACK"})
<1>1. CloudTrail(p) = "yes" <=>
        Is(p, "eventSource", {"*.amazonaws.com"}) /\ Strings(p, "eventVersion")
  BY DEF CloudTrail, Matches
<1>2. GuardDuty(p) = "yes" => Is(p, "detail-type", {"GuardDuty Finding"})
  BY DEF GuardDuty
<1>3. EventAudit(p) = "yes" <=> Is(p, "logName", {"cloudaudit.googleapis.com"})
  BY DEF EventAudit, Matches, Is, Has, Untyped
<1>4. CrowdStrike(p) = "yes" <=>
        \/ Is(p, "event_type", {"DetectionSummaryEvent", "EppDetectionSummaryEvent"})
        \/ Is(p, "Behaviors", {"FalconHostLink"})
        \/ Has(p, "DetectName") /\ p["DetectName"] # "null"
  BY DEF CrowdStrike, Matches
<1>5. Audit(p) = "yes" <=>
        \/ Is(p, "apiVersion", {"audit.k8s.io/v1", "audit.k8s.io/v1beta1"})
        \/ AuditKeys \subseteq DOMAIN p
  BY DEF Audit, AuditKeys, Matches
<1>6. Firewall(p) = "yes" <=>
        \/ Is(p, "action", {"DENY", "DROP", "BLOCK", "REJECT"})
        \/ Is(p, "log_type", {"firewall_deny", "ddos_flow", "pcap_summary"})
        \/ Is(p, "flags", {"SYN", "RST", "FIN,ACK"})
  BY DEF Firewall, Matches
<1> QED
  BY <1>1, <1>2, <1>3, <1>4, <1>5, <1>6

(* The Azure matcher raises on a resourceProvider that is not a string     *)
(* before it looks at anything else.                                       *)
LEMMA ActivityIs ==
  ASSUME NEW p
  PROVE  /\ Activity(p) = "yes" =>
              \/ Is(p, "resourceProvider", {"Microsoft.*"})
              \/ Is(p, "operationName", {"value: Microsoft.*"})
              \/ Has(p, "tenantId")
         /\ \/ Is(p, "resourceProvider", {"Microsoft.*"})
            \/ Is(p, "operationName", {"value: Microsoft.*"})
            \/ Is(p, "tenantId", {"azure"})
            => \/ Activity(p) = "yes"
               \/ Untyped(p, "resourceProvider")
               \/ Is(p, "resourceProvider", {"object"})
<1>1. CASE Untyped(p, "resourceProvider") \/ Is(p, "resourceProvider", {"object"})
  <2>1. ~ Is(p, "resourceProvider", {"Microsoft.*"})
    BY <1>1 DEF Is, Untyped
  <2>2. Activity(p) = "raises"
    BY <1>1, <2>1 DEF Activity
  <2> QED
    BY <1>1, <2>2
<1>2. CASE ~ (Untyped(p, "resourceProvider") \/ Is(p, "resourceProvider", {"object"}))
  <2>1. Activity(p) =
          IF Is(p, "resourceProvider", {"Microsoft.*"}) THEN "yes"
          ELSE IF Is(p, "tenantId", {"azure"}) THEN "yes"
          ELSE IF \/ Untyped(p, "operationName")
                  \/ Is(p, "operationName", {"other", "value: null"}) THEN "raises"
          ELSE Matches(Is(p, "operationName", {"value: Microsoft.*"}))
    BY <1>2 DEF Activity
  <2>2. Is(p, "operationName", {"value: Microsoft.*"}) =>
          ~ (\/ Untyped(p, "operationName")
             \/ Is(p, "operationName", {"other", "value: null"}))
    BY DEF Is, Untyped
  <2>3. Is(p, "tenantId", {"azure"}) => Has(p, "tenantId")
    BY DEF Is
  <2> QED
    BY <2>1, <2>2, <2>3 DEF Matches
<1> QED
  BY <1>1, <1>2

(* The conditions detect_source_type tries, in its order, by what it       *)
(* returns.                                                                *)
LEMMA DetectionIs ==
  ASSUME NEW p
  PROVE  LET s == DetectSourceType(p)
             amazon == /\ Is(p, "eventSource", {"*.amazonaws.com"})
                       /\ Has(p, "eventVersion")
             guardduty == Is(p, "detail-type", {"GuardDuty Finding"})
             audit == Is(p, "logName", {"cloudaudit.googleapis.com"})
             microsoft == \/ Is(p, "resourceProvider", {"Microsoft.*"})
                          \/ Is(p, "operationName", {"value: Microsoft.*"})
                          \/ Has(p, "tenantId")
             falcon == CrowdStrike(p) = "yes"
             k8s == Audit(p) = "yes"
             denied == Is(p, "action", {"DENY", "DROP", "BLOCK", "REJECT"})
             flow == Is(p, "log_type", {"firewall_deny", "ddos_flow", "pcap_summary"})
         IN  /\ s \in Sources \cup {"raises"}
             /\ amazon /\ ~ Untyped(p, "eventSource") => s = "aws"
             /\ guardduty => s \in {"aws", "raises"}
             /\ audit => s \in {"aws", "gcp", "raises"}
             /\ microsoft => s \in {"aws", "gcp", "azure", "raises"}
             /\ falcon => s \in {"aws", "gcp", "azure", "crowdstrike", "raises"}
             /\ k8s => s \in {"aws", "gcp", "azure", "crowdstrike", "k8s", "openshift",
                               "raises"}
             /\ denied \/ flow => s # "unknown"
             /\ s = "aws" => amazon \/ guardduty
             /\ s = "gcp" => audit
             /\ s = "azure" => microsoft
             /\ s = "crowdstrike" => falcon
             /\ s \in {"k8s", "openshift"} => k8s
             /\ s = "firewall" => denied
             /\ s = "ddos" => flow
<1>1. CrowdStrike(p) = "yes" <=>
        \/ Is(p, "event_type", {"DetectionSummaryEvent", "EppDetectionSummaryEvent"})
        \/ Is(p, "Behaviors", {"FalconHostLink"})
        \/ Has(p, "DetectName") /\ p["DetectName"] # "null"
  BY Matchers
<1>2. Audit(p) = "yes" <=>
        \/ Is(p, "apiVersion", {"audit.k8s.io/v1", "audit.k8s.io/v1beta1"})
        \/ AuditKeys \subseteq DOMAIN p
  BY Matchers
<1> QED
  BY <1>1, <1>2 DEF DetectSourceType, Sources

(* Routing and detection, judged on the same keys.  Where the first of the *)
(* routes other than the EKS route to accept the event and the detected    *)
(* source disagree, it is for one of these reasons.                        *)
Excused(p, s, route) ==
  \/ s = "unknown" /\ Has(p, "flags") /\ route \in {"network.firewall", "cloud.aws.eks"}
  \/ s = "azure" /\ Has(p, "tenantId") /\ p["tenantId"] # "azure"
  \/ s = "azure" /\ Is(p, "resourceProvider", {"object"})
  \/ s = "aws" /\ Untyped(p, "eventVersion")
  \/ s = "aws" /\ Has(p, "detail-type") /\ GuardDuty(p) # "yes"

(* An event that is detected to be of a vendor is one that a matcher of    *)
(* the vendor's own routes accepts, or is excused.                         *)
LEMMA DetectedBefore ==
  ASSUME NEW p, NEW route
  PROVE  /\ DetectSourceType(p) = "aws" /\ "yes" \notin {CloudTrail(p), GuardDuty(p)}
              => Excused(p, "aws", route)
         /\ DetectSourceType(p) = "gcp" => EventAudit(p) = "yes"
         /\ DetectSourceType(p) = "azure" /\ Activity(p) # "yes"
              => Excused(p, "azure", route) \/ Untyped(p, "resourceProvider")
         /\ DetectSourceType(p) = "crowdstrike" => CrowdStrike(p) = "yes"
         /\ DetectSourceType(p) \in {"k8s", "openshift"} => Audit(p) = "yes"
<1>1. ASSUME DetectSourceType(p) = "aws",
             CloudTrail(p) # "yes", GuardDuty(p) # "yes"
      PROVE  Excused(p, "aws", route)
  <2>1. CASE Is(p, "eventSource", {"*.amazonaws.com"}) /\ Has(p, "eventVersion")
    <3>1. ~ Strings(p, "eventVersion")
      BY <1>1, <2>1, Matchers
    <3> QED
      BY <2>1, <3>1 DEF Strings, Excused
  <2>2. CASE Is(p, "detail-type", {"GuardDuty Finding"})
    BY <1>1, <2>2 DEF Is, Excused
  <2> QED
    BY <1>1, <2>1, <2>2, DetectionIs
<1>2. DetectSourceType(p) = "gcp" => EventAudit(p) = "yes"
  BY DetectionIs, Matchers
<1>3. ASSUME DetectSourceType(p) = "azure", Activity(p) # "yes",
             ~ Untyped(p, "resourceProvider"), ~ Is(p, "resourceProvider", {"object"})
      PROVE  Has(p, "tenantId") /\ p["tenantId"] # "azure"
  <2>1. /\ ~ Is(p, "resourceProvider", {"Microsoft.*"})
        /\ ~ Is(p, "operationName", {"value: Microsoft.*"})
        /\ ~ Is(p, "tenantId", {"azure"})
    BY <1>3, ActivityIs
  <2>2. Has(p, "tenantId")
    BY <1>3, <2>1, DetectionIs
  <2> QED
    BY <2>1, <2>2 DEF Is
<1>4. /\ DetectSourceType(p) = "crowdstrike" => CrowdStrike(p) = "yes"
      /\ DetectSourceType(p) \in {"k8s", "openshift"} => Audit(p) = "yes"
  BY DetectionIs
<1> QED
  BY <1>1, <1>2, <1>3, <1>4 DEF Excused

(* The source of an event that the n-th matcher accepts, and none before   *)
(* it but perhaps that of the EKS route, whichever of the two routes it    *)
(* takes.                                                                  *)
LEMMA Agreement ==
  ASSUME NEW p, NEW n \in 1 .. 8, n # 2, Verdict(p, n) = "yes",
         \A m \in 1 .. n - 1 : m # 2 => Verdict(p, m) # "yes",
         NEW route \in {Registered[n], "cloud.aws.eks"},
         DetectSourceType(p) # "raises",
         DetectSourceType(p) = "azure" => ~ Untyped(p, "resourceProvider")
  PROVE  \/ EffectiveSource(raw, DetectSourceType(p))
              \in SourceOfRoute(Registered[n])
         \/ /\ Excused(p, DetectSourceType(p), route)
            /\ EffectiveSource(raw, DetectSourceType(p)) = DetectSourceType(p)
<1> DEFINE s == DetectSourceType(p)
           e == EffectiveSource(raw, s)
<1>1. /\ s \in Sources /\ e \in Sources
      /\ s \in {"k8s", "openshift"} => e \in {"k8s", "openshift"}
      /\ s \notin {"k8s", "openshift"} => e = s
  <2>1. s \in Sources
    BY DetectionIs
  <2> QED
    BY <2>1 DEF EffectiveSource, Sources
<1> HIDE DEF s, e
<1>2. /\ Verdict(p, 1) = CloudTrail(p) /\ Verdict(p, 2) = Eks(p)
      /\ Verdict(p, 3) = GuardDuty(p) /\ Verdict(p, 4) = EventAudit(p)
      /\ Verdict(p, 5) = Activity(p) /\ Verdict(p, 6) = CrowdStrike(p)
      /\ Verdict(p, 7) = Audit(p) /\ Verdict(p, 8) = Firewall(p)
  BY VerdictsAre
<1>3. /\ SourceOfRoute("cloud.aws.cloudtrail") = {"aws"}
      /\ SourceOfRoute("cloud.aws.guardduty") = {"aws"}
      /\ SourceOfRoute("cloud.gcp.event_audit") = {"gcp"}
      /\ SourceOfRoute("cloud.azure.activity") = {"azure"}
      /\ SourceOfRoute("edr.crowdstrike") = {"crowdstrike"}
      /\ SourceOfRoute("k8s.audit") = {"k8s", "openshift"}
      /\ SourceOfRoute("network.firewall") = {"firewall", "ddos"}
  BY DEF SourceOfRoute
(* A source that detection puts before the route's is excused, or its own  *)
(* route would have been hit.                                              *)
<1>4. /\ n > 3 /\ s = "aws" => Excused(p, s, route)
      /\ n > 4 => s # "gcp"
      /\ n > 5 /\ s = "azure" => Excused(p, s, route)
      /\ n > 6 => s # "crowdstrike"
      /\ n > 7 => s \notin {"k8s", "openshift"}
  <2>1. \A m \in 1 .. 7 : n > m /\ m # 2 => Verdict(p, m) # "yes"
    OBVIOUS
  <2> QED
    BY <1>2, <2>1, DetectedBefore DEF s
<1>5. CASE n = 1
  <2>1. Is(p, "eventSource", {"*.amazonaws.com"}) /\ Has(p, "eventVersion")
    BY <1>2, <1>5, Matchers DEF Strings
  <2>2. ~ Untyped(p, "eventSource")
    BY <2>1 DEF Is, Untyped
  <2>3. s = "aws"
    BY <2>1, <2>2, DetectionIs DEF s
  <2> QED
    BY <1>1, <1>3, <1>5, <2>3, RoutesAre DEF s, e
<1>7. CASE n = 3
  <2>1. s = "aws"
    BY <1>2, <1>7, Matchers, DetectionIs DEF s
  <2> QED
    BY <1>1, <1>3, <1>7, <2>1, RoutesAre DEF s, e
<1>8. CASE n = 4
  <2>1. s \in {"aws", "gcp"}
    BY <1>2, <1>8, Matchers, DetectionIs DEF s
  <2> QED
    BY <1>1, <1>3, <1>4, <1>8, <2>1, RoutesAre DEF s, e
<1>9. CASE n = 5
  <2>1. s \in {"aws", "gcp", "azure"}
    BY <1>2, <1>9, ActivityIs, DetectionIs DEF s
  <2>2. s \in {"aws", "azure"}
    BY <1>4, <1>9, <2>1
  <2> QED
    BY <1>1, <1>3, <1>4, <1>9, <2>2, RoutesAre DEF s, e
<1>10. CASE n = 6
  <2>1. s \in {"aws", "gcp", "azure", "crowdstrike"}
    BY <1>2, <1>10, DetectionIs DEF s
  <2>2. s \in {"aws", "azure", "crowdstrike"}
    BY <1>4, <1>10, <2>1
  <2> QED
    BY <1>1, <1>3, <1>4, <1>10, <2>2, RoutesAre DEF s, e
<1>11. CASE n = 7
  <2>1. s \in {"aws", "gcp", "azure", "crowdstrike", "k8s", "openshift"}
    BY <1>2, <1>11, DetectionIs DEF s
  <2>2. s \in {"aws", "azure", "k8s", "openshift"}
    BY <1>4, <1>11, <2>1
  <2> QED
    BY <1>1, <1>3, <1>4, <1>11, <2>2, RoutesAre DEF s, e
<1>12. CASE n = 8
  <2>1. s \in {"aws", "azure", "firewall", "ddos", "unknown"}
    BY <1>1, <1>4, <1>12 DEF Sources
  <2>2. s = "unknown" => Has(p, "flags")
    BY <1>2, <1>12, Matchers, DetectionIs DEF Is, s
  <2>3. s = "unknown" => Excused(p, s, route)
    BY <1>12, <2>2, RoutesAre DEF Excused
  <2> QED
    BY <1>1, <1>3, <1>4, <1>12, <2>1, <2>3, RoutesAre DEF s, e
<1> QED
  BY <1>5, <1>7, <1>8, <1>9, <1>10, <1>11, <1>12

(* The source of an event that no matcher accepts but that of the EKS      *)
(* route.                                                                  *)
LEMMA OnlyEks ==
  ASSUME NEW p, \A m \in 1 .. 8 : m # 2 => Verdict(p, m) # "yes",
         DetectSourceType(p) # "raises",
         DetectSourceType(p) = "azure" => ~ Untyped(p, "resourceProvider")
  PROVE  /\ EffectiveSource(raw, DetectSourceType(p)) = DetectSourceType(p)
         /\ \/ DetectSourceType(p) = "unknown"
            \/ Excused(p, DetectSourceType(p), "cloud.aws.eks")
<1> DEFINE s == DetectSourceType(p)
<1>1. /\ CloudTrail(p) # "yes" /\ GuardDuty(p) # "yes" /\ EventAudit(p) # "yes"
      /\ Activity(p) # "yes" /\ CrowdStrike(p) # "yes" /\ Audit(p) # "yes"
      /\ Firewall(p) # "yes"
  BY VerdictsAre
<1>2. s \in Sources \ {"gcp", "crowdstrike", "k8s", "openshift"}
  BY <1>1, DetectionIs, DetectedBefore
<1>3. s \notin {"firewall", "ddos"}
  BY <1>1, DetectionIs, Matchers
<1>4. s \in {"aws", "azure"} => Excused(p, s, "cloud.aws.eks")
  BY <1>1, DetectedBefore
<1>5. EffectiveSource(raw, s) = s
  BY <1>2 DEF EffectiveSource
<1> HIDE DEF s
<1>6. s \in {"aws", "azure", "unknown"}
  BY <1>2, <1>3 DEF Sources
<1> QED
  BY <1>4, <1>5, <1>6 DEF s

-------------------------------------------------------------------------------
(* What the normalizers read.                                              *)

(* One path, and two. *)
LEMMA Tuples ==
  /\ \A a : DOMAIN <<a>> = 1 .. 1 /\ <<a>>[1] = a
  /\ \A a, b : DOMAIN <<a, b>> = 1 .. 2 /\ <<a, b>>[1] = a /\ <<a, b>>[2] = b
<1>1. ASSUME NEW a PROVE DOMAIN <<a>> = 1 .. 1 /\ <<a>>[1] = a
  OBVIOUS
<1>2. ASSUME NEW a, NEW b
      PROVE  DOMAIN <<a, b>> = 1 .. 2 /\ <<a, b>>[1] = a /\ <<a, b>>[2] = b
  OBVIOUS
<1> QED
  BY <1>1, <1>2

(* The places, among the paths a field is read from, of those it may be    *)
(* taken from.                                                             *)
Found(r, s, f) ==
  LET tried == Reads(s)[f]
  IN  {i \in DOMAIN tried :
         /\ tried[i] \in DOMAIN r
         /\ s = "aws" /\ f = "identity" => Head(r[tried[i]]) # "empty"}

LEMMA TakenIs ==
  ASSUME NEW r, NEW s, NEW f
  PROVE  TakenFrom(r, s, f) =
           IF Found(r, s, f) = {} THEN "default"
           ELSE Reads(s)[f][CHOOSE i \in Found(r, s, f) : \A j \in Found(r, s, f) : i <= j]
BY DEF TakenFrom, Found

LEMMA TakenFromThe ==
  ASSUME NEW r, NEW s, NEW f, NEW n \in Found(r, s, f), Found(r, s, f) \subseteq Int,
         \A j \in Found(r, s, f) : n <= j
  PROVE  TakenFrom(r, s, f) = Reads(s)[f][n]
<1> DEFINE c == CHOOSE i \in Found(r, s, f) : \A j \in Found(r, s, f) : i <= j
<1>1. c \in Found(r, s, f) /\ \A j \in Found(r, s, f) : c <= j
  OBVIOUS
<1> HIDE DEF c
<1>2. c = n
  BY <1>1
<1> QED
  BY <1>2, TakenIs DEF c

(* A path is taken if it is the one a field is read from, or one of two    *)
(* and the other is absent; of AWS's identities, if it is not empty.       *)
LEMMA TakenOfOne ==
  ASSUME NEW r, NEW s, NEW f, NEW q \in DOMAIN r,
         Reads(s)[f] = <<q>>, Head(r[q]) # "empty"
  PROVE  TakenFrom(r, s, f) = q
<1>1. DOMAIN Reads(s)[f] = 1 .. 1 /\ Reads(s)[f][1] = q
  BY Tuples
<1>2. 1 \in Found(r, s, f) /\ Found(r, s, f) \subseteq 1 .. 1
  BY <1>1 DEF Found
<1>3. \A j \in Found(r, s, f) : j \in Int /\ 1 <= j
  BY <1>2
<1> QED
  BY <1>1, <1>2, <1>3, TakenFromThe

LEMMA TakenOfTwo ==
  ASSUME NEW r, NEW s, NEW f, NEW q \in DOMAIN r, NEW b, b \notin DOMAIN r,
         Reads(s)[f] \in {<<q, b>>, <<b, q>>}, Head(r[q]) # "empty"
  PROVE  TakenFrom(r, s, f) = q
<1>1. DOMAIN Reads(s)[f] = 1 .. 2
  BY Tuples
<1>2. PICK n \in 1 .. 2 : /\ Reads(s)[f][n] = q
                          /\ \A m \in 1 .. 2 : m # n => Reads(s)[f][m] = b
  <2>1. CASE Reads(s)[f] = <<q, b>>
    <3>1. Reads(s)[f][1] = q /\ Reads(s)[f][2] = b
      BY <2>1, Tuples
    <3> QED
      BY <3>1
  <2>2. CASE Reads(s)[f] = <<b, q>>
    <3>1. Reads(s)[f][2] = q /\ Reads(s)[f][1] = b
      BY <2>2, Tuples
    <3> QED
      BY <3>1
  <2> QED
    BY <2>1, <2>2
<1>3. n \in Found(r, s, f) /\ \A j \in Found(r, s, f) : j = n
  BY <1>1, <1>2 DEF Found
<1>4. Found(r, s, f) \subseteq Int /\ \A j \in Found(r, s, f) : n <= j
  <2>1. n \in Int /\ n <= n
    OBVIOUS
  <2> QED
    BY <1>3, <2>1
<1> QED
  BY <1>2, <1>3, <1>4, TakenFromThe

(* A path that is taken is one of those tried.                             *)
LEMMA TakenIsTried ==
  ASSUME NEW r, NEW s, NEW f, DOMAIN Reads(s)[f] \subseteq 1 .. 2,
         TakenFrom(r, s, f) # "default"
  PROVE  \E i \in DOMAIN Reads(s)[f] : Reads(s)[f][i] = TakenFrom(r, s, f)
<1>1. Found(r, s, f) \subseteq 1 .. 2 /\ Found(r, s, f) # {}
  BY TakenIs DEF Found
<1>2. \E n \in Found(r, s, f) : \A j \in Found(r, s, f) : n <= j
  <2>1. CASE 1 \in Found(r, s, f)
    BY <1>1, <2>1
  <2>2. CASE 1 \notin Found(r, s, f)
    BY <1>1, <2>2
  <2> QED
    BY <2>1, <2>2
<1>3. PICK n \in Found(r, s, f) : \A j \in Found(r, s, f) : n <= j
  BY <1>2
<1>4. TakenFrom(r, s, f) = Reads(s)[f][n]
  BY <1>1, <1>3, TakenFromThe
<1> QED
  BY <1>4 DEF Found

(* What the event's own keys say of its paths: a resourceProvider that is  *)
(* neither a string nor an object is a value of the raw event, and the     *)
(* Azure normalizer refuses it.                                            *)
LEMMA UntypedProviderRaises ==
  ASSUME NEW r, IsEvent(r), Untyped(TopLevel(r), "resourceProvider")
  PROVE  Raises(r, "azure")
<1> DEFINE k == "resourceProvider"
           q == CHOOSE x \in DOMAIN r : TopKey(x) = k
<1>1. /\ k \in {TopKey(x) : x \in DOMAIN r}
      /\ TopLevel(r)[k] = TopValue(q, Head(r[q]))
  BY DEF TopLevel, Untyped, Is, Has
<1>2. q \in DOMAIN r /\ TopKey(q) = k
  BY <1>1
<1> HIDE DEF q
<1>3. q \in {"resourceProvider", "resourceProvider.value"}
  BY <1>2 DEF TopKey
<1>4. TopValue(q, Head(r[q])) \in {"null", "number"}
  BY <1>1 DEF Untyped, Is
<1>5. q = "resourceProvider"
  <2>1. ASSUME NEW v PROVE TopValue("resourceProvider.value", v) = "object"
    BY DEF TopValue
  <2> QED
    BY <1>3, <1>4, <2>1
<1>6. "resourceProvider" \in DOMAIN r /\ Head(r["resourceProvider"]) \in {"null", "number"}
  <2>1. ASSUME NEW v PROVE TopValue("resourceProvider", v) = v
    BY DEF TopValue
  <2> QED
    BY <1>2, <1>4, <1>5, <2>1
<1>7. /\ "resource_type" \in DOMAIN Reads("azure")
      /\ Reads("azure")["resource_type"] = <<"resourceProvider", "resourceProvider.value">>
  BY DEF Reads, AzureReads
<1>8. TakenFrom(r, "azure", "resource_type") = "resourceProvider"
  <2>1. "resourceProvider.value" \notin DOMAIN r
    BY <1>6 DEF IsEvent, ValueOrObject
  <2>2. Head(r["resourceProvider"]) # "empty"
    BY <1>6
  <2> QED
    BY <1>6, <1>7, <2>1, <2>2, TakenOfTwo
<1>9. ~ Accepts("azure", "resource_type", "resourceProvider", Head(r["resourceProvider"]))
  BY <1>6 DEF Accepts, Numbers
<1> QED
  BY <1>7, <1>8, <1>9 DEF Raises

-------------------------------------------------------------------------------
(* The invariant.                                                          *)

(* The source type the event is parsed as.                                 *)
Wanted == IF given = "none" THEN DetectSourceType(TopLevel(raw)) ELSE given

(* What parse() returns is what its arguments make of it, and no           *)
(* normalizer raised.                                                      *)
ParserInv ==
  /\ IsEvent(raw) /\ given \in Sources \cup {"none"}
  /\ Parsed => /\ Wanted \in Sources /\ ~ Raises(raw, Wanted)
               /\ source = EffectiveSource(raw, Wanted)
               /\ udm = Projected(raw, Wanted)
               /\ unmapped = Unmapped(raw, source)

LEMMA ParserInitInv ==
  ASSUME ParserInit
  PROVE  ParserInv
BY UDMParserAssumption DEF ParserInit, ParserInv, Parsed

LEMMA ParserNextInv ==
  ASSUME ParserInv, [ParserNext]_parserVars
  PROVE  ParserInv'
<1>1. CASE Parse
  <2>1. raw' = raw /\ given' = given /\ Wanted' = Wanted
    BY <1>1 DEF Parse, Wanted
  <2>2. Wanted \in Sources \cup {"raises"}
    BY DetectionIs DEF Wanted, ParserInv
  <2>3. CASE Wanted = "raises" \/ Raises(raw, Wanted)
    <3>1. step' = "raised"
      BY <1>1, <2>3 DEF Parse, Wanted
    <3> QED
      BY <2>1, <3>1 DEF ParserInv, Parsed
  <2>4. CASE ~ (Wanted = "raises" \/ Raises(raw, Wanted))
    <3>1. /\ source' = EffectiveSource(raw, Wanted) /\ udm' = Projected(raw, Wanted)
          /\ unmapped' = Unmapped(raw, source')
      BY <1>1, <2>4 DEF Parse, Wanted
    <3> QED
      BY <2>1, <2>2, <2>4, <3>1 DEF ParserInv
  <2> QED
    BY <2>3, <2>4
<1>2. ASSUME NEW v \in unmapped, Record(v) PROVE ParserInv'
  BY <1>2 DEF Record, ParserInv, Parsed, Wanted
<1>3. CASE RecordFails
  BY <1>3 DEF RecordFails, ParserInv, Parsed, Wanted
<1>4. CASE UNCHANGED parserVars
  BY <1>4 DEF parserVars, ParserInv, Parsed, Wanted
<1> QED
  BY <1>1, <1>2, <1>3, <1>4 DEF ParserNext

(* The invariant holds of every behaviour: the two properties follow.      *)
THEOREM ParserInvariance == ParserSpec => []ParserInv
BY ParserInitInv, ParserNextInv, PTL DEF ParserSpec

(* The route an event takes, by its place.                                 *)
LEMMA FirstHit ==
  ASSUME NEW p, p \in Routing(p)!Routable
  PROVE  \E n \in 1 .. 8 : /\ Verdict(p, n) = "yes"
                           /\ \A m \in 1 .. n - 1 : Verdict(p, m) # "yes"
                           /\ Routing(p)!Match(p) = Registered[n]
<1> DEFINE H == Routing(p)!Hits(p)
           c == CHOOSE i \in H : \A j \in H : i <= j
<1>1. H = {i \in 1 .. 8 : Verdict(p, i) = "yes"}
  BY RoutesAre DEF Routing!Hits, Verdict
<1>2. H # {}
  BY DEF Routing!Routable
<1>3. Routing(p)!Match(p) = Registered[c]
  BY DEF Routing!Match
<1> HIDE DEF H
<1>4. \E n \in H : \A j \in H : n <= j
  BY <1>1, <1>2
<1>5. c \in H /\ \A j \in H : c <= j
  BY <1>4
<1> HIDE DEF c
<1> QED
  BY <1>1, <1>3, <1>5

(* The other routes that accept it, by their places, and the first.        *)
Others(p) == {i \in Routing(p)!Hits(p) : Registered[i] # "cloud.aws.eks"}

LEMMA OthersAre ==
  ASSUME NEW p
  PROVE  Others(p) = {i \in 1 .. 8 : i # 2 /\ Verdict(p, i) = "yes"}
<1>1. Routing(p)!Hits(p) = {i \in 1 .. 8 : Verdict(p, i) = "yes"}
  BY RoutesAre DEF Routing!Hits, Verdict
<1>2. \A i \in 1 .. 8 : Registered[i] = "cloud.aws.eks" <=> i = 2
  BY RoutesAre
<1> QED
  BY <1>1, <1>2 DEF Others

LEMMA FirstOther ==
  ASSUME NEW p, \E m \in 1 .. 8 : m # 2 /\ Verdict(p, m) = "yes"
  PROVE  \E k \in 1 .. 8 : /\ k # 2 /\ Verdict(p, k) = "yes"
                           /\ \A m \in 1 .. k - 1 : m # 2 => Verdict(p, m) # "yes"
                           /\ SourcesWithoutEks(p) = SourceOfRoute(Registered[k])
<1> DEFINE O == Others(p)
           c == CHOOSE i \in O : \A j \in O : i <= j
<1>1. O = {i \in 1 .. 8 : i # 2 /\ Verdict(p, i) = "yes"}
  BY OthersAre
<1>2. O # {}
  BY <1>1
<1>3. SourcesWithoutEks(p) = SourceOfRoute(Registered[c])
  BY <1>2 DEF SourcesWithoutEks, Others
<1> HIDE DEF O
<1>4. \E k \in O : \A j \in O : k <= j
  BY <1>1, <1>2
<1>5. c \in O /\ \A j \in O : c <= j
  BY <1>4
<1> HIDE DEF c
<1> QED
  BY <1>1, <1>3, <1>5

LEMMA RoutedInv ==
  ASSUME ParserInv
  PROVE  RoutedAsDetected
<1> DEFINE p == TopLevel(raw)
<1> SUFFICES ASSUME given = "none", Parsed, p \in Routing(p)!Routable
             PROVE  \/ source \in SourceOfRoute(Routing(p)!Match(p))
                    \/ /\ Routing(p)!Match(p) = "cloud.aws.eks"
                       /\ source \in SourcesWithoutEks(p)
                    \/ Excused(p, source, Routing(p)!Match(p))
  BY DEF RoutedAsDetected, Excused
<1>1. /\ IsEvent(raw) /\ source = EffectiveSource(raw, DetectSourceType(p))
      /\ DetectSourceType(p) # "raises" /\ ~ Raises(raw, DetectSourceType(p))
  BY DEF ParserInv, Wanted, Sources
<1>2. DetectSourceType(p) = "azure" => ~ Untyped(p, "resourceProvider")
  BY <1>1, UntypedProviderRaises
<1> HIDE DEF p
<1>3. PICK n \in 1 .. 8 : /\ Verdict(p, n) = "yes"
                          /\ \A m \in 1 .. n - 1 : Verdict(p, m) # "yes"
                          /\ Routing(p)!Match(p) = Registered[n]
  BY FirstHit
<1>4. CASE n # 2
  BY <1>1, <1>2, <1>3, <1>4, Agreement
<1>5. CASE n = 2 /\ \A m \in 1 .. 8 : m # 2 => Verdict(p, m) # "yes"
  <2>1. Routing(p)!Match(p) = "cloud.aws.eks"
    BY <1>3, <1>5, RoutesAre
  <2>2. SourcesWithoutEks(p) = {"unknown"}
    BY <1>5, OthersAre DEF SourcesWithoutEks, Others
  <2> QED
    BY <1>1, <1>2, <1>5, <2>1, <2>2, OnlyEks
<1>6. CASE n = 2 /\ \E m \in 1 .. 8 : m # 2 /\ Verdict(p, m) = "yes"
  <2>1. Routing(p)!Match(p) = "cloud.aws.eks"
    BY <1>3, <1>6, RoutesAre
  <2>2. PICK k \in 1 .. 8 : /\ k # 2 /\ Verdict(p, k) = "yes"
                            /\ \A m \in 1 .. k - 1 : m # 2 => Verdict(p, m) # "yes"
                            /\ SourcesWithoutEks(p) = SourceOfRoute(Registered[k])
    BY <1>6, FirstOther
  <2> QED
    BY <1>1, <1>2, <2>1, <2>2, Agreement
<1> QED
  BY <1>4, <1>5, <1>6

(* Routing and detection agree, whatever the event, but for the six        *)
(* places where the matchers and detect_source_type differ.                *)
THEOREM RoutesAgree == ParserSpec => []RoutedAsDetected
BY ParserInvariance, RoutedInv, PTL

-------------------------------------------------------------------------------
(* The tables of the sources, one by one.                                  *)

(* The fields of a UDM event that hold a value, and the paths they read:   *)
(* one, or two names for the same thing.                                   *)
Fielded(s) == DOMAIN Reads(s) \ {"region", "outcome", "severity"}

ReadsOne(s, f, q) == f \in Fielded(s) /\ Reads(s)[f] = <<q>>

ReadsTwo(s, f, a, b) ==
  /\ f \in Fielded(s) /\ Reads(s)[f] = <<a, b>>
  /\ {a, b} \in Alternatives \cup ValueOrObject

ReadsConsumed(s, f) ==
  \/ \E a \in Consumed(s) : Reads(s)[f] = <<a>>
  \/ \E a, b \in Consumed(s) : Reads(s)[f] = <<a, b>>

(* Listed, and neither classified nor dropped. *)
Kept(s) == Consumed(s) \ (Classified(s) \cup Dropped(s))

IsRead(s, q) ==
  /\ q # "default"
  /\ \E f : \/ ReadsOne(s, f, q)
            \/ \E b : ReadsTwo(s, f, q, b) \/ ReadsTwo(s, f, b, q)

(* Every field reads paths that the source's table lists as consumed, and  *)
(* every path it lists is read, but for those that are classified or       *)
(* dropped.                                                                *)
TableFits(s) ==
  /\ \A f \in Fielded(s) : ReadsConsumed(s, f)
  /\ \A q \in Kept(s) : IsRead(s, q)

(* The fields that have two names. *)
LEMMA Pairs ==
  {{"userIdentity.arn", "userIdentity.userName"},
   {"resources[].ARN", "resources[].resourceName"}, {"eventTimestamp", "time"},
   {"resourceProvider", "resourceProvider.value"},
   {"operationName", "operationName.value"}, {"CreatedTimestamp", "ProcessStartTime"},
   {"DeviceDetails.Hostname", "Hostname"}, {"DetectName", "Behaviors[].Technique"},
   {"requestReceivedTimestamp", "stageTimestamp"}, {"timestamp", "time"},
   {"timestamp", "start_time"}, {"src_ip", "top_src_ip"}, {"dst_ip", "target_ip"}}
    \subseteq Alternatives \cup ValueOrObject
BY DEF Alternatives, ValueOrObject

LEMMA AwsFits == TableFits("aws")
<1>1. Reads("aws") = AwsReads
  BY DEF Reads
<1>2. Fielded("aws") =
        {"event_id", "timestamp", "identity", "identity_type", "account_id",
         "resource_name", "resource_type", "src_ip", "user_agent", "event_name"}
  BY <1>1 DEF Fielded, AwsReads
<1>3. /\ ReadsOne("aws", "event_id", "eventID")
      /\ ReadsOne("aws", "timestamp", "eventTime")
      /\ ReadsTwo("aws", "identity", "userIdentity.arn", "userIdentity.userName")
      /\ ReadsOne("aws", "identity_type", "userIdentity.type")
      /\ ReadsOne("aws", "account_id", "userIdentity.accountId")
      /\ ReadsTwo("aws", "resource_name", "resources[].ARN", "resources[].resourceName")
      /\ ReadsOne("aws", "resource_type", "resources[].type")
      /\ ReadsOne("aws", "src_ip", "sourceIPAddress")
      /\ ReadsOne("aws", "user_agent", "userAgent")
      /\ ReadsOne("aws", "event_name", "eventName")
  BY <1>1, <1>2, Pairs DEF ReadsOne, ReadsTwo, AwsReads
<1>4. Consumed("aws") =
        {"eventID", "eventTime", "eventName", "eventVersion", "eventSource",
         "awsRegion", "sourceIPAddress", "userAgent", "errorCode", "userIdentity.arn",
         "userIdentity.accountId", "userIdentity.type", "userIdentity.userName",
         "resources[].ARN", "resources[].resourceName", "resources[].type"}
  BY DEF Consumed
<1>5. Classified("aws") \cup Dropped("aws") =
        {"errorCode", "eventVersion", "eventSource", "awsRegion"}
  BY DEF Classified, Dropped
<1>6. \A f \in Fielded("aws") : ReadsConsumed("aws", f)
  BY <1>2, <1>3, <1>4 DEF ReadsOne, ReadsTwo, ReadsConsumed
<1>7. \A q \in Kept("aws") : IsRead("aws", q)
  BY <1>3, <1>4, <1>5 DEF IsRead, Kept
<1> QED
  BY <1>6, <1>7 DEF TableFits

LEMMA GcpFits == TableFits("gcp")
<1>1. Reads("gcp") = GcpReads
  BY DEF Reads
<1>2. Fielded("gcp") =
        {"timestamp", "identity", "account_id", "resource_name", "resource_type",
         "src_ip", "user_agent", "event_name"}
  BY <1>1 DEF Fielded, GcpReads
<1>3. /\ ReadsOne("gcp", "timestamp", "timestamp")
      /\ ReadsOne("gcp", "identity", "protoPayload.authenticationInfo.principalEmail")
      /\ ReadsOne("gcp", "account_id", "resource.labels.project_id")
      /\ ReadsOne("gcp", "resource_name", "protoPayload.resourceName")
      /\ ReadsOne("gcp", "resource_type", "resource.type")
      /\ ReadsOne("gcp", "src_ip", "protoPayload.requestMetadata.callerIp")
      /\ ReadsOne("gcp", "user_agent", "protoPayload.requestMetadata.callerSuppliedUserAgent")
      /\ ReadsOne("gcp", "event_name", "protoPayload.methodName")
  BY <1>1, <1>2, Pairs DEF ReadsOne, ReadsTwo, GcpReads
<1>4. Consumed("gcp") =
        {"logName", "timestamp", "severity",
         "protoPayload.authenticationInfo.principalEmail",
         "protoPayload.requestMetadata.callerIp",
         "protoPayload.requestMetadata.callerSuppliedUserAgent",
         "protoPayload.resourceName", "protoPayload.methodName",
         "protoPayload.status.code", "resource.type", "resource.labels.project_id"}
  BY DEF Consumed
<1>5. Classified("gcp") \cup Dropped("gcp") =
        {"severity", "protoPayload.status.code", "logName"}
  BY DEF Classified, Dropped
<1>6. \A f \in Fielded("gcp") : ReadsConsumed("gcp", f)
  BY <1>2, <1>3, <1>4 DEF ReadsOne, ReadsTwo, ReadsConsumed
<1>7. \A q \in Kept("gcp") : IsRead("gcp", q)
  BY <1>3, <1>4, <1>5 DEF IsRead, Kept
<1> QED
  BY <1>6, <1>7 DEF TableFits

LEMMA AzureFits == TableFits("azure")
<1>1. Reads("azure") = AzureReads
  BY DEF Reads
<1>2. Fielded("azure") =
        {"timestamp", "identity", "account_id", "resource_name", "resource_type",
         "src_ip", "event_name"}
  BY <1>1 DEF Fielded, AzureReads
<1>3. /\ ReadsTwo("azure", "timestamp", "eventTimestamp", "time")
      /\ ReadsOne("azure", "identity", "caller")
      /\ ReadsOne("azure", "account_id", "subscriptionId")
      /\ ReadsOne("azure", "resource_name", "resourceId")
      /\ ReadsTwo("azure", "resource_type", "resourceProvider", "resourceProvider.value")
      /\ ReadsOne("azure", "src_ip", "httpRequest.clientIpAddress")
      /\ ReadsTwo("azure", "event_name", "operationName", "operationName.value")
  BY <1>1, <1>2, Pairs DEF ReadsOne, ReadsTwo, AzureReads
<1>4. Consumed("azure") =
        {"tenantId", "eventTimestamp", "time", "caller", "subscriptionId", "resourceId",
         "resourceProvider", "resourceProvider.value", "operationName",
         "operationName.value", "status", "status.value", "httpRequest.clientIpAddress",
         "level"}
  BY DEF Consumed
<1>5. Classified("azure") \cup Dropped("azure") =
        {"level", "status", "status.value", "tenantId"}
  BY DEF Classified, Dropped
<1>6. \A f \in Fielded("azure") : ReadsConsumed("azure", f)
  BY <1>2, <1>3, <1>4 DEF ReadsOne, ReadsTwo, ReadsConsumed
<1>7. \A q \in Kept("azure") : IsRead("azure", q)
  BY <1>3, <1>4, <1>5 DEF IsRead, Kept
<1> QED
  BY <1>6, <1>7 DEF TableFits

LEMMA CrowdStrikeFits == TableFits("crowdstrike")
<1>1. Reads("crowdstrike") = CrowdStrikeReads
  BY DEF Reads
<1>2. Fielded("crowdstrike") =
        {"timestamp", "identity", "account_id", "resource_name", "src_ip", "dst_ip",
         "event_name", "tags"}
  BY <1>1 DEF Fielded, CrowdStrikeReads
<1>3. /\ ReadsTwo("crowdstrike", "timestamp", "CreatedTimestamp", "ProcessStartTime")
      /\ ReadsOne("crowdstrike", "identity", "Behaviors[].UserName")
      /\ ReadsOne("crowdstrike", "account_id", "CustomerIdentifier")
      /\ ReadsTwo("crowdstrike", "resource_name", "DeviceDetails.Hostname", "Hostname")
      /\ ReadsOne("crowdstrike", "src_ip", "LocalIP")
      /\ ReadsOne("crowdstrike", "dst_ip", "ExternalIP")
      /\ ReadsTwo("crowdstrike", "event_name", "DetectName", "Behaviors[].Technique")
      /\ ReadsOne("crowdstrike", "tags", "Behaviors[].Tactic")
  BY <1>1, <1>2, Pairs DEF ReadsOne, ReadsTwo, CrowdStrikeReads
<1>4. Consumed("crowdstrike") =
        {"event_type", "CreatedTimestamp", "ProcessStartTime", "CustomerIdentifier",
         "DeviceDetails.Hostname", "Hostname", "LocalIP", "ExternalIP", "MaxSeverity",
         "DetectName", "Behaviors[].UserName", "Behaviors[].Technique",
         "Behaviors[].Tactic"}
  BY DEF Consumed
<1>5. Classified("crowdstrike") \cup Dropped("crowdstrike") =
        {"MaxSeverity", "event_type"}
  BY DEF Classified, Dropped
<1>6. \A f \in Fielded("crowdstrike") : ReadsConsumed("crowdstrike", f)
  BY <1>2, <1>3, <1>4 DEF ReadsOne, ReadsTwo, ReadsConsumed
<1>7. \A q \in Kept("crowdstrike") : IsRead("crowdstrike", q)
  BY <1>3, <1>4, <1>5 DEF IsRead, Kept
<1> QED
  BY <1>6, <1>7 DEF TableFits

LEMMA K8sFits == TableFits("k8s")
<1>1. Reads("k8s") = K8sReads
  BY DEF Reads
<1>2. Fielded("k8s") =
        {"timestamp", "identity", "resource_name", "resource_type", "namespace",
         "src_ip", "user_agent", "event_name"}
  BY <1>1 DEF Fielded, K8sReads
<1>3. /\ ReadsTwo("k8s", "timestamp", "requestReceivedTimestamp", "stageTimestamp")
      /\ ReadsOne("k8s", "identity", "user.username")
      /\ ReadsOne("k8s", "resource_name", "objectRef.name")
      /\ ReadsOne("k8s", "resource_type", "objectRef.resource")
      /\ ReadsOne("k8s", "namespace", "objectRef.namespace")
      /\ ReadsOne("k8s", "src_ip", "sourceIPs[]")
      /\ ReadsOne("k8s", "user_agent", "userAgent")
      /\ ReadsOne("k8s", "event_name", "verb")
  BY <1>1, <1>2, Pairs DEF ReadsOne, ReadsTwo, K8sReads
<1>4. Consumed("k8s") =
        {"apiVersion", "verb", "userAgent", "requestReceivedTimestamp",
         "stageTimestamp", "user.username", "objectRef.name", "objectRef.resource",
         "objectRef.namespace", "sourceIPs[]", "responseStatus.code"}
  BY DEF Consumed
<1>5. Classified("k8s") \cup Dropped("k8s") =
        {"responseStatus.code", "apiVersion"}
  BY DEF Classified, Dropped
<1>6. \A f \in Fielded("k8s") : ReadsConsumed("k8s", f)
  BY <1>2, <1>3, <1>4 DEF ReadsOne, ReadsTwo, ReadsConsumed
<1>7. \A q \in Kept("k8s") : IsRead("k8s", q)
  BY <1>3, <1>4, <1>5 DEF IsRead, Kept
<1> QED
  BY <1>6, <1>7 DEF TableFits

LEMMA FirewallFits == TableFits("firewall")
<1>1. Reads("firewall") = FirewallReads
  BY DEF Reads
<1>2. Fielded("firewall") =
        {"timestamp", "log_type", "src_ip", "dst_ip", "src_port", "dst_port",
         "protocol", "bytes_in", "bytes_out", "event_name", "tags"}
  BY <1>1 DEF Fielded, FirewallReads
<1>3. /\ ReadsTwo("firewall", "timestamp", "timestamp", "time")
      /\ ReadsOne("firewall", "log_type", "log_type")
      /\ ReadsOne("firewall", "src_ip", "src_ip")
      /\ ReadsOne("firewall", "dst_ip", "dst_ip")
      /\ ReadsOne("firewall", "src_port", "src_port")
      /\ ReadsOne("firewall", "dst_port", "dst_port")
      /\ ReadsOne("firewall", "protocol", "protocol")
      /\ ReadsOne("firewall", "bytes_in", "bytes_in")
      /\ ReadsOne("firewall", "bytes_out", "bytes_out")
      /\ ReadsOne("firewall", "event_name", "action")
      /\ ReadsOne("firewall", "tags", "interface")
  BY <1>1, <1>2, Pairs DEF ReadsOne, ReadsTwo, FirewallReads
<1>4. Consumed("firewall") =
        {"timestamp", "time", "log_type", "src_ip", "dst_ip", "src_port", "dst_port",
         "protocol", "bytes_in", "bytes_out", "action", "interface"}
  BY DEF Consumed
<1>5. Classified("firewall") \cup Dropped("firewall") = {}
  BY DEF Classified, Dropped
<1>6. \A f \in Fielded("firewall") : ReadsConsumed("firewall", f)
  BY <1>2, <1>3, <1>4 DEF ReadsOne, ReadsTwo, ReadsConsumed
<1>7. \A q \in Kept("firewall") : IsRead("firewall", q)
  BY <1>3, <1>4, <1>5 DEF IsRead, Kept
<1> QED
  BY <1>6, <1>7 DEF TableFits

LEMMA DdosFits == TableFits("ddos")
<1>1. Reads("ddos") = DdosReads
  BY DEF Reads
<1>2. Fielded("ddos") =
        {"timestamp", "identity", "resource_name", "src_ip", "dst_ip", "dst_port",
         "protocol", "bytes_in", "event_name", "tags"}
  BY <1>1 DEF Fielded, DdosReads
<1>3. /\ ReadsTwo("ddos", "timestamp", "timestamp", "start_time")
      /\ ReadsTwo("ddos", "identity", "src_ip", "top_src_ip")
      /\ ReadsTwo("ddos", "resource_name", "dst_ip", "target_ip")
      /\ ReadsOne("ddos", "src_ip", "src_ip")
      /\ ReadsOne("ddos", "dst_ip", "dst_ip")
      /\ ReadsOne("ddos", "dst_port", "dst_port")
      /\ ReadsOne("ddos", "protocol", "protocol")
      /\ ReadsOne("ddos", "bytes_in", "bytes_received")
      /\ ReadsOne("ddos", "event_name", "attack_type")
      /\ ReadsOne("ddos", "tags", "attack_vector")
  BY <1>1, <1>2, Pairs DEF ReadsOne, ReadsTwo, DdosReads
<1>4. Consumed("ddos") =
        {"timestamp", "start_time", "src_ip", "top_src_ip", "dst_ip", "target_ip",
         "dst_port", "protocol", "bytes_received", "attack_type", "attack_vector",
         "packets_per_second"}
  BY DEF Consumed
<1>5. Classified("ddos") \cup Dropped("ddos") =
        {"packets_per_second"}
  BY DEF Classified, Dropped
<1>6. \A f \in Fielded("ddos") : ReadsConsumed("ddos", f)
  BY <1>2, <1>3, <1>4 DEF ReadsOne, ReadsTwo, ReadsConsumed
<1>7. \A q \in Kept("ddos") : IsRead("ddos", q)
  BY <1>3, <1>4, <1>5 DEF IsRead, Kept
<1> QED
  BY <1>6, <1>7 DEF TableFits

(* The normalizer that parses an event and the table that is looked up for *)
(* it agree, Kubernetes' two versions sharing both.                        *)
LEMMA TablesFit ==
  ASSUME NEW r, NEW s \in Sources
  PROVE  LET e == EffectiveSource(r, s)
         IN  /\ e = "unknown" <=> s = "unknown"
             /\ Consumed(e) = Consumed(s)
             /\ Classified(e) = Classified(s) /\ Dropped(e) = Dropped(s)
             /\ s # "unknown" => TableFits(s)
             /\ s = "unknown" => Consumed(s) = {}
<1>1. CASE s \in {"k8s", "openshift"}
  <2>1. EffectiveSource(r, s) \in {"k8s", "openshift"}
    BY <1>1 DEF EffectiveSource
  <2>2. /\ Consumed("k8s") = Consumed("openshift")
        /\ Reads("k8s") = Reads("openshift")
        /\ Classified("k8s") = Classified("openshift")
        /\ Dropped("k8s") = Dropped("openshift")
    BY DEF Consumed, Reads, Classified, Dropped
  <2>3. TableFits("openshift") <=> TableFits("k8s")
    <3>1. Fielded("openshift") = Fielded("k8s")
      BY <2>2 DEF Fielded
    <3>2. \A f : ReadsConsumed("openshift", f) <=> ReadsConsumed("k8s", f)
      BY <2>2 DEF ReadsConsumed
    <3>3. \A f, a, b : /\ ReadsOne("openshift", f, a) <=> ReadsOne("k8s", f, a)
                       /\ ReadsTwo("openshift", f, a, b) <=> ReadsTwo("k8s", f, a, b)
      BY <2>2, <3>1 DEF ReadsOne, ReadsTwo
    <3>4. \A q : IsRead("openshift", q) <=> IsRead("k8s", q)
      BY <3>3 DEF IsRead
    <3> QED
      BY <2>2, <3>1, <3>2, <3>4 DEF TableFits, Kept
  <2> QED
    BY <1>1, <2>1, <2>2, <2>3, K8sFits
<1>2. CASE s \notin {"k8s", "openshift"}
  <2>1. EffectiveSource(r, s) = s
    BY <1>2 DEF EffectiveSource
  <2>2. Consumed("unknown") = {}
    BY DEF Consumed
  <2>3. s # "unknown" => TableFits(s)
    BY <1>2, AwsFits, GcpFits, AzureFits, CrowdStrikeFits, FirewallFits, DdosFits
       DEF Sources
  <2> QED
    BY <2>1, <2>2, <2>3
<1> QED
  BY <1>1, <1>2

(* The values that a field holds are those of the paths it reads.          *)
LEMMA ProjectedAreConsumed ==
  ASSUME NEW r, NEW s, TableFits(s), NEW v \in Projected(r, s)
  PROVE  v[1] \in Consumed(s)
<1>1. PICK f \in Fielded(s) : /\ v = <<TakenFrom(r, s, f), 1>>
                              /\ TakenFrom(r, s, f) # "default"
  BY DEF Projected, Fielded
<1>2. ReadsConsumed(s, f)
  BY <1>1 DEF TableFits
<1>3. /\ DOMAIN Reads(s)[f] \subseteq 1 .. 2
      /\ \A i \in DOMAIN Reads(s)[f] : Reads(s)[f][i] \in Consumed(s)
  <2>1. CASE \E a \in Consumed(s) : Reads(s)[f] = <<a>>
    <3>1. PICK a \in Consumed(s) : Reads(s)[f] = <<a>>
      BY <2>1
    <3>2. DOMAIN Reads(s)[f] = 1 .. 1 /\ Reads(s)[f][1] = a
      BY <3>1, Tuples
    <3> QED
      BY <3>2
  <2>2. CASE \E a, b \in Consumed(s) : Reads(s)[f] = <<a, b>>
    <3>1. PICK a \in Consumed(s), b \in Consumed(s) : Reads(s)[f] = <<a, b>>
      BY <2>2
    <3>2. DOMAIN Reads(s)[f] = 1 .. 2 /\ Reads(s)[f][1] = a /\ Reads(s)[f][2] = b
      BY <3>1, Tuples
    <3> QED
      BY <3>2
  <2> QED
    BY <1>2, <2>1, <2>2 DEF ReadsConsumed
<1>4. TakenFrom(r, s, f) \in Consumed(s)
  BY <1>1, <1>3, TakenIsTried
<1> QED
  BY <1>1, <1>4

(* A path that some field reads gives it its value, if there is no other   *)
(* name for it in the event.                                               *)
LEMMA ReadIsTaken ==
  ASSUME NEW r, IsEvent(r), NEW s, NEW q \in DOMAIN r, IsRead(s, q),
         ~ \E A \in Alternatives : q \in A /\ A \subseteq DOMAIN r,
         Head(r[q]) \notin {"null", "empty", "odd"}
  PROVE  <<q, 1>> \in Projected(r, s)
<1>1. PICK f : \/ ReadsOne(s, f, q)
               \/ \E b : ReadsTwo(s, f, q, b) \/ ReadsTwo(s, f, b, q)
  BY DEF IsRead
<1>2. f \in Fielded(s) /\ TakenFrom(r, s, f) = q
  <2>1. CASE ReadsOne(s, f, q)
    BY <2>1, TakenOfOne DEF ReadsOne
  <2>2. CASE \E b : ReadsTwo(s, f, q, b) \/ ReadsTwo(s, f, b, q)
    <3>1. PICK b : ReadsTwo(s, f, q, b) \/ ReadsTwo(s, f, b, q)
      BY <2>2
    <3>2. /\ f \in Fielded(s) /\ Reads(s)[f] \in {<<q, b>>, <<b, q>>}
          /\ {q, b} \in Alternatives \cup ValueOrObject
      BY <3>1 DEF ReadsTwo
    <3>3. ~ {q, b} \subseteq DOMAIN r
      BY <3>2 DEF IsEvent
    <3> QED
      BY <3>2, <3>3, TakenOfTwo
  <2> QED
    BY <1>1, <2>1, <2>2
<1>3. q # "default"
  BY DEF IsRead
<1> QED
  BY <1>2, <1>3 DEF Projected, Fielded

LEMMA ValuesInv ==
  ASSUME ParserInv
  PROVE  ValuesAreKeptOnce
<1> SUFFICES ASSUME Parsed, NEW q \in DOMAIN raw, NEW i \in DOMAIN raw[q]
             PROVE  /\ \/ <<q, i>> \in udm \cup unmapped
                       \/ raw[q][i] \in {"null", "empty", "odd"}
                       \/ i # IF q \in Consumed(source) \cup ScalarLists
                              THEN 1 ELSE Len(raw[q])
                       \/ q \in Classified(source) \cup Dropped(source)
                       \/ \E A \in Alternatives : q \in A /\ A \subseteq DOMAIN raw
                    /\ source # "unknown" => <<q, i>> \notin udm \cap unmapped
  BY DEF ValuesAreKeptOnce
<1>1. /\ IsEvent(raw) /\ Wanted \in Sources
      /\ source = EffectiveSource(raw, Wanted)
      /\ udm = Projected(raw, Wanted) /\ unmapped = Unmapped(raw, source)
  BY DEF ParserInv
<1>2. /\ source = "unknown" <=> Wanted = "unknown"
      /\ Consumed(source) = Consumed(Wanted)
      /\ Classified(source) = Classified(Wanted)
      /\ Dropped(source) = Dropped(Wanted)
      /\ Wanted # "unknown" => TableFits(Wanted)
      /\ Wanted = "unknown" => Consumed(Wanted) = {}
  BY <1>1, TablesFit
<1>3. raw[q] \in Seq(STRING) /\ Head(raw[q]) = raw[q][1]
  BY <1>1 DEF IsEvent
<1>4. CASE q \notin Consumed(source)
  <2>1. \A j : j = (IF q \in ScalarLists THEN 1 ELSE Len(raw[q]))
                => <<q, j>> \in unmapped
    BY <1>1, <1>4 DEF Unmapped, Flattened
  <2>2. source # "unknown" => <<q, i>> \notin udm
    <3>1. <<q, i>>[1] = q
      BY Tuples
    <3> QED
      BY <1>1, <1>2, <1>4, <3>1, ProjectedAreConsumed
  <2> QED
    BY <1>4, <2>1, <2>2
<1>5. CASE q \in Consumed(source)
  <2>1. <<q, i>> \notin unmapped
    <3>1. <<q, i>>[1] = q
      BY Tuples
    <3> QED
      BY <1>1, <1>5, <3>1 DEF Unmapped
  <2>2. ASSUME i = 1, raw[q][1] \notin {"null", "empty", "odd"},
               q \notin Classified(source) \cup Dropped(source),
               ~ \E A \in Alternatives : q \in A /\ A \subseteq DOMAIN raw
        PROVE  <<q, 1>> \in udm
    <3>1. IsRead(Wanted, q)
      BY <1>2, <1>5, <2>2 DEF TableFits, Kept
    <3> QED
      BY <1>1, <1>3, <2>2, <3>1, ReadIsTaken
  <2> QED
    BY <1>5, <2>1, <2>2
<1> QED
  BY <1>4, <1>5

(* A value of the raw event is kept, and kept once, but for the exceptions *)
(* the property lists: whatever the event, of any size.                    *)
THEOREM NothingIsLost == ParserSpec => []ValuesAreKeptOnce
BY ParserInvariance, ValuesInv, PTL

===============================================================================
