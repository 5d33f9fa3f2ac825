----------------------------- MODULE TriageProofs -----------------------------
(***************************************************************************)
(* Proofs about Triage, for any events, any rules, any window and any      *)
(* number of incidents.                                                    *)
(***************************************************************************)
EXTENDS Triage, SequenceTheorems, WellFoundedInduction, TLAPS

-------------------------------------------------------------------------------
(* Sequences of events. *)

(* A non-empty set of naturals has a least element. *)
LEMMA LeastExists ==
  ASSUME NEW T \in SUBSET Nat, T # {}
  PROVE  Min(T) \in T
<1>1. PICK i \in T : \A j \in T : <<j, i>> \notin OpToRel(<, Nat)
  BY NatLessThanWellFounded, WFMin, Zenon
<1>2. \A j \in T : ~ (j < i)
  BY <1>1 DEF OpToRel
<1>3. \A j \in T : i <= j
  BY <1>2
<1> QED
  BY <1>3 DEF Min

(* The events of an incident, and of an extended one. *)
LEMMA EventsOf ==
  ASSUME NEW s \in Seq(EventKinds), s # <<>>
  PROVE  /\ Len(s) \in Nat \ {0} /\ Range(s) \subseteq EventKinds
         /\ Head(s) \in Range(s)
<1>1. Len(s) \in Nat \ {0} /\ DOMAIN s = 1..Len(s) /\ \A i \in 1..Len(s) : s[i] \in EventKinds
  BY EmptySeq, LenProperties, ElementOfSeq
<1>2. 1 \in DOMAIN s /\ Head(s) = s[1]
  BY <1>1
<1> QED
  BY <1>1, <1>2 DEF Range

LEMMA EventsOfExtended ==
  ASSUME NEW s \in Seq(EventKinds), s # <<>>, NEW e \in EventKinds
  PROVE  /\ Append(s, e) \in Seq(EventKinds) /\ Append(s, e) # <<>>
         /\ Len(Append(s, e)) = Len(s) + 1
         /\ Head(Append(s, e)) = Head(s)
         /\ Range(Append(s, e)) = Range(s) \cup {e}
<1>1. /\ Append(s, e) \in Seq(EventKinds) /\ Append(s, e) # <<>>
      /\ Len(Append(s, e)) = Len(s) + 1 /\ Len(s) \in Nat \ {0}
      /\ \A i \in 1..Len(s) : Append(s, e)[i] = s[i]
      /\ Append(s, e)[Len(s) + 1] = e
  BY AppendProperties, EventsOf
<1>2. Head(Append(s, e)) = Head(s)
  BY HeadTailAppend
<1>3. /\ Range(s) = {s[i] : i \in 1..Len(s)}
      /\ Range(Append(s, e)) = {Append(s, e)[i] : i \in 1..(Len(s) + 1)}
  BY <1>1, LenProperties DEF Range
<1>4. \A i \in 1..(Len(s) + 1) : i \in 1..Len(s) \/ i = Len(s) + 1
  BY <1>1
<1>5. \A i \in 1..Len(s) : i \in 1..(Len(s) + 1)
  BY <1>1
<1>6. Len(s) + 1 \in 1..(Len(s) + 1)
  BY <1>1
<1>7. ASSUME NEW x \in Range(s) PROVE x \in Range(Append(s, e))
  BY <1>1, <1>3, <1>5
<1>8. ASSUME NEW x \in Range(Append(s, e)) PROVE x \in Range(s) \cup {e}
  BY <1>1, <1>3, <1>4
<1>9. e \in Range(Append(s, e))
  BY <1>1, <1>3, <1>6
<1> QED
  BY <1>1, <1>2, <1>7, <1>8, <1>9

LEMMA EventsOfNew ==
  ASSUME NEW e \in EventKinds
  PROVE  /\ <<e>> \in Seq(EventKinds) /\ <<e>> # <<>> /\ Head(<<e>>) = e
         /\ Range(<<e>>) = {e}
<1>1. <<e>> \in Seq(EventKinds) /\ Len(<<e>>) = 1 /\ <<e>>[1] = e /\ DOMAIN <<e>> = 1..1
  OBVIOUS
<1>2. <<e>> # <<>> /\ Head(<<e>>) = e
  OBVIOUS
<1> QED
  BY <1>1, <1>2 DEF Range

-------------------------------------------------------------------------------
(* The score. *)

Highest(s) == Max({SeverityScores[e.severity] : e \in Range(s)})
Weight(s) == SourceWeights[Head(s).source]
Factor(i) == IF Privileged(i) THEN 15 ELSE 10

(* The product of the four, rounded to hundredths. *)
Rounded(a, b, c, d) == (a * b * c * d + 50) \div 100

LEMMA ScoreIs ==
  ASSUME NEW i
  PROVE  ScoreOf(i) = Rounded(Highest(i.events), Weight(i.events), Recurrence(i), Factor(i))
BY DEF ScoreOf, Rounded, Highest, Weight, Factor

LEMMA SeverityIs ==
  ASSUME NEW e \in EventKinds
  PROVE  /\ SeverityScores[e.severity] \in {5, 20, 40, 70, 100}
         /\ e.severity # "info" => SeverityScores[e.severity] # 5
<1>1. e.severity \in {"critical", "high", "medium", "low", "info"}
  BY TriageAssumption DEF SeverityScores
<1> QED
  BY <1>1 DEF SeverityScores

(* The highest severity is that of one of the events. *)
LEMMA HighestIs ==
  ASSUME NEW s \in Seq(EventKinds), s # <<>>
  PROVE  /\ Highest(s) \in {5, 20, 40, 70, 100}
         /\ \E e \in Range(s) : Highest(s) = SeverityScores[e.severity]
         /\ \A e \in Range(s) : SeverityScores[e.severity] <= Highest(s)
<1> DEFINE M == {SeverityScores[e.severity] : e \in Range(s)}
<1>1. M \subseteq {5, 20, 40, 70, 100} /\ M # {}
  BY EventsOf, SeverityIs
<1>2. \E x \in M : \A y \in M : x >= y
  <2> HIDE DEF M
  <2>1. CASE 100 \in M
    BY <1>1, <2>1
  <2>2. CASE 100 \notin M /\ 70 \in M
    BY <1>1, <2>2
  <2>3. CASE 100 \notin M /\ 70 \notin M /\ 40 \in M
    BY <1>1, <2>3
  <2>4. CASE 100 \notin M /\ 70 \notin M /\ 40 \notin M /\ 20 \in M
    BY <1>1, <2>4
  <2>5. CASE 100 \notin M /\ 70 \notin M /\ 40 \notin M /\ 20 \notin M
    <3>1. ASSUME NEW y \in M PROVE y = 5
      BY <1>1, <2>5
    <3>2. PICK y \in M : TRUE
      BY <1>1
    <3> QED
      BY <3>1, <3>2
  <2> QED
    BY <2>1, <2>2, <2>3, <2>4, <2>5
<1>3. Highest(s) \in M /\ \A y \in M : Highest(s) >= y
  <2>1. Highest(s) = Max(M)
    BY DEF Highest
  <2> HIDE DEF M
  <2> QED
    BY <1>2, <2>1 DEF Max
<1>4. \A e \in Range(s) : SeverityScores[e.severity] \in M
  OBVIOUS
<1>5. Highest(s) \in {5, 20, 40, 70, 100}
  BY <1>1, <1>3
<1>6. \A e \in Range(s) : SeverityScores[e.severity] <= Highest(s)
  <2> HIDE DEF M
  <2> QED
    BY <1>1, <1>3, <1>4
<1> QED
  BY <1>3, <1>5, <1>6

LEMMA WeightIs ==
  ASSUME NEW s \in Seq(EventKinds), s # <<>>
  PROVE  Weight(s) \in Nat /\ 5 <= Weight(s)
<1>1. Head(s) \in EventKinds
  BY EventsOf
<1>2. Head(s).source \in {"crowdstrike", "aws", "gcp", "azure", "k8s", "openshift",
                          "firewall", "ddos", "unknown"}
  BY <1>1, TriageAssumption DEF SourceWeights
<1> QED
  BY <1>2 DEF Weight, SourceWeights

LEMMA RecurrenceIs ==
  ASSUME NEW i, Len(i.events) \in Nat \ {0}
  PROVE  Recurrence(i) = IF Len(i.events) > 10 THEN 30 ELSE 8 + 2 * Len(i.events)
<1> DEFINE x == 10 + 2 * (Len(i.events) - 1)
<1>1. x \in Int /\ x = 8 + 2 * Len(i.events)
  OBVIOUS
<1>2. CASE x <= 30
  <2>1. Min({x, 30}) = x
    <3> HIDE DEF x
    <3> QED
      BY <1>1, <1>2 DEF Min
  <2> QED
    BY <1>1, <1>2, <2>1 DEF Recurrence
<1>3. CASE ~ (x <= 30)
  <2>1. Min({x, 30}) = 30
    <3> HIDE DEF x
    <3> QED
      BY <1>1, <1>3 DEF Min
  <2> QED
    BY <1>1, <1>3, <2>1 DEF Recurrence
<1> QED
  BY <1>2, <1>3

LEMMA RoundedGrows ==
  ASSUME NEW a \in Nat, NEW b \in Nat, NEW c \in Nat, NEW d \in Nat,
         NEW w \in Nat, NEW x \in Nat, NEW y \in Nat, NEW z \in Nat,
         a <= w, b <= x, c <= y, d <= z
  PROVE  Rounded(a, b, c, d) \in Nat /\ Rounded(a, b, c, d) <= Rounded(w, x, y, z)
<1>1. a * b \in Nat /\ w * x \in Nat /\ a * b <= w * x
  OBVIOUS
<1>2. ASSUME NEW p \in Nat, NEW q \in Nat, p <= q
      PROVE  p * c \in Nat /\ q * y \in Nat /\ p * c <= q * y
  BY <1>2
<1>3. a * b * c \in Nat /\ w * x * y \in Nat /\ a * b * c <= w * x * y
  BY <1>1, <1>2
<1>4. ASSUME NEW p \in Nat, NEW q \in Nat, p <= q
      PROVE  p * d \in Nat /\ q * z \in Nat /\ p * d <= q * z
  BY <1>4
<1>5. a * b * c * d \in Nat /\ w * x * y * z \in Nat /\ a * b * c * d <= w * x * y * z
  BY <1>3, <1>4
<1>6. ASSUME NEW p \in Nat, NEW q \in Nat, p <= q
      PROVE  (p + 50) \div 100 \in Nat /\ (p + 50) \div 100 <= (q + 50) \div 100
  BY <1>6
<1> QED
  BY <1>5, <1>6 DEF Rounded

LEMMA ScoreParts ==
  ASSUME NEW i, i.events \in Seq(EventKinds), i.events # <<>>
  PROVE  /\ Highest(i.events) \in Nat /\ 5 <= Highest(i.events)
         /\ Weight(i.events) \in Nat /\ 5 <= Weight(i.events)
         /\ Recurrence(i) \in Nat /\ 10 <= Recurrence(i)
         /\ Factor(i) \in Nat /\ 10 <= Factor(i)
         /\ ScoreOf(i) \in Nat
<1>1. Highest(i.events) \in Nat /\ 5 <= Highest(i.events)
  BY HighestIs
<1>2. Weight(i.events) \in Nat /\ 5 <= Weight(i.events)
  BY WeightIs
<1>3. Recurrence(i) \in Nat /\ 10 <= Recurrence(i)
  <2>1. Len(i.events) \in Nat \ {0}
    BY EventsOf
  <2>2. Recurrence(i) = IF Len(i.events) > 10 THEN 30 ELSE 8 + 2 * Len(i.events)
    BY <2>1, RecurrenceIs
  <2> QED
    BY <2>1, <2>2
<1>4. Factor(i) \in Nat /\ 10 <= Factor(i)
  BY DEF Factor
<1>6. ScoreOf(i) \in Nat
  <2>1. ASSUME NEW a \in Nat, NEW b \in Nat, NEW c \in Nat, NEW d \in Nat
        PROVE  Rounded(a, b, c, d) \in Nat
    <3>1. a <= a /\ b <= b /\ c <= c /\ d <= d
      OBVIOUS
    <3> QED
      BY <3>1, RoundedGrows
  <2>2. Rounded(Highest(i.events), Weight(i.events), Recurrence(i), Factor(i)) \in Nat
    BY <1>1, <1>2, <1>3, <1>4, <2>1
  <2> QED
    BY <2>2, ScoreIs
<1> QED
  BY <1>1, <1>2, <1>3, <1>4, <1>6

(* The score depends on the events only. *)
LEMMA SameEvents ==
  ASSUME NEW i, NEW j, i.events = j.events
  PROVE  /\ ScoreOf(i) = ScoreOf(j)
         /\ IsKnownGood(i) <=> IsKnownGood(j)
         /\ InfoOnlyLowRecurrence(i) <=> InfoOnlyLowRecurrence(j)
<1>1. Recurrence(i) = Recurrence(j)
  BY DEF Recurrence
<1>2. Factor(i) = Factor(j)
  BY DEF Factor, Privileged
<1>4. ScoreOf(i) = ScoreOf(j)
  BY <1>1, <1>2, ScoreIs
<1> QED
  BY <1>4 DEF IsKnownGood, InfoOnlyLowRecurrence

(* One more event never lowers the score. *)
LEMMA ScoreGrows ==
  ASSUME NEW i, i.events \in Seq(EventKinds), i.events # <<>>,
         NEW e \in EventKinds, NEW j, j.events = Append(i.events, e)
  PROVE  ScoreOf(i) <= ScoreOf(j)
<1>1. /\ j.events \in Seq(EventKinds) /\ j.events # <<>>
      /\ Len(j.events) = Len(i.events) + 1 /\ Len(i.events) \in Nat \ {0}
      /\ Head(j.events) = Head(i.events)
      /\ Range(j.events) = Range(i.events) \cup {e}
  BY EventsOf, EventsOfExtended
<1>2. Highest(i.events) <= Highest(j.events)
  <2>1. PICK d \in Range(i.events) : Highest(i.events) = SeverityScores[d.severity]
    BY HighestIs
  <2>2. SeverityScores[d.severity] <= Highest(j.events)
    BY <1>1, HighestIs
  <2> QED
    BY <2>1, <2>2
<1>3. Weight(i.events) <= Weight(j.events)
  <2>1. Weight(i.events) = Weight(j.events) /\ Weight(i.events) \in Nat
    BY <1>1, WeightIs DEF Weight
  <2> QED
    BY <2>1
<1>4. Recurrence(i) <= Recurrence(j)
  <2>1. Recurrence(i) = IF Len(i.events) > 10 THEN 30 ELSE 8 + 2 * Len(i.events)
    BY <1>1, RecurrenceIs
  <2>2. Len(j.events) \in Nat \ {0}
    BY <1>1
  <2>3. Recurrence(j) = IF Len(j.events) > 10 THEN 30 ELSE 8 + 2 * Len(j.events)
    BY <2>2, RecurrenceIs
  <2> QED
    BY <1>1, <2>1, <2>3
<1>5. Factor(i) <= Factor(j)
  <2>1. Privileged(i) => Privileged(j)
    BY <1>1 DEF Privileged
  <2> QED
    BY <2>1 DEF Factor
<1>6. /\ Highest(i.events) \in Nat /\ Weight(i.events) \in Nat /\ Recurrence(i) \in Nat
      /\ Factor(i) \in Nat
      /\ Highest(j.events) \in Nat /\ Weight(j.events) \in Nat /\ Recurrence(j) \in Nat
      /\ Factor(j) \in Nat
  BY <1>1, ScoreParts
<1>7. Rounded(Highest(i.events), Weight(i.events), Recurrence(i), Factor(i))
        <= Rounded(Highest(j.events), Weight(j.events), Recurrence(j), Factor(j))
  BY <1>2, <1>3, <1>4, <1>5, <1>6, RoundedGrows
<1> QED
  BY <1>7, ScoreIs

(* The default threshold lets every event above INFO pass. *)
LEMMA SignificantScore ==
  ASSUME NEW i, i.events \in Seq(EventKinds), i.events # <<>>,
         NEW e \in Range(i.events), e.severity # "info"
  PROVE  ScoreOf(i) >= 100
<1>1. 20 <= Highest(i.events) /\ Highest(i.events) \in Nat
  <2>1. e \in EventKinds
    BY EventsOf
  <2>2. SeverityScores[e.severity] \in {20, 40, 70, 100}
    BY <2>1, SeverityIs
  <2>3. SeverityScores[e.severity] <= Highest(i.events) /\ Highest(i.events) \in Nat
    BY HighestIs, ScoreParts
  <2> QED
    BY <2>2, <2>3
<1>2. /\ 5 <= Weight(i.events) /\ Weight(i.events) \in Nat
      /\ 10 <= Recurrence(i) /\ Recurrence(i) \in Nat
      /\ 10 <= Factor(i) /\ Factor(i) \in Nat
  BY ScoreParts
<1>3. Rounded(20, 5, 10, 10)
        <= Rounded(Highest(i.events), Weight(i.events), Recurrence(i), Factor(i))
  BY <1>1, <1>2, RoundedGrows
<1>4. Rounded(20, 5, 10, 10) = 100
  BY DEF Rounded
<1>5. ScoreOf(i) \in Nat /\ 100 <= ScoreOf(i)
  BY <1>3, <1>4, ScoreIs, ScoreParts
<1> QED
  BY <1>5

-------------------------------------------------------------------------------
(* The inductive invariant. *)

(* What correlate_event returns and what a session keeps: events of one    *)
(* actor and source, and a mark that agrees with the status.               *)
Uniform(i) ==
  /\ i.events # <<>>
  /\ \A e \in Range(i.events) : SameActorAndSource(i, e)
  /\ i.suppressed <=> i.status = "suppressed"

UniformInv ==
  /\ \A k \in DOMAIN store : Uniform(store[k])
  /\ step # "idle" => Uniform(incident)

(* No other incident takes the events of the incident in hand. *)
LiveInv ==
  /\ OneLiveIncident
  /\ step # "idle" =>
       \A k \in DOMAIN store :
         k # id /\ TakesEvents(store[k])
           => ~ SameActorAndSource(store[k], Head(incident.events))

(* A stored score may be older than the incident, and never above it. *)
ScoreInv ==
  /\ \A k \in DOMAIN store : store[k].priority_score <= ScoreOf(store[k])
  /\ step # "idle" => incident.priority_score <= ScoreOf(incident)
  /\ step = "scored" => score = ScoreOf(incident)

(* The verdicts are about the incidents as they are stored. *)
VerdictInv ==
  /\ \A k \in DOMAIN store : verdicts[k] = "suppressed" <=> Suppressed(store[k])
  /\ step # "idle" /\ id \in DOMAIN store /\ Suppressed(incident)
       => verdicts[id] = "suppressed"

IndInv == TypeOK /\ UniformInv /\ LiveInv /\ ScoreInv /\ VerdictInv

-------------------------------------------------------------------------------
(* Incidents. *)

LEMMA IncidentTypes ==
  ASSUME TypeOK
  PROVE  /\ DOMAIN store = 1 .. Len(store) /\ Len(store) \in Nat
         /\ \A k \in DOMAIN store : store[k] \in Incidents
         /\ DOMAIN verdicts = DOMAIN store
         /\ \A k \in DOMAIN store : verdicts[k] \in {"suppressed", "kept"}
         /\ incident \in Incidents
         /\ \A i \in Incidents : i.events \in Seq(EventKinds)
<1>1. DOMAIN store = 1 .. Len(store) /\ Len(store) \in Nat
      /\ \A k \in 1 .. Len(store) : store[k] \in Incidents
  BY LenProperties, ElementOfSeq DEF TypeOK
<1>2. DOMAIN verdicts = DOMAIN store
      /\ \A k \in DOMAIN store : verdicts[k] \in {"suppressed", "kept"}
  BY <1>1, LenProperties, ElementOfSeq DEF TypeOK
<1> QED
  BY <1>1, <1>2 DEF TypeOK, Incidents

(* The score of an incident is a natural number. *)
LEMMA ScoreIsNat ==
  ASSUME TypeOK, NEW i \in Incidents, Uniform(i)
  PROVE  ScoreOf(i) \in Nat /\ i.priority_score \in Nat
<1>1. i.events \in Seq(EventKinds) /\ i.events # <<>>
  BY DEF Incidents, Uniform
<1>2. i.priority_score \in Nat
  BY DEF Incidents
<1> QED
  BY <1>1, <1>2, ScoreParts

LEMMA NewIncidentIs ==
  ASSUME TypeOK, NEW e \in EventKinds
  PROVE  /\ NewIncident(e) \in Incidents /\ Uniform(NewIncident(e))
         /\ Head(NewIncident(e).events) = e
         /\ NewIncident(e).priority_score <= ScoreOf(NewIncident(e))
<1> DEFINE i == NewIncident(e)
<1>1. i.events = <<e>> /\ i.priority_score = 0 /\ i.status = "open" /\ i.suppressed = FALSE
  BY DEF NewIncident
<1>2. <<e>> \in Seq(EventKinds) /\ <<e>> # <<>> /\ Head(<<e>>) = e /\ Range(<<e>>) = {e}
  BY EventsOfNew
<1>3. i \in Incidents
  <2>1. now \in 0 .. now
    BY DEF TypeOK
  <2>2. FALSE \in BOOLEAN /\ 0 \in Nat /\ "open" \in Statuses
    BY DEF Statuses
  <2> QED
    BY <1>2, <2>1, <2>2 DEF NewIncident, Incidents
<1>4. Uniform(i)
  BY <1>1, <1>2 DEF Uniform, SameActorAndSource
<1>5. i.priority_score <= ScoreOf(i)
  BY <1>1, <1>3, <1>4, ScoreIsNat
<1> QED
  BY <1>1, <1>2, <1>3, <1>4, <1>5

(* An extended incident: of the same actor and source, with a score that   *)
(* is no lower, and not noise unless it was before.                        *)
LEMMA ExtendedIs ==
  ASSUME TypeOK, NEW i \in Incidents, Uniform(i), i.status # "suppressed",
         NEW e \in EventKinds, SameActorAndSource(i, e),
         i.priority_score <= ScoreOf(i)
  PROVE  /\ Extended(i, e) \in Incidents /\ Uniform(Extended(i, e))
         /\ Head(Extended(i, e).events) = Head(i.events)
         /\ Extended(i, e).priority_score <= ScoreOf(Extended(i, e))
         /\ Suppressed(Extended(i, e)) => Suppressed(i)
<1> DEFINE j == Extended(i, e)
<1>1. /\ i.events \in Seq(EventKinds) /\ i.events # <<>>
      /\ i = [events |-> i.events, status |-> i.status, priority_score |-> i.priority_score,
              suppressed |-> i.suppressed, updated_at |-> i.updated_at]
  BY DEF Incidents, Uniform
<1>2. /\ j.events = Append(i.events, e) /\ j.status = "triaging"
      /\ j.priority_score = i.priority_score /\ j.suppressed = i.suppressed
  BY <1>1 DEF Extended
<1>3. /\ j.events \in Seq(EventKinds) /\ j.events # <<>>
      /\ Len(j.events) = Len(i.events) + 1 /\ Len(i.events) \in Nat \ {0}
      /\ Head(j.events) = Head(i.events)
      /\ Range(j.events) = Range(i.events) \cup {e}
  BY <1>1, <1>2, EventsOf, EventsOfExtended
<1>4. j \in Incidents
  <2>1. now \in 0 .. now
    BY DEF TypeOK
  <2>2. "triaging" \in Statuses
    BY DEF Statuses
  <2>3. Append(i.events, e) \in Seq(EventKinds)
    BY <1>2, <1>3
  <2> QED
    BY <2>1, <2>2, <2>3 DEF Extended, Incidents
<1>5. Uniform(j)
  BY <1>2, <1>3 DEF Uniform, SameActorAndSource
<1>6. j.priority_score <= ScoreOf(j)
  <2>1. ScoreOf(i) <= ScoreOf(j)
    BY <1>1, <1>2, ScoreGrows
  <2>2. ScoreOf(i) \in Nat /\ ScoreOf(j) \in Nat /\ i.priority_score \in Nat
    BY <1>4, <1>5, ScoreIsNat
  <2> QED
    BY <1>2, <2>1, <2>2
<1>7. Suppressed(j) => Suppressed(i)
  <2>1. BelowThreshold(j) => BelowThreshold(i)
    BY <1>2 DEF BelowThreshold
  <2>2. IsKnownGood(j) => IsKnownGood(i)
    <3>1. e.identity = Head(i.events).identity /\ Head(i.events) \in Range(i.events)
      BY <1>1, EventsOf DEF SameActorAndSource
    <3> QED
      BY <1>3, <3>1 DEF IsKnownGood
  <2>3. InfoOnlyLowRecurrence(j) => InfoOnlyLowRecurrence(i)
    BY <1>3 DEF InfoOnlyLowRecurrence
  <2> QED
    BY <2>1, <2>2, <2>3 DEF Suppressed
<1> QED
  BY <1>3, <1>4, <1>5, <1>6, <1>7

-------------------------------------------------------------------------------
(* The invariant holds at the start. *)

LEMMA InitInd == Init => IndInv
<1> SUFFICES ASSUME Init PROVE IndInv
  OBVIOUS
<1> USE DEF Init
<1>1. DOMAIN store = {} /\ Len(store) = 0
  OBVIOUS
<1>2. TypeOK
  <2>1. /\ <<>> \in Seq(Incidents) /\ <<>> \in Seq({"suppressed", "kept"})
        /\ <<>> \in Seq(EventKinds)
    BY EmptySeq
  <2>2. FALSE \in BOOLEAN /\ "open" \in Statuses /\ 0 \in Nat /\ 0 \in 0 .. now
    BY DEF Statuses
  <2>3. incident \in Incidents
    BY <2>1, <2>2 DEF Nothing, Incidents
  <2>4. now \in 0 .. MaxTime
    BY TriageAssumption
  <2> QED
    BY <1>1, <2>1, <2>3, <2>4 DEF TypeOK
<1>3. step = "idle"
  OBVIOUS
<1> QED
  BY <1>1, <1>2, <1>3 DEF IndInv, UniformInv, LiveInv, OneLiveIncident, ScoreInv, VerdictInv

-------------------------------------------------------------------------------
(* correlate_event. *)

(* What comes back: an incident of the store that takes events, extended,  *)
(* or a new one when there is none for the event.                          *)
LEMMA Correlated ==
  ASSUME IndInv, NEW e \in EventKinds, CorrelateEvent(e)
  PROVE  \/ /\ id' \in DOMAIN store /\ Matches(store[id'], e)
            /\ incident' = Extended(store[id'], e)
         \/ /\ id' = Len(store) + 1 /\ incident' = NewIncident(e)
            /\ \A k \in DOMAIN store : ~ Matches(store[k], e)
<1> DEFINE matching == {k \in DOMAIN store : Matches(store[k], e)}
<1>1. CASE matching # {}
  <2>1. id' = Min(matching) /\ incident' = Extended(store[id'], e)
    BY <1>1 DEF CorrelateEvent
  <2>2. matching \in SUBSET Nat
    BY IncidentTypes DEF IndInv
  <2>3. Min(matching) \in matching
    <3> HIDE DEF matching
    <3> QED
      BY <1>1, <2>2, LeastExists
  <2> QED
    BY <2>1, <2>3
<1>2. CASE matching = {}
  BY <1>2 DEF CorrelateEvent
<1> QED
  BY <1>1, <1>2

(* An incident of the store is not suppressed if it matches. *)
LEMMA MatchesIs ==
  ASSUME IndInv, NEW k \in DOMAIN store, NEW e
  PROVE  Matches(store[k], e) <=> TakesEvents(store[k]) /\ SameActorAndSource(store[k], e)
<1>1. store[k] \in Incidents /\ Uniform(store[k])
  BY IncidentTypes DEF IndInv, UniformInv
<1>2. store[k].status \in Statuses /\ store[k].updated_at \in 0 .. now
      /\ store[k].suppressed \in BOOLEAN
  BY <1>1 DEF Incidents
<1>3. Live(store[k]) <=> store[k].status \in {"open", "triaging", "contained"}
  BY <1>1, <1>2 DEF Live, Uniform, Statuses
<1>4. InWindow(store[k]) <=> now - store[k].updated_at <= Window
  <2>1. now \in Nat /\ Window \in Nat /\ store[k].updated_at \in Nat
    BY <1>2, TriageAssumption DEF IndInv, TypeOK
  <2> QED
    BY <2>1 DEF InWindow
<1> QED
  BY <1>3, <1>4 DEF Matches, TakesEvents

LEMMA CorrelateInd ==
  ASSUME IndInv, NEW e \in EventKinds, CorrelateEvent(e)
  PROVE  IndInv'
<1>1. /\ now' = now /\ store' = store /\ score' = score /\ verdicts' = verdicts
      /\ step' = "correlated" /\ step = "idle"
  BY DEF CorrelateEvent
<1>2. /\ TypeOK /\ UniformInv /\ LiveInv /\ ScoreInv /\ VerdictInv
      /\ DOMAIN store = 1 .. Len(store) /\ Len(store) \in Nat
      /\ \A k \in DOMAIN store : store[k] \in Incidents
      /\ \A k \in DOMAIN store : verdicts[k] \in {"suppressed", "kept"}
  BY IncidentTypes DEF IndInv
<1>3. /\ id' \in 1 .. Len(store) + 1
      /\ incident' \in Incidents /\ Uniform(incident')
      /\ incident'.priority_score <= ScoreOf(incident')
      /\ id' \in DOMAIN store /\ Suppressed(incident') => verdicts[id'] = "suppressed"
      /\ \A k \in DOMAIN store :
           k # id' /\ TakesEvents(store[k])
             => ~ SameActorAndSource(store[k], Head(incident'.events))
  <2>1. CASE /\ id' \in DOMAIN store /\ Matches(store[id'], e)
             /\ incident' = Extended(store[id'], e)
    <3> PICK n \in DOMAIN store : n = id'
      BY <2>1
    <3>1. store[n] \in Incidents /\ Uniform(store[n])
          /\ store[n].priority_score <= ScoreOf(store[n])
      BY <1>2 DEF UniformInv, ScoreInv
    <3>2. TakesEvents(store[n]) /\ SameActorAndSource(store[n], e)
      BY <2>1, MatchesIs
    <3>3. store[n].status # "suppressed"
      BY <3>2 DEF TakesEvents
    <3>4. /\ incident' \in Incidents /\ Uniform(incident')
          /\ Head(incident'.events) = Head(store[n].events)
          /\ incident'.priority_score <= ScoreOf(incident')
          /\ Suppressed(incident') => Suppressed(store[n])
      BY <1>2, <2>1, <3>1, <3>2, <3>3, ExtendedIs
    <3>5. Suppressed(incident') => verdicts[n] = "suppressed"
      BY <1>2, <3>4 DEF VerdictInv
    <3>6. ASSUME NEW k \in DOMAIN store, k # n, TakesEvents(store[k])
          PROVE  ~ SameActorAndSource(store[k], Head(incident'.events))
      BY <1>2, <3>2, <3>4, <3>6 DEF LiveInv, OneLiveIncident
    <3>7. n \in 1 .. Len(store) + 1
      BY <1>2
    <3> QED
      BY <3>4, <3>5, <3>6, <3>7
  <2>2. CASE /\ id' = Len(store) + 1 /\ incident' = NewIncident(e)
             /\ \A k \in DOMAIN store : ~ Matches(store[k], e)
    <3>1. /\ incident' \in Incidents /\ Uniform(incident')
          /\ Head(incident'.events) = e
          /\ incident'.priority_score <= ScoreOf(incident')
      BY <1>2, <2>2, NewIncidentIs
    <3>2. id' \in 1 .. Len(store) + 1 /\ id' \notin DOMAIN store
      BY <1>2, <2>2
    <3>3. ASSUME NEW k \in DOMAIN store, TakesEvents(store[k])
          PROVE  ~ SameActorAndSource(store[k], e)
      BY <2>2, <3>3, MatchesIs
    <3> QED
      BY <3>1, <3>2, <3>3
  <2> QED
    BY <2>1, <2>2, Correlated
<1>4. TypeOK'
  <2>1. Incidents' = Incidents
    BY <1>1 DEF Incidents
  <2>2. id' \in 0 .. Len(store) + 1 /\ id' # 0
    BY <1>2, <1>3
  <2> QED
    BY <1>1, <1>2, <1>3, <2>1, <2>2 DEF TypeOK
<1>5. UniformInv'
  BY <1>1, <1>2, <1>3 DEF UniformInv
<1>6. LiveInv'
  BY <1>1, <1>2, <1>3 DEF LiveInv, OneLiveIncident, TakesEvents
<1>7. ScoreInv'
  BY <1>1, <1>2, <1>3 DEF ScoreInv
<1>8. VerdictInv'
  BY <1>1, <1>2, <1>3 DEF VerdictInv
<1> QED
  BY <1>4, <1>5, <1>6, <1>7, <1>8 DEF IndInv

-------------------------------------------------------------------------------
(* score_incident and _update_incident_score. *)

LEMMA ScoreInd ==
  ASSUME IndInv, ScoreIncident
  PROVE  IndInv'
<1>1. /\ now' = now /\ store' = store /\ verdicts' = verdicts /\ id' = id
      /\ incident' = incident /\ score' = ScoreOf(incident)
      /\ step' = "scored" /\ step = "correlated"
  BY DEF ScoreIncident
<1>2. TypeOK /\ UniformInv /\ LiveInv /\ ScoreInv /\ VerdictInv
  BY DEF IndInv
<1>3. TypeOK'
  <2>1. Incidents' = Incidents
    BY <1>1 DEF Incidents
  <2>2. score' \in Nat
    BY <1>1, <1>2, IncidentTypes, ScoreIsNat DEF UniformInv
  <2> QED
    BY <1>1, <1>2, <2>1, <2>2 DEF TypeOK
<1>4. UniformInv'
  BY <1>1, <1>2 DEF UniformInv
<1>5. LiveInv'
  BY <1>1, <1>2 DEF LiveInv, OneLiveIncident, TakesEvents
<1>6. ScoreInv'
  BY <1>1, <1>2 DEF ScoreInv
<1>7. VerdictInv'
  BY <1>1, <1>2 DEF VerdictInv
<1> QED
  BY <1>3, <1>4, <1>5, <1>6, <1>7 DEF IndInv

LEMMA UpdateInd ==
  ASSUME IndInv, UpdateScore
  PROVE  IndInv'
<1>1. /\ now' = now /\ store' = store /\ verdicts' = verdicts /\ id' = id
      /\ incident' = [incident EXCEPT !.priority_score = score] /\ score' = score
      /\ step' = "updated" /\ step = "scored"
  BY DEF UpdateScore
<1>2. /\ TypeOK /\ UniformInv /\ LiveInv /\ ScoreInv /\ VerdictInv
      /\ score \in Nat /\ incident \in Incidents /\ Uniform(incident)
  BY <1>1 DEF IndInv, TypeOK, UniformInv
<1>3. /\ incident'.events = incident.events /\ incident'.status = incident.status
      /\ incident'.priority_score = score /\ incident'.suppressed = incident.suppressed
  BY <1>1, <1>2 DEF Incidents
<1>4. score = ScoreOf(incident) /\ incident.priority_score <= score
      /\ incident.priority_score \in Nat
  BY <1>1, <1>2 DEF ScoreInv, Incidents
<1>5. /\ ScoreOf(incident') = ScoreOf(incident)
      /\ IsKnownGood(incident') <=> IsKnownGood(incident)
      /\ InfoOnlyLowRecurrence(incident') <=> InfoOnlyLowRecurrence(incident)
  BY <1>3, SameEvents
<1>6. Suppressed(incident') => Suppressed(incident)
  <2>1. BelowThreshold(incident') => BelowThreshold(incident)
    BY <1>2, <1>3, <1>4, TriageAssumption DEF BelowThreshold
  <2> QED
    BY <1>5, <2>1 DEF Suppressed
<1>7. TypeOK'
  <2>1. Incidents' = Incidents
    BY <1>1 DEF Incidents
  <2>2. incident' \in Incidents
    BY <1>1, <1>2 DEF Incidents
  <2> QED
    BY <1>1, <1>2, <2>1, <2>2 DEF TypeOK
<1>8. UniformInv'
  <2>1. Uniform(incident')
    BY <1>2, <1>3 DEF Uniform, SameActorAndSource
  <2> QED
    BY <1>1, <1>2, <2>1 DEF UniformInv
<1>9. LiveInv'
  BY <1>1, <1>2, <1>3 DEF LiveInv, OneLiveIncident, TakesEvents
<1>10. ScoreInv'
  BY <1>1, <1>2, <1>3, <1>4, <1>5 DEF ScoreInv
<1>11. VerdictInv'
  BY <1>1, <1>2, <1>6 DEF VerdictInv
<1> QED
  BY <1>7, <1>8, <1>9, <1>10, <1>11 DEF IndInv

-------------------------------------------------------------------------------
(* check_suppression, and what the session does with the incident. *)

(* An element put in its place, or at the end. *)
LEMMA PlaceIs ==
  ASSUME NEW S, NEW s \in Seq(S), NEW x \in S, NEW n \in 1 .. Len(s) + 1, NEW t,
         t = IF n \in DOMAIN s THEN [s EXCEPT ![n] = x] ELSE Append(s, x)
  PROVE  /\ t \in Seq(S) /\ DOMAIN t = DOMAIN s \cup {n}
         /\ Len(t) = IF n \in DOMAIN s THEN Len(s) ELSE Len(s) + 1
         /\ t[n] = x /\ \A k \in DOMAIN s : k # n => t[k] = s[k]
<1>1. DOMAIN s = 1 .. Len(s) /\ Len(s) \in Nat
  BY LenProperties
<1>2. CASE n \in DOMAIN s
  <2>1. /\ t \in Seq(S) /\ Len(t) = Len(s)
        /\ \A j \in 1 .. Len(s) : t[j] = IF j = n THEN x ELSE s[j]
    BY <1>1, <1>2, ExceptSeq
  <2>2. DOMAIN t = DOMAIN s
    BY <1>1, <2>1, LenProperties
  <2> QED
    BY <1>1, <1>2, <2>1, <2>2
<1>3. CASE n \notin DOMAIN s
  <2>1. n = Len(s) + 1 /\ t = Append(s, x)
    <3>1. n \notin 1 .. Len(s)
      BY <1>1, <1>3
    <3>2. n = Len(s) + 1
      BY <1>1, <3>1
    <3> QED
      BY <1>3, <3>2
  <2>2. /\ t \in Seq(S) /\ Len(t) = Len(s) + 1
        /\ \A j \in 1 .. Len(s) : t[j] = s[j]
        /\ t[Len(s) + 1] = x
    BY <2>1, AppendProperties
  <2>3. DOMAIN t = 1 .. (Len(s) + 1)
    BY <2>2, LenProperties
  <2>4. 1 .. (Len(s) + 1) = (1 .. Len(s)) \cup {Len(s) + 1}
    BY <1>1
  <2> QED
    BY <1>1, <1>3, <2>1, <2>2, <2>3, <2>4
<1> QED
  BY <1>2, <1>3

(* The incident that is kept is the one in hand, or that one marked. *)
LEMMA Placed ==
  ASSUME IndInv, CheckSuppression
  PROVE  \E i \in Incidents, v \in {"suppressed", "kept"} :
           /\ Uniform(i) /\ i.events = incident.events
           /\ i.priority_score <= ScoreOf(i)
           /\ v = "suppressed" <=> Suppressed(i)
           /\ v = "suppressed" <=> Suppressed(incident)
           /\ store' \in Seq(Incidents) /\ DOMAIN store' = DOMAIN store \cup {id}
           /\ store'[id] = i /\ \A k \in DOMAIN store : k # id => store'[k] = store[k]
           /\ verdicts' \in Seq({"suppressed", "kept"}) /\ Len(verdicts') = Len(store')
           /\ verdicts'[id] = v
           /\ \A k \in DOMAIN store : k # id => verdicts'[k] = verdicts[k]
<1> DEFINE v == IF Suppressed(incident) THEN "suppressed" ELSE "kept"
           marked == [incident EXCEPT !.suppressed = TRUE, !.status = "suppressed"]
<1>1. /\ step # "idle"
      /\ verdicts' = IF id \in DOMAIN store THEN [verdicts EXCEPT ![id] = v]
                                            ELSE Append(verdicts, v)
  BY DEF CheckSuppression
<1>2. PICK i : /\ i = incident \/ (Suppressed(incident) /\ i = marked)
               /\ store' = IF id \in DOMAIN store THEN [store EXCEPT ![id] = i]
                                                  ELSE Append(store, i)
  BY DEF CheckSuppression
<1>3. /\ TypeOK /\ UniformInv /\ ScoreInv
      /\ incident \in Incidents /\ Uniform(incident)
      /\ incident.priority_score <= ScoreOf(incident)
      /\ store \in Seq(Incidents) /\ verdicts \in Seq({"suppressed", "kept"})
      /\ Len(verdicts) = Len(store) /\ Len(store) \in Nat
      /\ DOMAIN store = 1 .. Len(store) /\ DOMAIN verdicts = DOMAIN store
  BY <1>1, IncidentTypes DEF IndInv, TypeOK, UniformInv, ScoreInv
<1>4. id \in 1 .. Len(store) + 1
  BY <1>1, <1>3 DEF TypeOK
<1>5. /\ i \in Incidents /\ i.events = incident.events
      /\ i.priority_score = incident.priority_score
      /\ i.suppressed <=> i.status = "suppressed"
  <2>1. CASE i = incident
    BY <1>3, <2>1 DEF Uniform
  <2>2. CASE i = marked
    <3>1. TRUE \in BOOLEAN /\ "suppressed" \in Statuses
      BY DEF Statuses
    <3> QED
      BY <1>3, <2>2, <3>1 DEF Incidents
  <2> QED
    BY <1>2, <2>1, <2>2
<1>6. /\ ScoreOf(i) = ScoreOf(incident)
      /\ Suppressed(i) <=> Suppressed(incident)
  BY <1>5, SameEvents DEF Suppressed, BelowThreshold
<1>7. Uniform(i)
  BY <1>3, <1>5 DEF Uniform, SameActorAndSource
<1>8. /\ store' \in Seq(Incidents) /\ DOMAIN store' = DOMAIN store \cup {id}
      /\ Len(store') = IF id \in DOMAIN store THEN Len(store) ELSE Len(store) + 1
      /\ store'[id] = i /\ \A k \in DOMAIN store : k # id => store'[k] = store[k]
  BY <1>2, <1>3, <1>4, <1>5, PlaceIs
<1>9. v \in {"suppressed", "kept"} /\ (v = "suppressed" <=> Suppressed(incident))
  OBVIOUS
<1>10. /\ verdicts' \in Seq({"suppressed", "kept"})
       /\ Len(verdicts') = IF id \in DOMAIN store THEN Len(store) ELSE Len(store) + 1
       /\ verdicts'[id] = v /\ \A k \in DOMAIN store : k # id => verdicts'[k] = verdicts[k]
  <2>1. verdicts' = IF id \in DOMAIN verdicts THEN [verdicts EXCEPT ![id] = v]
                                               ELSE Append(verdicts, v)
    BY <1>1, <1>3
  <2>2. id \in 1 .. Len(verdicts) + 1
    BY <1>3, <1>4
  <2> HIDE DEF v
  <2> PICK V : V = {"suppressed", "kept"}
    OBVIOUS
  <2>3. verdicts \in Seq(V) /\ v \in V
    BY <1>3, <1>9
  <2>4. /\ verdicts' \in Seq(V)
        /\ Len(verdicts') = IF id \in DOMAIN verdicts THEN Len(verdicts) ELSE Len(verdicts) + 1
        /\ verdicts'[id] = v
        /\ \A k \in DOMAIN verdicts : k # id => verdicts'[k] = verdicts[k]
    BY <2>1, <2>2, <2>3, PlaceIs
  <2> QED
    BY <1>3, <2>4
<1> HIDE DEF v
<1>11. Len(verdicts') = Len(store')
  BY <1>8, <1>10
<1> QED
  BY <1>3, <1>5, <1>6, <1>7, <1>8, <1>9, <1>10, <1>11

LEMMA CheckInd ==
  ASSUME IndInv, CheckSuppression
  PROVE  IndInv'
<1>1. /\ now' = now /\ step' = "idle" /\ id' = 0 /\ incident' = Nothing /\ score' = 0
      /\ step # "idle"
  BY DEF CheckSuppression
<1>2. PICK i \in Incidents, v \in {"suppressed", "kept"} :
           /\ Uniform(i) /\ i.events = incident.events
           /\ i.priority_score <= ScoreOf(i)
           /\ v = "suppressed" <=> Suppressed(i)
           /\ v = "suppressed" <=> Suppressed(incident)
           /\ store' \in Seq(Incidents) /\ DOMAIN store' = DOMAIN store \cup {id}
           /\ store'[id] = i /\ \A k \in DOMAIN store : k # id => store'[k] = store[k]
           /\ verdicts' \in Seq({"suppressed", "kept"}) /\ Len(verdicts') = Len(store')
           /\ verdicts'[id] = v
           /\ \A k \in DOMAIN store : k # id => verdicts'[k] = verdicts[k]
  BY Placed
<1>3. TypeOK /\ UniformInv /\ LiveInv /\ ScoreInv /\ VerdictInv
  BY DEF IndInv
<1>4. UniformInv'
  BY <1>1, <1>2, <1>3 DEF UniformInv
<1>5. TypeOK'
  <2>1. Incidents' = Incidents
    BY <1>1 DEF Incidents
  <2>2. incident' \in Incidents
    <3>1. /\ <<>> \in Seq(EventKinds) /\ FALSE \in BOOLEAN /\ "open" \in Statuses
          /\ 0 \in Nat /\ 0 \in 0 .. now
      BY <1>3, EmptySeq DEF Statuses, TypeOK
    <3> QED
      BY <1>1, <3>1 DEF Nothing, Incidents
  <2>3. id' \in 0 .. Len(store') + 1
    BY <1>1, <1>2, LenProperties
  <2>4. \A k \in DOMAIN store' : \A e \in Range(store'[k].events) :
          SameActorAndSource(store'[k], e)
    BY <1>4 DEF UniformInv, Uniform
  <2> QED
    BY <1>1, <1>2, <1>3, <2>1, <2>2, <2>3, <2>4 DEF TypeOK
<1>6. LiveInv'
  <2>1. ASSUME NEW j \in DOMAIN store', NEW k \in DOMAIN store',
               TakesEvents(store'[j]), TakesEvents(store'[k]),
               SameActorAndSource(store'[j], Head(store'[k].events)), j # k
        PROVE  FALSE
    <3>1. CASE j = id
      <4>1. k \in DOMAIN store /\ store'[k] = store[k] /\ k # id
        BY <1>2, <2>1, <3>1
      <4>2. ~ SameActorAndSource(store[k], Head(incident.events))
        BY <1>1, <1>3, <2>1, <4>1 DEF LiveInv
      <4> QED
        BY <1>2, <2>1, <3>1, <4>1, <4>2 DEF SameActorAndSource
    <3>2. CASE k = id
      <4>1. j \in DOMAIN store /\ store'[j] = store[j] /\ j # id
        BY <1>2, <2>1, <3>2
      <4>2. ~ SameActorAndSource(store[j], Head(incident.events))
        BY <1>1, <1>3, <2>1, <4>1 DEF LiveInv
      <4> QED
        BY <1>2, <2>1, <3>2, <4>1, <4>2 DEF SameActorAndSource
    <3>3. CASE j # id /\ k # id
      BY <1>2, <1>3, <2>1, <3>3 DEF LiveInv, OneLiveIncident
    <3> QED
      BY <3>1, <3>2, <3>3
  <2> QED
    BY <1>1, <2>1 DEF LiveInv, OneLiveIncident, TakesEvents
<1>7. ScoreInv'
  BY <1>1, <1>2, <1>3 DEF ScoreInv
<1>8. VerdictInv'
  BY <1>1, <1>2, <1>3 DEF VerdictInv
<1> QED
  BY <1>4, <1>5, <1>6, <1>7, <1>8 DEF IndInv

-------------------------------------------------------------------------------
(* The session and the clock. *)

LEMMA SetStatusInd ==
  ASSUME IndInv, NEW n \in DOMAIN store, NEW s \in Statuses, SetStatus(n, s)
  PROVE  IndInv'
<1>1. /\ now' = now /\ step' = step /\ id' = id /\ incident' = incident
      /\ score' = score /\ verdicts' = verdicts /\ step = "idle"
      /\ store' = [store EXCEPT ![n].status = s]
      /\ s \in {"contained", "closed"}
      /\ store[n].status \notin {s, "closed", "suppressed"}
  BY DEF SetStatus
<1>2. /\ TypeOK /\ UniformInv /\ LiveInv /\ ScoreInv /\ VerdictInv
      /\ DOMAIN store = 1 .. Len(store) /\ Len(store) \in Nat
      /\ store \in Seq(Incidents) /\ \A k \in DOMAIN store : store[k] \in Incidents
  BY IncidentTypes DEF IndInv, TypeOK
<1>3. PICK i : i = [store[n] EXCEPT !.status = s]
  OBVIOUS
<1>4. i \in Incidents /\ i.events = store[n].events /\ i.status = s
      /\ i.priority_score = store[n].priority_score
      /\ i.suppressed = store[n].suppressed /\ i.updated_at = store[n].updated_at
  BY <1>2, <1>3 DEF Incidents
<1>5. /\ store' \in Seq(Incidents) /\ Len(store') = Len(store)
      /\ DOMAIN store' = DOMAIN store
      /\ store'[n] = i /\ \A k \in DOMAIN store : k # n => store'[k] = store[k]
  <2>1. store' = [store EXCEPT ![n] = i]
    BY <1>1, <1>3
  <2>2. n \in 1 .. Len(store)
    BY <1>2
  <2>3. /\ store' \in Seq(Incidents) /\ Len(store') = Len(store)
        /\ \A k \in 1 .. Len(store) : store'[k] = IF k = n THEN i ELSE store[k]
    BY <1>2, <1>4, <2>1, <2>2, ExceptSeq
  <2> QED
    BY <1>2, <2>2, <2>3, LenProperties
<1>6. Uniform(i) /\ i.priority_score <= ScoreOf(i) /\ (Suppressed(i) <=> Suppressed(store[n]))
  <2>1. Uniform(i)
    BY <1>1, <1>2, <1>4 DEF UniformInv, Uniform, SameActorAndSource
  <2>2. /\ ScoreOf(i) = ScoreOf(store[n])
        /\ Suppressed(i) <=> Suppressed(store[n])
    BY <1>4, SameEvents DEF Suppressed, BelowThreshold
  <2> QED
    BY <1>2, <1>4, <2>1, <2>2 DEF ScoreInv
<1>7. UniformInv'
  BY <1>1, <1>2, <1>5, <1>6 DEF UniformInv
<1>8. TypeOK'
  <2>1. Incidents' = Incidents
    BY <1>1 DEF Incidents
  <2>2. \A k \in DOMAIN store' : \A e \in Range(store'[k].events) :
          SameActorAndSource(store'[k], e)
    BY <1>7 DEF UniformInv, Uniform
  <2> QED
    BY <1>1, <1>2, <1>5, <2>1, <2>2 DEF TypeOK
<1>9. LiveInv'
  <2>1. ASSUME NEW k \in DOMAIN store, TakesEvents(store'[k]) PROVE TakesEvents(store[k])
    <3>1. CASE k = n
      <4>1. store[n].status \in {"open", "triaging", "contained"}
        BY <1>1, <1>2 DEF Incidents, Statuses
      <4> QED
        BY <1>4, <1>5, <2>1, <3>1, <4>1 DEF TakesEvents
    <3>2. CASE k # n
      BY <1>5, <2>1, <3>2
    <3> QED
      BY <3>1, <3>2
  <2>2. \A k \in DOMAIN store : store'[k].events = store[k].events
    BY <1>4, <1>5
  <2>3. ASSUME NEW j \in DOMAIN store, NEW k \in DOMAIN store,
               TakesEvents(store'[j]), TakesEvents(store'[k]),
               SameActorAndSource(store'[j], Head(store'[k].events))
        PROVE  j = k
    BY <1>2, <2>1, <2>2, <2>3 DEF LiveInv, OneLiveIncident, SameActorAndSource
  <2> QED
    BY <1>1, <1>5, <2>3 DEF LiveInv, OneLiveIncident, TakesEvents
<1>10. ScoreInv'
  BY <1>1, <1>2, <1>5, <1>6 DEF ScoreInv
<1>11. VerdictInv'
  BY <1>1, <1>2, <1>5, <1>6 DEF VerdictInv
<1> QED
  BY <1>7, <1>8, <1>9, <1>10, <1>11 DEF IndInv

LEMMA TickInd ==
  ASSUME IndInv, Tick
  PROVE  IndInv'
<1>1. /\ now' = now + 1 /\ now < MaxTime /\ step = "idle"
      /\ UNCHANGED <<store, step, id, incident, score, verdicts>>
  BY DEF Tick
<1>2. TypeOK /\ UniformInv /\ LiveInv /\ ScoreInv /\ VerdictInv
      /\ \A k \in DOMAIN store : store[k] \in Incidents
  BY IncidentTypes DEF IndInv
<1>3. now \in Nat /\ MaxTime \in Nat /\ Window \in Nat
  BY <1>2, TriageAssumption DEF TypeOK
<1>4. TypeOK'
  <2>1. Incidents \subseteq Incidents'
    BY <1>1, <1>3 DEF Incidents
  <2>2. store' \in Seq(Incidents') /\ incident' \in Incidents'
    BY <1>1, <1>2, <2>1, SeqMonotonic DEF TypeOK
  <2>3. now' \in 0 .. MaxTime
    BY <1>1, <1>3
  <2> QED
    BY <1>1, <1>2, <2>2, <2>3 DEF TypeOK
<1>5. UniformInv'
  BY <1>1, <1>2 DEF UniformInv
<1>6. LiveInv'
  <2>1. ASSUME NEW k \in DOMAIN store, now' - store[k].updated_at <= Window
        PROVE  now - store[k].updated_at <= Window
    <3>1. store[k].updated_at \in Nat
      BY <1>2, <1>3 DEF Incidents
    <3> QED
      BY <1>1, <1>3, <2>1, <3>1
  <2> QED
    BY <1>1, <1>2, <2>1 DEF LiveInv, OneLiveIncident, TakesEvents
<1>7. ScoreInv'
  BY <1>1, <1>2 DEF ScoreInv
<1>8. VerdictInv'
  BY <1>1, <1>2 DEF VerdictInv
<1> QED
  BY <1>4, <1>5, <1>6, <1>7, <1>8 DEF IndInv

-------------------------------------------------------------------------------
(* The theorems. *)

LEMMA NextInd == IndInv /\ [Next]_vars => IndInv'
<1> SUFFICES ASSUME IndInv, [Next]_vars PROVE IndInv'
  OBVIOUS
<1>1. CASE \E e \in EventKinds : CorrelateEvent(e)
  BY <1>1, CorrelateInd
<1>2. CASE ScoreIncident
  BY <1>2, ScoreInd
<1>3. CASE UpdateScore
  BY <1>3, UpdateInd
<1>4. CASE CheckSuppression
  BY <1>4, CheckInd
<1>5. CASE \E k \in DOMAIN store, s \in Statuses : SetStatus(k, s)
  BY <1>5, SetStatusInd
<1>6. CASE Tick
  BY <1>6, TickInd
<1>7. CASE UNCHANGED vars
  <2>1. Incidents' = Incidents
    BY <1>7 DEF vars, Incidents
  <2> QED
    BY <1>7, <2>1 DEF vars, IndInv, TypeOK, UniformInv, LiveInv, OneLiveIncident,
                      TakesEvents, ScoreInv, VerdictInv
<1> QED
  BY <1>1, <1>2, <1>3, <1>4, <1>5, <1>6, <1>7 DEF Next

(* The inductive invariant holds in every state of every behaviour. *)
THEOREM Invariance == Spec => []IndInv
BY InitInd, NextInd, PTL DEF Spec

(* correlate_event and the session keep incidents well formed, each of one *)
(* actor and one source, with one verdict for every incident.              *)
THEOREM TypeCorrect == Spec => []TypeOK
<1>1. IndInv => TypeOK
  BY DEF IndInv
<1> QED
  BY <1>1, Invariance, PTL

(* correlate_event never leaves two incidents that both take the events of *)
(* one actor and source, however long the window and whatever the session  *)
(* contains or closes.                                                     *)
THEOREM IncidentsAreUnique == Spec => []OneLiveIncident
<1>1. IndInv => OneLiveIncident
  BY DEF IndInv, LiveInv
<1> QED
  BY <1>1, Invariance, PTL

(* With the default threshold, check_suppression suppresses an incident    *)
(* whose score is up to date only for a known-good identity or when every  *)
(* event is of severity INFO.                                              *)
THEOREM OnlyNoiseIsSuppressed == Spec => []SuppressedIsNoise
<1>1. IndInv => SuppressedIsNoise
  <2> SUFFICES ASSUME IndInv, NEW k \in DOMAIN verdicts,
                      verdicts[k] = "suppressed", MinScore <= 100,
                      store[k].priority_score = ScoreOf(store[k]), ~ IsKnownGood(store[k]),
                      NEW e \in Range(store[k].events)
               PROVE  e.severity = "info"
    BY DEF SuppressedIsNoise
  <2>1. k \in DOMAIN store /\ store[k] \in Incidents /\ Uniform(store[k])
    BY IncidentTypes DEF IndInv, UniformInv
  <2>2. Suppressed(store[k])
    BY <2>1 DEF IndInv, VerdictInv
  <2>3. CASE InfoOnlyLowRecurrence(store[k])
    BY <2>3 DEF InfoOnlyLowRecurrence
  <2>4. CASE BelowThreshold(store[k])
    <3>1. /\ store[k].events \in Seq(EventKinds) /\ store[k].events # <<>>
          /\ ScoreOf(store[k]) \in Nat /\ ScoreOf(store[k]) < MinScore
      BY <2>1, <2>4, ScoreIsNat DEF BelowThreshold, Incidents, Uniform, IndInv
    <3>2. ~ (ScoreOf(store[k]) >= 100)
      BY <3>1, TriageAssumption
    <3> QED
      BY <3>1, <3>2, SignificantScore
  <2> QED
    BY <2>2, <2>3, <2>4 DEF Suppressed
<1> QED
  BY <1>1, Invariance, PTL

(* No later triage makes noise of an incident that check_suppression kept, *)
(* whether or not the agent updated its score.                             *)
THEOREM KeptIsKept == Spec => KeptStaysKept
<1>1. IndInv /\ [Next]_vars =>
        [\A k \in DOMAIN verdicts : verdicts[k] = "kept" => verdicts'[k] = "kept"]_vars
  <2> SUFFICES ASSUME IndInv, Next, NEW k \in DOMAIN verdicts, verdicts[k] = "kept"
               PROVE  verdicts'[k] = "kept"
    OBVIOUS
  <2>1. CASE verdicts' = verdicts
    BY <2>1
  <2>2. CASE CheckSuppression
    <3>1. PICK v \in {"suppressed", "kept"} :
            /\ v = "suppressed" <=> Suppressed(incident)
            /\ verdicts'[id] = v
            /\ \A n \in DOMAIN store : n # id => verdicts'[n] = verdicts[n]
      BY <2>2, Placed
    <3>2. k \in DOMAIN store /\ step # "idle" /\ VerdictInv
      BY <2>2, IncidentTypes DEF IndInv, CheckSuppression
    <3>3. CASE k # id
      BY <3>1, <3>2, <3>3
    <3>4. CASE k = id
      <4>1. ~ Suppressed(incident)
        BY <3>2, <3>4 DEF VerdictInv
      <4> QED
        BY <3>1, <3>4, <4>1
    <3> QED
      BY <3>3, <3>4
  <2> QED
    BY <2>1, <2>2 DEF Next, CorrelateEvent, ScoreIncident, UpdateScore, SetStatus, Tick
<1> QED
  BY <1>1, Invariance, PTL DEF Spec, KeptStaysKept

===============================================================================
