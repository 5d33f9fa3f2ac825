-------------------------------- MODULE Triage --------------------------------
(***************************************************************************)
(* Triage of normalized events, tools/triage_tools.py: correlate_event     *)
(* puts an event into an incident, score_incident rates the incident,      *)
(* _update_incident_score writes the rating into it, and check_suppression *)
(* decides whether it is noise.  The triage agent is a language model that *)
(* is told to call the four in this order; that it calls                   *)
(* check_suppression without the updated incident is part of the model.    *)
(*                                                                         *)
(* No tool keeps anything.  The incidents of a session belong to whoever   *)
(* runs it, outside the code: it puts the incident that comes back in the  *)
(* place of the one with the same id, or at the end, and it may contain or *)
(* close an incident between two triages.  Triages follow one another.     *)
(*                                                                         *)
(* Times are minutes.  Severities, weights and recurrence factors are in   *)
(* tenths and scores in hundredths, so that the arithmetic is exact.       *)
(* Findings, labels, created_at and suppression_reason take no part in any *)
(* decision and are left out.                                              *)
(***************************************************************************)
EXTENDS Integers, Sequences, FiniteSetsExt, SequencesExt

CONSTANTS
  EventKinds,    \* the events that arrive: [identity, source, severity, privileged]
  KnownGood,     \* known_good_identities of the suppression rules
  MinScore,      \* min_priority_score, in hundredths
  Window,        \* _CORRELATION_WINDOW_MINUTES
  MaxTime,       \* bound: the clock
  MaxEvents      \* bound: events triaged

SeverityScores == [critical |-> 100, high |-> 70, medium |-> 40, low |-> 20, info |-> 5]

SourceWeights ==
  [crowdstrike |-> 15, aws |-> 12, gcp |-> 12, azure |-> 12, k8s |-> 13,
   openshift |-> 13, firewall |-> 9, ddos |-> 10, unknown |-> 5]

ASSUME TriageAssumption ==
  /\ \A e \in EventKinds :
       /\ e.source \in DOMAIN SourceWeights /\ e.severity \in DOMAIN SeverityScores
       /\ e.privileged \in BOOLEAN
  /\ MinScore \in Nat /\ Window \in Nat /\ MaxTime \in Nat /\ MaxEvents \in Nat

Statuses == {"open", "triaging", "contained", "closed", "suppressed"}

VARIABLES
  now,
  store,     \* the session's incidents; an incident's id is its place
  step,      \* what the agent has done for the event in hand, "idle" between
  id,        \* the incident_id in hand
  incident,  \* the incident in hand, Nothing between
  score,     \* what score_incident returned for it
  verdicts   \* the last verdict on each incident: suppressed, or kept

vars == <<now, store, step, id, incident, score, verdicts>>

NewIncident(e) ==
  [events |-> <<e>>, status |-> "open", priority_score |-> 0,
   suppressed |-> FALSE, updated_at |-> now]

Nothing ==
  [events |-> <<>>, status |-> "open", priority_score |-> 0,
   suppressed |-> FALSE, updated_at |-> 0]

-------------------------------------------------------------------------------
(* The tools. *)

(* Mistake: a contained incident is taken to be finished. *)
LiveUncontained(i) == ~ i.suppressed /\ i.status \notin {"contained", "closed", "suppressed"}

Live(i) == ~ i.suppressed /\ i.status \notin {"closed", "suppressed"}

InWindow(i) == i.updated_at >= now - Window

SameActorAndSource(i, e) ==
  Head(i.events).identity = e.identity /\ Head(i.events).source = e.source

Matches(i, e) == Live(i) /\ InWindow(i) /\ SameActorAndSource(i, e)

(* Appending an event keeps the stored priority_score. *)
Extended(i, e) ==
  [i EXCEPT !.events = Append(@, e), !.status = "triaging", !.updated_at = now]

Recurrence(i) == Min({10 + 2 * (Len(i.events) - 1), 30})

Privileged(i) == \E e \in Range(i.events) : e.privileged

(* Mistake: the last event's severity instead of the highest. *)
ScoreOfLast(i) ==
  (SeverityScores[Last(i.events).severity] * SourceWeights[Head(i.events).source]
     * Recurrence(i) * (IF Privileged(i) THEN 15 ELSE 10) + 50) \div 100

(* max_severity * source_weight * recurrence_factor, rounded to hundredths *)
ScoreOf(i) ==
  LET severity == Max({SeverityScores[e.severity] : e \in Range(i.events)})
      product == severity * SourceWeights[Head(i.events).source]
                   * Recurrence(i) * (IF Privileged(i) THEN 15 ELSE 10)
  IN  (product + 50) \div 100

(* Mistake: the threshold itself is below the threshold. *)
AtOrBelowThreshold(i) == i.priority_score <= MinScore

BelowThreshold(i) == i.priority_score < MinScore

IsKnownGood(i) == \E e \in Range(i.events) : e.identity \in KnownGood

InfoOnlyLowRecurrence(i) ==
  (\A e \in Range(i.events) : e.severity = "info") /\ Len(i.events) < 3

Suppressed(i) == BelowThreshold(i) \/ IsKnownGood(i) \/ InfoOnlyLowRecurrence(i)

-------------------------------------------------------------------------------
(* One triage: the agent's steps, and what the session does with the       *)
(* incident that comes back.                                               *)

Triaged == FoldSeq(LAMBDA i, n : Len(i.events) + n, 0, store)

(* Mistake: every event after the first goes to the latest incident. *)
CorrelateWithLatest(e) ==
  /\ step = "idle" /\ Triaged < MaxEvents
  /\ IF store # <<>> /\ InWindow(Last(store))
     THEN id' = Len(store) /\ incident' = Extended(Last(store), e)
     ELSE id' = Len(store) + 1 /\ incident' = NewIncident(e)
  /\ step' = "correlated"
  /\ UNCHANGED <<now, store, score, verdicts>>

(* The first incident of the store that matches, or a new one. *)
CorrelateEvent(e) ==
  /\ step = "idle" /\ Triaged < MaxEvents
  /\ LET matching == {k \in DOMAIN store : Matches(store[k], e)}
     IN  IF matching # {}
         THEN id' = Min(matching) /\ incident' = Extended(store[id'], e)
         ELSE id' = Len(store) + 1 /\ incident' = NewIncident(e)
  /\ step' = "correlated"
  /\ UNCHANGED <<now, store, score, verdicts>>

ScoreIncident ==
  /\ step = "correlated"
  /\ score' = ScoreOf(incident)
  /\ step' = "scored"
  /\ UNCHANGED <<now, store, id, incident, verdicts>>

UpdateScore ==
  /\ step = "scored"
  /\ incident' = [incident EXCEPT !.priority_score = score]
  /\ step' = "updated"
  /\ UNCHANGED <<now, store, id, score, verdicts>>

(* The session may mark an incident that was found to be noise. *)
CheckSuppression ==
  /\ step # "idle"
  /\ LET verdict == IF Suppressed(incident) THEN "suppressed" ELSE "kept"
         place(i) == store' = IF id \in DOMAIN store THEN [store EXCEPT ![id] = i]
                                                     ELSE Append(store, i)
     IN  /\ \/ place(incident)
            \/ /\ verdict = "suppressed"
               /\ place([incident EXCEPT !.suppressed = TRUE, !.status = "suppressed"])
         /\ verdicts' = IF id \in DOMAIN store THEN [verdicts EXCEPT ![id] = verdict]
                                               ELSE Append(verdicts, verdict)
  /\ step' = "idle" /\ id' = 0 /\ incident' = Nothing /\ score' = 0
  /\ UNCHANGED now

(* The session sets an incident's status between two triages. *)
SetStatus(k, s) ==
  /\ step = "idle" /\ s \in {"contained", "closed"}
  /\ store[k].status \notin {s, "closed", "suppressed"}
  /\ store' = [store EXCEPT ![k].status = s]
  /\ UNCHANGED <<now, step, id, incident, score, verdicts>>

(* Only correlate_event reads the clock, so that time may as well pass     *)
(* between triages.                                                        *)
Tick ==
  /\ step = "idle" /\ now < MaxTime
  /\ now' = now + 1
  /\ UNCHANGED <<store, step, id, incident, score, verdicts>>

-------------------------------------------------------------------------------

Init ==
  /\ now = 0
  /\ store = <<>> /\ verdicts = <<>>
  /\ step = "idle"
  /\ id = 0 /\ score = 0
  /\ incident = Nothing

Next ==
  \/ \E e \in EventKinds : CorrelateEvent(e)
  \/ ScoreIncident \/ UpdateScore \/ CheckSuppression
  \/ \E k \in DOMAIN store, s \in Statuses : SetStatus(k, s)
  \/ Tick

Spec == Init /\ [][Next]_vars

-------------------------------------------------------------------------------
(* Properties. *)

Incidents ==
  [events : Seq(EventKinds), status : Statuses, priority_score : Nat,
   suppressed : BOOLEAN, updated_at : 0 .. now]

(* An incident holds events of one actor and one source.                   *)
TypeOK ==
  /\ now \in 0 .. MaxTime
  /\ store \in Seq(Incidents) /\ incident \in Incidents
  /\ step \in {"idle", "correlated", "scored", "updated"}
  /\ id \in 0 .. Len(store) + 1
  /\ id = 0 <=> step = "idle"
  /\ score \in Nat
  /\ verdicts \in Seq({"suppressed", "kept"}) /\ Len(verdicts) = Len(store)
  /\ \A k \in DOMAIN store : \A e \in Range(store[k].events) :
       SameActorAndSource(store[k], e)

(* README.md: events of one actor and source are grouped "within a         *)
(* 15-minute rolling window".  At no time do two incidents of the same     *)
(* actor and source both take events: an incident found noise or closed    *)
(* may be followed by another, a contained one is reopened.                *)
TakesEvents(i) ==
  i.status \in {"open", "triaging", "contained"} /\ now - i.updated_at <= Window

OneLiveIncident ==
  \A j, k \in DOMAIN store :
    /\ TakesEvents(store[j]) /\ TakesEvents(store[k])
    /\ SameActorAndSource(store[j], Head(store[k].events))
    => j = k

(* Once an incident was kept, no further event makes noise of it, even     *)
(* when the agent leaves out the update: the score that is stored then is  *)
(* the older one, which was high enough, and scores only grow.             *)
KeptStaysKept ==
  [][\A k \in DOMAIN verdicts : verdicts[k] = "kept" => verdicts'[k] = "kept"]_vars

(* README.md: suppression is for known-good identities, scores below the   *)
(* threshold and "info-only noise".  With the default threshold an         *)
(* incident whose score is up to date is suppressed only for the first or  *)
(* the last reason: every event above INFO scores at least 1.0, the least  *)
(* of them, a LOW one of an unknown source, exactly that.                  *)
SuppressedIsNoise ==
  \A k \in DOMAIN verdicts :
    /\ verdicts[k] = "suppressed" /\ MinScore <= 100
    /\ store[k].priority_score = ScoreOf(store[k])
    => IsKnownGood(store[k]) \/ \A e \in Range(store[k].events) : e.severity = "info"

===============================================================================
