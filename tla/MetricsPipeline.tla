--------------------------- MODULE MetricsPipeline ----------------------------
(***************************************************************************)
(* Metric events from MetricsEmitter.emit (tengen/metrics/emitter.py) over *)
(* the queue tengen.metrics to MetricsConsumer and MetricsStore of the     *)
(* dashboard process (tengen/dashboard/).  Three threads of that process   *)
(* share the counters: the consumer, which increments them; the snapshot   *)
(* thread, which saves them to SQLite once a minute; and the main thread,  *)
(* whose shutdown saves them once more.  Each increment and each snapshot  *)
(* is atomic (the lock); a save writes its snapshot in a later step.       *)
(***************************************************************************)
EXTENDS Integers, FiniteSets

CONSTANTS
  Events,     \* the metric events
  Counters,   \* the counters, over all buckets
  CounterOf,  \* the counter an event increments, or NoCounter
  NoCounter,  \* an event record_event ignores
  Malformed,  \* the events whose handling raises (no JSON object)
  NoEvent,    \* a consumer that handles nothing
  MaxFaults   \* bound: lost connections, broker restarts, failed loads and
              \* saves, crashes and stops

ASSUME MetricsAssumption ==
  /\ CounterOf \in [Events -> Counters \cup {NoCounter}]
  /\ NoCounter \notin Counters /\ NoEvent \notin Events
  /\ Malformed \subseteq Events
  /\ MaxFaults \in Nat

VARIABLES
  place,       \* each event: "unsent", "queued", "held", "acked", "dropped"
  link,        \* the consumer's connection: "none", "up", "broken"
  inbox,       \* the events delivered to the consumer and not yet handled
  handler,     \* the consumer thread: "down", "connect", "idle", "ack", "nack"
  inHand,      \* the event it handles
  mem,         \* the counters in memory
  db,          \* the counters in SQLite; 0 for a row that does not exist
  flusher,     \* the snapshot thread: "down", "asleep", "awake", "writing"
  flushSnap,   \* what it is about to write
  main,        \* the main thread: "down", "serving", "stopping", "writing", "stopped"
  stopSnap,    \* what stop() is about to write
  recorded,    \* how often each event was counted
  atStop,      \* the counters when the shutdown began
  overlapped,  \* one thread wrote while the other still had to
  unloaded,    \* this process could not load the counters
  unsaved,     \* stop() could not write them
  faults

consumerVars == <<link, inbox, handler, inHand>>
storeVars == <<mem, db, flusher, flushSnap, main, stopSnap, atStop, overlapped,
               unloaded, unsaved>>
vars == <<place, link, inbox, handler, inHand, mem, db, flusher, flushSnap,
          main, stopSnap, recorded, atStop, overlapped, unloaded, unsaved, faults>>

Zero == [k \in Counters |-> 0]

Fault == faults < MaxFaults /\ faults' = faults + 1

Requeued == [e \in Events |-> IF place[e] = "held" THEN "queued" ELSE place[e]]

-------------------------------------------------------------------------------
(* emit() and the queue. *)

(* emit() never raises: the event is queued, or it is dropped because the  *)
(* connection cannot be opened or is lost.                                 *)
Emit(e) ==
  /\ place[e] = "unsent"
  /\ place' \in {[place EXCEPT ![e] = s] : s \in {"queued", "dropped"}}
  /\ UNCHANGED <<consumerVars, storeVars, recorded, faults>>

(* No basic_qos: everything on the queue is delivered. *)
Deliver(e) ==
  /\ link = "up" /\ place[e] = "queued"
  /\ place' = [place EXCEPT ![e] = "held"]
  /\ inbox' = inbox \cup {e}
  /\ UNCHANGED <<link, handler, inHand, storeVars, recorded, faults>>

LoseConnection ==
  /\ Fault
  /\ link = "up" /\ link' = "broken"
  /\ place' = Requeued
  /\ UNCHANGED <<inbox, handler, inHand, storeVars, recorded>>

(* delivery_mode=1: what the broker had is gone. *)
BrokerRestarts ==
  /\ Fault
  /\ link' = IF link = "up" THEN "broken" ELSE link
  /\ place' = [e \in Events |-> IF place[e] \in {"queued", "held"} THEN "dropped"
                                                                   ELSE place[e]]
  /\ UNCHANGED <<inbox, handler, inHand, storeVars, recorded>>

-------------------------------------------------------------------------------
(* MetricsConsumer._consume_loop. *)

Connect ==
  /\ handler = "connect"
  /\ \/ handler' = "idle" /\ link' = "up"
     \/ main # "serving" /\ handler' = "down" /\ UNCHANGED link
  /\ UNCHANGED <<place, inbox, inHand, storeVars, recorded, faults>>

Handle(s, e) == handler' = s /\ inHand' = e

(* An exception leaves start_consuming; the loop goes on while _running,   *)
(* which stop() clears and nothing else looks at.                          *)
Reconnect ==
  /\ link = "broken"
  /\ link' = "none" /\ inbox' = {}
  /\ Handle(IF main = "serving" THEN "connect" ELSE "down", NoEvent)

(* json.loads and record_event; an exception before the increment goes to  *)
(* the nack.                                                               *)
Record(e) ==
  /\ handler = "idle" /\ e \in inbox
  /\ inbox' = inbox \ {e}
  /\ IF e \in Malformed
     THEN Handle("nack", e) /\ UNCHANGED <<mem, recorded>>
     ELSE /\ Handle("ack", e)
          /\ mem' = [k \in Counters |-> mem[k] + (IF k = CounterOf[e] THEN 1 ELSE 0)]
          /\ recorded' = [recorded EXCEPT ![e] = @ + 1]
  /\ UNCHANGED <<place, link, db, flusher, flushSnap, main, stopSnap, atStop,
                 overlapped, unloaded, unsaved, faults>>

(* Mistake: the success path requeues. *)
AnswerRequeues ==
  /\ handler \in {"ack", "nack"} /\ link = "up"
  /\ place' = [place EXCEPT ![inHand] = IF handler = "ack" THEN "queued" ELSE "dropped"]
  /\ Handle("idle", NoEvent)
  /\ UNCHANGED <<link, inbox, storeVars, recorded, faults>>

(* basic_ack or basic_nack without requeue.  A lost connection loses the   *)
(* answer, or makes the ack raise and the nack after it.                   *)
Answer ==
  /\ handler \in {"ack", "nack"}
  /\ \/ /\ link = "up"
        /\ place' = [place EXCEPT ![inHand] = IF handler = "ack" THEN "acked" ELSE "dropped"]
        /\ Handle("idle", NoEvent) /\ UNCHANGED <<link, inbox>>
     \/ /\ link = "broken"
        /\ \/ Handle("idle", NoEvent) /\ UNCHANGED <<link, inbox>>
           \/ Reconnect
        /\ UNCHANGED place
  /\ UNCHANGED <<storeVars, recorded, faults>>

(* Mistake: the thread ends with its connection. *)
NoticeLossEnds ==
  /\ handler = "idle" /\ link = "broken"
  /\ link' = "none" /\ inbox' = {}
  /\ Handle("down", NoEvent)
  /\ UNCHANGED <<place, storeVars, recorded, faults>>

NoticeLoss ==
  /\ handler = "idle"
  /\ Reconnect
  /\ UNCHANGED <<place, storeVars, recorded, faults>>

-------------------------------------------------------------------------------
(* MetricsStore. *)

(* The upsert of a snapshot; a counter that was never used has no row. *)
Saved(snap) == [k \in Counters |-> IF snap[k] = 0 THEN db[k] ELSE snap[k]]

(* _flush_loop: awake, and _running was still set. *)
FlushWakes ==
  /\ flusher = "asleep" /\ main = "serving"
  /\ flusher' = "awake"
  /\ UNCHANGED <<place, consumerVars, mem, db, flushSnap, main, stopSnap, recorded,
                 atStop, overlapped, unloaded, unsaved, faults>>

FlushSnapshot ==
  /\ flusher = "awake"
  /\ flusher' = "writing" /\ flushSnap' = mem
  /\ UNCHANGED <<place, consumerVars, mem, db, main, stopSnap, recorded, atStop,
                 overlapped, unloaded, unsaved, faults>>

(* A failing transaction is logged. *)
FlushWrite ==
  /\ flusher = "writing"
  /\ flusher' = "asleep"
  /\ overlapped' = (overlapped \/ main = "writing")
  /\ \/ db' = Saved(flushSnap) /\ UNCHANGED faults
     \/ Fault /\ UNCHANGED db
  /\ UNCHANGED <<place, consumerVars, mem, flushSnap, main, stopSnap, recorded,
                 atStop, unloaded, unsaved>>

(* Shutdown: MetricsConsumer.stop and MetricsStore.stop clear _running. *)
StopBegin ==
  /\ main = "serving"
  /\ Fault
  /\ main' = "stopping" /\ atStop' = mem
  /\ UNCHANGED <<place, consumerVars, mem, db, flusher, flushSnap, stopSnap,
                 recorded, overlapped, unloaded, unsaved>>

(* Mistake: stop() saves the snapshot thread's last snapshot again. *)
StopUnsnapped ==
  /\ main = "stopping"
  /\ main' = "writing" /\ stopSnap' = flushSnap
  /\ UNCHANGED <<place, consumerVars, mem, db, flusher, flushSnap, recorded,
                 atStop, overlapped, unloaded, unsaved, faults>>

StopSnapshot ==
  /\ main = "stopping"
  /\ main' = "writing" /\ stopSnap' = mem
  /\ UNCHANGED <<place, consumerVars, mem, db, flusher, flushSnap, recorded,
                 atStop, overlapped, unloaded, unsaved, faults>>

StopWrite ==
  /\ main = "writing"
  /\ main' = "stopped"
  /\ overlapped' = (overlapped \/ flusher = "writing")
  /\ \/ db' = Saved(stopSnap) /\ UNCHANGED <<unsaved, faults>>
     \/ Fault /\ unsaved' = TRUE /\ UNCHANGED db
  /\ UNCHANGED <<place, consumerVars, mem, flusher, flushSnap, stopSnap,
                 recorded, atStop, unloaded>>

(* Mistake: the snapshot thread is no daemon and stays. *)
EndKeepsFlusher ==
  /\ main' = "down"
  /\ handler' = "down" /\ inHand' = NoEvent /\ inbox' = {} /\ link' = "none"
  /\ place' = Requeued
  /\ mem' = Zero /\ flushSnap' = Zero /\ stopSnap' = Zero
  /\ UNCHANGED <<db, flusher, recorded, atStop, overlapped, unloaded, unsaved>>

(* The process ends, and its daemon threads with it. *)
End ==
  /\ main' = "down" /\ flusher' = "down"
  /\ handler' = "down" /\ inHand' = NoEvent /\ inbox' = {} /\ link' = "none"
  /\ place' = Requeued
  /\ mem' = Zero /\ flushSnap' = Zero /\ stopSnap' = Zero
  /\ UNCHANGED <<db, recorded, atStop, overlapped, unloaded, unsaved>>

Exit == main = "stopped" /\ End /\ UNCHANGED faults

Crash == main # "down" /\ Fault /\ End

(* Mistake: the counters are not loaded. *)
StartEmpty ==
  /\ main = "down"
  /\ main' = "serving" /\ flusher' = "asleep" /\ handler' = "connect"
  /\ mem' = Zero
  /\ overlapped' = FALSE /\ unsaved' = FALSE /\ unloaded' = FALSE
  /\ UNCHANGED <<place, link, inbox, inHand, db, flushSnap, stopSnap, recorded,
                 atStop, faults>>

(* MetricsStore.__init__, which goes on when it cannot load, then the two  *)
(* threads.                                                                *)
Start ==
  /\ main = "down"
  /\ main' = "serving" /\ flusher' = "asleep" /\ handler' = "connect"
  /\ \/ mem' = db /\ unloaded' = FALSE /\ UNCHANGED faults
     \/ mem' = Zero /\ unloaded' = TRUE /\ Fault
  /\ overlapped' = FALSE /\ unsaved' = FALSE
  /\ UNCHANGED <<place, link, inbox, inHand, db, flushSnap, stopSnap, recorded,
                 atStop>>

-------------------------------------------------------------------------------

Init ==
  /\ place = [e \in Events |-> "unsent"]
  /\ link = "none" /\ inbox = {} /\ handler = "down" /\ inHand = NoEvent
  /\ mem = Zero /\ db = Zero /\ atStop = Zero
  /\ flusher = "down" /\ flushSnap = Zero
  /\ main = "down" /\ stopSnap = Zero
  /\ recorded = [e \in Events |-> 0]
  /\ overlapped = FALSE /\ unloaded = FALSE /\ unsaved = FALSE
  /\ faults = 0

Consume == Connect \/ (\E e \in Events : Record(e)) \/ Answer \/ NoticeLoss

Shutdown == StopSnapshot \/ StopWrite \/ Exit

Next ==
  \/ \E e \in Events : Emit(e) \/ Deliver(e)
  \/ Consume
  \/ FlushWakes \/ FlushSnapshot \/ FlushWrite
  \/ StopBegin \/ Shutdown
  \/ Start
  \/ LoseConnection \/ BrokerRestarts \/ Crash

(* The dashboard is restarted, a shutdown that began ends, the consumer    *)
(* thread runs and the broker delivers.                                    *)
Fairness ==
  /\ WF_vars(Start) /\ WF_vars(Shutdown) /\ WF_vars(Consume)
  /\ \A e \in Events : WF_vars(Deliver(e))

Spec == Init /\ [][Next]_vars /\ Fairness

-------------------------------------------------------------------------------
(* Properties. *)

(* The threads' states fit together: nothing of the process outlives it,   *)
(* and the consumer has an event in hand exactly while it owes an answer.  *)
TypeOK ==
  /\ place \in [Events -> {"unsent", "queued", "held", "acked", "dropped"}]
  /\ link \in {"none", "up", "broken"} /\ inbox \subseteq Events
  /\ handler \in {"down", "connect", "idle", "ack", "nack"}
  /\ inHand \in Events \cup {NoEvent}
  /\ (inHand = NoEvent) <=> (handler \in {"down", "connect", "idle"})
  /\ (link = "none") <=> (handler \in {"down", "connect"})
  /\ {mem, db, flushSnap, stopSnap, atStop} \subseteq [Counters -> Nat]
  /\ recorded \in [Events -> Nat]
  /\ flusher \in {"down", "asleep", "awake", "writing"}
  /\ main \in {"down", "serving", "stopping", "writing", "stopped"}
  /\ main = "down" => handler = "down" /\ flusher = "down" /\ mem = Zero
  /\ {overlapped, unloaded, unsaved} \subseteq BOOLEAN
  /\ faults \in 0 .. MaxFaults

(* The n-th time that e was counted by k, for all such e and n. *)
Recordings(k) == UNION {{e} \X (1 .. recorded[e]) : e \in {e \in Events : CounterOf[e] = k}}

(* No counter, in memory, in a snapshot or in SQLite, exceeds what was     *)
(* recorded, and an event is recorded again only after a fault: reloading, *)
(* overlapping saves and redelivery never count anything twice otherwise.  *)
CountersNeedEvents ==
  /\ \A k \in Counters : \A c \in {mem, db, flushSnap, stopSnap} : c[k] <= Cardinality(Recordings(k))
  /\ \A e \in Events : recorded[e] <= 1 + faults

AckedWereCounted == \A e \in Events : place[e] = "acked" => recorded[e] > 0

(* The counters hold nothing that was not recorded, and every event that   *)
(* was acked was recorded, whatever was redelivered in between.            *)
CountersMatchEvents == CountersNeedEvents /\ AckedWereCounted

(* metrics_store.py: "Counters survive pod restarts".  An orderly shutdown *)
(* leaves in SQLite at least what was counted when it began, unless the    *)
(* write failed or the snapshot thread was between its snapshot and its    *)
(* write (snapshot() holds the lock, _save_to_db does not).                *)
StopSaves ==
  main = "stopped" /\ ~ overlapped /\ ~ unsaved =>
    \A k \in Counters : db[k] >= atStop[k]

(* No save moves a stored counter back, across crashes and restarts, but   *)
(* for the same overlap, or in a process that could not load it.           *)
StoredCountersGrow ==
  [][overlapped \/ unloaded \/ \A k \in Counters : db'[k] >= db[k]]_vars

(* Every queued event is handled in the end. *)
MetricsSettle == \A e \in Events : place[e] = "queued" ~> place[e] \in {"acked", "dropped"}

===============================================================================
