------------------------ MODULE MetricsPipelineProofs -------------------------
(***************************************************************************)
(* Proofs about MetricsPipeline, for any events, any counters and any      *)
(* number of faults.                                                       *)
(***************************************************************************)
EXTENDS MetricsPipeline, FiniteSetTheorems, TLAPS

-------------------------------------------------------------------------------
(* The inductive invariant. *)

Below(f, g) == \A k \in Counters : f[k] <= g[k]

Stopping == main \in {"stopping", "writing", "stopped"}

(* The times that e may yet be counted without another fault; the fault    *)
(* that begins a shutdown pays for the event in hand when it ends.         *)
Chances(e) ==
  (IF place[e] \in {"unsent", "queued"} THEN 1 ELSE 0)
    + (IF e \in inbox THEN 1 ELSE 0)
    + (IF Stopping THEN 1 ELSE 0)

(* What is acked, or about to be, was counted. *)
CountInv ==
  /\ \A e \in Events : recorded[e] + Chances(e) <= 1 + faults
  /\ handler = "ack" => recorded[inHand] > 0
  /\ AckedWereCounted

(* Counters come from recordings. *)
RecordingsInv ==
  \A k \in Counters :
    /\ IsFiniteSet(Recordings(k))
    /\ \A c \in {mem, db, flushSnap, stopSnap} : c[k] <= Cardinality(Recordings(k))

(* A snapshot that is about to be written is not ahead of memory, and not  *)
(* behind SQLite unless the two threads' writes overlapped or the process  *)
(* could not load its counters.                                            *)
SaveInv ==
  /\ flusher = "writing" => Below(flushSnap, mem)
  /\ main = "writing" => Below(stopSnap, mem)
  /\ overlapped \/ unloaded \/ main = "down" \/
       /\ Below(db, mem)
       /\ flusher = "writing" => Below(db, flushSnap)
       /\ main = "writing" => Below(db, stopSnap)

(* Whatever is saved after the shutdown began holds what was counted by    *)
(* then, but for a snapshot that is older and written later.               *)
StopInv ==
  /\ Stopping => Below(atStop, mem)
  /\ main = "writing" => Below(atStop, stopSnap)
  /\ main = "stopped" /\ ~ overlapped /\ flusher = "writing" => Below(atStop, flushSnap)
  /\ StopSaves

IndInv == TypeOK /\ CountInv /\ RecordingsInv /\ SaveInv /\ StopInv

-------------------------------------------------------------------------------
(* The steps, by what they change. *)

(* Snapshots and saves are counters. *)
LEMMA StoreTypes ==
  /\ Zero \in [Counters -> Nat]
  /\ TypeOK => /\ mem \in [Counters -> Nat] /\ db \in [Counters -> Nat]
               /\ flushSnap \in [Counters -> Nat] /\ stopSnap \in [Counters -> Nat]
               /\ atStop \in [Counters -> Nat]
               /\ \A s \in [Counters -> Nat] : Saved(s) \in [Counters -> Nat]
<1>1. Zero \in [Counters -> Nat]
  BY DEF Zero
<1>2. TypeOK => /\ mem \in [Counters -> Nat] /\ db \in [Counters -> Nat]
                /\ flushSnap \in [Counters -> Nat] /\ stopSnap \in [Counters -> Nat]
                /\ atStop \in [Counters -> Nat]
  BY DEF TypeOK
<1>3. TypeOK => \A s \in [Counters -> Nat] : Saved(s) \in [Counters -> Nat]
  BY <1>2 DEF Saved
<1> QED
  BY <1>1, <1>2, <1>3

(* A fault is counted, and there are no more than MaxFaults. *)
LEMMA FaultEffect ==
  TypeOK /\ Fault => faults' = faults + 1 /\ faults' \in 0 .. MaxFaults /\ faults \in Nat
BY MetricsAssumption DEF TypeOK, Fault

(* What is held goes back to the queue. *)
LEMMA RequeuedEffect ==
  TypeOK =>
    /\ Requeued \in [Events -> {"unsent", "queued", "held", "acked", "dropped"}]
    /\ \A e \in Events : Requeued[e] = IF place[e] = "held" THEN "queued" ELSE place[e]
BY DEF TypeOK, Requeued

LEMMA TypeInd == TypeOK /\ [Next]_vars => TypeOK'
<1> SUFFICES ASSUME TypeOK, [Next]_vars PROVE TypeOK'
  OBVIOUS
<1> USE DEF consumerVars, storeVars
<1>1. ASSUME NEW e \in Events, Emit(e) PROVE TypeOK'
  BY <1>1 DEF Emit, TypeOK
<1>2. ASSUME NEW e \in Events, Deliver(e) PROVE TypeOK'
  BY <1>2 DEF Deliver, TypeOK
<1>3. CASE LoseConnection
  BY <1>3, FaultEffect, RequeuedEffect DEF LoseConnection, TypeOK
<1>4. CASE BrokerRestarts
  BY <1>4, FaultEffect DEF BrokerRestarts, TypeOK
<1>5. CASE Connect
  BY <1>5 DEF Connect, TypeOK
<1>6. ASSUME NEW e \in Events, Record(e) PROVE TypeOK'
  <2>1. /\ mem' \in [Counters -> Nat] /\ recorded' \in [Events -> Nat]
        /\ main = "down" => FALSE
    BY <1>6, StoreTypes DEF Record, TypeOK
  <2>2. e # NoEvent
    BY MetricsAssumption
  <2> QED
    BY <1>6, <2>1, <2>2 DEF Record, Handle, TypeOK
<1>7. ASSUME Reconnect, UNCHANGED <<place, storeVars, recorded, faults>> PROVE TypeOK'
  BY <1>7 DEF Reconnect, Handle, TypeOK
<1>8. CASE Answer
  <2>1. CASE Reconnect /\ UNCHANGED place
    BY <1>7, <1>8, <2>1 DEF Answer
  <2>2. CASE Handle("idle", NoEvent) /\ UNCHANGED <<link, inbox>>
    <3>1. place' \in [Events -> {"unsent", "queued", "held", "acked", "dropped"}]
      BY <1>8 DEF Answer, TypeOK
    <3> QED
      BY <1>8, <2>2, <3>1 DEF Answer, Handle, TypeOK
  <2> QED
    BY <1>8, <2>1, <2>2 DEF Answer
<1>9. CASE NoticeLoss
  BY <1>7, <1>9 DEF NoticeLoss
<1>10. CASE FlushWakes
  BY <1>10 DEF FlushWakes, TypeOK
<1>11. CASE FlushSnapshot
  BY <1>11 DEF FlushSnapshot, TypeOK
<1>12. CASE FlushWrite
  <2>1. db' \in [Counters -> Nat] /\ faults' \in 0 .. MaxFaults /\ overlapped' \in BOOLEAN
    BY <1>12, StoreTypes, FaultEffect DEF FlushWrite, TypeOK
  <2> QED
    BY <1>12, <2>1 DEF FlushWrite, TypeOK
<1>13. CASE StopBegin
  BY <1>13, FaultEffect DEF StopBegin, TypeOK
<1>14. CASE StopSnapshot
  BY <1>14 DEF StopSnapshot, TypeOK
<1>15. CASE StopWrite
  <2>1. /\ db' \in [Counters -> Nat] /\ faults' \in 0 .. MaxFaults
        /\ overlapped' \in BOOLEAN /\ unsaved' \in BOOLEAN
    BY <1>15, StoreTypes, FaultEffect DEF StopWrite, TypeOK
  <2> QED
    BY <1>15, <2>1 DEF StopWrite, TypeOK
<1>16. ASSUME End, faults' \in 0 .. MaxFaults PROVE TypeOK'
  BY <1>16, StoreTypes, RequeuedEffect DEF End, TypeOK
<1>17. CASE Exit
  BY <1>16, <1>17 DEF Exit, TypeOK
<1>18. CASE Crash
  BY <1>16, <1>18, FaultEffect DEF Crash
<1>19. CASE Start
  <2>1. /\ mem' \in [Counters -> Nat] /\ faults' \in 0 .. MaxFaults
        /\ overlapped' \in BOOLEAN /\ unsaved' \in BOOLEAN /\ unloaded' \in BOOLEAN
    BY <1>19, StoreTypes, FaultEffect DEF Start, TypeOK
  <2> QED
    BY <1>19, <2>1 DEF Start, TypeOK
<1>20. CASE UNCHANGED vars
  BY <1>20 DEF vars, TypeOK, Zero
<1> QED
  BY <1>1, <1>2, <1>3, <1>4, <1>5, <1>6, <1>8, <1>9, <1>10, <1>11, <1>12, <1>13, <1>14, <1>15,
     <1>17, <1>18, <1>19, <1>20 DEF Next, Consume, Shutdown

-------------------------------------------------------------------------------
(* Counting. *)

LEMMA ChanceTypes ==
  /\ \A e \in Events : Chances(e) \in 0..3 /\ Chances(e)' \in 0..3
  /\ TypeOK => faults \in Nat /\ \A e \in Events : recorded[e] \in Nat
<1>1. \A e \in Events : Chances(e) \in 0..3 /\ Chances(e)' \in 0..3
  BY DEF Chances
<1>2. TypeOK => faults \in Nat /\ \A e \in Events : recorded[e] \in Nat
  BY MetricsAssumption DEF TypeOK
<1> QED
  BY <1>1, <1>2

(* A step that counts nothing and gives no chance, or costs a fault. *)
LEMMA CountStep ==
  ASSUME TypeOK, CountInv, recorded' = recorded, place' = place \/ AckedWereCounted',
         handler' = "ack" => handler = "ack" /\ inHand' = inHand,
         \/ faults' = faults /\ \A e \in Events : Chances(e)' <= Chances(e)
         \/ faults' = faults + 1 /\ \A e \in Events : Chances(e)' <= Chances(e) + 1
  PROVE  CountInv'
<1>1. ASSUME NEW e \in Events PROVE recorded'[e] + Chances(e)' <= 1 + faults'
  <2>1. /\ Chances(e) \in Nat /\ Chances(e)' \in Nat /\ recorded[e] \in Nat /\ faults \in Nat
        /\ recorded[e] + Chances(e) <= 1 + faults
    BY ChanceTypes DEF CountInv
  <2>2. CASE faults' = faults /\ Chances(e)' <= Chances(e)
    BY <2>1, <2>2
  <2>3. CASE faults' = faults + 1 /\ Chances(e)' <= Chances(e) + 1
    BY <2>1, <2>3
  <2> QED
    BY <2>2, <2>3
<1>2. AckedWereCounted'
  BY DEF CountInv, AckedWereCounted
<1> QED
  BY <1>1, <1>2 DEF CountInv

LEMMA CountInd == TypeOK /\ CountInv /\ [Next]_vars => CountInv'
<1> SUFFICES ASSUME TypeOK, CountInv, [Next]_vars PROVE CountInv'
  OBVIOUS
<1> USE DEF consumerVars, storeVars
<1>0. place \in [Events -> {"unsent", "queued", "held", "acked", "dropped"}] /\ AckedWereCounted
  BY DEF TypeOK, CountInv
<1>1. ASSUME NEW e \in Events, Emit(e) PROVE CountInv'
  <2>1. \A x \in Events : Chances(x)' <= Chances(x)
    BY <1>0, <1>1 DEF Emit, Chances, Stopping
  <2>2. AckedWereCounted'
    BY <1>0, <1>1 DEF Emit, AckedWereCounted
  <2> QED
    BY <1>1, <2>1, <2>2, CountStep DEF Emit
<1>2. ASSUME NEW e \in Events, Deliver(e) PROVE CountInv'
  <2>1. \A x \in Events : Chances(x)' <= Chances(x)
    BY <1>0, <1>2 DEF Deliver, Chances, Stopping
  <2>2. AckedWereCounted'
    BY <1>0, <1>2 DEF Deliver, AckedWereCounted
  <2> QED
    BY <1>2, <2>1, <2>2, CountStep DEF Deliver
<1>3. CASE LoseConnection
  <2>1. \A x \in Events : Chances(x)' <= Chances(x) + 1
    BY <1>3, RequeuedEffect DEF LoseConnection, Chances, Stopping
  <2>2. AckedWereCounted'
    BY <1>0, <1>3, RequeuedEffect DEF LoseConnection, AckedWereCounted
  <2> QED
    BY <1>3, <2>1, <2>2, CountStep, FaultEffect DEF LoseConnection
<1>4. CASE BrokerRestarts
  <2>1. \A x \in Events : Chances(x)' <= Chances(x) + 1
    BY <1>0, <1>4 DEF BrokerRestarts, Chances, Stopping
  <2>2. AckedWereCounted'
    BY <1>0, <1>4 DEF BrokerRestarts, AckedWereCounted
  <2> QED
    BY <1>4, <2>1, <2>2, CountStep, FaultEffect DEF BrokerRestarts
<1>5. CASE Connect
  <2>1. \A x \in Events : Chances(x)' <= Chances(x)
    BY <1>5 DEF Connect, Chances, Stopping
  <2> QED
    BY <1>5, <2>1, CountStep DEF Connect
<1>6. ASSUME NEW e \in Events, Record(e) PROVE CountInv'
  <2>1. CASE e \in Malformed
    <3>1. \A x \in Events : Chances(x)' <= Chances(x)
      BY <1>6 DEF Record, Chances, Stopping
    <3> QED
      BY <1>6, <2>1, <3>1, CountStep DEF Record, Handle
  <2>2. CASE e \notin Malformed
    <3>1. /\ recorded' = [recorded EXCEPT ![e] = @ + 1] /\ recorded \in [Events -> Nat]
          /\ inHand' = e /\ faults' = faults /\ place' = place
      BY <1>6, <2>2 DEF Record, Handle, TypeOK
    <3>2. ASSUME NEW x \in Events PROVE recorded'[x] + Chances(x)' <= 1 + faults'
      <4>1. /\ Chances(x) \in Nat /\ Chances(x)' \in Nat /\ recorded[x] \in Nat
            /\ faults \in Nat /\ recorded[x] + Chances(x) <= 1 + faults
        BY ChanceTypes DEF CountInv
      <4>2. Chances(x) = Chances(x)' + (IF x = e THEN 1 ELSE 0)
        BY <1>6 DEF Record, Chances, Stopping
      <4>3. recorded'[x] = recorded[x] + (IF x = e THEN 1 ELSE 0)
        BY <3>1
      <4> QED
        BY <3>1, <4>1, <4>2, <4>3
    <3>3. AckedWereCounted' /\ recorded'[inHand'] > 0
      BY <1>0, <3>1 DEF AckedWereCounted
    <3> QED
      BY <3>2, <3>3 DEF CountInv
  <2> QED
    BY <2>1, <2>2
<1>7. ASSUME Reconnect, UNCHANGED <<place, storeVars, recorded, faults>> PROVE CountInv'
  <2>1. \A x \in Events : Chances(x)' <= Chances(x)
    BY <1>7 DEF Reconnect, Chances, Stopping
  <2>2. handler' # "ack"
    BY <1>7 DEF Reconnect, Handle
  <2> QED
    BY <1>7, <2>1, <2>2, CountStep
<1>8. CASE Answer
  <2>1. CASE Reconnect /\ UNCHANGED place
    BY <1>7, <1>8, <2>1 DEF Answer
  <2>2. CASE Handle("idle", NoEvent) /\ UNCHANGED <<link, inbox>>
    <3>1. \A x \in Events : Chances(x)' <= Chances(x)
      BY <1>0, <1>8, <2>2 DEF Answer, Chances, Stopping
    <3>2. AckedWereCounted'
      BY <1>0, <1>8 DEF Answer, CountInv, AckedWereCounted
    <3> QED
      BY <1>8, <2>2, <3>1, <3>2, CountStep DEF Answer, Handle
  <2> QED
    BY <1>8, <2>1, <2>2 DEF Answer
<1>9. CASE NoticeLoss
  BY <1>7, <1>9 DEF NoticeLoss
<1>10. CASE FlushWakes \/ FlushSnapshot \/ StopSnapshot
  <2>1. \A x \in Events : Chances(x)' <= Chances(x)
    BY <1>10 DEF FlushWakes, FlushSnapshot, StopSnapshot, Chances, Stopping
  <2> QED
    BY <1>10, <2>1, CountStep DEF FlushWakes, FlushSnapshot, StopSnapshot
<1>11. CASE FlushWrite \/ StopWrite
  <2>1. \A x \in Events : Chances(x)' <= Chances(x)
    BY <1>11 DEF FlushWrite, StopWrite, Chances, Stopping
  <2>2. faults' = faults \/ faults' = faults + 1
    BY <1>11 DEF FlushWrite, StopWrite, Fault
  <2>3. \A x \in Events : Chances(x)' <= Chances(x) + 1
    BY <2>1, ChanceTypes
  <2> QED
    BY <1>11, <2>1, <2>2, <2>3, CountStep DEF FlushWrite, StopWrite
<1>12. CASE StopBegin
  <2>1. \A x \in Events : Chances(x)' <= Chances(x) + 1
    BY <1>12 DEF StopBegin, Chances, Stopping
  <2> QED
    BY <1>12, <2>1, CountStep, FaultEffect DEF StopBegin
<1>13. ASSUME End,
              \/ Stopping /\ faults' = faults
              \/ faults' = faults + 1
       PROVE  CountInv'
  <2>1. /\ place' = Requeued /\ inbox' = {} /\ main' = "down" /\ handler' = "down"
        /\ recorded' = recorded
    BY <1>13 DEF End
  <2>2. AckedWereCounted'
    BY <1>0, <2>1, RequeuedEffect DEF AckedWereCounted
  <2>3. CASE Stopping /\ faults' = faults
    <3>1. \A x \in Events : Chances(x)' <= Chances(x)
      BY <2>1, <2>3, RequeuedEffect DEF Chances, Stopping
    <3> QED
      BY <2>1, <2>2, <2>3, <3>1, CountStep
  <2>4. CASE faults' = faults + 1
    <3>1. \A x \in Events : Chances(x)' <= Chances(x) + 1
      BY <2>1, RequeuedEffect DEF Chances, Stopping
    <3> QED
      BY <2>1, <2>2, <2>4, <3>1, CountStep
  <2> QED
    BY <1>13, <2>3, <2>4
<1>14. CASE Exit
  BY <1>13, <1>14 DEF Exit, Stopping
<1>15. CASE Crash
  BY <1>13, <1>15, FaultEffect DEF Crash
<1>16. CASE Start
  <2>1. \A x \in Events : Chances(x)' <= Chances(x)
    BY <1>16 DEF Start, Chances, Stopping
  <2>2. faults' = faults \/ faults' = faults + 1
    BY <1>16 DEF Start, Fault
  <2>3. \A x \in Events : Chances(x)' <= Chances(x) + 1
    BY <2>1, ChanceTypes
  <2> QED
    BY <1>16, <2>1, <2>2, <2>3, CountStep DEF Start
<1>17. CASE UNCHANGED vars
  BY <1>17 DEF vars, CountInv, Chances, Stopping, AckedWereCounted
<1> QED
  BY <1>1, <1>2, <1>3, <1>4, <1>5, <1>6, <1>8, <1>9, <1>10, <1>11, <1>12, <1>14, <1>15, <1>16,
     <1>17 DEF Next, Consume, Shutdown

-------------------------------------------------------------------------------
(* Recordings. *)

(* Recording an event adds one element to what its counter may hold, and   *)
(* nothing to the others'.                                                 *)
LEMMA RecordAdds ==
  ASSUME recorded \in [Events -> Nat], NEW e \in Events, NEW k \in Counters,
         IsFiniteSet(Recordings(k)), recorded' = [recorded EXCEPT ![e] = @ + 1]
  PROVE  /\ IsFiniteSet(Recordings(k)')
         /\ Cardinality(Recordings(k)) \in Nat
         /\ Cardinality(Recordings(k)')
              = Cardinality(Recordings(k)) + (IF k = CounterOf[e] THEN 1 ELSE 0)
<1>1. Cardinality(Recordings(k)) \in Nat
  BY FS_CardinalityType
<1>2. /\ recorded'[e] = recorded[e] + 1 /\ recorded[e] \in Nat
      /\ \A x \in Events : x # e => recorded'[x] = recorded[x]
  OBVIOUS
<1>3. \A x, n : <<x, n>> \in Recordings(k) <=>
                x \in Events /\ CounterOf[x] = k /\ n \in 1 .. recorded[x]
  BY DEF Recordings
<1>4. \A x, n : <<x, n>> \in Recordings(k)' <=>
                x \in Events /\ CounterOf[x] = k /\ n \in 1 .. recorded'[x]
  BY DEF Recordings
<1>5. /\ \A p \in Recordings(k) : \E x, n : p = <<x, n>>
      /\ \A p \in Recordings(k)' : \E x, n : p = <<x, n>>
  BY DEF Recordings
<1>6. CASE k = CounterOf[e]
  <2> DEFINE new == <<e, recorded[e] + 1>>
  <2>1. new \notin Recordings(k)
    BY <1>2, <1>3
  <2>2. \A x, n : <<x, n>> \in Recordings(k)' <=> <<x, n>> \in Recordings(k) \cup {new}
    <3> TAKE x, n
    <3>1. CASE x = e
      <4>1. n \in 1 .. recorded'[e] <=> n \in 1 .. recorded[e] \/ n = recorded[e] + 1
        BY <1>2
      <4> QED
        BY <1>3, <1>4, <1>6, <3>1, <4>1
    <3>2. CASE x # e
      BY <1>2, <1>3, <1>4, <3>2
    <3> QED
      BY <3>1, <3>2
  <2>3. Recordings(k)' = Recordings(k) \cup {new}
    <3>1. ASSUME NEW p \in Recordings(k)' PROVE p \in Recordings(k) \cup {new}
      BY <1>5, <2>2
    <3>2. ASSUME NEW p \in Recordings(k) \cup {new} PROVE p \in Recordings(k)'
      BY <1>5, <2>2
    <3> QED
      BY <3>1, <3>2
  <2> HIDE DEF new
  <2>4. /\ IsFiniteSet(Recordings(k) \cup {new})
        /\ Cardinality(Recordings(k) \cup {new}) = Cardinality(Recordings(k)) + 1
    BY <2>1, FS_AddElement
  <2> QED
    BY <1>1, <1>6, <2>3, <2>4
<1>7. CASE k # CounterOf[e]
  <2>1. \A x, n : <<x, n>> \in Recordings(k)' <=> <<x, n>> \in Recordings(k)
    BY <1>2, <1>3, <1>4, <1>7
  <2>2. Recordings(k)' = Recordings(k)
    <3>1. ASSUME NEW p \in Recordings(k)' PROVE p \in Recordings(k)
      BY <1>5, <2>1
    <3>2. ASSUME NEW p \in Recordings(k) PROVE p \in Recordings(k)'
      BY <1>5, <2>1
    <3> QED
      BY <3>1, <3>2
  <2> QED
    BY <1>1, <1>7, <2>2
<1> QED
  BY <1>1, <1>6, <1>7

(* What was taken from other counters, or is zero, came from recordings.   *)
LEMMA RecordingsStep ==
  ASSUME TypeOK, TypeOK', RecordingsInv, recorded' = recorded,
         \A k \in Counters : \A c \in {mem', db', flushSnap', stopSnap'} :
           c[k] \in {0, mem[k], db[k], flushSnap[k], stopSnap[k]}
  PROVE  RecordingsInv'
<1>1. ASSUME NEW k \in Counters
      PROVE  /\ IsFiniteSet(Recordings(k)')
             /\ \A c \in {mem', db', flushSnap', stopSnap'} : c[k] <= Cardinality(Recordings(k)')
  <2>1. Recordings(k)' = Recordings(k)
    BY DEF Recordings
  <2>2. IsFiniteSet(Recordings(k)) /\ Cardinality(Recordings(k)) \in Nat
    BY FS_CardinalityType DEF RecordingsInv
  <2> QED
    BY <2>1, <2>2 DEF RecordingsInv
<1> QED
  BY <1>1 DEF RecordingsInv

LEMMA RecordingsInd == TypeOK /\ RecordingsInv /\ [Next]_vars => RecordingsInv'
<1> SUFFICES ASSUME TypeOK, RecordingsInv, [Next]_vars PROVE RecordingsInv'
  OBVIOUS
<1> USE DEF consumerVars, storeVars
<1>1. TypeOK'
  BY TypeInd
<1>2. CASE UNCHANGED <<mem, db, flushSnap, stopSnap, recorded>>
  BY <1>1, <1>2, RecordingsStep
<1>3. ASSUME NEW e \in Events, Record(e) PROVE RecordingsInv'
  <2>1. CASE e \in Malformed
    BY <1>2, <1>3, <2>1 DEF Record
  <2>2. CASE e \notin Malformed
    <3>1. /\ recorded \in [Events -> Nat] /\ recorded' = [recorded EXCEPT ![e] = @ + 1]
          /\ UNCHANGED <<db, flushSnap, stopSnap>>
          /\ \A k \in Counters : mem'[k] = mem[k] + (IF k = CounterOf[e] THEN 1 ELSE 0)
      BY <1>3, <2>2 DEF Record, TypeOK
    <3>2. ASSUME NEW k \in Counters
          PROVE  /\ IsFiniteSet(Recordings(k)')
                 /\ \A c \in {mem', db', flushSnap', stopSnap'} :
                      c[k] <= Cardinality(Recordings(k)')
      <4>1. /\ IsFiniteSet(Recordings(k)')
            /\ Cardinality(Recordings(k)) \in Nat
            /\ Cardinality(Recordings(k)')
                 = Cardinality(Recordings(k)) + (IF k = CounterOf[e] THEN 1 ELSE 0)
        BY <3>1, RecordAdds DEF RecordingsInv
      <4>2. /\ mem[k] \in Nat /\ db[k] \in Nat /\ flushSnap[k] \in Nat /\ stopSnap[k] \in Nat
            /\ mem[k] <= Cardinality(Recordings(k)) /\ db[k] <= Cardinality(Recordings(k))
            /\ flushSnap[k] <= Cardinality(Recordings(k))
            /\ stopSnap[k] <= Cardinality(Recordings(k))
        BY StoreTypes DEF RecordingsInv
      <4>3. /\ mem'[k] <= Cardinality(Recordings(k)') /\ db'[k] <= Cardinality(Recordings(k)')
            /\ flushSnap'[k] <= Cardinality(Recordings(k)')
            /\ stopSnap'[k] <= Cardinality(Recordings(k)')
        BY <3>1, <4>1, <4>2
      <4> QED
        BY <4>1, <4>3
    <3> QED
      BY <3>2 DEF RecordingsInv
  <2> QED
    BY <2>1, <2>2
<1>4. CASE FlushSnapshot
  BY <1>1, <1>4, RecordingsStep DEF FlushSnapshot
<1>5. CASE StopSnapshot
  BY <1>1, <1>5, RecordingsStep DEF StopSnapshot
<1>6. CASE FlushWrite
  BY <1>1, <1>6, RecordingsStep DEF FlushWrite, Saved
<1>7. CASE StopWrite
  BY <1>1, <1>7, RecordingsStep DEF StopWrite, Saved
<1>8. CASE End
  BY <1>1, <1>8, RecordingsStep DEF End, Zero
<1>9. CASE Start
  BY <1>1, <1>9, RecordingsStep DEF Start, Zero
<1>10. CASE Connect \/ Answer \/ NoticeLoss
  BY <1>2, <1>10 DEF Connect, Answer, NoticeLoss
<1>11. CASE FlushWakes \/ StopBegin \/ LoseConnection \/ BrokerRestarts
  BY <1>2, <1>11 DEF FlushWakes, StopBegin, LoseConnection, BrokerRestarts
<1>12. ASSUME NEW e \in Events, Emit(e) \/ Deliver(e) PROVE RecordingsInv'
  BY <1>2, <1>12 DEF Emit, Deliver
<1>13. CASE UNCHANGED vars
  BY <1>2, <1>13 DEF vars
<1> QED
  BY <1>3, <1>4, <1>5, <1>6, <1>7, <1>8, <1>9, <1>10, <1>11, <1>12, <1>13
     DEF Next, Consume, Shutdown, Exit, Crash

-------------------------------------------------------------------------------
(* Snapshots and saves. *)

(* A snapshot that is written over smaller counters is what SQLite holds. *)
LEMMA SavedFacts ==
  ASSUME TypeOK, NEW s \in [Counters -> Nat]
  PROVE  /\ Saved(s) \in [Counters -> Nat] /\ Below(s, Saved(s))
         /\ \A f \in [Counters -> Nat] :
              /\ Below(db, f) /\ Below(s, f) => Below(Saved(s), f)
              /\ Below(f, db) /\ Below(f, s) => Below(f, Saved(s))
              /\ Below(f, s) => Below(f, Saved(s))
BY StoreTypes DEF Saved, Below

LEMMA BelowFacts ==
  /\ \A f \in [Counters -> Nat] : Below(f, f) /\ Below(Zero, f)
  /\ \A f, g, h \in [Counters -> Nat] : Below(f, g) /\ Below(g, h) => Below(f, h)
BY DEF Below, Zero

LEMMA SaveInd == TypeOK /\ SaveInv /\ [Next]_vars => SaveInv'
<1> SUFFICES ASSUME TypeOK, SaveInv, [Next]_vars PROVE SaveInv'
  OBVIOUS
<1> USE DEF consumerVars, storeVars
<1>1. /\ mem \in [Counters -> Nat] /\ db \in [Counters -> Nat]
      /\ flushSnap \in [Counters -> Nat] /\ stopSnap \in [Counters -> Nat]
  BY StoreTypes
<1>2. CASE UNCHANGED <<mem, db, flusher, flushSnap, main, stopSnap, overlapped, unloaded>>
  BY <1>2 DEF SaveInv, Below
<1>3. ASSUME NEW e \in Events, Record(e) PROVE SaveInv'
  <2>1. CASE e \in Malformed
    BY <1>2, <1>3, <2>1 DEF Record
  <2>2. CASE e \notin Malformed
    <3>1. mem' \in [Counters -> Nat] /\ Below(mem, mem')
      BY <1>1, <1>3, <2>2 DEF Record, Below
    <3>2. /\ UNCHANGED <<db, flusher, flushSnap, main, stopSnap, overlapped, unloaded>>
          /\ \A f \in [Counters -> Nat] : Below(f, mem) => Below(f, mem')
      BY <1>1, <1>3, <3>1, BelowFacts DEF Record
    <3> QED
      BY <1>1, <3>2 DEF SaveInv, Below
  <2> QED
    BY <2>1, <2>2
<1>4. CASE FlushSnapshot
  BY <1>1, <1>4 DEF FlushSnapshot, SaveInv, Below
<1>5. CASE StopSnapshot
  BY <1>1, <1>5 DEF StopSnapshot, SaveInv, Below
<1>6. CASE FlushWrite
  <2>1. CASE db' = db
    BY <1>1, <1>6, <2>1 DEF FlushWrite, SaveInv, Below
  <2>2. CASE db' = Saved(flushSnap)
    <3>1. Below(db, mem) => Below(db', mem)
      BY <1>1, <1>6, <2>2, SavedFacts DEF FlushWrite, SaveInv
    <3> QED
      BY <1>1, <1>6, <3>1 DEF FlushWrite, SaveInv, Below
  <2> QED
    BY <1>6, <2>1, <2>2 DEF FlushWrite
<1>7. CASE StopWrite
  <2>1. CASE db' = db
    BY <1>1, <1>7, <2>1 DEF StopWrite, SaveInv, Below
  <2>2. CASE db' = Saved(stopSnap)
    <3>1. Below(db, mem) => Below(db', mem)
      BY <1>1, <1>7, <2>2, SavedFacts DEF StopWrite, SaveInv
    <3> QED
      BY <1>1, <1>7, <3>1 DEF StopWrite, SaveInv, Below
  <2> QED
    BY <1>7, <2>1, <2>2 DEF StopWrite
<1>8. CASE End
  BY <1>8 DEF End, SaveInv
<1>9. CASE Start
  BY <1>1, <1>9 DEF Start, SaveInv, Below
<1>10. CASE FlushWakes \/ StopBegin
  BY <1>10 DEF FlushWakes, StopBegin, SaveInv, Below
<1>11. CASE Connect \/ Answer \/ NoticeLoss \/ LoseConnection \/ BrokerRestarts
  BY <1>2, <1>11 DEF Connect, Answer, NoticeLoss, LoseConnection, BrokerRestarts
<1>12. ASSUME NEW e \in Events, Emit(e) \/ Deliver(e) PROVE SaveInv'
  BY <1>2, <1>12 DEF Emit, Deliver
<1>13. CASE UNCHANGED vars
  BY <1>2, <1>13 DEF vars
<1> QED
  BY <1>3, <1>4, <1>5, <1>6, <1>7, <1>8, <1>9, <1>10, <1>11, <1>12, <1>13
     DEF Next, Consume, Shutdown, Exit, Crash

LEMMA StopInd == TypeOK /\ StopInv /\ [Next]_vars => StopInv'
<1> SUFFICES ASSUME TypeOK, StopInv, [Next]_vars PROVE StopInv'
  OBVIOUS
<1> USE DEF consumerVars, storeVars
<1>1. /\ mem \in [Counters -> Nat] /\ db \in [Counters -> Nat] /\ atStop \in [Counters -> Nat]
      /\ flushSnap \in [Counters -> Nat] /\ stopSnap \in [Counters -> Nat]
  BY StoreTypes
<1>2. StopSaves <=> (main = "stopped" /\ ~ overlapped /\ ~ unsaved => Below(atStop, db))
  BY <1>1 DEF StopSaves, Below
<1>3. CASE UNCHANGED <<mem, db, flusher, flushSnap, main, stopSnap, atStop, overlapped, unsaved>>
  BY <1>3 DEF StopInv, Stopping, StopSaves, Below
<1>4. ASSUME NEW e \in Events, Record(e) PROVE StopInv'
  <2>1. CASE e \in Malformed
    BY <1>3, <1>4, <2>1 DEF Record
  <2>2. CASE e \notin Malformed
    <3>1. Below(mem, mem') /\ mem' \in [Counters -> Nat]
      BY <1>1, <1>4, <2>2 DEF Record, Below
    <3>2. Below(atStop, mem) => Below(atStop, mem')
      BY <1>1, <3>1, BelowFacts
    <3> QED
      BY <1>4, <3>2 DEF Record, StopInv, Stopping, StopSaves, Below
  <2> QED
    BY <2>1, <2>2
<1>5. CASE FlushSnapshot
  BY <1>5 DEF FlushSnapshot, StopInv, Stopping, StopSaves, Below
<1>6. CASE StopBegin
  BY <1>1, <1>6 DEF StopBegin, StopInv, Stopping, StopSaves, Below
<1>7. CASE StopSnapshot
  BY <1>7 DEF StopSnapshot, StopInv, Stopping, StopSaves, Below
<1>8. CASE FlushWrite
  <2>1. main = "stopped" /\ ~ overlapped /\ ~ unsaved => Below(atStop, db')
    BY <1>1, <1>2, <1>8, SavedFacts DEF FlushWrite, StopInv
  <2>2. StopSaves'
    <3>1. main' = main /\ atStop' = atStop /\ unsaved' = unsaved /\ (overlapped => overlapped')
      BY <1>8 DEF FlushWrite
    <3>2. db' \in [Counters -> Nat]
      BY <1>1, <1>8, SavedFacts DEF FlushWrite
    <3> QED
      BY <1>1, <2>1, <3>1, <3>2 DEF StopSaves, Below
  <2> QED
    BY <1>8, <2>2 DEF FlushWrite, StopInv, Stopping, Below
<1>9. CASE StopWrite
  <2>1. unsaved' \/ Below(atStop, db')
    BY <1>1, <1>9, SavedFacts DEF StopWrite, StopInv
  <2>2. StopSaves'
    <3>1. atStop' = atStop
      BY <1>9 DEF StopWrite
    <3>2. db' \in [Counters -> Nat]
      BY <1>1, <1>9, SavedFacts DEF StopWrite
    <3> QED
      BY <1>1, <2>1, <3>1, <3>2 DEF StopSaves, Below
  <2> QED
    BY <1>9, <2>2 DEF StopWrite, StopInv, Stopping, Below
<1>10. CASE End
  BY <1>10 DEF End, StopInv, Stopping, StopSaves
<1>11. CASE Start
  BY <1>11 DEF Start, StopInv, Stopping, StopSaves
<1>12. CASE FlushWakes
  BY <1>12 DEF FlushWakes, StopInv, Stopping, StopSaves, Below
<1>13. CASE Connect \/ Answer \/ NoticeLoss \/ LoseConnection \/ BrokerRestarts
  BY <1>3, <1>13 DEF Connect, Answer, NoticeLoss, LoseConnection, BrokerRestarts
<1>14. ASSUME NEW e \in Events, Emit(e) \/ Deliver(e) PROVE StopInv'
  BY <1>3, <1>14 DEF Emit, Deliver
<1>15. CASE UNCHANGED vars
  BY <1>3, <1>15 DEF vars
<1> QED
  BY <1>4, <1>5, <1>6, <1>7, <1>8, <1>9, <1>10, <1>11, <1>12, <1>13, <1>14, <1>15
     DEF Next, Consume, Shutdown, Exit, Crash

LEMMA InitInd == Init => IndInv
<1> SUFFICES ASSUME Init PROVE IndInv
  OBVIOUS
<1>1. TypeOK
  <2>1. overlapped \in BOOLEAN /\ unloaded \in BOOLEAN /\ unsaved \in BOOLEAN
    BY DEF Init
  <2> QED
    BY <2>1, StoreTypes, MetricsAssumption DEF Init, TypeOK
<1>2. CountInv
  <2>1. \A e \in Events : recorded[e] = 0 /\ Chances(e) = 1
    BY DEF Init, Chances, Stopping
  <2> QED
    BY <2>1 DEF Init, CountInv, AckedWereCounted
<1>3. RecordingsInv
  <2>1. ASSUME NEW k \in Counters PROVE Recordings(k) = {}
    <3>1. \A e \in Events : 1 .. recorded[e] = {}
      BY DEF Init
    <3> QED
      BY <3>1 DEF Recordings
  <2>2. \A k \in Counters : IsFiniteSet(Recordings(k)) /\ Cardinality(Recordings(k)) = 0
    BY <2>1, FS_EmptySet
  <2> QED
    BY <2>2 DEF Init, Zero, RecordingsInv
<1>4. SaveInv /\ StopInv
  BY DEF Init, SaveInv, StopInv, Stopping, StopSaves
<1> QED
  BY <1>1, <1>2, <1>3, <1>4 DEF IndInv

LEMMA NextInd == IndInv /\ [Next]_vars => IndInv'
BY TypeInd, CountInd, RecordingsInd, SaveInd, StopInd DEF IndInv

(* A save writes no counter that is smaller than the one it replaces. *)
LEMMA GrowStep ==
  IndInv /\ [Next]_vars => overlapped \/ unloaded \/ \A k \in Counters : db'[k] >= db[k]
<1> SUFFICES ASSUME IndInv, [Next]_vars, ~ overlapped, ~ unloaded
             PROVE  \A k \in Counters : db'[k] >= db[k]
  OBVIOUS
<1>1. /\ TypeOK /\ SaveInv /\ db \in [Counters -> Nat]
      /\ flushSnap \in [Counters -> Nat] /\ stopSnap \in [Counters -> Nat]
  BY StoreTypes DEF IndInv
<1>2. CASE db' = db
  BY <1>1, <1>2
<1>3. CASE FlushWrite
  <2>1. Below(db, flushSnap)
    BY <1>1, <1>3 DEF FlushWrite, SaveInv, TypeOK
  <2>2. db' = db \/ db' = Saved(flushSnap)
    BY <1>3 DEF FlushWrite
  <2> QED
    BY <1>1, <2>1, <2>2 DEF Saved, Below
<1>4. CASE StopWrite
  <2>1. Below(db, stopSnap)
    BY <1>1, <1>4 DEF StopWrite, SaveInv
  <2>2. db' = db \/ db' = Saved(stopSnap)
    BY <1>4 DEF StopWrite
  <2> QED
    BY <1>1, <2>1, <2>2 DEF Saved, Below
<1>5. FlushWrite \/ StopWrite \/ db' = db
  BY DEF Next, Consume, Shutdown, vars, consumerVars, storeVars, Emit, Deliver, Connect, Record,
         Answer, NoticeLoss, FlushWakes, FlushSnapshot, StopBegin, StopSnapshot, Exit, Crash,
         End, Start, LoseConnection, BrokerRestarts
<1> QED
  BY <1>2, <1>3, <1>4, <1>5

-------------------------------------------------------------------------------
(* The theorems. *)

(* The consumer, the queue, the counters, their snapshots and SQLite stay  *)
(* in step through faults, shutdowns and crashes.                          *)
THEOREM Invariance == Spec => []IndInv
BY InitInd, NextInd, PTL DEF Spec

(* Nothing of the dashboard process outlives it, and its consumer has an   *)
(* event in hand exactly while it owes an answer.                          *)
THEOREM TypeCorrect == Spec => []TypeOK
<1>1. IndInv => TypeOK
  BY DEF IndInv
<1> QED
  BY <1>1, Invariance, PTL

(* The counters hold only what was recorded, an event is recorded again    *)
(* only after a fault, and what was acked was recorded.                    *)
THEOREM CountersAreRecordings == Spec => []CountersMatchEvents
<1>1. ASSUME IndInv PROVE CountersMatchEvents
  <2>1. ASSUME NEW e \in Events PROVE recorded[e] <= 1 + faults
    <3>1. /\ Chances(e) \in Nat /\ recorded[e] \in Nat /\ faults \in Nat
          /\ recorded[e] + Chances(e) <= 1 + faults
      BY <1>1, ChanceTypes DEF IndInv, CountInv
    <3> QED
      BY <3>1
  <2> QED
    BY <1>1, <2>1 DEF IndInv, CountersMatchEvents, CountersNeedEvents, CountInv, RecordingsInv
<1> QED
  BY <1>1, Invariance, PTL

(* An orderly shutdown leaves what was counted when it began in SQLite,    *)
(* unless its write failed or overlapped with the snapshot thread's.       *)
THEOREM StopsSave == Spec => []StopSaves
<1>1. IndInv => StopSaves
  BY DEF IndInv, StopInv
<1> QED
  BY <1>1, Invariance, PTL

(* A stored counter never shrinks, except by that overlap or in a process  *)
(* that could not load it.                                                 *)
THEOREM SavesGrow == Spec => StoredCountersGrow
<1>1. IndInv /\ [Next]_vars =>
        [overlapped \/ unloaded \/ \A k \in Counters : db'[k] >= db[k]]_vars
  BY GrowStep
<1> QED
  BY <1>1, Invariance, PTL DEF Spec, StoredCountersGrow

===============================================================================
