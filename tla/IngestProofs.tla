----------------------------- MODULE IngestProofs -----------------------------
(***************************************************************************)
(* Proofs about Ingest, for any log, any poison messages, any batch limit  *)
(* and any number of faults.                                               *)
(***************************************************************************)
EXTENDS Ingest, FiniteSetTheorems, SequenceTheorems, TLAPS

-------------------------------------------------------------------------------
(* The messages and their offsets. *)

(* The log is a finite sequence, so its messages are finitely many. *)
LEMMA LogFacts ==
  /\ Len(Log) \in Nat /\ DOMAIN Log = 1..Len(Log)
  /\ \A i \in 1..Len(Log) : Log[i] \in Messages
  /\ IsFiniteSet(Messages)
<1>1. Len(Log) \in Nat /\ DOMAIN Log = 1..Len(Log)
  BY IngestAssumption, LenProperties
<1>2. \A i \in 1..Len(Log) : Log[i] \in Messages
  BY <1>1 DEF Messages, Range
<1>3. IsFiniteSet(1..Len(Log))
  BY <1>1, FS_Interval
<1>4. Log \in Surjection(1..Len(Log), Messages)
  BY <1>1, <1>2, IngestAssumption DEF Surjection, Messages, Range
<1> QED
  BY <1>1, <1>2, <1>3, <1>4, FS_Surjection

(* Every message has one offset. *)
LEMMA OffsetFacts ==
  /\ \A m \in Messages : OffsetOf(m) \in 1..Len(Log) /\ Log[OffsetOf(m)] = m
  /\ \A i \in 1..Len(Log) : OffsetOf(Log[i]) = i
<1>1. ASSUME NEW m \in Messages
      PROVE  OffsetOf(m) \in 1..Len(Log) /\ Log[OffsetOf(m)] = m
  <2>1. \E i \in DOMAIN Log : Log[i] = m
    BY DEF Messages, Range
  <2> QED
    BY <2>1, LogFacts DEF OffsetOf
<1>2. ASSUME NEW i \in 1..Len(Log) PROVE OffsetOf(Log[i]) = i
  <2>1. OffsetOf(Log[i]) \in 1..Len(Log) /\ Log[OffsetOf(Log[i])] = Log[i]
    BY <1>1, LogFacts
  <2> QED
    BY <2>1, LogFacts, IngestAssumption DEF IsInjective
<1> QED
  BY <1>1, <1>2

-------------------------------------------------------------------------------
(* The wire, which never holds more than one message for long. *)

OnWire(w, m) == Cardinality({i \in DOMAIN w : w[i] = m})

LEMMA OnWireCounts ==
  ASSUME NEW x, NEW m
  PROVE  /\ OnWire(<<>>, m) = 0
         /\ OnWire(<<x>>, m) = IF x = m THEN 1 ELSE 0
<1>1. {i \in DOMAIN <<>> : <<>>[i] = m} = {}
  OBVIOUS
<1>2. {i \in DOMAIN <<x>> : <<x>>[i] = m} = IF x = m THEN {1} ELSE {}
  OBVIOUS
<1> QED
  BY <1>1, <1>2, FS_EmptySet, FS_Singleton DEF OnWire

(* publish() may still send its message when it raises. *)
LEMMA OnWireAppend ==
  ASSUME NEW w \in Seq(Messages), NEW x \in Messages, NEW m
  PROVE  OnWire(Append(w, x), m) = OnWire(w, m) + (IF x = m THEN 1 ELSE 0)
<1> DEFINE a == Append(w, x)
           At(s) == {i \in DOMAIN s : s[i] = m}
<1>1. /\ DOMAIN w = 1..Len(w) /\ DOMAIN a = 1..(Len(w) + 1) /\ Len(w) \in Nat
      /\ a[Len(w) + 1] = x /\ \A i \in 1..Len(w) : a[i] = w[i]
  BY AppendProperties, LenProperties
<1>2. IsFiniteSet(At(w)) /\ Cardinality(At(w)) \in Nat
  <2>1. IsFiniteSet(1..Len(w)) /\ At(w) \in SUBSET (1..Len(w))
    BY <1>1, FS_Interval
  <2>2. IsFiniteSet(At(w))
    BY <2>1, FS_Subset
  <2> QED
    BY <2>2, FS_CardinalityType
<1>3. At(a) = IF x = m THEN At(w) \cup {Len(w) + 1} ELSE At(w)
  BY <1>1
<1>4. Len(w) + 1 \notin At(w)
  BY <1>1
<1>5. Cardinality(At(w) \cup {Len(w) + 1}) = Cardinality(At(w)) + 1
  BY <1>2, <1>4, FS_AddElement
<1>6. OnWire(w, m) = Cardinality(At(w)) /\ OnWire(a, m) = Cardinality(At(a))
  BY DEF OnWire
<1> HIDE DEF At
<1>7. CASE x = m
  BY <1>3, <1>5, <1>6, <1>7
<1>8. CASE x # m
  BY <1>2, <1>3, <1>6, <1>8
<1> QED
  BY <1>7, <1>8

(* A wire of at most one message carries it, and nothing else. *)
LEMMA ShortWire ==
  ASSUME NEW w \in Seq(Messages), Len(w) <= 1
  PROVE  /\ w = <<>> \/ \E x \in Messages : w = <<x>>
         /\ \A m : OnWire(w, m) = IF m \in Range(w) THEN 1 ELSE 0
<1>1. CASE w = <<>>
  <2>1. Range(w) = {}
    BY <1>1 DEF Range
  <2>2. \A m : OnWire(w, m) = 0
    BY <1>1, OnWireCounts, Zenon
  <2> QED
    BY <1>1, <2>1, <2>2
<1>2. CASE w # <<>>
  <2>1. Len(w) = 1
    <3>1. Len(w) \in Nat /\ Len(w) # 0
      BY <1>2, EmptySeq, LenProperties
    <3>2. \A n \in Nat : n <= 1 /\ n # 0 => n = 1
      OBVIOUS
    <3> QED
      BY <3>1, <3>2
  <2>2. w[1] \in Messages /\ DOMAIN w = {1}
    <3>1. DOMAIN w = 1..1 /\ 1 \in 1..Len(w)
      BY <2>1, LenProperties
    <3> QED
      BY <3>1, ElementOfSeq
  <2> DEFINE x == w[1]
  <2>3. <<x>> \in Seq(Messages) /\ Len(<<x>>) = 1 /\ <<x>>[1] = x
    BY <2>2
  <2>4. w = <<x>>
    BY <2>1, <2>3, SeqEqual
  <2>5. Range(w) = {x}
    BY <2>2 DEF Range
  <2> HIDE DEF x
  <2> QED
    BY <2>2, <2>4, <2>5, OnWireCounts DEF x
<1> QED
  BY <1>1, <1>2

-------------------------------------------------------------------------------
(* The inductive invariant. *)

(* The publishes of m that may follow without another fault. *)
Chances(m) ==
  CASE kind = "kafka" -> IF OffsetOf(m) > committed THEN 1 ELSE 0
    [] kind # "kafka" ->
         (IF m \in Range(todo) THEN 1 ELSE 0)
           + (IF \/ status[m] = "offered"
                 \/ status[m] = "leased" /\ m \notin Range(todo) \cup done
              THEN 1 ELSE 0)

Published(m) == queued[m] + OnWire(wire, m)

(* Published without an answer, and not seen by the broker since. *)
Unread == {m \in handed : queued[m] = 0 /\ m \notin Range(wire)}

(* What a consumer process holds, it holds while it runs. *)
ProcessInv ==
  /\ ~ running => todo = <<>> /\ done = {}
  /\ IsInjective(todo)

(* Kafka has one message in hand, the last one polled; what it polled      *)
(* before was handled, or the publisher has no connection.                 *)
KafkaInv ==
  kind = "kafka" =>
    /\ todo # <<>> => committed < position /\ todo = <<Log[position]>>
    /\ connected => \A i \in 1..position : Log[i] \in handed \cup Poison \cup Range(todo)
    /\ \A i \in 1..committed : Log[i] \in handed \cup Poison

(* The other sources settle only what was handled. *)
LeaseInv ==
  kind # "kafka" =>
    /\ done \subseteq handed
    /\ \A m \in Messages : status[m] = "settled" => m \in handed

CountInv ==
  /\ \A m \in Messages : Published(m) + Chances(m) <= 1 + faults
  /\ Cardinality(Unread) <= faults

IndInv == TypeOK /\ ProcessInv /\ KafkaInv /\ LeaseInv /\ CountInv

-------------------------------------------------------------------------------
(* What the helpers do. *)

LEMMA SetStatusEffect ==
  ASSUME TypeOK, NEW S \in SUBSET Messages,
         NEW s \in {"offered", "leased", "settled"}, SetStatus(S, s)
  PROVE  /\ status' \in [Messages -> {"offered", "leased", "settled"}]
         /\ \A m \in Messages : status'[m] = IF m \in S THEN s ELSE status[m]
BY DEF SetStatus, TypeOK

(* A settling takes effect, or it comes too late for an offered message. *)
LEMMA SettleEffect ==
  ASSUME TypeOK, NEW S \in SUBSET Messages, Settle(S)
  PROVE  /\ status' \in [Messages -> {"offered", "leased", "settled"}]
         /\ \A m \in Messages \ S : status'[m] = status[m]
         /\ \A m \in S : \/ status'[m] = "settled"
                         \/ status[m] = "offered" /\ status'[m] = "offered"
<1>1. PICK late \in SUBSET {m \in S : status[m] = "offered"} :
        SetStatus({m \in S : status[m] = "leased"} \cup late, "settled")
  BY DEF Settle
<1> DEFINE T == {m \in S : status[m] = "leased"} \cup late
<1>2. T \in SUBSET Messages /\ T \subseteq S
  OBVIOUS
<1>3. /\ status' \in [Messages -> {"offered", "leased", "settled"}]
      /\ \A m \in Messages : status'[m] = IF m \in T THEN "settled" ELSE status[m]
  BY <1>1, <1>2, SetStatusEffect
<1>4. ASSUME NEW m \in S
      PROVE  \/ status'[m] = "settled"
             \/ status[m] = "offered" /\ status'[m] = "offered"
  <2>1. status[m] \in {"offered", "leased", "settled"}
    BY DEF TypeOK
  <2>2. CASE m \in T
    BY <1>3, <2>2
  <2>3. CASE m \notin T
    BY <1>3, <2>1, <2>3
  <2> QED
    BY <2>2, <2>3
<1> QED
  BY <1>2, <1>3, <1>4

(* The rest of a sequence without repetitions. *)
LEMMA TailFacts ==
  ASSUME NEW s \in Seq(Messages), s # <<>>, IsInjective(s)
  PROVE  /\ Head(s) \in Messages /\ Head(s) \in Range(s)
         /\ Tail(s) \in Seq(Messages) /\ Len(Tail(s)) <= Len(s)
         /\ Range(Tail(s)) = Range(s) \ {Head(s)}
         /\ IsInjective(Tail(s))
<1>1. /\ Head(s) \in Messages /\ Head(s) = s[1]
      /\ Tail(s) \in Seq(Messages) /\ Len(Tail(s)) = Len(s) - 1
      /\ \A i \in 1..Len(Tail(s)) : Tail(s)[i] = s[i + 1]
  BY HeadTailProperties
<1>2. /\ Len(s) \in Nat /\ Len(s) # 0 /\ DOMAIN s = 1..Len(s)
      /\ DOMAIN Tail(s) = 1..(Len(s) - 1)
  BY <1>1, EmptySeq, LenProperties
<1>3. IsInjective(Tail(s))
  BY <1>1, <1>2 DEF IsInjective
<1>4. Head(s) \in Range(s)
  BY <1>1, <1>2 DEF Range
<1>5. ASSUME NEW x \in Range(s), x # Head(s) PROVE x \in Range(Tail(s))
  <2>1. PICK i \in 1..Len(s) : s[i] = x
    BY <1>2 DEF Range
  <2>2. i # 1
    BY <1>1, <1>5, <2>1
  <2>3. i - 1 \in 1..(Len(s) - 1) /\ Tail(s)[i - 1] = x
    BY <1>1, <1>2, <2>1, <2>2
  <2> QED
    BY <1>2, <2>3 DEF Range
<1>6. ASSUME NEW x \in Range(Tail(s)) PROVE x \in Range(s) /\ x # Head(s)
  <2>1. PICK i \in 1..(Len(s) - 1) : Tail(s)[i] = x
    BY <1>2 DEF Range
  <2>2. i + 1 \in 1..Len(s) /\ i + 1 # 1 /\ s[i + 1] = x
    BY <1>1, <1>2, <2>1
  <2> QED
    BY <1>1, <1>2, <2>2 DEF Range, IsInjective
<1> QED
  BY <1>1, <1>2, <1>3, <1>4, <1>5, <1>6

(* WithRead counts what is on the wire. *)
LEMMA WithReadEffect ==
  ASSUME TypeOK
  PROVE  /\ WithRead(wire) \in [Messages -> Nat]
         /\ \A x \in Messages :
              /\ Published(x) \in Nat
              /\ WithRead(wire)[x] = Published(x)
              /\ queued[x] <= Published(x)
              /\ x \in Range(wire) => Published(x) > 0
         /\ \A m \in Messages :
              /\ WithRead(Append(wire, m)) \in [Messages -> Nat]
              /\ \A x \in Messages :
                   WithRead(Append(wire, m))[x] = Published(x) + (IF x = m THEN 1 ELSE 0)
<1>1. /\ queued \in [Messages -> Nat]
      /\ wire \in Seq(Messages) /\ Len(wire) <= 1
  BY DEF TypeOK
<1>2. \A x : OnWire(wire, x) = IF x \in Range(wire) THEN 1 ELSE 0
  BY <1>1, ShortWire
<1>3. \A m \in Messages : \A x :
        OnWire(Append(wire, m), x) = OnWire(wire, x) + (IF x = m THEN 1 ELSE 0)
  BY <1>1, OnWireAppend
<1>4. \A w : WithRead(w) = [m \in Messages |-> queued[m] + OnWire(w, m)]
  BY DEF WithRead, OnWire
<1> QED
  BY <1>1, <1>2, <1>3, <1>4 DEF Published

LEMMA UnreadFacts ==
  ASSUME TypeOK
  PROVE  IsFiniteSet(Unread) /\ Cardinality(Unread) \in Nat
<1>1. Unread \in SUBSET Messages
  BY DEF Unread, TypeOK
<1> QED
  BY <1>1, LogFacts, FS_Subset, FS_CardinalityType

(* A message that is published reaches the wire, and what was there        *)
(* reaches the queue.                                                      *)
LEMMA PublishEffect ==
  ASSUME TypeOK, NEW m \in Messages, Publish(m)
  PROVE  /\ connected /\ connected' = connected
         /\ queued' \in [Messages -> Nat]
         /\ wire' \in Seq(Messages) /\ Len(wire') <= 1
         /\ \A x \in Messages : Published(x)' = Published(x) + (IF x = m THEN 1 ELSE 0)
         /\ handed' = handed \cup {m} => Unread' \subseteq Unread
<1>1. connected /\ connected' = connected /\ queued' = WithRead(wire) /\ wire' = <<m>>
  BY DEF Publish
<1>2. wire' \in Seq(Messages) /\ Len(wire') = 1 /\ Range(wire') = {m}
  BY <1>1 DEF Range
<1>3. \A x : OnWire(wire', x) = IF x = m THEN 1 ELSE 0
  BY <1>1, OnWireCounts
<1>4. \A x \in Messages : Published(x)' = Published(x) + (IF x = m THEN 1 ELSE 0)
  BY <1>1, <1>3, WithReadEffect DEF Published
<1>5. ASSUME handed' = handed \cup {m}, NEW x \in Unread' PROVE x \in Unread
  <2>1. x \in handed' /\ queued'[x] = 0 /\ x \notin Range(wire')
    BY <1>5 DEF Unread
  <2>2. x \in handed /\ x \in Messages
    BY <1>2, <1>5, <2>1 DEF TypeOK
  <2> QED
    BY <1>1, <2>1, <2>2, WithReadEffect DEF Unread, TypeOK
<1> QED
  BY <1>1, <1>2, <1>4, <1>5, WithReadEffect

(* A publish that raises costs a fault if it may have sent anything. *)
LEMMA PublishRaisesEffect ==
  ASSUME TypeOK, NEW m \in Messages, PublishRaises(m), handed' = handed
  PROVE  /\ connected' = FALSE
         /\ queued' \in [Messages -> Nat]
         /\ wire' = <<>>
         /\ faults' \in 0 .. MaxFaults /\ faults' >= faults
         /\ \A x \in Messages : Published(x)' <= Published(x) + (faults' - faults)
         /\ Unread' \subseteq Unread
<1>1. CASE ~ connected /\ UNCHANGED <<publisherVars, faults>>
  BY <1>1, WithReadEffect DEF publisherVars, Published, Unread, TypeOK
<1>2. CASE /\ connected /\ Fault
           /\ connected' = FALSE /\ wire' = <<>>
           /\ queued' \in {WithRead(wire), WithRead(Append(wire, m))}
  <2>1. faults' = faults + 1 /\ faults \in 0 .. MaxFaults /\ faults' \in 0 .. MaxFaults
    BY <1>2, IngestAssumption DEF Fault, TypeOK
  <2>2. /\ queued' \in [Messages -> Nat]
        /\ \A x \in Messages : queued'[x] >= Published(x) /\ queued'[x] <= Published(x) + 1
    <3>1. CASE queued' = WithRead(wire)
      BY <3>1, WithReadEffect
    <3>2. CASE queued' = WithRead(Append(wire, m))
      BY <3>2, WithReadEffect
    <3> QED
      BY <1>2, <3>1, <3>2
  <2>3. \A x : OnWire(wire', x) = 0
    BY <1>2, OnWireCounts, Zenon
  <2>4. \A x \in Messages : Published(x)' <= Published(x) + 1
    BY <2>2, <2>3 DEF Published
  <2>5. ASSUME NEW x \in Unread' PROVE x \in Unread
    <3>1. x \in handed /\ x \in Messages /\ queued'[x] = 0
      BY <2>5 DEF Unread, TypeOK
    <3> QED
      BY <2>2, <3>1, WithReadEffect DEF Unread, TypeOK
  <2> QED
    BY <1>2, <2>1, <2>2, <2>4, <2>5
<1> QED
  BY <1>1, <1>2 DEF PublishRaises

(* The connection's end adds no copy; when it loses the wire, one message  *)
(* more is unread at most.                                                 *)
LEMMA DropEffect ==
  ASSUME TypeOK, Drop, handed' = handed
  PROVE  /\ connected' = FALSE /\ wire' = <<>>
         /\ queued' \in [Messages -> Nat]
         /\ \A x \in Messages : Published(x)' <= Published(x)
         /\ queued' = WithRead(wire) => Unread' \subseteq Unread
         /\ Cardinality(Unread') \in Nat
         /\ Cardinality(Unread') <= Cardinality(Unread) + 1
<1>1. /\ connected' = FALSE /\ wire' = <<>> /\ queued' \in {queued, WithRead(wire)}
      /\ queued' \in [Messages -> Nat]
      /\ \A x \in Messages : queued'[x] <= Published(x)
  <2>1. CASE queued' = queued
    BY <2>1, WithReadEffect DEF Drop, TypeOK
  <2>2. CASE queued' = WithRead(wire)
    BY <2>2, WithReadEffect DEF Drop
  <2> QED
    BY <2>1, <2>2 DEF Drop
<1>2. \A x : OnWire(wire', x) = 0
  BY <1>1, OnWireCounts, Zenon
<1>3. \A x \in Messages : Published(x)' <= Published(x)
  BY <1>1, <1>2 DEF Published
<1>4. ASSUME queued' = WithRead(wire), NEW x \in Unread' PROVE x \in Unread
  <2>1. x \in handed /\ x \in Messages /\ queued'[x] = 0
    BY <1>4 DEF Unread, TypeOK
  <2> QED
    BY <1>4, <2>1, WithReadEffect DEF Unread, TypeOK
<1>5. Unread' \subseteq Unread \cup Range(wire)
  <2>1. CASE queued' = queued
    BY <2>1 DEF Unread
  <2>2. CASE queued' = WithRead(wire)
    BY <1>4, <2>2
  <2> QED
    BY <1>1, <2>1, <2>2
<1>6. IsFiniteSet(Unread \cup Range(wire)) /\ Cardinality(Unread \cup Range(wire)) \in Nat
      /\ Cardinality(Unread \cup Range(wire)) <= Cardinality(Unread) + 1
  <2>1. wire \in Seq(Messages) /\ Len(wire) <= 1
    BY DEF TypeOK
  <2>2. CASE wire = <<>>
    <3>1. Unread \cup Range(wire) = Unread
      BY <2>2 DEF Range
    <3> QED
      BY <3>1, UnreadFacts
  <2>3. ASSUME NEW y \in Messages, wire = <<y>>
        PROVE  /\ IsFiniteSet(Unread \cup Range(wire))
               /\ Cardinality(Unread \cup Range(wire)) <= Cardinality(Unread) + 1
    <3>1. Range(wire) = {y}
      BY <2>3 DEF Range
    <3>2. /\ IsFiniteSet(Unread \cup {y})
          /\ Cardinality(Unread \cup {y})
               = IF y \in Unread THEN Cardinality(Unread) ELSE Cardinality(Unread) + 1
      BY UnreadFacts, FS_AddElement
    <3> QED
      BY <3>1, <3>2, UnreadFacts
  <2> QED
    BY <2>1, <2>2, <2>3, ShortWire, FS_CardinalityType
<1>7. IsFiniteSet(Unread') /\ Cardinality(Unread') <= Cardinality(Unread \cup Range(wire))
  BY <1>5, <1>6, FS_Subset
<1> QED
  BY <1>1, <1>3, <1>4, <1>6, <1>7, UnreadFacts, FS_CardinalityType

(* Counts and chances are small numbers, before and after a step. *)
LEMMA CountTypes ==
  /\ TypeOK => \A x \in Messages : Published(x) \in Nat /\ Chances(x) \in 0..2
  /\ TypeOK' => \A x \in Messages : Published(x)' \in Nat /\ Chances(x)' \in 0..2
<1>1. ASSUME TypeOK PROVE \A x \in Messages : Published(x) \in Nat /\ Chances(x) \in 0..2
  BY <1>1, WithReadEffect DEF Chances
<1>2. ASSUME TypeOK' PROVE \A x \in Messages : Published(x)' \in Nat /\ Chances(x)' \in 0..2
  <2>1. queued' \in [Messages -> Nat] /\ wire' \in Seq(Messages) /\ Len(wire') <= 1
    BY <1>2 DEF TypeOK
  <2>2. \A x : OnWire(wire', x) \in {0, 1}
    BY <2>1, ShortWire
  <2> QED
    BY <2>1, <2>2 DEF Published, Chances
<1> QED
  BY <1>1, <1>2

(* A step that adds to a message's count takes from its chances, or is a   *)
(* fault.                                                                  *)
LEMMA CountStep ==
  ASSUME IndInv, TypeOK', faults' >= faults,
         \A x \in Messages :
           Published(x)' + Chances(x)' <= Published(x) + Chances(x) + (faults' - faults),
         \/ Unread' \subseteq Unread
         \/ /\ Cardinality(Unread') \in Nat
            /\ Cardinality(Unread') <= Cardinality(Unread) + (faults' - faults)
  PROVE  CountInv'
<1>1. faults \in Nat /\ faults' \in Nat
  BY DEF IndInv, TypeOK
<1>2. \A x \in Messages : Published(x)' + Chances(x)' <= 1 + faults'
  <2> TAKE x \in Messages
  <2>1. /\ Published(x) \in Nat /\ Chances(x) \in Nat
        /\ Published(x)' \in Nat /\ Chances(x)' \in Nat
    BY CountTypes DEF IndInv
  <2>2. Published(x) + Chances(x) <= 1 + faults
    BY DEF IndInv, CountInv
  <2> QED
    BY <1>1, <2>1, <2>2
<1>3. /\ Cardinality(Unread) \in Nat /\ Cardinality(Unread) <= faults
      /\ IsFiniteSet(Unread)
  BY UnreadFacts DEF IndInv, CountInv
<1>4. Cardinality(Unread') <= faults'
  <2>1. CASE Unread' \subseteq Unread
    <3>1. Cardinality(Unread') <= Cardinality(Unread) /\ Cardinality(Unread') \in Nat
      BY <1>3, <2>1, FS_Subset, FS_CardinalityType
    <3> QED
      BY <1>1, <1>3, <3>1
  <2> QED
    BY <1>1, <1>3, <2>1
<1> QED
  BY <1>2, <1>4 DEF CountInv

(* A step that changes no count. *)
LEMMA SameCounts ==
  ASSUME IndInv, TypeOK', faults' >= faults,
         \A x \in Messages : Published(x)' = Published(x) /\ Chances(x)' = Chances(x),
         Unread' \subseteq Unread
  PROVE  CountInv'
<1>1. faults \in Nat /\ faults' \in Nat
  BY DEF IndInv, TypeOK
<1>2. ASSUME NEW x \in Messages
      PROVE  Published(x)' + Chances(x)' <= Published(x) + Chances(x) + (faults' - faults)
  BY <1>1, CountTypes DEF IndInv
<1> QED
  BY <1>1, <1>2, CountStep

-------------------------------------------------------------------------------
(* The invariant holds at the start, and every action preserves it. *)

LEMMA InitInd == Init => IndInv
<1> SUFFICES ASSUME Init PROVE IndInv
  OBVIOUS
<1>1. TypeOK
  <2>1. Len(<<>>) = 0 /\ <<>> \in Seq(Messages) /\ BatchLimit \in Nat \ {0}
    BY IngestAssumption, EmptySeq DEF BatchLimit
  <2>2. 0 \in 0 .. MaxFaults /\ 0 \in 0 .. Len(Log)
    BY IngestAssumption, LogFacts
  <2>3. running \in BOOLEAN /\ connected \in BOOLEAN /\ ~ connected
    BY DEF Init
  <2> QED
    BY <2>1, <2>2, <2>3 DEF Init, TypeOK
<1>2. ProcessInv /\ KafkaInv /\ LeaseInv
  BY DEF Init, ProcessInv, KafkaInv, LeaseInv, IsInjective
<1>3. \A m \in Messages : Published(m) = 0 /\ Chances(m) \in {0, 1}
  <2>1. \A m : OnWire(wire, m) = 0
    BY OnWireCounts, Zenon DEF Init
  <2>2. Range(todo) = {}
    BY DEF Init, Range
  <2> QED
    BY <2>1, <2>2 DEF Init, Published, Chances
<1>4. Unread = {}
  BY DEF Init, Unread
<1> QED
  BY <1>1, <1>2, <1>3, <1>4, FS_EmptySet DEF IndInv, CountInv, Init

LEMMA StartInd ==
  ASSUME IndInv, Start
  PROVE  IndInv'
<1>1. TypeOK'
  BY DEF IndInv, Start, TypeOK, sourceVars, BatchLimit
<1>2. ProcessInv' /\ KafkaInv' /\ LeaseInv'
  BY DEF IndInv, Start, ProcessInv, KafkaInv, LeaseInv, sourceVars
<1>3. \A x \in Messages : Published(x)' = Published(x) /\ Chances(x)' = Chances(x)
  BY DEF Start, Published, Chances, sourceVars
<1>4. Unread' \subseteq Unread /\ faults' = faults
  BY DEF Start, Unread
<1>5. CountInv'
  BY <1>1, <1>3, <1>4, SameCounts DEF IndInv, TypeOK
<1> QED
  BY <1>1, <1>2, <1>5 DEF IndInv

LEMMA BrokerReadsInd ==
  ASSUME IndInv, BrokerReads
  PROVE  IndInv'
<1>1. queued' = WithRead(wire) /\ wire' = <<>> /\ wire # <<>> /\ TypeOK
  BY DEF BrokerReads, IndInv
<1>2. \A x : OnWire(wire', x) = 0
  BY <1>1, OnWireCounts, Zenon
<1>3. TypeOK'
  BY <1>1, WithReadEffect, EmptySeq DEF BrokerReads, TypeOK, sourceVars, BatchLimit
<1>4. ProcessInv' /\ KafkaInv' /\ LeaseInv'
  BY DEF IndInv, BrokerReads, ProcessInv, KafkaInv, LeaseInv, sourceVars
<1>5. \A x \in Messages : Published(x)' = Published(x) /\ Chances(x)' = Chances(x)
  BY <1>1, <1>2, WithReadEffect DEF BrokerReads, Published, Chances, sourceVars
<1>6. ASSUME NEW x \in Unread' PROVE x \in Unread
  <2>1. x \in handed /\ x \in Messages /\ queued'[x] = 0
    BY <1>6 DEF BrokerReads, Unread, IndInv, TypeOK
  <2> QED
    BY <1>1, <2>1, WithReadEffect DEF Unread, TypeOK
<1>7. CountInv'
  BY <1>3, <1>5, <1>6, SameCounts DEF BrokerReads, IndInv, TypeOK
<1> QED
  BY <1>3, <1>4, <1>7 DEF IndInv

LEMMA LoseConnectionInd ==
  ASSUME IndInv, LoseConnection
  PROVE  IndInv'
<1>1. /\ TypeOK /\ Drop /\ handed' = handed
      /\ UNCHANGED <<kind, sourceVars, position, running, todo, done>>
  BY DEF LoseConnection, IndInv
<1>2. faults' = faults + 1 /\ faults \in Nat /\ faults' \in 0 .. MaxFaults
  BY IngestAssumption DEF LoseConnection, Fault, IndInv, TypeOK
<1>3. TypeOK'
  <2>1. Len(wire') <= 1 /\ wire' \in Seq(Messages) /\ BatchLimit' = BatchLimit
    BY <1>1, <1>2, DropEffect, EmptySeq DEF BatchLimit
  <2>2. running' \in BOOLEAN /\ connected' \in BOOLEAN /\ ~ connected'
    BY <1>1, <1>2, DropEffect DEF TypeOK
  <2> QED
    BY <1>1, <1>2, <2>1, <2>2, DropEffect DEF TypeOK, sourceVars
<1>4. ProcessInv' /\ KafkaInv' /\ LeaseInv'
  BY <1>1, DropEffect DEF IndInv, ProcessInv, KafkaInv, LeaseInv, sourceVars
<1>5. \A x \in Messages : Chances(x)' = Chances(x)
  BY <1>1 DEF Chances, sourceVars
<1>6. \A x \in Messages :
        Published(x)' + Chances(x)' <= Published(x) + Chances(x) + (faults' - faults)
  BY <1>1, <1>2, <1>3, <1>5, DropEffect, CountTypes
<1>7. CountInv'
  BY <1>1, <1>2, <1>3, <1>6, DropEffect, CountStep
<1> QED
  BY <1>3, <1>4, <1>7 DEF IndInv

LEMMA StopInd ==
  ASSUME IndInv, Stop
  PROVE  IndInv'
<1>1. /\ TypeOK /\ handed' = handed /\ faults' = faults
      /\ queued' = WithRead(wire) /\ running' = FALSE
      /\ UNCHANGED <<kind, sourceVars, position, todo, done>>
      /\ todo = <<>> /\ done = {}
  BY DEF Stop, Disconnect, IndInv
<1>2. Drop
  BY DEF Stop, Disconnect, Drop
<1>3. TypeOK'
  <2>1. Len(wire') <= 1 /\ wire' \in Seq(Messages) /\ BatchLimit' = BatchLimit
    BY <1>1, <1>2, DropEffect, EmptySeq DEF BatchLimit
  <2>2. running' \in BOOLEAN /\ connected' \in BOOLEAN /\ ~ connected'
    BY <1>1, <1>2, DropEffect DEF TypeOK
  <2> QED
    BY <1>1, <1>2, <2>1, <2>2, DropEffect DEF TypeOK, sourceVars
<1>4. ProcessInv' /\ KafkaInv' /\ LeaseInv'
  BY <1>1, <1>2, DropEffect DEF IndInv, ProcessInv, KafkaInv, LeaseInv, sourceVars
<1>5. \A x \in Messages : Chances(x)' = Chances(x)
  BY <1>1 DEF Chances, sourceVars
<1>6. \A x \in Messages :
        Published(x)' + Chances(x)' <= Published(x) + Chances(x) + (faults' - faults)
  <2>1. faults \in Nat
    BY <1>1 DEF TypeOK
  <2> QED
    BY <1>1, <1>2, <1>3, <1>5, <2>1, DropEffect, CountTypes
<1>7. CountInv'
  <2>1. Unread' \subseteq Unread
    BY <1>1, <1>2, DropEffect
  <2>2. faults' >= faults
    BY <1>1, IngestAssumption DEF TypeOK
  <2> QED
    BY <1>3, <1>6, <2>1, <2>2, CountStep
<1> QED
  BY <1>3, <1>4, <1>7 DEF IndInv

LEMMA CrashInd ==
  ASSUME IndInv, Crash
  PROVE  IndInv'
<1>1. /\ TypeOK /\ Drop /\ handed' = handed
      /\ running' = FALSE /\ todo' = <<>> /\ done' = {}
      /\ UNCHANGED <<kind, sourceVars, position>>
  BY DEF Crash, IndInv
<1>2. faults' = faults + 1 /\ faults \in Nat /\ faults' \in 0 .. MaxFaults
  BY IngestAssumption DEF Crash, Fault, IndInv, TypeOK
<1>3. TypeOK'
  <2>1. /\ todo' \in Seq(Messages) /\ Len(todo') <= BatchLimit'
        /\ wire' \in Seq(Messages) /\ Len(wire') <= 1 /\ wire' = <<>>
    <3>1. BatchLimit' \in Nat \ {0}
      BY IngestAssumption DEF BatchLimit
    <3> QED
      BY <1>1, <3>1, DropEffect, EmptySeq
  <2>2. running' \in BOOLEAN /\ connected' \in BOOLEAN /\ ~ connected'
    BY <1>1, DropEffect
  <2> QED
    BY <1>1, <1>2, <2>1, <2>2, DropEffect DEF TypeOK, sourceVars
<1>4. ProcessInv' /\ KafkaInv' /\ LeaseInv'
  BY <1>1, DropEffect DEF IndInv, ProcessInv, KafkaInv, LeaseInv, sourceVars, IsInjective
<1>5. \A x \in Messages : Chances(x)' <= Chances(x) + 1
  <2>1. Range(todo') = {}
    BY <1>1 DEF Range
  <2> QED
    BY <1>1, <2>1 DEF Chances, sourceVars
<1>6. \A x \in Messages :
        Published(x)' + Chances(x)' <= Published(x) + Chances(x) + (faults' - faults)
  BY <1>1, <1>2, <1>3, <1>5, DropEffect, CountTypes
<1>7. CountInv'
  BY <1>1, <1>2, <1>3, <1>6, DropEffect, CountStep
<1> QED
  BY <1>3, <1>4, <1>7 DEF IndInv

LEMMA PollInd ==
  ASSUME IndInv, Poll
  PROVE  IndInv'
<1>1. /\ TypeOK /\ ProcessInv /\ KafkaInv /\ running /\ todo = <<>> /\ done = {}
      /\ UNCHANGED <<kind, committed, running, done, connected, wire, queued, handed, faults>>
  BY DEF Poll, IndInv, publisherVars
<1>2. Range(todo) = {}
  BY <1>1 DEF Range
<1>3. \A x \in Messages : Published(x)' = Published(x)
  BY <1>1 DEF Published
<1>4. Unread' \subseteq Unread /\ faults' >= faults
  BY <1>1, IngestAssumption DEF Unread, TypeOK
<1>5. BatchLimit' = BatchLimit /\ BatchLimit \in Nat \ {0}
  BY <1>1, IngestAssumption DEF BatchLimit
<1>6. CASE kind = "kafka"
  <2>1. /\ position \in 0 .. Len(Log) /\ position + 1 \in 1..Len(Log)
        /\ position' = position + 1 /\ status' = status
        /\ todo' = <<Log[position + 1]>> /\ Log[position + 1] \in Messages
    BY <1>1, <1>6, LogFacts DEF Poll, TypeOK
  <2>2. /\ todo' \in Seq(Messages) /\ Len(todo') = 1 /\ todo' # <<>>
        /\ Range(todo') = {Log[position + 1]} /\ IsInjective(todo')
    BY <2>1 DEF Range, IsInjective
  <2>3. committed <= position /\ committed \in 0 .. Len(Log)
    BY <1>1 DEF TypeOK
  <2>4. TypeOK'
    BY <1>1, <1>5, <2>1, <2>2, <2>3 DEF TypeOK
  <2>5. \A i \in 1..position' : i \in 1..position \/ i = position + 1
    BY <2>1
  <2>6. KafkaInv'
    BY <1>1, <1>2, <2>1, <2>2, <2>3, <2>5 DEF KafkaInv
  <2>7. ProcessInv' /\ LeaseInv'
    BY <1>1, <1>6, <2>2 DEF ProcessInv, LeaseInv
  <2>8. \A x \in Messages : Chances(x)' = Chances(x)
    BY <1>1, <1>6 DEF Chances
  <2> QED
    BY <1>3, <1>4, <2>4, <2>6, <2>7, <2>8, SameCounts DEF IndInv
<1>7. CASE kind # "kafka"
  <2>1. PICK S \in SUBSET {m \in Messages : status[m] = "offered"} :
          /\ Cardinality(S) \in 1 .. BatchLimit
          /\ todo' \in SetToSeqs(S)
          /\ SetStatus(S, "leased")
    BY <1>7 DEF Poll
  <2>2. /\ position' = position
        /\ status' \in [Messages -> {"offered", "leased", "settled"}]
        /\ \A m \in Messages : status'[m] = IF m \in S THEN "leased" ELSE status[m]
    BY <1>1, <1>7, <2>1, SetStatusEffect DEF Poll
  <2>3. /\ todo' \in [1..Cardinality(S) -> S] /\ IsInjective(todo')
        /\ Cardinality(S) \in Nat /\ Cardinality(S) <= BatchLimit
    BY <1>5, <2>1 DEF SetToSeqs, IsInjective
  <2>4. todo' \in Seq(Messages) /\ Len(todo') = Cardinality(S) /\ Range(todo') \subseteq S
    BY <2>3 DEF Range
  <2>5. S \subseteq Range(todo')
    <3>1. IsFiniteSet(S)
      BY LogFacts, FS_Subset
    <3>2. IsFiniteSet(1..Cardinality(S)) /\ Cardinality(1..Cardinality(S)) = Cardinality(S)
      BY <2>3, FS_Interval
    <3>3. todo' \in Injection(1..Cardinality(S), S)
      BY <2>3 DEF IsInjective, Injection
    <3>4. todo' \in Surjection(1..Cardinality(S), S)
      BY <3>1, <3>2, <3>3, FS_Injection
    <3> QED
      BY <2>3, <3>4 DEF Surjection, Range
  <2>6. TypeOK'
    BY <1>1, <1>5, <2>2, <2>3, <2>4 DEF TypeOK
  <2>7. ProcessInv' /\ KafkaInv'
    BY <1>1, <1>7, <2>3 DEF ProcessInv, KafkaInv
  <2>8. LeaseInv'
    BY <1>1, <2>2 DEF IndInv, LeaseInv
  <2>9. \A x \in Messages : Chances(x)' = Chances(x)
    BY <1>1, <1>2, <1>7, <2>1, <2>2, <2>4, <2>5 DEF Chances
  <2> QED
    BY <1>3, <1>4, <2>6, <2>7, <2>8, <2>9, SameCounts DEF IndInv
<1> QED
  BY <1>6, <1>7

(* What taking the first message in hand does to a step of the consumer. *)
LEMMA TakeEffect ==
  ASSUME TypeOK, ProcessInv, todo # <<>>, todo' = Tail(todo)
  PROVE  /\ Head(todo) \in Messages /\ Head(todo) \in Range(todo)
         /\ todo' \in Seq(Messages) /\ Len(todo') <= BatchLimit
         /\ Range(todo') = Range(todo) \ {Head(todo)}
         /\ IsInjective(todo')
<1>1. todo \in Seq(Messages) /\ IsInjective(todo) /\ Len(todo) <= BatchLimit
  BY DEF TypeOK, ProcessInv
<1>2. Len(todo) \in Nat /\ BatchLimit \in Nat
  BY <1>1, LenProperties, IngestAssumption DEF BatchLimit
<1>3. Len(Tail(todo)) <= Len(todo) /\ Len(Tail(todo)) \in Nat
  BY <1>1, TailFacts, LenProperties
<1> QED
  BY <1>1, <1>2, <1>3, TailFacts

(* Kafka's message in hand is the one at its poll position. *)
LEMMA KafkaHand ==
  ASSUME TypeOK, KafkaInv, kind = "kafka", todo # <<>>
  PROVE  /\ position \in 1..Len(Log) /\ committed < position
         /\ Head(todo) = Log[position] /\ OffsetOf(Head(todo)) = position
         /\ Tail(todo) = <<>>
         /\ Range(todo) = {Log[position]}
<1>1. /\ committed < position /\ todo = <<Log[position]>>
      /\ committed \in 0 .. Len(Log) /\ position \in 0 .. Len(Log)
  BY DEF TypeOK, KafkaInv
<1>2. position \in 1..Len(Log)
  BY <1>1, LogFacts
<1>3. Head(todo) = Log[position] /\ Tail(todo) = <<>> /\ Range(todo) = {Log[position]}
  BY <1>1 DEF Range
<1> QED
  BY <1>1, <1>2, <1>3, OffsetFacts

LEMMA HandleInd ==
  ASSUME IndInv, Handle
  PROVE  IndInv'
<1> PICK m : m = Head(todo)
  OBVIOUS
<1>1. /\ TypeOK /\ ProcessInv /\ KafkaInv /\ LeaseInv
      /\ running /\ todo # <<>> /\ todo' = Tail(todo)
      /\ Publish(m) /\ SettleOne(m) /\ handed' = handed \cup {m}
      /\ UNCHANGED <<kind, position, running, faults>>
  BY DEF Handle, IndInv
<1>2. /\ m \in Messages /\ m \in Range(todo)
      /\ todo' \in Seq(Messages) /\ Len(todo') <= BatchLimit
      /\ Range(todo') = Range(todo) \ {m}
      /\ IsInjective(todo')
  BY <1>1, TakeEffect
<1>3. /\ connected /\ connected' = connected
      /\ queued' \in [Messages -> Nat]
      /\ wire' \in Seq(Messages) /\ Len(wire') <= 1
      /\ \A x \in Messages : Published(x)' = Published(x) + (IF x = m THEN 1 ELSE 0)
      /\ Unread' \subseteq Unread
  BY <1>1, <1>2, PublishEffect
<1>4. BatchLimit' = BatchLimit
  BY <1>1 DEF BatchLimit
<1>5. ProcessInv'
  BY <1>1, <1>2 DEF ProcessInv
<1>6. CASE kind = "kafka"
  <2>1. /\ committed' = position /\ UNCHANGED <<status, done>>
        /\ position \in 1..Len(Log) /\ committed < position
        /\ m = Log[position] /\ OffsetOf(m) = position
        /\ todo' = <<>> /\ Range(todo) = {m}
    BY <1>1, <1>6, KafkaHand DEF SettleOne
  <2>2. TypeOK'
    BY <1>1, <1>2, <1>3, <1>4, <2>1 DEF TypeOK
  <2>3. KafkaInv' /\ LeaseInv'
    BY <1>1, <1>3, <1>6, <2>1 DEF KafkaInv, LeaseInv
  <2>4. \A x \in Messages : Chances(x)' <= Chances(x) /\ (x = m => Chances(x)' = 0 /\ Chances(x) = 1)
    <3> TAKE x \in Messages
    <3>1. OffsetOf(x) \in Nat /\ committed \in Nat /\ position \in Nat
      BY <1>1, OffsetFacts, LogFacts DEF TypeOK
    <3>2. /\ Chances(x) = IF OffsetOf(x) > committed THEN 1 ELSE 0
          /\ Chances(x)' = IF OffsetOf(x) > position THEN 1 ELSE 0
      BY <1>1, <1>6, <2>1, <3>1 DEF Chances
    <3> QED
      BY <2>1, <3>1, <3>2
  <2>5. \A x \in Messages :
          Published(x)' + Chances(x)' <= Published(x) + Chances(x) + (faults' - faults)
    <3> TAKE x \in Messages
    <3>1. faults' - faults = 0
      BY <1>1, IngestAssumption DEF TypeOK
    <3>2. /\ Published(x) \in Nat /\ Chances(x) \in Nat
          /\ Published(x)' \in Nat /\ Chances(x)' \in Nat
      BY <1>1, <2>2, CountTypes
    <3> QED
      BY <1>3, <2>4, <3>1, <3>2
  <2>6. faults' >= faults
    BY <1>1, IngestAssumption DEF TypeOK
  <2> QED
    BY <1>3, <1>5, <2>2, <2>3, <2>5, <2>6, CountStep DEF IndInv
<1>7. CASE kind # "kafka"
  <2>1. /\ committed' = committed
        /\ status' \in [Messages -> {"offered", "leased", "settled"}]
        /\ done' \subseteq Messages
        /\ \/ /\ done' = done
              /\ \A x \in Messages : x # m => status'[x] = status[x]
              /\ \/ status'[m] = "settled"
                 \/ status[m] = "offered" /\ status'[m] = "offered"
           \/ done' = done \cup {m} /\ status' = status
    <3>1. CASE kind \in {"sqs", "http"} /\ Settle({m}) /\ UNCHANGED <<committed, done>>
      <4>1. {m} \in SUBSET Messages
        BY <1>2
      <4>2. /\ status' \in [Messages -> {"offered", "leased", "settled"}]
            /\ \A x \in Messages \ {m} : status'[x] = status[x]
            /\ \A x \in {m} : \/ status'[x] = "settled"
                              \/ status[x] = "offered" /\ status'[x] = "offered"
        BY <1>1, <3>1, <4>1, SettleEffect
      <4>3. /\ \A x \in Messages : x # m => status'[x] = status[x]
            /\ \/ status'[m] = "settled"
               \/ status[m] = "offered" /\ status'[m] = "offered"
        BY <4>2
      <4>4. done \subseteq Messages
        BY <1>1 DEF TypeOK
      <4> QED
        BY <3>1, <4>2, <4>3, <4>4
    <3>2. CASE kind = "pubsub" /\ done' = done \cup {m} /\ UNCHANGED sourceVars
      BY <1>1, <1>2, <3>2 DEF TypeOK, sourceVars
    <3> QED
      BY <1>1, <1>7, <3>1, <3>2 DEF SettleOne
  <2>2. TypeOK'
    BY <1>1, <1>2, <1>3, <1>4, <2>1 DEF TypeOK
  <2>3. KafkaInv' /\ LeaseInv'
    BY <1>1, <1>7, <2>1 DEF KafkaInv, LeaseInv
  <2>4. \A x \in Messages : x # m => Chances(x)' = Chances(x)
    BY <1>1, <1>2, <1>7, <2>1 DEF Chances
  <2>5. Chances(m)' <= Chances(m) - 1
    <3>1. /\ m \in Range(todo) /\ m \notin Range(todo')
          /\ Chances(m) = 1 + (IF status[m] = "offered" THEN 1 ELSE 0)
      BY <1>1, <1>2, <1>7 DEF Chances
    <3>2. Chances(m)' = IF \/ status'[m] = "offered"
                           \/ status'[m] = "leased" /\ m \notin done'
                        THEN 1 ELSE 0
      BY <1>1, <1>7, <3>1 DEF Chances
    <3> QED
      BY <1>2, <2>1, <3>1, <3>2
  <2>6. \A x \in Messages :
          Published(x)' + Chances(x)' <= Published(x) + Chances(x) + (faults' - faults)
    <3> TAKE x \in Messages
    <3>1. faults' - faults = 0
      BY <1>1, IngestAssumption DEF TypeOK
    <3>2. /\ Published(x) \in Nat /\ Chances(x) \in Nat
          /\ Published(x)' \in Nat /\ Chances(x)' \in Nat
      BY <1>1, <2>2, CountTypes
    <3> QED
      BY <1>3, <2>4, <2>5, <3>1, <3>2
  <2>7. faults' >= faults
    BY <1>1, IngestAssumption DEF TypeOK
  <2> QED
    BY <1>3, <1>5, <2>2, <2>3, <2>6, <2>7, CountStep DEF IndInv
<1> QED
  BY <1>6, <1>7

LEMMA HandleUnsettledInd ==
  ASSUME IndInv, HandleUnsettled
  PROVE  IndInv'
<1> PICK m : m = Head(todo)
  OBVIOUS
<1>1. /\ TypeOK /\ ProcessInv /\ KafkaInv /\ LeaseInv
      /\ running /\ todo # <<>> /\ todo' = Tail(todo)
      /\ Publish(m) /\ handed' = handed \cup {m}
      /\ UNCHANGED <<kind, status, committed, position, running, done>>
  BY DEF HandleUnsettled, IndInv, sourceVars
<1>2. /\ m \in Messages /\ m \in Range(todo)
      /\ todo' \in Seq(Messages) /\ Len(todo') <= BatchLimit
      /\ Range(todo') = Range(todo) \ {m}
      /\ IsInjective(todo')
  BY <1>1, TakeEffect
<1>3. /\ connected /\ connected' = connected
      /\ queued' \in [Messages -> Nat]
      /\ wire' \in Seq(Messages) /\ Len(wire') <= 1
      /\ \A x \in Messages : Published(x)' = Published(x) + (IF x = m THEN 1 ELSE 0)
      /\ Unread' \subseteq Unread
  BY <1>1, <1>2, PublishEffect
<1>4. faults' = faults + 1 /\ faults \in Nat /\ faults' \in 0 .. MaxFaults
  BY <1>1, IngestAssumption DEF HandleUnsettled, Fault, TypeOK
<1>5. BatchLimit' = BatchLimit
  BY <1>1 DEF BatchLimit
<1>6. TypeOK'
  BY <1>1, <1>2, <1>3, <1>4, <1>5 DEF TypeOK
<1>7. ProcessInv' /\ LeaseInv'
  BY <1>1, <1>2 DEF ProcessInv, LeaseInv
<1>8. KafkaInv'
  <2>1. CASE kind = "kafka"
    BY <1>1, <1>2, <1>3, <2>1, KafkaHand DEF KafkaInv
  <2> QED
    BY <1>1, <2>1 DEF KafkaInv
<1>9. \A x \in Messages : Chances(x)' <= Chances(x)
  BY <1>1, <1>2 DEF Chances
<1>10. \A x \in Messages :
         Published(x)' + Chances(x)' <= Published(x) + Chances(x) + (faults' - faults)
  BY <1>1, <1>3, <1>4, <1>6, <1>9, CountTypes
<1>11. CountInv'
  BY <1>3, <1>4, <1>6, <1>10, CountStep
<1> QED
  BY <1>6, <1>7, <1>8, <1>11 DEF IndInv

LEMMA HandleRaisesInd ==
  ASSUME IndInv, HandleRaises
  PROVE  IndInv'
<1> PICK m : m = Head(todo)
  OBVIOUS
<1>1. /\ TypeOK /\ ProcessInv /\ KafkaInv /\ LeaseInv
      /\ running /\ todo # <<>> /\ todo' = Tail(todo)
      /\ UNCHANGED <<kind, status, committed, position, running, done, handed>>
  BY DEF HandleRaises, IndInv, sourceVars
<1>2. /\ m \in Messages /\ m \in Range(todo)
      /\ todo' \in Seq(Messages) /\ Len(todo') <= BatchLimit
      /\ Range(todo') = Range(todo) \ {m}
      /\ IsInjective(todo')
  BY <1>1, TakeEffect
<1>3. \/ m \in Poison /\ UNCHANGED <<publisherVars, faults>>
      \/ PublishRaises(m)
  BY DEF HandleRaises
<1>4. /\ \/ m \in Poison /\ connected' = connected
         \/ connected' = FALSE
      /\ connected' \in BOOLEAN /\ (connected' => connected)
      /\ queued' \in [Messages -> Nat]
      /\ wire' \in Seq(Messages) /\ Len(wire') <= 1 /\ (wire' # <<>> => connected')
      /\ faults' \in 0 .. MaxFaults /\ faults' >= faults
      /\ \A x \in Messages : Published(x)' <= Published(x) + (faults' - faults)
      /\ Unread' \subseteq Unread
  <2>1. CASE m \in Poison /\ UNCHANGED <<publisherVars, faults>>
    <3>1. /\ connected' = connected /\ queued' = queued /\ wire' = wire /\ faults' = faults
          /\ faults \in Nat
      BY <1>1, <2>1, IngestAssumption DEF publisherVars, TypeOK
    <3>2. \A x \in Messages : Published(x)' = Published(x) /\ Published(x) \in Nat
      BY <1>1, <3>1, CountTypes DEF Published
    <3> QED
      BY <1>1, <2>1, <3>1, <3>2 DEF TypeOK, Unread
  <2>2. CASE PublishRaises(m)
    <3>1. connected' = FALSE => connected' \in BOOLEAN /\ ~ connected'
      OBVIOUS
    <3>2. /\ connected' = FALSE /\ queued' \in [Messages -> Nat] /\ wire' = <<>>
          /\ faults' \in 0 .. MaxFaults /\ faults' >= faults
          /\ \A x \in Messages : Published(x)' <= Published(x) + (faults' - faults)
          /\ Unread' \subseteq Unread
      BY <1>1, <1>2, <2>2, PublishRaisesEffect
    <3>3. wire' \in Seq(Messages) /\ Len(wire') <= 1
      BY <3>2, EmptySeq
    <3> QED
      BY <3>1, <3>2, <3>3
  <2> QED
    BY <1>3, <2>1, <2>2
<1>5. BatchLimit' = BatchLimit
  BY <1>1 DEF BatchLimit
<1>6. TypeOK'
  BY <1>1, <1>2, <1>4, <1>5 DEF TypeOK
<1>7. ProcessInv' /\ LeaseInv'
  BY <1>1, <1>2 DEF ProcessInv, LeaseInv
<1>8. KafkaInv'
  <2>1. CASE kind = "kafka"
    BY <1>1, <1>2, <1>4, <2>1, KafkaHand DEF KafkaInv
  <2> QED
    BY <1>1, <2>1 DEF KafkaInv
<1>9. \A x \in Messages : Chances(x)' <= Chances(x)
  BY <1>1, <1>2 DEF Chances
<1>10. \A x \in Messages :
         Published(x)' + Chances(x)' <= Published(x) + Chances(x) + (faults' - faults)
  <2> TAKE x \in Messages
  <2>1. faults \in Nat /\ faults' \in Nat
    BY <1>1, <1>4, IngestAssumption DEF TypeOK
  <2>2. /\ Published(x) \in Nat /\ Chances(x) \in Nat
        /\ Published(x)' \in Nat /\ Chances(x)' \in Nat
    BY <1>1, <1>6, CountTypes
  <2> QED
    BY <1>4, <1>9, <2>1, <2>2
<1>11. CountInv'
  BY <1>4, <1>6, <1>10, CountStep
<1> QED
  BY <1>6, <1>7, <1>8, <1>11 DEF IndInv

LEMMA AcknowledgeInd ==
  ASSUME IndInv, Acknowledge
  PROVE  IndInv'
<1>1. /\ TypeOK /\ ProcessInv /\ KafkaInv /\ LeaseInv
      /\ running /\ todo = <<>> /\ done' = {} /\ done \in SUBSET Messages
      /\ UNCHANGED <<kind, committed, position, running, todo, connected, wire, queued,
                     handed, faults>>
  BY DEF Acknowledge, IndInv, publisherVars, TypeOK
<1>2. /\ status' \in [Messages -> {"offered", "leased", "settled"}]
      /\ \A x \in Messages \ done : status'[x] = status[x]
      /\ \A x \in done : \/ status'[x] = "settled"
                         \/ status[x] = "offered" /\ status'[x] = "offered"
  BY <1>1, SettleEffect DEF Acknowledge
<1>3. TypeOK'
  BY <1>1, <1>2 DEF TypeOK, BatchLimit
<1>4. ProcessInv' /\ KafkaInv' /\ LeaseInv'
  BY <1>1, <1>2 DEF ProcessInv, KafkaInv, LeaseInv
<1>5. \A x \in Messages : Chances(x)' <= Chances(x)
  BY <1>1, <1>2 DEF Chances
<1>6. \A x \in Messages :
        Published(x)' + Chances(x)' <= Published(x) + Chances(x) + (faults' - faults)
  <2> TAKE x \in Messages
  <2>1. faults' - faults = 0 /\ Published(x)' = Published(x)
    BY <1>1, IngestAssumption DEF TypeOK, Published
  <2>2. /\ Published(x) \in Nat /\ Chances(x) \in Nat
        /\ Published(x)' \in Nat /\ Chances(x)' \in Nat
    BY <1>1, <1>3, CountTypes
  <2> QED
    BY <1>5, <2>1, <2>2
<1>7. Unread' \subseteq Unread /\ faults' >= faults
  BY <1>1, IngestAssumption DEF Unread, TypeOK
<1>8. CountInv'
  BY <1>3, <1>6, <1>7, CountStep
<1> QED
  BY <1>3, <1>4, <1>8 DEF IndInv

LEMMA AcknowledgeRaisesInd ==
  ASSUME IndInv, AcknowledgeRaises
  PROVE  IndInv'
<1>1. /\ TypeOK /\ ProcessInv /\ KafkaInv /\ LeaseInv
      /\ todo = <<>> /\ done' = {} /\ running' = FALSE /\ handed' = handed
      /\ UNCHANGED <<kind, status, committed, position, todo>>
      /\ Drop
  BY DEF AcknowledgeRaises, Disconnect, Drop, IndInv, sourceVars
<1>2. faults' = faults + 1 /\ faults \in Nat /\ faults' \in 0 .. MaxFaults
  BY <1>1, IngestAssumption DEF AcknowledgeRaises, Fault, TypeOK
<1>3. TypeOK'
  <2>1. Len(wire') <= 1 /\ wire' \in Seq(Messages) /\ BatchLimit' = BatchLimit
    BY <1>1, DropEffect, EmptySeq DEF BatchLimit
  <2>2. running' \in BOOLEAN /\ connected' \in BOOLEAN /\ ~ connected'
    BY <1>1, DropEffect
  <2> QED
    BY <1>1, <1>2, <2>1, <2>2, DropEffect DEF TypeOK
<1>4. ProcessInv' /\ KafkaInv' /\ LeaseInv'
  BY <1>1, DropEffect DEF ProcessInv, KafkaInv, LeaseInv
<1>5. \A x \in Messages : Chances(x)' <= Chances(x) + 1
  BY <1>1 DEF Chances
<1>6. \A x \in Messages :
        Published(x)' + Chances(x)' <= Published(x) + Chances(x) + (faults' - faults)
  BY <1>1, <1>2, <1>3, <1>5, DropEffect, CountTypes
<1>7. CountInv'
  BY <1>1, <1>2, <1>3, <1>6, DropEffect, CountStep
<1> QED
  BY <1>3, <1>4, <1>7 DEF IndInv

LEMMA LeaseEndsInd ==
  ASSUME IndInv, NEW m \in Messages, LeaseEnds(m)
  PROVE  IndInv'
<1>1. /\ TypeOK /\ ProcessInv /\ KafkaInv /\ LeaseInv
      /\ status[m] = "leased" /\ {m} \in SUBSET Messages
      /\ UNCHANGED <<kind, committed, position, running, todo, done, connected, wire,
                     queued, handed>>
  BY DEF LeaseEnds, IndInv, publisherVars
<1>2. /\ status' \in [Messages -> {"offered", "leased", "settled"}]
      /\ \A x \in Messages : status'[x] = IF x \in {m} THEN "offered" ELSE status[x]
  BY <1>1, SetStatusEffect DEF LeaseEnds
<1>3. /\ faults \in Nat /\ faults' \in 0 .. MaxFaults /\ faults' >= faults
      /\ m \in Range(todo) \cup done => faults' = faults + 1
  BY <1>1, IngestAssumption DEF LeaseEnds, Fault, TypeOK
<1>4. TypeOK'
  BY <1>1, <1>2, <1>3 DEF TypeOK, BatchLimit
<1>5. ProcessInv' /\ KafkaInv' /\ LeaseInv'
  BY <1>1, <1>2 DEF ProcessInv, KafkaInv, LeaseInv
<1>6. \A x \in Messages : Chances(x)' <= Chances(x) + (faults' - faults)
  BY <1>1, <1>2, <1>3 DEF Chances
<1>7. \A x \in Messages :
        Published(x)' + Chances(x)' <= Published(x) + Chances(x) + (faults' - faults)
  <2> TAKE x \in Messages
  <2>1. Published(x)' = Published(x)
    BY <1>1 DEF Published
  <2>2. /\ Published(x) \in Nat /\ Chances(x) \in Nat
        /\ Published(x)' \in Nat /\ Chances(x)' \in Nat
    BY <1>1, <1>4, CountTypes
  <2> QED
    BY <1>3, <1>6, <2>1, <2>2
<1>8. Unread' \subseteq Unread
  BY <1>1 DEF Unread
<1>9. CountInv'
  BY <1>3, <1>4, <1>7, <1>8, CountStep
<1> QED
  BY <1>4, <1>5, <1>9 DEF IndInv

LEMMA NextInd == IndInv /\ [Next]_vars => IndInv'
<1> SUFFICES ASSUME IndInv, [Next]_vars PROVE IndInv'
  OBVIOUS
<1>1. CASE Start
  BY <1>1, StartInd
<1>2. CASE Poll
  BY <1>2, PollInd
<1>3. CASE Handle
  BY <1>3, HandleInd
<1>4. CASE HandleUnsettled
  BY <1>4, HandleUnsettledInd
<1>5. CASE HandleRaises
  BY <1>5, HandleRaisesInd
<1>6. CASE Acknowledge
  BY <1>6, AcknowledgeInd
<1>7. CASE AcknowledgeRaises
  BY <1>7, AcknowledgeRaisesInd
<1>8. CASE Stop
  BY <1>8, StopInd
<1>9. CASE Crash
  BY <1>9, CrashInd
<1>10. CASE BrokerReads
  BY <1>10, BrokerReadsInd
<1>11. CASE LoseConnection
  BY <1>11, LoseConnectionInd
<1>12. ASSUME NEW m \in Messages, LeaseEnds(m) PROVE IndInv'
  BY <1>12, LeaseEndsInd
<1>13. CASE UNCHANGED vars
  BY <1>13 DEF vars, IndInv, TypeOK, ProcessInv, KafkaInv, LeaseInv, CountInv,
               BatchLimit, Published, Chances, Unread
<1> QED
  BY <1>1, <1>2, <1>3, <1>4, <1>5, <1>6, <1>7, <1>8, <1>9, <1>10, <1>11, <1>12, <1>13
     DEF Next

(* What the invariant says of a message its source will not offer again. *)
LEMMA SettledInd == IndInv => SettledMeansHandled
<1> SUFFICES ASSUME IndInv, NEW m \in Messages, Settled(m)
             PROVE  m \in handed \/ (kind = "kafka" /\ m \in Poison)
  BY DEF SettledMeansHandled
<1>1. CASE kind = "kafka"
  <2>1. OffsetOf(m) \in 1..Len(Log) /\ Log[OffsetOf(m)] = m /\ OffsetOf(m) <= committed
    BY <1>1, OffsetFacts DEF Settled
  <2>2. OffsetOf(m) \in 1..committed
    BY <2>1, LogFacts DEF IndInv, TypeOK
  <2> QED
    BY <1>1, <2>1, <2>2 DEF IndInv, KafkaInv
<1>2. CASE kind # "kafka"
  BY <1>2 DEF Settled, IndInv, LeaseInv
<1> QED
  BY <1>1, <1>2

-------------------------------------------------------------------------------
(* The theorems. *)

(* Whatever crashes, connections, leases and settlings do, the consumer,   *)
(* its source and the publisher stay in step.                              *)
THEOREM Invariance == Spec => []IndInv
BY InitInd, NextInd, PTL DEF Spec

(* The state of a consumer process and of its publisher is well formed:    *)
(* nothing is in hand that was not polled, Kafka's committed offset never  *)
(* passes its poll position, one message at most is on the wire.           *)
THEOREM TypeCorrect == Spec => []TypeOK
<1>1. IndInv => TypeOK
  BY DEF IndInv
<1> QED
  BY <1>1, Invariance, PTL

(* No consumer settles a message at its source that it did not publish,    *)
(* but for Kafka and a message that does not parse.                        *)
THEOREM SettledAreHandled == Spec => []SettledMeansHandled
BY SettledInd, Invariance, PTL

(* The alerts queue gets one copy of a message, and one more at most for   *)
(* every fault.                                                            *)
THEOREM DuplicatesAreBounded == Spec => []DuplicatesNeedFaults
<1>1. IndInv => DuplicatesNeedFaults
  <2> SUFFICES ASSUME IndInv, NEW m \in Messages PROVE queued[m] <= 1 + faults
    BY DEF DuplicatesNeedFaults
  <2>1. Published(m) + Chances(m) <= 1 + faults
    BY DEF IndInv, CountInv
  <2>2. /\ Published(m) \in Nat /\ Chances(m) \in Nat
        /\ queued[m] \in Nat /\ queued[m] <= Published(m) /\ faults \in Nat
    <3>1. TypeOK
      BY DEF IndInv
    <3>2. queued[m] \in Nat /\ faults \in Nat
      BY <3>1 DEF TypeOK
    <3> QED
      BY <3>1, <3>2, CountTypes, WithReadEffect
  <2> QED
    BY <2>1, <2>2
<1> QED
  BY <1>1, Invariance, PTL

(* Unconfirmed publishes lose one message at most for every fault.         *)
THEOREM LossesAreBounded == Spec => []LossesNeedFaults
<1> DEFINE Lost == {m \in Messages \ Poison :
                      Settled(m) /\ queued[m] = 0 /\ m \notin Range(wire)}
<1>1. ASSUME IndInv PROVE LossesNeedFaults
  <2>1. Lost \in SUBSET Unread
    BY <1>1, SettledInd DEF SettledMeansHandled, Unread
  <2>2. IsFiniteSet(Unread) /\ Cardinality(Unread) \in Nat /\ Cardinality(Unread) <= faults
        /\ faults \in Nat
    BY <1>1, UnreadFacts DEF IndInv, CountInv, TypeOK
  <2>3. IsFiniteSet(Lost) /\ Cardinality(Lost) <= Cardinality(Unread)
    BY <2>1, <2>2, FS_Subset
  <2>4. Cardinality(Lost) \in Nat
    BY <2>3, FS_CardinalityType
  <2>5. Cardinality(Lost) <= faults
    BY <2>2, <2>3, <2>4
  <2> QED
    BY <2>5 DEF LossesNeedFaults
<1> QED
  BY <1>1, Invariance, PTL

===============================================================================
