--------------------------- MODULE ForwarderProofs ----------------------------
(***************************************************************************)
(* Proofs about Forwarder, for any bodies, any batch size and any number   *)
(* of lost connections and crashes.                                        *)
(***************************************************************************)
EXTENDS Forwarder, FiniteSetTheorems, SequenceTheorems, TLAPS

-------------------------------------------------------------------------------
(* Sequences of bodies. *)

Count(s, x) == Cardinality({i \in DOMAIN s : s[i] = x})

LEMMA RangeFacts ==
  ASSUME NEW s \in Seq(Bodies)
  PROVE  /\ IsFiniteSet(Range(s)) /\ Cardinality(Range(s)) \in Nat
         /\ Cardinality(Range(s)) <= Len(s) /\ Len(s) \in Nat
         /\ Range(s) \subseteq Bodies
<1>1. DOMAIN s = 1..Len(s) /\ Len(s) \in Nat /\ \A i \in 1..Len(s) : s[i] \in Bodies
  BY LenProperties, ElementOfSeq
<1>2. s \in Surjection(1..Len(s), Range(s))
  BY <1>1 DEF Surjection, Range
<1>3. IsFiniteSet(1..Len(s)) /\ Cardinality(1..Len(s)) = Len(s)
  <2>1. Len(s) \in Nat
    BY <1>1
  <2> QED
    BY <2>1, FS_Interval
<1>4. IsFiniteSet(Range(s)) /\ Cardinality(Range(s)) <= Len(s)
  BY <1>2, <1>3, FS_Surjection
<1> QED
  BY <1>1, <1>4, FS_CardinalityType DEF Range

LEMMA AppendFacts ==
  ASSUME NEW s \in Seq(Bodies), NEW x \in Bodies
  PROVE  /\ Append(s, x) \in Seq(Bodies) /\ Len(Append(s, x)) = Len(s) + 1
         /\ Range(Append(s, x)) = Range(s) \cup {x}
         /\ \A y : /\ Count(s, y) \in Nat
                   /\ Count(Append(s, x), y) = Count(s, y) + (IF y = x THEN 1 ELSE 0)
<1> DEFINE a == Append(s, x)
           At(w, y) == {i \in DOMAIN w : w[i] = y}
<1>1. /\ a \in Seq(Bodies) /\ Len(a) = Len(s) + 1 /\ Len(s) \in Nat
      /\ DOMAIN s = 1..Len(s) /\ DOMAIN a = 1..(Len(s) + 1)
      /\ a[Len(s) + 1] = x /\ \A i \in 1..Len(s) : a[i] = s[i]
  BY AppendProperties, LenProperties
<1> HIDE DEF a
<1>2. \A i \in 1..(Len(s) + 1) : i \in 1..Len(s) \/ i = Len(s) + 1
  BY <1>1
<1>3. Range(a) = Range(s) \cup {x}
  <2>1. ASSUME NEW y \in Range(a) PROVE y \in Range(s) \cup {x}
    BY <1>1, <1>2, <2>1 DEF Range
  <2>2. ASSUME NEW y \in Range(s) PROVE y \in Range(a)
    <3>1. PICK i \in 1..Len(s) : s[i] = y
      BY <1>1 DEF Range
    <3>2. i \in 1..(Len(s) + 1) /\ a[i] = y
      BY <1>1, <3>1
    <3> QED
      BY <1>1, <3>2 DEF Range
  <2>3. x \in Range(a)
    BY <1>1 DEF Range
  <2> QED
    BY <2>1, <2>2, <2>3
<1>4. ASSUME NEW y
      PROVE  /\ Count(s, y) \in Nat
             /\ Count(a, y) = Count(s, y) + (IF y = x THEN 1 ELSE 0)
  <2>1. IsFiniteSet(At(s, y)) /\ Cardinality(At(s, y)) \in Nat
    <3>1. IsFiniteSet(1..Len(s)) /\ At(s, y) \in SUBSET (1..Len(s))
      BY <1>1, FS_Interval
    <3>2. IsFiniteSet(At(s, y))
      BY <3>1, FS_Subset
    <3> QED
      BY <3>2, FS_CardinalityType
  <2>2. At(a, y) = IF y = x THEN At(s, y) \cup {Len(s) + 1} ELSE At(s, y)
    BY <1>1, <1>2
  <2>3. Len(s) + 1 \notin At(s, y)
    BY <1>1
  <2>4. Count(s, y) = Cardinality(At(s, y)) /\ Count(a, y) = Cardinality(At(a, y))
    BY DEF Count
  <2> HIDE DEF At
  <2>5. Cardinality(At(s, y) \cup {Len(s) + 1}) = Cardinality(At(s, y)) + 1
    BY <2>1, <2>3, FS_AddElement
  <2> QED
    BY <2>1, <2>2, <2>4, <2>5
<1> QED
  BY <1>1, <1>3, <1>4 DEF a

-------------------------------------------------------------------------------
(* The inductive invariant. *)

(* Nothing a forwarder sends is serialisable: a flush fails before it      *)
(* posts.  A closed client belongs to a thread that is down.               *)
ClientInv == batch = <<>> /\ (closed => pc = "down")

(* Acked, and neither in the buffer nor in a batch that failed. *)
Unaccounted == {b \in Bodies : place[b] = "acked"} \ (Range(buffer) \cup failed)

(* What waits for its ack was given to the client. *)
AckInv ==
  /\ pc = "ack" => inHand \in Range(buffer) \cup failed
  /\ IsFiniteSet(Unaccounted)
  /\ AckedIsAccountedFor

(* The sends of b that may follow without another fault. *)
Chances(b) ==
  (IF place[b] \in {"unsent", "ready"} THEN 1 ELSE 0)
    + (IF pc = "received" /\ inHand = b THEN 1 ELSE 0)

SendInv == \A b \in Bodies : Count(sent, b) + Chances(b) <= 1 + lost + crashes

IndInv == TypeOK /\ ClientInv /\ AckInv /\ SendInv

-------------------------------------------------------------------------------
(* What the helpers do. *)

(* send(): the event waits in the buffer, or its batch failed. *)
LEMMA SendEffect ==
  ASSUME TypeOK, ClientInv, NEW e \in Bodies, HEC!Send(e)
  PROVE  /\ sent' = Append(sent, e)
         /\ buffer' \in Seq(Bodies) /\ Len(buffer') < BatchSize
         /\ failed' \subseteq Bodies
         /\ Range(buffer) \cup failed \cup {e} \subseteq Range(buffer') \cup failed'
         /\ batch' = <<>>
         /\ UNCHANGED <<attempt, indexed, unsure, crashes, closed>>
<1> PICK b : b = Append(buffer, e)
  OBVIOUS
<1>1. /\ buffer \in Seq(Bodies) /\ Len(buffer) < BatchSize /\ failed \subseteq Bodies
      /\ batch = <<>> /\ BatchSize \in Nat \ {0}
  BY ForwarderAssumption DEF TypeOK, HEC!TypeOK, ClientInv
<1>2. /\ b \in Seq(Bodies) /\ Len(b) = Len(buffer) + 1 /\ Range(b) = Range(buffer) \cup {e}
  BY <1>1, AppendFacts
<1>3. /\ sent' = Append(sent, e)
      /\ UNCHANGED <<indexed, unsure, crashes, closed>>
      /\ \/ Len(b) >= BatchSize /\ HEC!Flush(b)
         \/ ~ (Len(b) >= BatchSize) /\ buffer' = b /\ UNCHANGED <<batch, attempt, failed>>
  BY DEF HEC!Send
<1>4. CASE HEC!Flush(b)
  <2>1. Range(b) \subseteq Bodies /\ ~ (HEC!Range(b) \subseteq {})
    BY <1>2, RangeFacts DEF Range, HEC!Range
  <2>2. buffer' = <<>> /\ failed' = failed \cup Range(b) /\ UNCHANGED <<batch, attempt>>
    BY <1>4, <2>1 DEF HEC!Flush, Range, HEC!Range
  <2>3. <<>> \in Seq(Bodies) /\ Len(<<>>) = 0
    OBVIOUS
  <2> QED
    BY <1>1, <1>2, <1>3, <2>1, <2>2, <2>3
<1>5. CASE ~ (Len(b) >= BatchSize) /\ buffer' = b /\ UNCHANGED <<batch, attempt, failed>>
  <2>1. Len(b) < BatchSize
    <3>1. Len(buffer) \in Nat
      BY <1>1, LenProperties
    <3> QED
      BY <1>1, <1>2, <1>5, <3>1
  <2> QED
    BY <1>1, <1>2, <1>3, <1>5, <2>1
<1> QED
  BY <1>3, <1>4, <1>5

(* close(): the rest of the buffer fails. *)
LEMMA CloseEffect ==
  ASSUME TypeOK, ClientInv, HEC!Close
  PROVE  /\ closed' = TRUE /\ buffer' = <<>> /\ batch' = <<>>
         /\ failed' = failed \cup Range(buffer) /\ failed' \subseteq Bodies
         /\ UNCHANGED <<sent, attempt, indexed, unsure, crashes>>
<1>1. /\ buffer \in Seq(Bodies) /\ failed \subseteq Bodies /\ batch = <<>>
      /\ Range(buffer) \subseteq Bodies
  BY RangeFacts DEF TypeOK, HEC!TypeOK, ClientInv
<1>2. closed' = TRUE /\ UNCHANGED <<sent, indexed, unsure, crashes>>
  BY DEF HEC!Close
<1>3. CASE buffer = <<>>
  <2>1. Range(<<>>) = {}
    BY DEF Range
  <2> QED
    BY <1>1, <1>2, <1>3, <2>1 DEF HEC!Close
<1>4. CASE buffer # <<>>
  <2>1. ~ (HEC!Range(buffer) \subseteq {})
    <3>1. Len(buffer) \in Nat /\ Len(buffer) # 0 /\ DOMAIN buffer = 1..Len(buffer)
      BY <1>1, <1>4, EmptySeq, LenProperties
    <3>2. 1 \in DOMAIN buffer
      BY <3>1
    <3> QED
      BY <3>2 DEF HEC!Range
  <2>2. HEC!Flush(buffer)
    BY <1>4 DEF HEC!Close
  <2> QED
    BY <1>1, <1>2, <2>1, <2>2 DEF HEC!Flush, Range, HEC!Range
<1> QED
  BY <1>3, <1>4

LEMMA CountTypes ==
  /\ TypeOK => /\ \A b \in Bodies : Count(sent, b) \in Nat /\ Chances(b) \in 0..2
               /\ lost \in Nat /\ crashes \in Nat
  /\ TypeOK' => /\ \A b \in Bodies : Count(sent', b) \in Nat /\ Chances(b)' \in 0..2
                /\ lost' \in Nat /\ crashes' \in Nat
<1>1. ASSUME NEW s \in Seq(Bodies), NEW b \in Bodies PROVE Count(s, b) \in Nat
  BY AppendFacts
<1>2. \A b \in Bodies : Chances(b) \in 0..2 /\ Chances(b)' \in 0..2
  BY DEF Chances
<1>3. TypeOK => sent \in Seq(Bodies) /\ lost \in Nat /\ crashes \in Nat
  BY ForwarderAssumption DEF TypeOK, HEC!TypeOK
<1>4. TypeOK' => sent' \in Seq(Bodies) /\ lost' \in Nat /\ crashes' \in Nat
  BY ForwarderAssumption DEF TypeOK, HEC!TypeOK
<1> QED
  BY <1>1, <1>2, <1>3, <1>4

(* A step that sends nothing costs a fault for every new chance. *)
LEMMA SendStep ==
  ASSUME TypeOK, TypeOK', SendInv, sent' = sent,
         \/ lost' = lost /\ crashes' = crashes /\ \A b \in Bodies : Chances(b)' <= Chances(b)
         \/ /\ \/ lost' = lost + 1 /\ crashes' = crashes
               \/ lost' = lost /\ crashes' = crashes + 1
            /\ \A b \in Bodies : Chances(b)' <= Chances(b) + 1
  PROVE  SendInv'
<1>1. ASSUME NEW b \in Bodies
      PROVE  Count(sent', b) + Chances(b)' <= 1 + lost' + crashes'
  <2>1. /\ Count(sent, b) \in Nat /\ Chances(b) \in Nat /\ Chances(b)' \in Nat
        /\ lost \in Nat /\ crashes \in Nat /\ lost' \in Nat /\ crashes' \in Nat
    BY CountTypes
  <2>2. Count(sent, b) + Chances(b) <= 1 + lost + crashes /\ Count(sent', b) = Count(sent, b)
    BY DEF SendInv
  <2>3. CASE lost' = lost /\ crashes' = crashes /\ Chances(b)' <= Chances(b)
    BY <2>1, <2>2, <2>3
  <2>4. CASE lost' = lost + 1 /\ crashes' = crashes /\ Chances(b)' <= Chances(b) + 1
    BY <2>1, <2>2, <2>4
  <2>5. CASE lost' = lost /\ crashes' = crashes + 1 /\ Chances(b)' <= Chances(b) + 1
    BY <2>1, <2>2, <2>5
  <2> QED
    BY <2>3, <2>4, <2>5
<1> QED
  BY <1>1 DEF SendInv, Count

LEMMA AckStep ==
  ASSUME TypeOK, AckInv, Unaccounted' \subseteq Unaccounted, crashes' = crashes
  PROVE  IsFiniteSet(Unaccounted)' /\ AckedIsAccountedFor'
<1>1. IsFiniteSet(Unaccounted) /\ Cardinality(Unaccounted) <= crashes * BatchSize
  BY DEF AckInv, AckedIsAccountedFor, Unaccounted
<1>2. IsFiniteSet(Unaccounted') /\ Cardinality(Unaccounted') <= Cardinality(Unaccounted)
  BY <1>1, FS_Subset
<1>3. Cardinality(Unaccounted) \in Nat /\ Cardinality(Unaccounted') \in Nat
  BY <1>1, <1>2, FS_CardinalityType
<1>4. crashes * BatchSize \in Nat
  <2>1. crashes \in Nat /\ BatchSize \in Nat
    BY CountTypes, ForwarderAssumption
  <2> QED
    BY <2>1
<1>5. Cardinality(Unaccounted') <= crashes * BatchSize
  BY <1>1, <1>2, <1>3, <1>4
<1> QED
  BY <1>2, <1>5 DEF AckedIsAccountedFor, Unaccounted

-------------------------------------------------------------------------------
(* Every step keeps the invariant. *)

LEMMA InitInd == Init => IndInv
<1> SUFFICES ASSUME Init PROVE IndInv
  OBVIOUS
<1>1. /\ place = [b \in Bodies |-> "unsent"]
      /\ pc = "down" /\ inHand = NoBody /\ link = "none" /\ lost = 0
      /\ sent = <<>> /\ buffer = <<>> /\ batch = <<>> /\ indexed = <<>>
      /\ attempt = 0 /\ unsure = 0 /\ crashes = 0 /\ failed = {} /\ closed = FALSE
  BY DEF Init, HEC!Init
<1>2. TypeOK
  <2>1. /\ <<>> \in Seq(Bodies) /\ <<>> \in Seq({}) /\ Len(<<>>) = 0
        /\ BatchSize \in Nat \ {0} /\ 0 \in 0 .. MaxLost /\ 0 \in 0 .. MaxCrashes
        /\ 0 \in 0 .. (3 - 1)
    BY ForwarderAssumption
  <2>2. closed = FALSE => closed \in BOOLEAN
    OBVIOUS
  <2>3. HEC!TypeOK
    BY <1>1, <2>1, <2>2 DEF HEC!TypeOK
  <2> QED
    BY <1>1, <2>1, <2>3 DEF TypeOK
<1>3. ClientInv
  BY <1>1 DEF ClientInv
<1>4. AckInv
  <2>1. Unaccounted = {}
    BY <1>1 DEF Unaccounted
  <2>2. Cardinality(Unaccounted) <= crashes * BatchSize
    BY <1>1, <2>1, FS_EmptySet, ForwarderAssumption
  <2> QED
    BY <1>1, <2>1, <2>2, FS_EmptySet DEF AckInv, AckedIsAccountedFor, Unaccounted
<1>5. SendInv
  <2>1. ASSUME NEW b \in Bodies PROVE Count(sent, b) = 0 /\ Chances(b) \in 0..1
    <3>1. {i \in DOMAIN <<>> : <<>>[i] = b} = {}
      OBVIOUS
    <3>2. Count(sent, b) = 0
      BY <1>1, <3>1, FS_EmptySet DEF Count
    <3> QED
      BY <1>1, <3>2 DEF Chances
  <2> QED
    BY <1>1, <2>1 DEF SendInv
<1> QED
  BY <1>2, <1>3, <1>4, <1>5 DEF IndInv

LEMMA StartInd ==
  ASSUME IndInv, Start
  PROVE  IndInv'
<1>1. /\ TypeOK /\ ClientInv /\ AckInv /\ SendInv
      /\ pc = "down" /\ pc' = "idle" /\ link' = "up" /\ closed' = FALSE
      /\ UNCHANGED <<place, inHand, lost, sent, buffer, batch, attempt, indexed,
                     failed, unsure, crashes>>
  BY DEF IndInv, Start, Goto
<1>2. TypeOK'
  <2>1. closed' = FALSE => closed' \in BOOLEAN
    OBVIOUS
  <2>2. HEC!TypeOK'
    BY <1>1, <2>1 DEF TypeOK, HEC!TypeOK
  <2> QED
    BY <1>1, <2>2 DEF TypeOK
<1>3. ClientInv'
  BY <1>1 DEF ClientInv
<1>4. AckInv'
  <2>1. Unaccounted' \subseteq Unaccounted
    BY <1>1 DEF Unaccounted
  <2> QED
    BY <1>1, <2>1, AckStep DEF AckInv
<1>5. \A b \in Bodies : Chances(b)' <= Chances(b)
  BY <1>1 DEF Chances
<1>6. SendInv'
  BY <1>1, <1>2, <1>5, SendStep
<1> QED
  BY <1>2, <1>3, <1>4, <1>6 DEF IndInv

LEMMA PublishInd ==
  ASSUME IndInv, NEW c \in Bodies, Publish(c)
  PROVE  IndInv'
<1>1. /\ TypeOK /\ ClientInv /\ AckInv /\ SendInv
      /\ place[c] = "unsent" /\ place' = [place EXCEPT ![c] = "ready"]
      /\ UNCHANGED <<pc, inHand, link, lost, sent, buffer, batch, attempt, indexed,
                     failed, unsure, crashes, closed>>
  BY DEF IndInv, Publish, hecVars
<1>2. TypeOK'
  <2>1. HEC!TypeOK'
    BY <1>1 DEF TypeOK, HEC!TypeOK
  <2> QED
    BY <1>1, <2>1 DEF TypeOK
<1>3. ClientInv'
  BY <1>1 DEF ClientInv
<1>4. AckInv'
  <2>1. Unaccounted' \subseteq Unaccounted
    BY <1>1 DEF Unaccounted, TypeOK
  <2> QED
    BY <1>1, <2>1, AckStep DEF AckInv
<1>5. \A b \in Bodies : Chances(b)' <= Chances(b)
  BY <1>1 DEF Chances, TypeOK
<1>6. SendInv'
  BY <1>1, <1>2, <1>5, SendStep
<1> QED
  BY <1>2, <1>3, <1>4, <1>6 DEF IndInv

LEMMA DeliverInd ==
  ASSUME IndInv, NEW c \in Bodies, Deliver(c)
  PROVE  IndInv'
<1>1. /\ TypeOK /\ ClientInv /\ AckInv /\ SendInv
      /\ pc = "idle" /\ pc' = "received" /\ inHand' = c /\ link = "up"
      /\ place[c] = "ready" /\ place' = [place EXCEPT ![c] = "held"]
      /\ UNCHANGED <<link, lost, sent, buffer, batch, attempt, indexed,
                     failed, unsure, crashes, closed>>
  BY DEF IndInv, Deliver, Goto, hecVars
<1>2. TypeOK'
  <2>1. HEC!TypeOK'
    BY <1>1 DEF TypeOK, HEC!TypeOK
  <2>2. inHand' # NoBody
    BY <1>1, ForwarderAssumption
  <2> QED
    BY <1>1, <2>1, <2>2 DEF TypeOK
<1>3. ClientInv'
  BY <1>1 DEF ClientInv
<1>4. AckInv'
  <2>1. Unaccounted' \subseteq Unaccounted
    BY <1>1 DEF Unaccounted, TypeOK
  <2> QED
    BY <1>1, <2>1, AckStep DEF AckInv
<1>5. \A b \in Bodies : Chances(b)' <= Chances(b)
  BY <1>1 DEF Chances, TypeOK
<1>6. SendInv'
  BY <1>1, <1>2, <1>5, SendStep
<1> QED
  BY <1>2, <1>3, <1>4, <1>6 DEF IndInv

(* The consumer settles the body in hand, or finds its connection lost. *)
LEMMA AnswerInd ==
  ASSUME IndInv, pc \in {"received", "ack"}, NEW outcome \in {"acked", "dropped"},
         outcome = "acked" => pc = "ack", Answer(outcome), lost' = lost
  PROVE  IndInv'
<1>1. /\ TypeOK /\ ClientInv /\ AckInv /\ SendInv
      /\ pc' = "idle" /\ inHand' = NoBody
      /\ UNCHANGED <<link, lost, sent, buffer, batch, attempt, indexed,
                     failed, unsure, crashes, closed>>
      /\ place' \in {place, [place EXCEPT ![inHand] = outcome]}
      /\ inHand \in Bodies
  BY DEF IndInv, Answer, Settle, Goto, hecVars, TypeOK
<1>2. /\ place' \in [Bodies -> {"unsent", "ready", "held", "acked", "dropped"}]
      /\ \A b \in Bodies : place'[b] = place[b] \/ (b = inHand /\ place'[b] = outcome)
  <2>1. place \in [Bodies -> {"unsent", "ready", "held", "acked", "dropped"}]
    BY <1>1 DEF TypeOK
  <2>2. CASE place' = place
    BY <2>1, <2>2
  <2>3. CASE place' = [place EXCEPT ![inHand] = outcome]
    BY <1>1, <2>1, <2>3
  <2> QED
    BY <1>1, <2>2, <2>3
<1>3. TypeOK'
  <2>1. HEC!TypeOK'
    BY <1>1 DEF TypeOK, HEC!TypeOK
  <2> QED
    BY <1>1, <1>2, <2>1 DEF TypeOK
<1>4. ClientInv'
  BY <1>1 DEF ClientInv
<1>5. AckInv'
  <2>1. ASSUME NEW b \in Unaccounted' PROVE b \in Unaccounted
    <3>1. /\ b \in Bodies /\ place'[b] = "acked" /\ b \notin Range(buffer) \cup failed
      BY <1>1, <2>1 DEF Unaccounted
    <3>2. b = inHand /\ place'[b] = outcome => b \in Range(buffer) \cup failed
      BY <1>1, <3>1 DEF AckInv
    <3>3. place[b] = "acked"
      BY <1>2, <3>1, <3>2
    <3> QED
      BY <3>1, <3>3 DEF Unaccounted
  <2> QED
    BY <1>1, <2>1, AckStep DEF AckInv
<1>6. \A b \in Bodies : Chances(b)' <= Chances(b)
  BY <1>1, <1>2 DEF Chances
<1>7. SendInv'
  BY <1>1, <1>3, <1>6, SendStep
<1> QED
  BY <1>3, <1>4, <1>5, <1>7 DEF IndInv

LEMMA ExitInd ==
  ASSUME IndInv, Exit, lost' = lost
  PROVE  IndInv'
<1>1. /\ TypeOK /\ ClientInv /\ AckInv /\ SendInv
      /\ link' = "none" /\ pc' = "down" /\ inHand' = NoBody
      /\ UNCHANGED <<place, lost>>
      /\ HEC!Close
  BY DEF IndInv, Exit, Goto
<1>2. /\ closed' = TRUE /\ buffer' = <<>> /\ batch' = <<>>
      /\ failed' = failed \cup Range(buffer) /\ failed' \subseteq Bodies
      /\ UNCHANGED <<sent, attempt, indexed, unsure, crashes>>
  BY <1>1, CloseEffect
<1>3. TypeOK'
  <2>1. /\ <<>> \in Seq(Bodies) /\ <<>> \in Seq({}) /\ Len(<<>>) = 0
        /\ BatchSize \in Nat \ {0}
    BY ForwarderAssumption
  <2>2. closed' = TRUE => closed' \in BOOLEAN
    OBVIOUS
  <2>3. HEC!TypeOK'
    BY <1>1, <1>2, <2>1, <2>2 DEF TypeOK, HEC!TypeOK
  <2> QED
    BY <1>1, <2>3 DEF TypeOK
<1>4. ClientInv'
  BY <1>1, <1>2 DEF ClientInv
<1>5. AckInv'
  <2>1. Unaccounted' \subseteq Unaccounted
    BY <1>1, <1>2 DEF Unaccounted
  <2> QED
    BY <1>1, <1>2, <2>1, AckStep DEF AckInv
<1>6. \A b \in Bodies : Chances(b)' <= Chances(b)
  BY <1>1 DEF Chances
<1>7. SendInv'
  BY <1>1, <1>2, <1>3, <1>6, SendStep
<1> QED
  BY <1>3, <1>4, <1>5, <1>7 DEF IndInv

(* The chance that the body in hand was is used up by the send. *)
LEMMA ForwardInd ==
  ASSUME IndInv, Forward
  PROVE  IndInv'
<1> PICK c : c = inHand
  OBVIOUS
<1>1. /\ TypeOK /\ ClientInv /\ AckInv /\ SendInv
      /\ pc = "received" /\ pc' = "ack" /\ c \in Bodies /\ c = inHand
      /\ UNCHANGED <<place, inHand, link, lost>>
      /\ HEC!Send(c)
      /\ sent \in Seq(Bodies)
  BY DEF IndInv, Forward, Goto, TypeOK, HEC!TypeOK
<1>2. /\ sent' = Append(sent, c)
      /\ buffer' \in Seq(Bodies) /\ Len(buffer') < BatchSize
      /\ failed' \subseteq Bodies
      /\ Range(buffer) \cup failed \cup {c} \subseteq Range(buffer') \cup failed'
      /\ batch' = <<>>
      /\ UNCHANGED <<attempt, indexed, unsure, crashes, closed>>
  BY <1>1, SendEffect
<1>3. /\ sent' \in Seq(Bodies)
      /\ \A b : Count(sent', b) = Count(sent, b) + (IF b = c THEN 1 ELSE 0)
  BY <1>1, <1>2, AppendFacts
<1>4. TypeOK'
  <2>1. <<>> \in Seq({}) /\ Len(<<>>) = 0 /\ BatchSize \in Nat \ {0}
    BY ForwarderAssumption
  <2>2. HEC!TypeOK'
    BY <1>1, <1>2, <1>3, <2>1 DEF TypeOK, HEC!TypeOK
  <2> QED
    BY <1>1, <2>2 DEF TypeOK
<1>5. ClientInv'
  BY <1>1, <1>2 DEF ClientInv
<1>6. AckInv'
  <2>1. Unaccounted' \subseteq Unaccounted
    BY <1>1, <1>2 DEF Unaccounted
  <2> QED
    BY <1>1, <1>2, <2>1, AckStep DEF AckInv
<1>7. SendInv'
  <2>1. ASSUME NEW b \in Bodies
        PROVE  Count(sent', b) + Chances(b)' <= 1 + lost' + crashes'
    <3>1. Count(sent, b) + Chances(b) <= 1 + lost + crashes
      BY <1>1 DEF SendInv
    <3>2. /\ Count(sent, b) \in Nat /\ Chances(b) \in Nat /\ Chances(b)' \in Nat
          /\ lost \in Nat /\ crashes \in Nat
      <4>1. Chances(b)' \in Nat
        BY DEF Chances
      <4> QED
        BY <1>1, <4>1, CountTypes
    <3>3. Chances(b) = Chances(b)' + (IF b = c THEN 1 ELSE 0)
      BY <1>1 DEF Chances
    <3>4. Count(sent', b) = Count(sent, b) + (IF b = c THEN 1 ELSE 0)
      BY <1>3
    <3> QED
      BY <1>1, <1>2, <3>1, <3>2, <3>3, <3>4
  <2> QED
    BY <2>1 DEF SendInv, Count
<1> QED
  BY <1>4, <1>5, <1>6, <1>7 DEF IndInv

LEMMA LoseConnectionInd ==
  ASSUME IndInv, LoseConnection
  PROVE  IndInv'
<1>1. /\ TypeOK /\ ClientInv /\ AckInv /\ SendInv
      /\ lost < MaxLost /\ lost' = lost + 1 /\ link = "up" /\ link' = "broken"
      /\ place' = Requeued
      /\ UNCHANGED <<pc, inHand, sent, buffer, batch, attempt, indexed,
                     failed, unsure, crashes, closed>>
  BY DEF IndInv, LoseConnection, hecVars
<1>2. /\ place' \in [Bodies -> {"unsent", "ready", "held", "acked", "dropped"}]
      /\ \A b \in Bodies : place'[b] = IF place[b] = "held" THEN "ready" ELSE place[b]
  BY <1>1 DEF Requeued, TypeOK
<1>3. TypeOK'
  <2>1. HEC!TypeOK'
    BY <1>1 DEF TypeOK, HEC!TypeOK
  <2>2. lost' \in 0 .. MaxLost
    BY <1>1, ForwarderAssumption DEF TypeOK
  <2> QED
    BY <1>1, <1>2, <2>1, <2>2 DEF TypeOK
<1>4. ClientInv'
  BY <1>1 DEF ClientInv
<1>5. AckInv'
  <2>1. Unaccounted' \subseteq Unaccounted
    BY <1>1, <1>2 DEF Unaccounted
  <2> QED
    BY <1>1, <2>1, AckStep DEF AckInv
<1>6. \A b \in Bodies : Chances(b)' <= Chances(b) + 1
  BY <1>1, <1>2 DEF Chances
<1>7. SendInv'
  BY <1>1, <1>3, <1>6, SendStep
<1> QED
  BY <1>3, <1>4, <1>5, <1>7 DEF IndInv

(* A crash loses what is in the buffer, which is less than a batch. *)
LEMMA CrashInd ==
  ASSUME IndInv, Crash
  PROVE  IndInv'
<1>1. /\ TypeOK /\ ClientInv /\ AckInv /\ SendInv
      /\ pc' = "down" /\ inHand' = NoBody /\ link' = "none" /\ lost' = lost
      /\ place' = Requeued
      /\ crashes < MaxCrashes /\ crashes' = crashes + 1
      /\ buffer' = <<>> /\ batch' = <<>> /\ attempt' = 0 /\ closed' = FALSE
      /\ UNCHANGED <<sent, indexed, failed, unsure>>
      /\ buffer \in Seq(Bodies) /\ Len(buffer) < BatchSize
  BY DEF IndInv, Crash, Goto, HEC!Crash, HEC!Settle, TypeOK, HEC!TypeOK
<1>2. /\ place' \in [Bodies -> {"unsent", "ready", "held", "acked", "dropped"}]
      /\ \A b \in Bodies : place'[b] = IF place[b] = "held" THEN "ready" ELSE place[b]
  BY <1>1 DEF Requeued, TypeOK
<1>3. TypeOK'
  <2>1. /\ <<>> \in Seq(Bodies) /\ <<>> \in Seq({}) /\ Len(<<>>) = 0
        /\ BatchSize \in Nat \ {0} /\ 0 \in 0 .. (3 - 1)
    BY ForwarderAssumption
  <2>2. closed' = FALSE => closed' \in BOOLEAN
    OBVIOUS
  <2>3. crashes' \in 0 .. MaxCrashes
    BY <1>1, ForwarderAssumption DEF TypeOK, HEC!TypeOK
  <2>4. HEC!TypeOK'
    BY <1>1, <2>1, <2>2, <2>3 DEF TypeOK, HEC!TypeOK
  <2> QED
    BY <1>1, <1>2, <2>4 DEF TypeOK
<1>4. ClientInv'
  BY <1>1 DEF ClientInv
<1>5. AckInv'
  <2>1. Unaccounted' \subseteq Unaccounted \cup Range(buffer)
    BY <1>1, <1>2 DEF Unaccounted
  <2>2. /\ IsFiniteSet(Unaccounted) /\ Cardinality(Unaccounted) <= crashes * BatchSize
        /\ Cardinality(Unaccounted) \in Nat
    <3>1. IsFiniteSet(Unaccounted) /\ Cardinality(Unaccounted) <= crashes * BatchSize
      BY <1>1 DEF AckInv, AckedIsAccountedFor, Unaccounted
    <3> QED
      BY <3>1, FS_CardinalityType
  <2>3. /\ IsFiniteSet(Range(buffer)) /\ Cardinality(Range(buffer)) \in Nat
        /\ Cardinality(Range(buffer)) <= BatchSize
    BY <1>1, RangeFacts, ForwarderAssumption
  <2>4. /\ IsFiniteSet(Unaccounted \cup Range(buffer))
        /\ Cardinality(Unaccounted \cup Range(buffer)) \in Nat
        /\ Cardinality(Unaccounted \cup Range(buffer))
             <= Cardinality(Unaccounted) + Cardinality(Range(buffer))
    <3>1. IsFiniteSet(Unaccounted \cap Range(buffer))
      BY <2>2, <2>3, FS_Intersection
    <3>2. Cardinality(Unaccounted \cap Range(buffer)) \in Nat
      BY <3>1, FS_CardinalityType
    <3>3. /\ IsFiniteSet(Unaccounted \cup Range(buffer))
          /\ Cardinality(Unaccounted \cup Range(buffer))
               = Cardinality(Unaccounted) + Cardinality(Range(buffer))
                   - Cardinality(Unaccounted \cap Range(buffer))
      BY <2>2, <2>3, FS_Union
    <3>4. Cardinality(Unaccounted \cup Range(buffer)) \in Nat
      BY <3>3, FS_CardinalityType
    <3> QED
      BY <2>2, <2>3, <3>2, <3>3, <3>4
  <2>5. /\ IsFiniteSet(Unaccounted')
        /\ Cardinality(Unaccounted') <= Cardinality(Unaccounted \cup Range(buffer))
    BY <2>1, <2>4, FS_Subset
  <2>6. Cardinality(Unaccounted') \in Nat
    BY <2>5, FS_CardinalityType
  <2>7. crashes \in Nat /\ BatchSize \in Nat
    BY <1>1, CountTypes, ForwarderAssumption
  <2>8. crashes * BatchSize \in Nat /\ crashes' * BatchSize = crashes * BatchSize + BatchSize
    BY <1>1, <2>7
  <2>9. Cardinality(Unaccounted') <= crashes' * BatchSize
    BY <2>2, <2>3, <2>4, <2>5, <2>6, <2>7, <2>8
  <2> QED
    BY <1>1, <2>5, <2>9 DEF AckInv, AckedIsAccountedFor, Unaccounted
<1>6. \A b \in Bodies : Chances(b)' <= Chances(b) + 1
  BY <1>1, <1>2 DEF Chances
<1>7. SendInv'
  BY <1>1, <1>3, <1>6, SendStep
<1> QED
  BY <1>3, <1>4, <1>5, <1>7 DEF IndInv

LEMMA NextInd == IndInv /\ [Next]_vars => IndInv'
<1> SUFFICES ASSUME IndInv, [Next]_vars PROVE IndInv'
  OBVIOUS
<1>1. CASE Start
  BY <1>1, StartInd
<1>2. ASSUME NEW b \in Bodies, Publish(b) PROVE IndInv'
  BY <1>2, PublishInd
<1>3. ASSUME NEW b \in Bodies, Deliver(b) PROVE IndInv'
  BY <1>3, DeliverInd
<1>4. CASE Reject
  BY <1>4, AnswerInd, ExitInd DEF Reject
<1>5. CASE Forward
  BY <1>5, ForwardInd
<1>6. CASE Ack
  BY <1>6, AnswerInd, ExitInd DEF Ack
<1>7. CASE NoticeLoss
  BY <1>7, ExitInd DEF NoticeLoss
<1>8. CASE LoseConnection
  BY <1>8, LoseConnectionInd
<1>9. CASE Crash
  BY <1>9, CrashInd
<1>10. CASE UNCHANGED vars
  BY <1>10 DEF vars, hecVars, IndInv, TypeOK, HEC!TypeOK, ClientInv, AckInv, Unaccounted,
               AckedIsAccountedFor, SendInv, Count, Chances
<1> QED
  BY <1>1, <1>2, <1>3, <1>4, <1>5, <1>6, <1>7, <1>8, <1>9, <1>10 DEF Next, Handle

-------------------------------------------------------------------------------
(* The theorems. *)

(* The thread, its connection and its client stay in step through lost     *)
(* connections and crashes.                                                *)
THEOREM Invariance == Spec => []IndInv
BY InitInd, NextInd, PTL DEF Spec

(* A thread that is idle or down has nothing in hand, and only a thread    *)
(* that is down has no connection.                                         *)
THEOREM TypeCorrect == Spec => []TypeOK
<1>1. IndInv => TypeOK
  BY DEF IndInv
<1> QED
  BY <1>1, Invariance, PTL

(* An alert that was acked is in the buffer or in a batch whose failure    *)
(* was logged, but for one batch per crash.                                *)
THEOREM AcksAreAccountedFor == Spec => []AckedIsAccountedFor
<1>1. IndInv => AckedIsAccountedFor
  BY DEF IndInv, AckInv
<1> QED
  BY <1>1, Invariance, PTL

(* No alert is given to the Splunk client more often than it is delivered, *)
(* and only a lost connection or a crash delivers it again.                *)
THEOREM SendsAreBounded == Spec => []SentOncePerDelivery
<1>1. IndInv => SentOncePerDelivery
  <2> SUFFICES ASSUME IndInv, NEW b \in Bodies PROVE Count(sent, b) <= 1 + lost + crashes
    BY DEF SentOncePerDelivery, Count
  <2>1. Count(sent, b) + Chances(b) <= 1 + lost + crashes
    BY DEF IndInv, SendInv
  <2>2. Count(sent, b) \in Nat /\ Chances(b) \in Nat /\ lost \in Nat /\ crashes \in Nat
    BY CountTypes DEF IndInv
  <2> QED
    BY <2>1, <2>2
<1> QED
  BY <1>1, Invariance, PTL

===============================================================================
