--------------------------- MODULE SplunkHECProofs ----------------------------
(***************************************************************************)
(* Proofs about SplunkHEC, for any events, any batch size, any number of   *)
(* attempts and any number of crashes.                                     *)
(***************************************************************************)
EXTENDS SplunkHEC, FiniteSetTheorems, SequenceTheorems, WellFoundedInduction, TLAPS

-------------------------------------------------------------------------------
(* Sequences. *)

(* A non-empty set of naturals has a least element. *)
LEMMA LeastExists ==
  ASSUME NEW T \in SUBSET Nat, T # {}
  PROVE  \E i \in T : \A j \in T : i <= j
<1>1. PICK i \in T : \A j \in T : <<j, i>> \notin OpToRel(<, Nat)
  BY NatLessThanWellFounded, WFMin, Zenon
<1>2. \A j \in T : ~ (j < i)
  BY <1>1 DEF OpToRel
<1> QED
  BY <1>2

(* What occurs in a sequence, it has a first occurrence of. *)
LEMMA FirstAtIs ==
  ASSUME NEW s \in Seq(Events), NEW x \in Range(s)
  PROVE  /\ FirstAt(s, x) \in 1..Len(s)
         /\ s[FirstAt(s, x)] = x
         /\ \A i \in 1..Len(s) : s[i] = x => FirstAt(s, x) <= i
<1>1. DOMAIN s = 1..Len(s) /\ Len(s) \in Nat
  BY LenProperties
<1> DEFINE T == {i \in 1..Len(s) : s[i] = x}
<1>2. T \in SUBSET Nat /\ T # {}
  BY <1>1 DEF Range
<1>3. PICK k \in T : \A j \in T : k <= j
  BY <1>2, LeastExists
<1>4. k \in DOMAIN s /\ s[k] = x /\ \A j \in 1 .. (k - 1) : s[j] # x
  BY <1>1, <1>3
<1> DEFINE f == FirstAt(s, x)
<1>5. f \in DOMAIN s /\ s[f] = x /\ \A j \in 1 .. (f - 1) : s[j] # x
  BY <1>4 DEF FirstAt
<1> HIDE DEF f
<1>6. ASSUME NEW i \in 1..Len(s), s[i] = x PROVE f <= i
  BY <1>1, <1>5, <1>6
<1> QED
  BY <1>1, <1>5, <1>6 DEF f

(* And no other place is one. *)
LEMMA FirstAtUnique ==
  ASSUME NEW s \in Seq(Events), NEW i \in 1..Len(s),
         \A j \in 1..Len(s) : s[j] = s[i] => i <= j
  PROVE  FirstAt(s, s[i]) = i
<1>1. DOMAIN s = 1..Len(s) /\ Len(s) \in Nat
  BY LenProperties
<1>2. s[i] \in Range(s)
  BY <1>1 DEF Range
<1>3. /\ FirstAt(s, s[i]) \in 1..Len(s)
      /\ s[FirstAt(s, s[i])] = s[i]
      /\ FirstAt(s, s[i]) <= i
  BY <1>2, FirstAtIs
<1> QED
  BY <1>1, <1>3

(* Ranges. *)
LEMMA Ranges ==
  /\ Range(<<>>) = {}
  /\ \A s \in Seq(Events) :
       /\ Range(s) = {s[i] : i \in 1..Len(s)}
       /\ Range(s) \subseteq Events
       /\ \A x \in Events : Range(Append(s, x)) = Range(s) \cup {x}
       /\ \A t \in Seq(Events) : Range(s \o t) = Range(s) \cup Range(t)
       /\ s # <<>> <=> Range(s) # {}
<1>1. Range(<<>>) = {}
  BY DEF Range
<1>2. ASSUME NEW s \in Seq(Events)
      PROVE  /\ Range(s) = {s[i] : i \in 1..Len(s)} /\ Range(s) \subseteq Events
             /\ s # <<>> <=> Range(s) # {}
  <2>1. DOMAIN s = 1..Len(s) /\ Len(s) \in Nat /\ \A i \in 1..Len(s) : s[i] \in Events
    BY LenProperties, ElementOfSeq
  <2>2. s # <<>> => Len(s) # 0
    BY EmptySeq
  <2> QED
    BY <2>1, <2>2 DEF Range
<1>3. ASSUME NEW s \in Seq(Events), NEW x \in Events
      PROVE  Range(Append(s, x)) = Range(s) \cup {x}
  <2>1. /\ Append(s, x) \in Seq(Events) /\ Len(Append(s, x)) = Len(s) + 1 /\ Len(s) \in Nat
        /\ \A i \in 1..Len(s) : Append(s, x)[i] = s[i]
        /\ Append(s, x)[Len(s) + 1] = x
    BY AppendProperties, LenProperties
  <2>2. \A i \in 1..(Len(s) + 1) : i \in 1..Len(s) \/ i = Len(s) + 1
    BY <2>1
  <2>3. Range(Append(s, x)) = {Append(s, x)[i] : i \in 1..(Len(s) + 1)}
    BY <1>2, <2>1
  <2>4. ASSUME NEW y \in Range(s) PROVE y \in Range(Append(s, x))
    BY <1>2, <2>1, <2>3
  <2> QED
    BY <1>2, <2>1, <2>2, <2>3, <2>4
<1>4. ASSUME NEW s \in Seq(Events), NEW t \in Seq(Events)
      PROVE  Range(s \o t) = Range(s) \cup Range(t)
  <2>1. /\ s \o t \in Seq(Events) /\ Len(s \o t) = Len(s) + Len(t)
        /\ Len(s) \in Nat /\ Len(t) \in Nat
        /\ \A i \in 1..Len(s \o t) :
             (s \o t)[i] = IF i <= Len(s) THEN s[i] ELSE t[i - Len(s)]
    BY ConcatProperties, LenProperties
  <2>5. Range(s \o t) = {(s \o t)[i] : i \in 1..Len(s \o t)}
    BY <2>1, LenProperties DEF Range
  <2>2. ASSUME NEW x \in Range(s \o t) PROVE x \in Range(s) \cup Range(t)
    <3>1. PICK i \in 1..Len(s \o t) : (s \o t)[i] = x
      BY <2>5
    <3>2. CASE i <= Len(s)
      BY <1>2, <2>1, <3>1, <3>2
    <3>3. CASE ~ (i <= Len(s))
      <4>1. i - Len(s) \in 1..Len(t) /\ t[i - Len(s)] = x
        BY <2>1, <3>1, <3>3
      <4> QED
        BY <1>2, <4>1
    <3> QED
      BY <3>2, <3>3
  <2>3. ASSUME NEW x \in Range(s) PROVE x \in Range(s \o t)
    <3>1. PICK i \in 1..Len(s) : s[i] = x
      BY <1>2
    <3>2. i \in 1..Len(s \o t) /\ (s \o t)[i] = x
      BY <2>1, <3>1
    <3> QED
      BY <1>2, <2>1, <3>2
  <2>4. ASSUME NEW x \in Range(t) PROVE x \in Range(s \o t)
    <3>1. PICK i \in 1..Len(t) : t[i] = x
      BY <1>2
    <3>2. Len(s) + i \in 1..Len(s \o t) /\ (s \o t)[Len(s) + i] = x
      BY <2>1, <3>1
    <3> QED
      BY <1>2, <2>1, <3>2
  <2> QED
    BY <2>2, <2>3, <2>4
<1> QED
  BY <1>1, <1>2, <1>3, <1>4

(* A first occurrence stays one when a sequence grows, and what is new     *)
(* comes first where it was added.                                         *)
LEMMA FirstAtConcat ==
  ASSUME NEW s \in Seq(Events), NEW t \in Seq(Events)
  PROVE  /\ \A x \in Range(s) : FirstAt(s \o t, x) = FirstAt(s, x)
         /\ IsInjective(t) =>
              \A j \in 1..Len(t) : t[j] \notin Range(s) => FirstAt(s \o t, t[j]) = Len(s) + j
<1> DEFINE u == s \o t
<1>1. /\ u \in Seq(Events) /\ Len(u) = Len(s) + Len(t)
      /\ Len(s) \in Nat /\ Len(t) \in Nat
      /\ \A i \in 1..Len(s) : u[i] = s[i]
      /\ \A j \in 1..Len(t) : u[Len(s) + j] = t[j]
  BY ConcatProperties, LenProperties
<1> HIDE DEF u
<1>2. ASSUME NEW i \in 1..Len(u), ~ (i <= Len(s))
      PROVE  \E j \in 1..Len(t) : i = Len(s) + j
  <2>1. i - Len(s) \in 1..Len(t) /\ i = Len(s) + (i - Len(s))
    BY <1>1, <1>2
  <2> QED
    BY <2>1
<1>3. ASSUME NEW x \in Range(s) PROVE FirstAt(u, x) = FirstAt(s, x)
  <2> DEFINE f == FirstAt(s, x)
  <2>1. f \in 1..Len(s) /\ s[f] = x /\ \A i \in 1..Len(s) : s[i] = x => f <= i
    BY FirstAtIs
  <2> HIDE DEF f
  <2>2. f \in 1..Len(u) /\ u[f] = x
    BY <1>1, <2>1
  <2>3. ASSUME NEW i \in 1..Len(u), u[i] = u[f] PROVE f <= i
    <3>1. CASE i <= Len(s)
      <4>1. i \in 1..Len(s) /\ s[i] = x
        BY <1>1, <2>2, <2>3, <3>1
      <4> QED
        BY <2>1, <4>1
    <3>2. CASE ~ (i <= Len(s))
      BY <1>1, <2>1, <3>2
    <3> QED
      BY <3>1, <3>2
  <2>4. \A i \in 1..Len(u) : u[i] = u[f] => f <= i
    BY <2>3
  <2>5. FirstAt(u, u[f]) = f
    BY <1>1, <2>2, <2>4, FirstAtUnique
  <2> QED
    BY <2>2, <2>5 DEF f
<1>4. ASSUME IsInjective(t), NEW j \in 1..Len(t), t[j] \notin Range(s)
      PROVE  FirstAt(u, t[j]) = Len(s) + j
  <2>1. Len(s) + j \in 1..Len(u) /\ u[Len(s) + j] = t[j]
    BY <1>1
  <2>2. ASSUME NEW i \in 1..Len(u), u[i] = t[j] PROVE Len(s) + j <= i
    <3>1. CASE i <= Len(s)
      <4>1. i \in 1..Len(s) /\ s[i] = t[j]
        BY <1>1, <2>2, <3>1
      <4>2. Range(s) = {s[k] : k \in 1..Len(s)}
        BY Ranges
      <4> QED
        BY <1>4, <4>1, <4>2
    <3>2. CASE ~ (i <= Len(s))
      <4>1. PICK k \in 1..Len(t) : i = Len(s) + k
        BY <1>2, <3>2
      <4>2. t[k] = t[j]
        BY <1>1, <2>2, <4>1
      <4>3. k = j
        BY <1>4, <4>2, LenProperties DEF IsInjective
      <4> QED
        BY <1>1, <4>1, <4>3
    <3> QED
      BY <3>1, <3>2
  <2> QED
    BY <1>1, <2>1, <2>2, FirstAtUnique
<1> QED
  BY <1>3, <1>4 DEF u

(* Sending an event that was never sent leaves the places of the others.   *)
LEMMA PlaceAppend ==
  ASSUME NEW s \in Seq(Events), IsInjective(s), NEW x \in Events \ Range(s)
  PROVE  /\ Append(s, x) \in Seq(Events) /\ IsInjective(Append(s, x))
         /\ \A y \in Range(s) :
              /\ FirstAt(Append(s, x), y) = FirstAt(s, y)
              /\ FirstAt(Append(s, x), y) < FirstAt(Append(s, x), x)
<1>1. /\ Append(s, x) \in Seq(Events) /\ Len(Append(s, x)) = Len(s) + 1 /\ Len(s) \in Nat
      /\ DOMAIN s = 1..Len(s) /\ DOMAIN Append(s, x) = 1..(Len(s) + 1)
      /\ \A i \in 1..Len(s) : Append(s, x)[i] = s[i]
      /\ Append(s, x)[Len(s) + 1] = x
  BY AppendProperties, LenProperties
<1>2. IsInjective(Append(s, x))
  <2>1. \A i \in 1..Len(s) : s[i] # x
    BY <1>1 DEF Range
  <2> QED
    BY <1>1, <2>1 DEF IsInjective
<1>3. Append(s, x) = s \o <<x>> /\ <<x>> \in Seq(Events)
  BY AppendIsConcat
<1>4. ASSUME NEW y \in Range(s)
      PROVE  FirstAt(Append(s, x), y) = FirstAt(s, y) /\ FirstAt(s, y) \in 1..Len(s)
  <2>1. FirstAt(s \o <<x>>, y) = FirstAt(s, y)
    BY <1>3, FirstAtConcat
  <2> QED
    BY <1>3, <2>1, FirstAtIs
<1>5. FirstAt(Append(s, x), x) = Len(s) + 1
  <2>1. \A i \in 1..(Len(s) + 1) : Append(s, x)[i] = Append(s, x)[Len(s) + 1] => Len(s) + 1 <= i
    BY <1>1, <1>2 DEF IsInjective
  <2>2. FirstAt(Append(s, x), Append(s, x)[Len(s) + 1]) = Len(s) + 1
    <3> PICK u \in Seq(Events) : u = Append(s, x)
      BY <1>1
    <3>1. Len(s) + 1 \in 1..Len(u)
      BY <1>1
    <3> QED
      BY <2>1, <1>1, <3>1, FirstAtUnique
  <2> QED
    BY <1>1, <2>2
<1> QED
  BY <1>1, <1>2, <1>4, <1>5

(* How often an event occurs. *)
Count(s, x) == Cardinality({i \in DOMAIN s : s[i] = x})

LEMMA CountFacts ==
  ASSUME NEW s \in Seq(Events), NEW x
  PROVE  /\ Count(s, x) \in Nat
         /\ x \notin Range(s) => Count(s, x) = 0
         /\ \A t \in Seq(Events) :
              IsInjective(t) => Count(s \o t, x) = Count(s, x) + (IF x \in Range(t) THEN 1 ELSE 0)
<1> DEFINE At(w) == {i \in DOMAIN w : w[i] = x}
<1>1. DOMAIN s = 1..Len(s) /\ Len(s) \in Nat
  BY LenProperties
<1>2. IsFiniteSet(At(s)) /\ Cardinality(At(s)) \in Nat
  <2>1. IsFiniteSet(1..Len(s)) /\ At(s) \in SUBSET (1..Len(s))
    BY <1>1, FS_Interval
  <2>2. IsFiniteSet(At(s))
    BY <2>1, FS_Subset
  <2> QED
    BY <2>2, FS_CardinalityType
<1>3. x \notin Range(s) => At(s) = {}
  BY DEF Range
<1>4. ASSUME NEW t \in Seq(Events), IsInjective(t)
      PROVE  Cardinality(At(s \o t)) = Cardinality(At(s)) + (IF x \in Range(t) THEN 1 ELSE 0)
  <2>1. /\ DOMAIN t = 1..Len(t) /\ Len(t) \in Nat
        /\ DOMAIN (s \o t) = 1..(Len(s) + Len(t))
        /\ \A i \in 1..Len(s) : (s \o t)[i] = s[i]
        /\ \A i \in 1..(Len(s) + Len(t)) : ~ (i <= Len(s)) =>
             i - Len(s) \in 1..Len(t) /\ (s \o t)[i] = t[i - Len(s)]
        /\ \A j \in 1..Len(t) : (s \o t)[Len(s) + j] = t[j]
    BY <1>1, ConcatProperties, LenProperties
  <2>2. CASE x \notin Range(t)
    <3>1. \A j \in 1..Len(t) : t[j] # x
      BY <2>1, <2>2 DEF Range
    <3>2. At(s \o t) = At(s)
      BY <1>1, <2>1, <3>1
    <3> HIDE DEF At
    <3> QED
      BY <1>2, <2>2, <3>2
  <2>3. CASE x \in Range(t)
    <3>1. PICK j \in 1..Len(t) : t[j] = x
      BY <2>1, <2>3 DEF Range
    <3>2. \A k \in 1..Len(t) : t[k] = x => k = j
      BY <1>4, <2>1, <3>1 DEF IsInjective
    <3>3. \A i \in 1..(Len(s) + Len(t)) :
            (s \o t)[i] = x <=> (i \in 1..Len(s) /\ s[i] = x) \/ i = Len(s) + j
      <4> TAKE i \in 1..(Len(s) + Len(t))
      <4>1. CASE i <= Len(s)
        BY <1>1, <2>1, <4>1
      <4>2. CASE ~ (i <= Len(s))
        <5>1. i - Len(s) \in 1..Len(t) /\ (s \o t)[i] = t[i - Len(s)]
          BY <2>1, <4>2
        <5>2. t[i - Len(s)] = x <=> i - Len(s) = j
          BY <3>1, <3>2, <5>1
        <5>3. i - Len(s) = j <=> i = Len(s) + j
          BY <1>1, <2>1
        <5> QED
          BY <1>1, <4>2, <5>1, <5>2, <5>3
      <4> QED
        BY <4>1, <4>2
    <3>4. At(s \o t) = At(s) \cup {Len(s) + j} /\ Len(s) + j \notin At(s)
      BY <1>1, <2>1, <3>3
    <3> HIDE DEF At
    <3> QED
      BY <1>2, <2>3, <3>4, FS_AddElement
  <2> QED
    BY <2>2, <2>3
<1>5. \A w : Count(w, x) = Cardinality(At(w))
  BY DEF Count
<1> HIDE DEF At
<1> QED
  BY <1>2, <1>3, <1>4, <1>5, FS_EmptySet

(* A sequence has at most as many elements as places. *)
LEMMA RangeIsSmall ==
  ASSUME NEW s \in Seq(Events)
  PROVE  IsFiniteSet(Range(s)) /\ Cardinality(Range(s)) <= Len(s)
<1>1. s \in Surjection(1..Len(s), Range(s))
  BY LenProperties DEF Surjection, Range
<1>2. IsFiniteSet(1..Len(s)) /\ Cardinality(1..Len(s)) = Len(s)
  <2>1. Len(s) \in Nat
    BY LenProperties
  <2> QED
    BY <2>1, FS_Interval
<1> QED
  BY <1>1, <1>2, FS_Surjection

-------------------------------------------------------------------------------
(* The inductive invariant. *)

Place(e) == FirstAt(sent, e)

InOrder(s) ==
  \A i, j \in DOMAIN s : i < j => Place(s[i]) < Place(s[j])

AllBefore(D, E) == \A d \in D, e \in E : Place(d) < Place(e)

(* One of buffer and batch is in use, for events that were sent. *)
MemoryInv ==
  /\ batch = <<>> \/ buffer = <<>>
  /\ IsInjective(sent)
  /\ Held \cup Range(indexed) \subseteq Range(sent)

(* The batch in hand was indexed at most once for each time it was posted, *)
(* and no answer said so.                                                  *)
CopiesInv ==
  /\ \A e \in Range(batch) : Copies(e) <= attempt /\ Copies(e) <= unsure
  /\ DuplicatesNeedLostAnswers

(* What is in memory was sent after everything that was indexed, but for a *)
(* batch that was indexed without an answer.                               *)
OrderInv ==
  /\ InOrder(buffer) /\ InOrder(batch)
  /\ AllBefore(Range(indexed), Range(buffer))
  /\ Range(batch) \subseteq Range(indexed) \/ AllBefore(Range(indexed), Range(batch))
  /\ FirstSeenInOrder

IndInv == TypeOK /\ MemoryInv /\ CrashesLoseOneBatch /\ CopiesInv /\ OrderInv

-------------------------------------------------------------------------------
(* What the steps keep. *)

(* Sequences in the order of sending repeat nothing. *)
LEMMA InOrderInjective ==
  ASSUME TypeOK, NEW s \in Seq(Events), Range(s) \subseteq Range(sent), InOrder(s)
  PROVE  IsInjective(s)
<1>1. DOMAIN s = 1..Len(s) /\ Len(s) \in Nat
  BY LenProperties
<1>2. ASSUME NEW i \in 1..Len(s) PROVE Place(s[i]) \in Nat
  <2>1. s[i] \in Range(sent) /\ sent \in Seq(Events)
    BY <1>1 DEF Range, TypeOK
  <2>2. FirstAt(sent, s[i]) \in 1..Len(sent)
    BY <2>1, FirstAtIs
  <2> QED
    BY <2>2 DEF Place
<1>3. ASSUME NEW i \in 1..Len(s), NEW j \in 1..Len(s), i < j PROVE s[i] # s[j]
  <2>1. Place(s[i]) < Place(s[j])
    BY <1>1, <1>3 DEF InOrder
  <2>2. Place(s[i]) \in Nat /\ Place(s[j]) \in Nat
    BY <1>2
  <2>3. Place(s[i]) # Place(s[j])
    BY <2>1, <2>2
  <2> QED
    BY <2>3
<1>4. ASSUME NEW i \in 1..Len(s), NEW j \in 1..Len(s), s[i] = s[j] PROVE i = j
  BY <1>1, <1>3, <1>4
<1> QED
  BY <1>1, <1>4 DEF IsInjective

(* An order that holds goes on to hold when places stay what they are. *)
LEMMA OrderKept ==
  ASSUME \A x \in Range(sent) : Place(x)' = Place(x)
  PROVE  /\ \A s : Range(s) \subseteq Range(sent) /\ InOrder(s) => InOrder(s)'
         /\ \A D, E \in SUBSET Range(sent) : AllBefore(D, E) => AllBefore(D, E)'
         /\ FirstSeenInOrder /\ indexed' = indexed /\ Range(indexed) \subseteq Range(sent)
              => FirstSeenInOrder'
<1>1. ASSUME NEW s, Range(s) \subseteq Range(sent), InOrder(s) PROVE InOrder(s)'
  BY <1>1 DEF InOrder, Range
<1>2. ASSUME NEW D \in SUBSET Range(sent), NEW E \in SUBSET Range(sent), AllBefore(D, E)
      PROVE  AllBefore(D, E)'
  BY <1>2 DEF AllBefore
<1>3. ASSUME FirstSeenInOrder, indexed' = indexed, Range(indexed) \subseteq Range(sent)
      PROVE  FirstSeenInOrder'
  BY <1>3 DEF FirstSeenInOrder, Place
<1> QED
  BY <1>1, <1>2, <1>3

(* Sets that come one before the other have nothing in common. *)
LEMMA BeforeIsApart ==
  ASSUME sent \in Seq(Events), NEW D \in SUBSET Range(sent), NEW E, AllBefore(D, E)
  PROVE  D \cap E = {}
<1>1. ASSUME NEW x \in D PROVE ~ (Place(x) < Place(x))
  <2>1. FirstAt(sent, x) \in 1..Len(sent)
    BY FirstAtIs
  <2>2. FirstAt(sent, x) \in Int
    BY <2>1
  <2> QED
    BY <2>2 DEF Place
<1> QED
  BY <1>1 DEF AllBefore

LEMMA VanishedFacts ==
  ASSUME sent \in Seq(Events)
  PROVE  IsFiniteSet(Vanished) /\ Cardinality(Vanished) \in Nat
<1>1. IsFiniteSet(Range(sent)) /\ Vanished \in SUBSET Range(sent)
  BY RangeIsSmall DEF Vanished
<1>2. IsFiniteSet(Vanished)
  BY <1>1, FS_Subset
<1> QED
  BY <1>2, FS_CardinalityType

LEMMA VanishedStep ==
  ASSUME TypeOK, CrashesLoseOneBatch, Vanished' \subseteq Vanished, crashes' = crashes
  PROVE  CrashesLoseOneBatch'
<1>1. /\ IsFiniteSet(Vanished) /\ Cardinality(Vanished) \in Nat
      /\ crashes * BatchSize \in Nat
  BY VanishedFacts, SplunkAssumption DEF TypeOK
<1>2. IsFiniteSet(Vanished') /\ Cardinality(Vanished') <= Cardinality(Vanished)
  BY <1>1, FS_Subset
<1>3. Cardinality(Vanished') \in Nat
  BY <1>2, FS_CardinalityType
<1>4. Cardinality(Vanished') <= crashes * BatchSize
  BY <1>1, <1>2, <1>3 DEF CrashesLoseOneBatch
<1> QED
  BY <1>4 DEF CrashesLoseOneBatch

(* What send() and close() leave in memory, flushed or not. *)
LEMMA MemoryStep ==
  ASSUME TypeOK, MemoryInv, CrashesLoseOneBatch, CopiesInv, batch = <<>>,
         NEW b \in Seq(Events), Len(b) <= BatchSize,
         Range(b) \cap Range(indexed) = {}, Range(buffer) \subseteq Range(b),
         sent' \in Seq(Events), IsInjective(sent'), Range(sent') = Range(sent) \cup Range(b),
         InOrder(b)', AllBefore(Range(indexed), Range(b))', FirstSeenInOrder',
         closed' \in BOOLEAN, UNCHANGED <<indexed, unsure, crashes>>,
         \/ Flush(b)
         \/ Len(b) < BatchSize /\ buffer' = b /\ UNCHANGED <<batch, attempt, failed>>
  PROVE  IndInv'
<1> USE DEF Held
<1>1. /\ Range(<<>>) = {} /\ <<>> \in Seq(Events) /\ <<>> \in Seq(Serialisable)
      /\ Len(<<>>) = 0 /\ InOrder(<<>>)'
  BY Ranges DEF InOrder
<1>2. BatchSize \in Nat \ {0} /\ 0 \in 0 .. (MaxAttempts - 1)
  BY SplunkAssumption
<1>3. CASE buffer' = b /\ Len(b) < BatchSize /\ UNCHANGED <<batch, attempt, failed>>
  <2>1. Vanished' \subseteq Vanished
    BY <1>1, <1>3 DEF Vanished
  <2>2. TypeOK'
    BY <1>1, <1>2, <1>3 DEF TypeOK
  <2>3. MemoryInv'
    BY <1>1, <1>3 DEF MemoryInv
  <2>4. CopiesInv'
    BY <1>1, <1>3 DEF CopiesInv, DuplicatesNeedLostAnswers, Copies
  <2>5. OrderInv'
    BY <1>1, <1>3 DEF OrderInv, AllBefore
  <2> QED
    BY <2>1, <2>2, <2>3, <2>4, <2>5, VanishedStep DEF IndInv
<1>4. CASE /\ Range(b) \subseteq Serialisable /\ buffer' = <<>>
           /\ batch' = b /\ attempt' = 0 /\ UNCHANGED failed
  <2>1. Vanished' \subseteq Vanished
    BY <1>1, <1>4 DEF Vanished
  <2>2. TypeOK'
    <3>1. b \in Seq(Serialisable)
      <4>1. \A i \in 1..Len(b) : b[i] \in Serialisable
        BY <1>4, Ranges
      <4>2. Len(b) \in Nat /\ b = [i \in 1..Len(b) |-> b[i]]
        BY LenProperties
      <4> QED
        BY <4>1, <4>2
    <3> QED
      BY <1>1, <1>2, <1>4, <3>1 DEF TypeOK
  <2>3. MemoryInv'
    BY <1>1, <1>4 DEF MemoryInv
  <2>4. CopiesInv'
    <3>1. \A e \in Range(b) : Copies(e)' = 0 /\ 0 <= unsure
      BY CountFacts DEF Copies, Count, TypeOK
    <3>2. DuplicatesNeedLostAnswers'
      BY DEF CopiesInv, DuplicatesNeedLostAnswers, Copies
    <3> QED
      BY <1>4, <3>1, <3>2 DEF CopiesInv
  <2>5. OrderInv'
    BY <1>1, <1>4 DEF OrderInv, AllBefore
  <2> QED
    BY <2>1, <2>2, <2>3, <2>4, <2>5, VanishedStep DEF IndInv
<1>5. CASE /\ buffer' = <<>> /\ failed' = failed \cup Range(b)
           /\ UNCHANGED <<batch, attempt>>
  <2>1. Vanished' \subseteq Vanished
    BY <1>1, <1>5 DEF Vanished
  <2>2. TypeOK'
    <3>1. Range(b) \subseteq Events
      BY Ranges
    <3> QED
      BY <1>1, <1>2, <1>5, <3>1 DEF TypeOK
  <2>3. MemoryInv'
    BY <1>1, <1>5 DEF MemoryInv
  <2>4. CopiesInv'
    BY <1>1, <1>5 DEF CopiesInv, DuplicatesNeedLostAnswers, Copies
  <2>5. OrderInv'
    BY <1>1, <1>5 DEF OrderInv, AllBefore
  <2> QED
    BY <2>1, <2>2, <2>3, <2>4, <2>5, VanishedStep DEF IndInv
<1> QED
  BY <1>3, <1>4, <1>5 DEF Flush

LEMMA SendInd ==
  ASSUME IndInv, NEW e \in Events \ Range(sent), Send(e)
  PROVE  IndInv'
<1> PICK b : b = Append(buffer, e)
  OBVIOUS
<1>1. /\ TypeOK /\ MemoryInv /\ CrashesLoseOneBatch /\ CopiesInv /\ OrderInv
      /\ batch = <<>> /\ sent' = Append(sent, e)
      /\ UNCHANGED <<indexed, unsure, crashes, closed>>
      /\ sent \in Seq(Events) /\ buffer \in Seq(Events) /\ Len(buffer) < BatchSize
      /\ IsInjective(sent)
      /\ Range(buffer) \subseteq Range(sent) /\ Range(indexed) \subseteq Range(sent)
  BY DEF IndInv, Send, Quiet, TypeOK, MemoryInv, Held
<1>2. /\ sent' \in Seq(Events) /\ IsInjective(sent')
      /\ \A y \in Range(sent) : Place(y)' = Place(y) /\ Place(y)' < Place(e)'
  BY <1>1, PlaceAppend DEF Place
<1>3. Range(sent') = Range(sent) \cup {e} /\ Range(b) = Range(buffer) \cup {e}
  BY <1>1, Ranges
<1>4. /\ b \in Seq(Events) /\ Len(b) = Len(buffer) + 1 /\ Len(buffer) \in Nat
      /\ \A i \in 1..Len(buffer) : b[i] = buffer[i]
      /\ b[Len(buffer) + 1] = e
      /\ DOMAIN b = 1..(Len(buffer) + 1) /\ DOMAIN buffer = 1..Len(buffer)
  BY <1>1, AppendProperties, LenProperties
<1>5. /\ \A s : Range(s) \subseteq Range(sent) /\ InOrder(s) => InOrder(s)'
      /\ \A D, E \in SUBSET Range(sent) : AllBefore(D, E) => AllBefore(D, E)'
      /\ FirstSeenInOrder'
  BY <1>1, <1>2, OrderKept DEF OrderInv
<1>6. InOrder(b)'
  <2> PICK s : s = buffer
    OBVIOUS
  <2>1. InOrder(s)'
    BY <1>1, <1>5 DEF OrderInv
  <2>2. \A i \in 1..Len(s) : Place(s[i])' < Place(e)'
    BY <1>1, <1>2, <1>4 DEF Range
  <2>3. \A i \in 1..(Len(s) + 1) : i \in 1..Len(s) \/ i = Len(s) + 1
    BY <1>4
  <2>4. ASSUME NEW i \in 1..(Len(s) + 1), NEW j \in 1..(Len(s) + 1), i < j
        PROVE  Place(b[i])' < Place(b[j])'
    <3>1. i \in 1..Len(s) /\ b[i] = s[i]
      BY <1>4, <2>4
    <3>2. CASE j \in 1..Len(s)
      BY <1>4, <2>1, <2>4, <3>1, <3>2 DEF InOrder
    <3>3. CASE j = Len(s) + 1
      BY <1>4, <2>2, <3>1, <3>3
    <3> QED
      BY <2>3, <3>2, <3>3
  <2> QED
    BY <1>4, <2>4 DEF InOrder
<1>7. AllBefore(Range(indexed), Range(b))'
  <2> PICK D, E : D = Range(indexed) /\ E = Range(buffer)
    OBVIOUS
  <2>1. AllBefore(D, E)'
    BY <1>1, <1>5 DEF OrderInv
  <2>2. Range(indexed)' = D /\ Range(b)' = E \cup {e}
    BY <1>1, <1>3
  <2> QED
    BY <1>1, <1>2, <2>1, <2>2 DEF AllBefore
<1>8. Range(b) \cap Range(indexed) = {}
  <2>1. Range(indexed) \cap Range(buffer) = {}
    BY <1>1, BeforeIsApart DEF OrderInv
  <2> QED
    BY <1>1, <1>3, <2>1
<1>9. \/ Flush(b)
      \/ Len(b) < BatchSize /\ buffer' = b /\ UNCHANGED <<batch, attempt, failed>>
  BY <1>1, <1>4, SplunkAssumption DEF Send
<1>10. /\ Len(b) <= BatchSize /\ closed' \in BOOLEAN
       /\ Range(buffer) \subseteq Range(b) /\ Range(sent') = Range(sent) \cup Range(b)
  BY <1>1, <1>3, <1>4, SplunkAssumption DEF TypeOK
<1> QED
  BY <1>1, <1>2, <1>4, <1>5, <1>6, <1>7, <1>8, <1>9, <1>10, MemoryStep

LEMMA CloseInd ==
  ASSUME IndInv, Close
  PROVE  IndInv'
<1> PICK b : b = buffer
  OBVIOUS
<1>1. /\ TypeOK /\ MemoryInv /\ CrashesLoseOneBatch /\ CopiesInv /\ OrderInv
      /\ batch = <<>> /\ closed' = TRUE
      /\ UNCHANGED <<sent, indexed, unsure, crashes>>
      /\ sent \in Seq(Events) /\ b \in Seq(Events) /\ Len(b) < BatchSize
      /\ IsInjective(sent) /\ Len(b) \in Nat
      /\ Range(b) \subseteq Range(sent) /\ Range(indexed) \subseteq Range(sent)
  BY LenProperties DEF IndInv, Close, Quiet, TypeOK, MemoryInv, Held
<1>2. \A y \in Range(sent) : Place(y)' = Place(y)
  BY <1>1 DEF Place
<1>3. InOrder(b)' /\ AllBefore(Range(indexed), Range(b))' /\ FirstSeenInOrder'
  <2> PICK D, E : D = Range(indexed) /\ E = Range(b)
    OBVIOUS
  <2>1. AllBefore(D, E)' /\ InOrder(b)' /\ FirstSeenInOrder'
    BY <1>1, <1>2, OrderKept DEF OrderInv
  <2> QED
    BY <1>1, <2>1
<1>4. Range(b) \cap Range(indexed) = {}
  <2>1. Range(indexed) \cap Range(b) = {}
    BY <1>1, BeforeIsApart DEF OrderInv
  <2> QED
    BY <2>1
<1>5. \/ Flush(b)
      \/ Len(b) < BatchSize /\ buffer' = b /\ UNCHANGED <<batch, attempt, failed>>
  BY <1>1 DEF Close
<1>6. /\ Len(b) <= BatchSize /\ closed' \in BOOLEAN /\ Range(buffer) \subseteq Range(b)
      /\ sent' \in Seq(Events) /\ IsInjective(sent') /\ Range(sent') = Range(sent) \cup Range(b)
  BY <1>1, SplunkAssumption
<1> QED
  BY <1>1, <1>3, <1>4, <1>5, <1>6, MemoryStep

(* A batch that Splunk indexes, again or for the first time. *)
LEMMA AcceptEffect ==
  ASSUME IndInv, batch # <<>>, Accepted, sent' = sent
  PROVE  /\ indexed' \in Seq(Events)
         /\ Range(indexed') = Range(indexed) \cup Range(batch)
         /\ \A x \in Events :
              /\ Copies(x)' = Copies(x) + (IF x \in Range(batch) THEN 1 ELSE 0)
              /\ Copies(x) \in Nat
         /\ FirstSeenInOrder'
<1> PICK s, t : s = indexed /\ t = batch
  OBVIOUS
<1>1. /\ s \in Seq(Events) /\ t \in Seq(Events) /\ indexed' = s \o t
      /\ sent \in Seq(Events)
      /\ Range(s) \subseteq Range(sent) /\ Range(t) \subseteq Range(sent)
      /\ InOrder(t)
  <2>1. batch \in Seq(Events)
    <3>1. \A i \in 1..Len(batch) : batch[i] \in Events
      BY ElementOfSeq, SplunkAssumption DEF IndInv, TypeOK
    <3>2. Len(batch) \in Nat /\ batch = [i \in 1..Len(batch) |-> batch[i]]
      BY LenProperties DEF IndInv, TypeOK
    <3> QED
      BY <3>1, <3>2
  <2> QED
    BY <2>1 DEF IndInv, TypeOK, MemoryInv, Held, OrderInv, Accepted
<1>2. IsInjective(t)
  BY <1>1, InOrderInjective DEF IndInv
<1>3. /\ s \o t \in Seq(Events)
      /\ Range(s \o t) = Range(s) \cup Range(t)
  BY <1>1, Ranges, ConcatProperties
<1>4. ASSUME NEW x \in Events
      PROVE  /\ Copies(x)' = Copies(x) + (IF x \in Range(batch) THEN 1 ELSE 0)
             /\ Copies(x) \in Nat
  <2>1. /\ Count(s, x) \in Nat
        /\ Count(s \o t, x) = Count(s, x) + (IF x \in Range(t) THEN 1 ELSE 0)
    BY <1>1, <1>2, CountFacts
  <2>2. Copies(x) = Count(s, x) /\ Copies(x)' = Count(s \o t, x)
    BY <1>1 DEF Copies, Count
  <2> QED
    BY <2>1, <2>2
<1>5. ASSUME NEW d \in Range(s \o t), NEW e \in Range(s \o t), FirstAt(sent, d) < FirstAt(sent, e)
      PROVE  FirstAt(s \o t, d) < FirstAt(s \o t, e)
  <2>1. \A x \in Range(s) : FirstAt(s \o t, x) = FirstAt(s, x) /\ FirstAt(s, x) \in 1..Len(s)
    <3> TAKE x \in Range(s)
    <3>1. FirstAt(s, x) \in 1..Len(s)
      BY <1>1, FirstAtIs
    <3>2. FirstAt(s \o t, x) = FirstAt(s, x)
      BY <1>1, FirstAtConcat
    <3> QED
      BY <3>1, <3>2
  <2>2. CASE d \in Range(s) /\ e \in Range(s)
    <3>1. FirstAt(s, d) < FirstAt(s, e)
      BY <1>5, <2>2 DEF IndInv, OrderInv, FirstSeenInOrder
    <3> QED
      BY <2>1, <2>2, <3>1
  <2>3. CASE Range(t) \subseteq Range(s)
    BY <1>3, <2>2, <2>3
  <2>4. CASE AllBefore(Range(s), Range(t))
    <3>1. /\ Range(s) \cap Range(t) = {} /\ Len(s) \in Nat
          /\ DOMAIN t = 1..Len(t) /\ Len(t) \in Nat
          /\ FirstAt(sent, d) \in Nat /\ FirstAt(sent, e) \in Nat
      <4>1. FirstAt(sent, d) \in 1..Len(sent) /\ FirstAt(sent, e) \in 1..Len(sent)
        BY <1>1, <1>3, FirstAtIs
      <4>2. Range(s) \cap Range(t) = {}
        BY <1>1, <2>4, BeforeIsApart
      <4> QED
        BY <1>1, <4>1, <4>2, LenProperties
    <3>2. ASSUME NEW x \in Range(t)
          PROVE  \E j \in 1..Len(t) : t[j] = x /\ FirstAt(s \o t, x) = Len(s) + j
      <4>1. PICK j \in 1..Len(t) : t[j] = x
        BY <3>1 DEF Range
      <4>2. t[j] \notin Range(s)
        BY <3>1, <4>1
      <4>3. FirstAt(s \o t, t[j]) = Len(s) + j
        BY <1>1, <1>2, <4>2, FirstAtConcat
      <4> QED
        BY <4>1, <4>3
    <3>3. CASE d \in Range(s) /\ e \in Range(t)
      BY <2>1, <3>1, <3>2, <3>3
    <3>4. CASE d \in Range(t) /\ e \in Range(s)
      <4>1. FirstAt(sent, e) < FirstAt(sent, d)
        BY <2>4, <3>4 DEF AllBefore, Place
      <4> QED
        BY <1>5, <3>1, <4>1
    <3>5. CASE d \in Range(t) /\ e \in Range(t)
      <4>1. PICK i \in 1..Len(t) : t[i] = d /\ FirstAt(s \o t, d) = Len(s) + i
        BY <3>2, <3>5
      <4>2. PICK j \in 1..Len(t) : t[j] = e /\ FirstAt(s \o t, e) = Len(s) + j
        BY <3>2, <3>5
      <4>3. ~ (j < i)
        <5>1. j < i => FirstAt(sent, e) < FirstAt(sent, d)
          BY <1>1, <3>1, <4>1, <4>2 DEF InOrder, Place
        <5> QED
          BY <1>5, <3>1, <5>1
      <4>4. i # j
        BY <1>5, <3>1, <4>1, <4>2
      <4> QED
        BY <3>1, <4>1, <4>2, <4>3, <4>4
    <3> QED
      BY <1>3, <2>2, <3>3, <3>4, <3>5
  <2> QED
    BY <2>3, <2>4 DEF IndInv, OrderInv
<1>6. FirstSeenInOrder'
  BY <1>1, <1>5 DEF FirstSeenInOrder
<1> QED
  BY <1>1, <1>3, <1>4, <1>6

(* A batch is settled or posted again, indexed or not. *)
LEMMA PostStep ==
  ASSUME IndInv, batch # <<>>, UNCHANGED <<sent, buffer, crashes, closed>>,
         \/ Accepted /\ Settle /\ UNCHANGED <<failed, unsure>>
         \/ Accepted /\ unsure' = unsure + 1 /\ Retry
         \/ UNCHANGED <<indexed, unsure>> /\ Retry
         \/ UNCHANGED <<indexed, unsure>> /\ Settle /\ failed' = failed \cup Range(batch)
  PROVE  IndInv'
<1>1. /\ TypeOK /\ MemoryInv /\ CrashesLoseOneBatch /\ CopiesInv /\ OrderInv
      /\ buffer = <<>> /\ indexed \in Seq(Events)
      /\ attempt \in 0 .. (MaxAttempts - 1) /\ unsure \in Nat
      /\ Range(<<>>) = {} /\ Range(batch) \subseteq Events
      /\ Range(indexed) \cup Range(batch) \subseteq Range(sent)
  <2>1. Range(batch) \subseteq Range(sent) /\ Range(sent) \subseteq Events
    BY Ranges DEF IndInv, TypeOK, MemoryInv, Held
  <2> QED
    BY <2>1, Ranges DEF IndInv, TypeOK, MemoryInv, Held
<1>2. /\ indexed' \in Seq(Events)
      /\ Accepted =>
           /\ Range(indexed') = Range(indexed) \cup Range(batch)
           /\ \A x \in Events : Copies(x)' = Copies(x) + (IF x \in Range(batch) THEN 1 ELSE 0)
      /\ UNCHANGED <<indexed, unsure>> => \A x \in Events : Copies(x)' = Copies(x)
      /\ \A x \in Events : Copies(x) \in Nat
      /\ FirstSeenInOrder'
  <2>0. UNCHANGED <<indexed, unsure>> => \A x \in Events : Copies(x)' = Copies(x)
    BY DEF Copies
  <2>1. CASE Accepted
    BY <1>1, <2>0, <2>1, AcceptEffect
  <2>2. CASE UNCHANGED <<indexed, unsure>> /\ ~ Accepted
    <3>1. FirstSeenInOrder'
      BY <1>1, <2>2 DEF OrderInv, FirstSeenInOrder
    <3>2. \A x \in Events : Copies(x) \in Nat
      <4> TAKE x \in Events
      <4>1. Count(indexed, x) \in Nat
        BY <1>1, CountFacts
      <4> QED
        BY <4>1 DEF Copies, Count
    <3> QED
      BY <1>1, <2>0, <2>2, <3>1, <3>2
  <2> QED
    BY <2>1, <2>2
<1>3. /\ \/ batch' = batch /\ attempt' = attempt + 1 /\ failed' = failed
         \/ batch' = <<>> /\ attempt' = 0 /\ failed' \in {failed, failed \cup Range(batch)}
      /\ attempt' \in 0 .. (MaxAttempts - 1)
      /\ unsure' \in {unsure, unsure + 1}
  BY <1>1, SplunkAssumption DEF Retry, Settle
<1>4. TypeOK'
  <2>1. Len(<<>>) = 0 /\ <<>> \in Seq(Serialisable)
    OBVIOUS
  <2>2. batch' \in Seq(Serialisable) /\ Len(batch') <= BatchSize
    <3>1. batch \in Seq(Serialisable) /\ Len(batch) <= BatchSize /\ 0 <= BatchSize
      BY <1>1, SplunkAssumption DEF TypeOK
    <3>2. batch' = batch \/ batch' = <<>>
      BY <1>3
    <3> QED
      BY <2>1, <3>1, <3>2
  <2> QED
    BY <1>1, <1>2, <1>3, <2>2 DEF TypeOK
<1>5. MemoryInv'
  BY <1>1, <1>2, <1>3 DEF MemoryInv, Held
<1>6. CrashesLoseOneBatch'
  <2>1. Vanished' \subseteq Vanished
    <3>1. batch' = batch \/ Range(batch) \subseteq Range(indexed') \cup failed'
      BY <1>1, <1>2 DEF Retry, Settle
    <3>2. Range(indexed) \subseteq Range(indexed') /\ failed \subseteq failed'
      BY <1>2, <1>3
    <3> QED
      BY <1>1, <3>1, <3>2 DEF Vanished, Held
  <2> QED
    BY <1>1, <2>1, VanishedStep
<1>7. CopiesInv'
  <2>1. ASSUME NEW x \in Events
        PROVE  /\ Copies(x)' <= 1 + unsure' /\ Copies(x)' <= MaxAttempts
               /\ x \in Range(batch') => Copies(x)' <= attempt' /\ Copies(x)' <= unsure'
    <3>1. /\ Copies(x) \in Nat /\ Copies(x) <= 1 + unsure /\ Copies(x) <= MaxAttempts
          /\ x \in Range(batch) => Copies(x) <= attempt /\ Copies(x) <= unsure
      BY <1>1, <1>2 DEF CopiesInv, DuplicatesNeedLostAnswers
    <3>2. CASE x \in Range(batch)
      <4>1. Copies(x)' \in Nat /\ Copies(x)' <= Copies(x) + 1
        BY <1>2, <3>1
      <4>2. Copies(x)' <= unsure' + 1 /\ Copies(x)' <= MaxAttempts
        BY <1>1, <1>2, <1>3, <3>1, <3>2, <4>1, SplunkAssumption
      <4>3. batch' # <<>> => attempt' = attempt + 1 /\ Copies(x)' <= unsure'
        BY <1>1, <1>2, <3>1, <3>2, <4>1 DEF Retry, Settle
      <4> QED
        BY <1>1, <1>3, <3>1, <3>2, <4>1, <4>2, <4>3
    <3>3. CASE x \notin Range(batch)
      <4>1. Copies(x)' = Copies(x) /\ x \notin Range(batch')
        BY <1>1, <1>2, <1>3, <3>1, <3>3
      <4> QED
        BY <1>1, <1>3, <3>1, <4>1
    <3> QED
      BY <3>2, <3>3
  <2>2. Range(batch') \subseteq Events
    BY <1>1, <1>3
  <2> QED
    BY <2>1, <2>2 DEF CopiesInv, DuplicatesNeedLostAnswers
<1>8. OrderInv'
  <2>1. /\ \A s : InOrder(s)' <=> InOrder(s)
        /\ \A D, E : AllBefore(D, E)' <=> AllBefore(D, E)
    BY DEF InOrder, AllBefore, Place
  <2>2. InOrder(<<>>) /\ \A D : AllBefore(D, {})
    BY DEF InOrder, AllBefore
  <2>3. InOrder(buffer') /\ InOrder(batch')
    BY <1>1, <1>3, <2>2 DEF OrderInv
  <2>4. AllBefore(Range(indexed'), Range(buffer'))
    BY <1>1, <2>2
  <2>5. \/ Range(batch') \subseteq Range(indexed')
        \/ AllBefore(Range(indexed'), Range(batch'))
    BY <1>1, <1>2, <1>3 DEF OrderInv
  <2>6. InOrder(buffer)' /\ InOrder(batch)'
    BY <2>3 DEF InOrder, Place
  <2>7. AllBefore(Range(indexed), Range(buffer))'
    BY <2>4 DEF AllBefore, Place
  <2>8. (Range(batch) \subseteq Range(indexed) \/ AllBefore(Range(indexed), Range(batch)))'
    BY <2>5 DEF AllBefore, Place
  <2> QED
    BY <1>2, <2>6, <2>7, <2>8 DEF OrderInv
<1> QED
  BY <1>4, <1>5, <1>6, <1>7, <1>8 DEF IndInv

(* A crash loses what was in memory, which is one batch at most. *)
LEMMA CrashInd ==
  ASSUME IndInv, Crash
  PROVE  IndInv'
<1>1. /\ TypeOK /\ MemoryInv /\ CrashesLoseOneBatch /\ CopiesInv /\ OrderInv
      /\ sent \in Seq(Events) /\ crashes \in Nat /\ crashes' \in 0 .. MaxCrashes
      /\ crashes' = crashes + 1 /\ BatchSize \in Nat \ {0}
      /\ buffer' = <<>> /\ batch' = <<>> /\ attempt' = 0
      /\ UNCHANGED <<sent, indexed, failed, unsure>>
      /\ Range(<<>>) = {}
  BY Ranges, SplunkAssumption DEF IndInv, TypeOK, Crash, Settle
<1>2. TypeOK'
  <2>1. /\ Len(<<>>) = 0 /\ <<>> \in Seq(Serialisable) /\ <<>> \in Seq(Events)
        /\ 0 \in 0 .. (MaxAttempts - 1)
    BY SplunkAssumption
  <2>2. closed' = FALSE => closed' \in BOOLEAN
    OBVIOUS
  <2> QED
    BY <1>1, <2>1, <2>2 DEF TypeOK, Crash
<1>3. MemoryInv'
  BY <1>1 DEF MemoryInv, Held
<1>4. IsFiniteSet(Held) /\ Cardinality(Held) \in Nat /\ Cardinality(Held) <= BatchSize
  <2>1. PICK s \in Seq(Events) : Held = Range(s) /\ Len(s) <= BatchSize /\ Len(s) \in Nat
    <3>1. CASE batch = <<>>
      BY <1>1, <3>1, LenProperties DEF Held, TypeOK
    <3>2. CASE buffer = <<>>
      <4>1. batch \in Seq(Events)
        <5>1. \A i \in 1..Len(batch) : batch[i] \in Events
          BY <1>1, ElementOfSeq, SplunkAssumption DEF TypeOK
        <5>2. Len(batch) \in Nat /\ batch = [i \in 1..Len(batch) |-> batch[i]]
          BY <1>1, LenProperties DEF TypeOK
        <5> QED
          BY <5>1, <5>2
      <4> QED
        BY <1>1, <3>2, <4>1, LenProperties DEF Held, TypeOK
    <3> QED
      BY <1>1, <3>1, <3>2 DEF MemoryInv
  <2>2. IsFiniteSet(Held) /\ Cardinality(Held) <= Len(s)
    BY <2>1, RangeIsSmall
  <2>3. Cardinality(Held) \in Nat
    BY <2>2, FS_CardinalityType
  <2> QED
    BY <1>1, <2>1, <2>2, <2>3
<1>5. CrashesLoseOneBatch'
  <2>1. Vanished' \subseteq Vanished \cup Held
    BY <1>1 DEF Vanished, Held
  <2>2. IsFiniteSet(Vanished) /\ Cardinality(Vanished) \in Nat
    BY <1>1, VanishedFacts
  <2>3. /\ IsFiniteSet(Vanished \cup Held)
        /\ Cardinality(Vanished \cup Held) <= Cardinality(Vanished) + Cardinality(Held)
        /\ Cardinality(Vanished \cup Held) \in Nat
    <3>1. IsFiniteSet(Vanished \cap Held)
      BY <1>4, FS_Intersection, <2>2
    <3>2. Cardinality(Vanished \cap Held) \in Nat
      BY <3>1, FS_CardinalityType
    <3>3. IsFiniteSet(Vanished \cup Held)
          /\ Cardinality(Vanished \cup Held)
               = Cardinality(Vanished) + Cardinality(Held) - Cardinality(Vanished \cap Held)
      BY <1>4, <2>2, FS_Union
    <3>4. Cardinality(Vanished \cup Held) \in Nat
      BY <3>3, FS_CardinalityType
    <3> QED
      BY <1>4, <2>2, <3>2, <3>3, <3>4
  <2>4. IsFiniteSet(Vanished') /\ Cardinality(Vanished') <= Cardinality(Vanished \cup Held)
    BY <2>1, <2>3, FS_Subset
  <2>5. Cardinality(Vanished') \in Nat
    BY <2>4, FS_CardinalityType
  <2>6. Cardinality(Vanished') <= crashes * BatchSize + BatchSize
    <3>1. crashes * BatchSize \in Nat /\ Cardinality(Vanished) <= crashes * BatchSize
      BY <1>1 DEF CrashesLoseOneBatch
    <3> QED
      BY <1>1, <1>4, <2>2, <2>3, <2>4, <2>5, <3>1
  <2>7. crashes' * BatchSize = crashes * BatchSize + BatchSize
    BY <1>1
  <2> QED
    BY <2>6, <2>7 DEF CrashesLoseOneBatch
<1>6. CopiesInv'
  BY <1>1 DEF CopiesInv, DuplicatesNeedLostAnswers, Copies
<1>7. OrderInv'
  BY <1>1 DEF OrderInv, InOrder, AllBefore, FirstSeenInOrder
<1> QED
  BY <1>2, <1>3, <1>5, <1>6, <1>7 DEF IndInv

LEMMA InitInd == Init => IndInv
<1> SUFFICES ASSUME Init PROVE IndInv
  OBVIOUS
<1>1. /\ Range(<<>>) = {} /\ Len(<<>>) = 0 /\ IsInjective(<<>>)
      /\ <<>> \in Seq(Events) /\ <<>> \in Seq(Serialisable)
  BY Ranges DEF IsInjective
<1>2. TypeOK
  <2>1. /\ BatchSize \in Nat \ {0} /\ 0 \in 0 .. (MaxAttempts - 1) /\ 0 \in 0 .. MaxCrashes
    BY SplunkAssumption
  <2>2. closed = FALSE => closed \in BOOLEAN
    OBVIOUS
  <2> QED
    BY <1>1, <2>1, <2>2 DEF Init, TypeOK
<1>3. MemoryInv
  BY <1>1 DEF Init, MemoryInv, Held
<1>4. CrashesLoseOneBatch
  <2>1. Vanished = {}
    BY <1>1 DEF Init, Vanished
  <2> QED
    BY <2>1, FS_EmptySet, SplunkAssumption DEF Init, CrashesLoseOneBatch
<1>5. CopiesInv
  <2>1. \A x \in Events : Copies(x) = 0
    <3> TAKE x \in Events
    <3>1. Count(<<>>, x) = 0
      BY <1>1, CountFacts
    <3> QED
      BY <3>1 DEF Init, Copies, Count
  <2> QED
    BY <1>1, <2>1, SplunkAssumption DEF Init, CopiesInv, DuplicatesNeedLostAnswers
<1>6. OrderInv
  BY <1>1 DEF Init, OrderInv, InOrder, AllBefore, FirstSeenInOrder
<1> QED
  BY <1>2, <1>3, <1>4, <1>5, <1>6 DEF IndInv

LEMMA NextInd == IndInv /\ [Next]_hecVars => IndInv'
<1> SUFFICES ASSUME IndInv, [Next]_hecVars PROVE IndInv'
  OBVIOUS
<1>1. ASSUME NEW e \in Events \ Range(sent), Send(e) PROVE IndInv'
  BY <1>1, SendInd
<1>2. CASE Close
  BY <1>2, CloseInd
<1>3. CASE PostOK
  BY <1>3, PostStep DEF PostOK
<1>4. CASE PostRefused
  BY <1>4, PostStep DEF PostRefused
<1>5. CASE PostUnanswered
  BY <1>5, PostStep DEF PostUnanswered
<1>6. CASE Crash
  BY <1>6, CrashInd
<1>7. CASE UNCHANGED hecVars
  BY <1>7 DEF hecVars, IndInv, TypeOK, MemoryInv, Held, CrashesLoseOneBatch, Vanished, CopiesInv,
              DuplicatesNeedLostAnswers, Copies, OrderInv, InOrder, AllBefore, Place,
              FirstSeenInOrder
<1> QED
  BY <1>1, <1>2, <1>3, <1>4, <1>5, <1>6, <1>7 DEF Next, Post

-------------------------------------------------------------------------------
(* The theorems. *)

(* Whatever is sent, refused, left without an answer or lost in a crash,   *)
(* the buffer, the batch and the index stay in step.                       *)
THEOREM Invariance == Spec => []IndInv
BY InitInd, NextInd, PTL DEF Spec

(* A call leaves less than a batch in the buffer, and a batch of sendable  *)
(* events is posted less than MaxAttempts times before it is settled.      *)
THEOREM TypeCorrect == Spec => []TypeOK
<1>1. IndInv => TypeOK
  BY DEF IndInv
<1> QED
  BY <1>1, Invariance, PTL

(* An event that nobody heard of and that is not in memory was lost in a   *)
(* crash, and a crash loses one batch at most.                             *)
THEOREM LossesAreCrashes == Spec => []CrashesLoseOneBatch
<1>1. IndInv => CrashesLoseOneBatch
  BY DEF IndInv
<1> QED
  BY <1>1, Invariance, PTL

(* The copies of an event are bounded by the posts that were indexed and   *)
(* not confirmed, and by the attempts.                                     *)
THEOREM DuplicatesAreBounded == Spec => []DuplicatesNeedLostAnswers
<1>1. IndInv => DuplicatesNeedLostAnswers
  BY DEF IndInv, CopiesInv
<1> QED
  BY <1>1, Invariance, PTL

(* Splunk first sees events in the order they were sent, although batches  *)
(* fail, are posted again and die with the process.                        *)
THEOREM OrderIsKept == Spec => []FirstSeenInOrder
<1>1. IndInv => FirstSeenInOrder
  BY DEF IndInv, OrderInv
<1> QED
  BY <1>1, Invariance, PTL

===============================================================================
