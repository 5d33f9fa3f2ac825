-------------------------- MODULE N8nDispatchProofs ---------------------------
(***************************************************************************)
(* Proofs about N8nDispatch, for any events, any route tables and any      *)
(* number of changes and retries.                                          *)
(***************************************************************************)
EXTENDS N8nDispatch, SequenceTheorems, TLAPS

-------------------------------------------------------------------------------
(* Paths. *)

(* What a path is made of. *)
Names == STRING \cup {"_default"}

Path == {p \in Seq(Names) : p # <<>>}

LEMMA PrefixIs ==
  ASSUME NEW s \in Seq(Names), NEW t \in Seq(Names)
  PROVE  IsPrefix(s, t) <=> Len(s) <= Len(t) /\ \A i \in 1 .. Len(s) : s[i] = t[i]
<1>1. /\ Len(s) \in Nat /\ Len(t) \in Nat
      /\ \A i \in 1 .. Len(s) : s[i] \in Names
      /\ \A i \in 1 .. Len(t) : t[i] \in Names
  BY LenProperties, ElementOfSeq
<1>2. CASE Len(s) <= Len(t)
  <2>1. \A i \in 1 .. Len(s) : i \in 1 .. Len(t) /\ t[i] \in Names
    BY <1>1, <1>2
  <2>2. 1 \in Int /\ Len(s) \in Int /\ Len(s) - 1 + 1 = Len(s)
    BY <1>1
  <2>3. /\ SubSeq(t, 1, Len(s)) \in Seq(Names)
        /\ Len(SubSeq(t, 1, Len(s))) = IF 1 <= Len(s) THEN Len(s) - 1 + 1 ELSE 0
        /\ \A i \in 1 .. (Len(s) - 1 + 1) : SubSeq(t, 1, Len(s))[i] = t[1 + i - 1]
    BY <2>1, <2>2, SubSeqProperties
  <2>4. SubSeq(s, 1, Len(s)) = s
    BY SubSeqFull
  <2>5. /\ Len(SubSeq(t, 1, Len(s))) = Len(s)
        /\ \A i \in 1 .. Len(s) : SubSeq(t, 1, Len(s))[i] = t[i]
    BY <1>1, <2>2, <2>3
  <2>6. s = SubSeq(t, 1, Len(s)) <=> \A i \in 1 .. Len(s) : s[i] = t[i]
    BY <2>3, <2>5, SeqEqual
  <2> QED
    BY <1>2, <2>4, <2>6 DEF IsPrefix
<1>3. CASE ~ (Len(s) <= Len(t))
  BY <1>3 DEF IsPrefix
<1> QED
  BY <1>2, <1>3

LEMMA TuplesAre ==
  ASSUME NEW p \in Seq(Names)
  PROVE  /\ Len(p) = 1 => p = <<p[1]>>
         /\ Len(p) = 2 => p = <<p[1], p[2]>>
         /\ Len(p) = 3 => p = <<p[1], p[2], p[3]>>
<1>1. CASE Len(p) = 1
  BY <1>1
<1>2. CASE Len(p) = 2
  BY <1>2
<1>3. CASE Len(p) = 3
  BY <1>3
<1> QED
  BY <1>1, <1>2, <1>3

(* The paths above a path. *)
LEMMA Above ==
  ASSUME NEW p \in Path, NEW t \in Seq(Names)
  PROVE  /\ Len(t) = 1 => ~ IsStrictPrefix(p, t)
         /\ Len(t) = 2 => (IsStrictPrefix(p, t) <=> p = <<t[1]>>)
         /\ Len(t) = 3 => (IsStrictPrefix(p, t) <=> p = <<t[1]>> \/ p = <<t[1], t[2]>>)
<1>1. p \in Seq(Names) /\ Len(p) \in Nat /\ Len(p) # 0
  BY EmptySeq DEF Path
<1>2. IsPrefix(p, t) <=> Len(p) <= Len(t) /\ \A i \in 1 .. Len(p) : p[i] = t[i]
  BY <1>1, PrefixIs
<1>3. ASSUME IsPrefix(p, t), Len(p) = Len(t) PROVE p = t
  BY <1>1, <1>2, <1>3, SeqEqual
<1>4. Len(p) = 1 => p = <<p[1]>>
  BY <1>1, TuplesAre
<1>5. Len(p) = 2 => p = <<p[1], p[2]>>
  BY <1>1, TuplesAre
<1>6. ASSUME NEW a, p = <<a>> PROVE Len(p) = 1 /\ p[1] = a
  BY <1>6
<1>7. ASSUME NEW a, NEW b, p = <<a, b>> PROVE Len(p) = 2 /\ p[1] = a /\ p[2] = b
  BY <1>7
<1>8. CASE Len(t) = 1
  <2>1. IsPrefix(p, t) => Len(p) = Len(t)
    BY <1>1, <1>2, <1>8
  <2> QED
    BY <1>3, <1>8, <2>1 DEF IsStrictPrefix
<1>9. ASSUME p = <<t[1]>>, Len(t) \in {2, 3} PROVE IsStrictPrefix(p, t)
  <2>1. Len(p) = 1 /\ p[1] = t[1]
    BY <1>6, <1>9
  <2>2. \A i \in 1 .. Len(p) : i = 1
    BY <2>1
  <2>3. Len(p) <= Len(t) /\ Len(p) # Len(t)
    <3>1. CASE Len(t) = 2
      BY <2>1, <3>1
    <3>2. CASE Len(t) = 3
      BY <2>1, <3>2
    <3> QED
      BY <1>9, <3>1, <3>2
  <2>4. IsPrefix(p, t)
    BY <1>2, <2>1, <2>2, <2>3
  <2> QED
    BY <2>3, <2>4 DEF IsStrictPrefix
<1>10. ASSUME p = <<t[1], t[2]>>, Len(t) = 3 PROVE IsStrictPrefix(p, t)
  <2>1. Len(p) = 2 /\ p[1] = t[1] /\ p[2] = t[2]
    BY <1>7, <1>10
  <2>2. \A i \in 1 .. Len(p) : i \in {1, 2}
    BY <2>1
  <2>3. IsPrefix(p, t) /\ Len(p) # Len(t)
    BY <1>2, <1>10, <2>1, <2>2
  <2> QED
    BY <2>3 DEF IsStrictPrefix
<1>11. ASSUME IsStrictPrefix(p, t), Len(t) \in {2, 3}
       PROVE  p = <<t[1]>> \/ (Len(t) = 3 /\ p = <<t[1], t[2]>>)
  <2>1. IsPrefix(p, t) /\ p # t
    BY <1>11 DEF IsStrictPrefix
  <2>2. \A i \in 1 .. Len(p) : p[i] = t[i]
    BY <1>2, <2>1
  <2>3. Len(p) <= Len(t) /\ Len(p) # Len(t)
    BY <1>2, <1>3, <2>1
  <2>4. CASE Len(p) = 1
    <3>1. p[1] = t[1]
      BY <2>2, <2>4
    <3> QED
      BY <1>4, <2>4, <3>1
  <2>5. CASE Len(p) = 2 /\ Len(t) = 3
    <3>1. p[1] = t[1] /\ p[2] = t[2]
      BY <2>2, <2>5
    <3> QED
      BY <1>5, <2>5, <3>1
  <2>6. Len(p) = 1 \/ (Len(p) = 2 /\ Len(t) = 3)
    <3>1. ASSUME NEW m \in Nat, NEW n \in {2, 3}, m # 0, m <= n, m # n
          PROVE  m = 1 \/ (m = 2 /\ n = 3)
      BY <3>1
    <3> QED
      BY <1>1, <1>11, <2>3, <3>1
  <2> QED
    BY <2>4, <2>5, <2>6
<1>12. Len(t) = 2 => (IsStrictPrefix(p, t) <=> p = <<t[1]>>)
  BY <1>9, <1>11
<1>13. Len(t) = 3 => (IsStrictPrefix(p, t) <=> p = <<t[1]>> \/ p = <<t[1], t[2]>>)
  BY <1>9, <1>10, <1>11
<1> QED
  BY <1>8, <1>12, <1>13

LEMMA VisibleIs ==
  ASSUME NEW W \in SUBSET Path, NEW t \in Path
  PROVE  /\ Len(t) = 1 => (t \in Visible(W) <=> t \in W)
         /\ Len(t) = 2 => (t \in Visible(W) <=> t \in W /\ <<t[1]>> \notin W)
         /\ Len(t) = 3 => (t \in Visible(W)
                             <=> t \in W /\ <<t[1]>> \notin W /\ <<t[1], t[2]>> \notin W)
<1>1. t \in Visible(W) <=> t \in W /\ \A q \in W : ~ IsStrictPrefix(q, t)
  BY DEF Visible
<1>2. \A q \in W :
        /\ Len(t) = 1 => ~ IsStrictPrefix(q, t)
        /\ Len(t) = 2 => (IsStrictPrefix(q, t) <=> q = <<t[1]>>)
        /\ Len(t) = 3 => (IsStrictPrefix(q, t) <=> q = <<t[1]>> \/ q = <<t[1], t[2]>>)
  BY Above DEF Path
<1>3. CASE Len(t) = 1
  BY <1>1, <1>2, <1>3
<1>4. CASE Len(t) = 2
  BY <1>1, <1>2, <1>4, Zenon
<1>5. CASE Len(t) = 3
  BY <1>1, <1>2, <1>5, Zenon
<1> QED
  BY <1>3, <1>4, <1>5

(* What is below a path makes it an inner node. *)
LEMMA InnerIs ==
  ASSUME NEW W \in SUBSET Path, NEW p \in Path, NEW t \in W, p \notin W,
         \/ Len(t) = 2 /\ p = <<t[1]>>
         \/ Len(t) = 3 /\ p = <<t[1]>>
         \/ Len(t) = 3 /\ p = <<t[1], t[2]>>
  PROVE  Inner(W, p)
<1>1. IsStrictPrefix(p, t)
  BY Above DEF Path
<1> QED
  BY <1>1 DEF Inner

-------------------------------------------------------------------------------
(* The lookup. *)

(* The paths of a key. *)
LEMMA PathsOf ==
  ASSUME NEW k \in Keys
  PROVE  /\ Vendor(k) \in Path /\ Len(Vendor(k)) = 1 /\ Vendor(k)[1] = k.vendor
         /\ Category(k) \in Path /\ Len(Category(k)) = 2
         /\ Category(k)[1] = k.vendor /\ Category(k)[2] = k.category
         /\ Default(NoRoute) \in Path /\ Len(Default(NoRoute)) = 1
         /\ Default(Vendor(k)) \in Path /\ Len(Default(Vendor(k))) = 2
         /\ Default(Vendor(k))[1] = k.vendor
         /\ Default(Category(k)) \in Path /\ Len(Default(Category(k))) = 3
         /\ Default(Category(k))[1] = k.vendor /\ Default(Category(k))[2] = k.category
         /\ k.event # NoEvent =>
              /\ Event(k) \in Path /\ Len(Event(k)) = 3
              /\ Event(k)[1] = k.vendor /\ Event(k)[2] = k.category
<1>1. k.vendor \in Names /\ k.category \in Names /\ (k.event # NoEvent => k.event \in Names)
  BY ResolverAssumption DEF Names
<1>2. ASSUME NEW p \in Seq(Names), NEW n \in Nat, Len(p) = n
      PROVE  /\ Default(p) \in Path /\ Len(Default(p)) = n + 1
             /\ \A i \in 1 .. n : Default(p)[i] = p[i]
  <2>1. "_default" \in Names
    BY DEF Names
  <2> QED
    BY <1>2, <2>1, AppendProperties DEF Default, Path
<1>3. ASSUME NEW a \in Names
      PROVE  <<a>> \in Path /\ Len(<<a>>) = 1 /\ <<a>>[1] = a
  <2>1. <<a>> \in Seq(Names) /\ Len(<<a>>) = 1 /\ <<a>>[1] = a
    OBVIOUS
  <2> QED
    BY <2>1, EmptySeq DEF Path
<1>4. ASSUME NEW a \in Names, NEW b \in Names
      PROVE  <<a, b>> \in Path /\ Len(<<a, b>>) = 2 /\ <<a, b>>[1] = a /\ <<a, b>>[2] = b
  <2>1. <<a, b>> \in Seq(Names) /\ Len(<<a, b>>) = 2 /\ <<a, b>>[1] = a /\ <<a, b>>[2] = b
    OBVIOUS
  <2> QED
    BY <2>1, EmptySeq DEF Path
<1>5. ASSUME NEW a \in Names, NEW b \in Names, NEW c \in Names
      PROVE  /\ <<a, b, c>> \in Path /\ Len(<<a, b, c>>) = 3
             /\ <<a, b, c>>[1] = a /\ <<a, b, c>>[2] = b
  <2>1. <<a, b, c>> \in Seq(Names)
    OBVIOUS
  <2>2. Len(<<a, b, c>>) = 3 /\ <<a, b, c>>[1] = a /\ <<a, b, c>>[2] = b
    OBVIOUS
  <2> QED
    BY <2>1, <2>2, EmptySeq DEF Path
<1>6. /\ Vendor(k) \in Path /\ Len(Vendor(k)) = 1 /\ Vendor(k)[1] = k.vendor
      /\ Category(k) \in Path /\ Len(Category(k)) = 2
      /\ Category(k)[1] = k.vendor /\ Category(k)[2] = k.category
  BY <1>1, <1>3, <1>4 DEF Vendor, Category
<1>7. Default(NoRoute) \in Path /\ Len(Default(NoRoute)) = 1
  <2>1. <<>> \in Seq(Names) /\ Len(<<>>) = 0
    BY EmptySeq
  <2>2. Default(<<>>) \in Path /\ Len(Default(<<>>)) = 0 + 1
    BY <1>2, <2>1
  <2> QED
    BY <2>2 DEF NoRoute
<1>8. /\ Default(Vendor(k)) \in Path /\ Len(Default(Vendor(k))) = 2
      /\ Default(Vendor(k))[1] = k.vendor
  <2>1. Vendor(k) \in Seq(Names) /\ Len(Vendor(k)) = 1
    BY <1>6 DEF Path
  <2>2. /\ Default(Vendor(k)) \in Path /\ Len(Default(Vendor(k))) = 1 + 1
        /\ \A i \in 1 .. 1 : Default(Vendor(k))[i] = Vendor(k)[i]
    BY <1>2, <2>1
  <2> QED
    BY <1>6, <2>2
<1>9. /\ Default(Category(k)) \in Path /\ Len(Default(Category(k))) = 3
      /\ Default(Category(k))[1] = k.vendor /\ Default(Category(k))[2] = k.category
  <2>1. Category(k) \in Seq(Names) /\ Len(Category(k)) = 2
    BY <1>6 DEF Path
  <2>2. /\ Default(Category(k)) \in Path /\ Len(Default(Category(k))) = 2 + 1
        /\ \A i \in 1 .. 2 : Default(Category(k))[i] = Category(k)[i]
    BY <1>2, <2>1
  <2> QED
    BY <1>6, <2>2
<1>10. k.event # NoEvent =>
         /\ Event(k) \in Path /\ Len(Event(k)) = 3
         /\ Event(k)[1] = k.vendor /\ Event(k)[2] = k.category
  BY <1>1, <1>5 DEF Event
<1> QED
  BY <1>6, <1>7, <1>8, <1>9, <1>10

LEMMA OrderIs ==
  ASSUME NEW k \in Keys
  PROVE  /\ k.event = NoEvent =>
              /\ DOMAIN Order(k) = 1 .. 5
              /\ Order(k)[1] = Default(Category(k)) /\ Order(k)[2] = Category(k)
              /\ Order(k)[3] = Default(Vendor(k)) /\ Order(k)[4] = Vendor(k)
              /\ Order(k)[5] = Default(NoRoute)
         /\ k.event # NoEvent =>
              /\ DOMAIN Order(k) = 1 .. 6
              /\ Order(k)[1] = Event(k)
              /\ Order(k)[2] = Default(Category(k)) /\ Order(k)[3] = Category(k)
              /\ Order(k)[4] = Default(Vendor(k)) /\ Order(k)[5] = Vendor(k)
              /\ Order(k)[6] = Default(NoRoute)
<1> PICK five : five = <<Default(Category(k)), Category(k), Default(Vendor(k)), Vendor(k),
                         Default(NoRoute)>>
  OBVIOUS
<1>1. /\ five \in Seq(Path) /\ Len(five) = 5
      /\ five[1] = Default(Category(k)) /\ five[2] = Category(k)
      /\ five[3] = Default(Vendor(k)) /\ five[4] = Vendor(k) /\ five[5] = Default(NoRoute)
  BY PathsOf
<1>2. CASE k.event = NoEvent
  <2>1. Order(k) = five
    BY <1>1, <1>2, ConcatEmptySeq DEF Order
  <2> QED
    BY <1>1, <1>2, <2>1, LenProperties
<1>3. CASE k.event # NoEvent
  <2> PICK one : one = <<Event(k)>>
    OBVIOUS
  <2>1. Order(k) = one \o five
    BY <1>3 DEF Order
  <2>2. one \in Seq(Path) /\ Len(one) = 1 /\ one[1] = Event(k)
    BY <1>3, PathsOf
  <2>3. /\ Order(k) \in Seq(Path) /\ Len(Order(k)) = 6
        /\ \A i \in 1 .. 1 + 5 : Order(k)[i] = IF i <= 1 THEN one[i] ELSE five[i - 1]
    BY <1>1, <2>1, <2>2, ConcatProperties
  <2>4. DOMAIN Order(k) = 1 .. 6
    BY <2>3, LenProperties
  <2> QED
    BY <1>1, <1>3, <2>2, <2>3, <2>4
<1> QED
  BY <1>2, <1>3

LEMMA FirstVisible ==
  ASSUME NEW W, NEW k \in Keys
  PROVE  /\ \A i \in DOMAIN Order(k) :
              /\ Order(k)[i] \in Visible(W)
              /\ \A j \in DOMAIN Order(k) : j < i => Order(k)[j] \notin Visible(W)
              => MostSpecific(W, k) = Order(k)[i]
         /\ (\A i \in DOMAIN Order(k) : Order(k)[i] \notin Visible(W))
              => MostSpecific(W, k) = NoRoute
<1> DEFINE found == {i \in DOMAIN Order(k) : Order(k)[i] \in Visible(W)}
<1>1. MostSpecific(W, k) = IF found = {} THEN NoRoute ELSE Order(k)[Min(found)]
  BY DEF MostSpecific
<1>2. DOMAIN Order(k) \subseteq Nat
  BY OrderIs
<1>3. ASSUME NEW i \in DOMAIN Order(k), Order(k)[i] \in Visible(W),
             \A j \in DOMAIN Order(k) : j < i => Order(k)[j] \notin Visible(W)
      PROVE  MostSpecific(W, k) = Order(k)[i]
  <2>1. i \in found
    BY <1>3
  <2>2. ASSUME NEW j \in found PROVE i <= j
    <3>1. j \in Nat /\ i \in Nat /\ ~ (j < i)
      BY <1>2, <1>3
    <3> QED
      BY <3>1
  <2>3. found \subseteq Nat
    BY <1>2
  <2>4. Min(found) = i
    <3> HIDE DEF found
    <3>1. \A j \in found : j \in Nat
      BY <2>3
    <3>2. ASSUME NEW m \in found, \A j \in found : m <= j PROVE m = i
      BY <2>1, <2>2, <3>1, <3>2
    <3> QED
      BY <2>1, <2>2, <3>2 DEF Min
  <2> QED
    BY <1>1, <2>1, <2>4
<1>4. ASSUME \A i \in DOMAIN Order(k) : Order(k)[i] \notin Visible(W)
      PROVE  MostSpecific(W, k) = NoRoute
  <2>1. found = {}
    BY <1>4
  <2> QED
    BY <1>1, <2>1
<1> QED
  BY <1>3, <1>4

LEMMA MostSpecificIs ==
  ASSUME NEW W, NEW k \in Keys
  PROVE  MostSpecific(W, k) =
           IF k.event # NoEvent /\ Event(k) \in Visible(W) THEN Event(k)
           ELSE IF Default(Category(k)) \in Visible(W) THEN Default(Category(k))
           ELSE IF Category(k) \in Visible(W) THEN Category(k)
           ELSE IF Default(Vendor(k)) \in Visible(W) THEN Default(Vendor(k))
           ELSE IF Vendor(k) \in Visible(W) THEN Vendor(k)
           ELSE IF Default(NoRoute) \in Visible(W) THEN Default(NoRoute)
           ELSE NoRoute
<1> PICK V : V = Visible(W)
  OBVIOUS
<1> PICK o : o = Order(k)
  OBVIOUS
<1>1. /\ \A i \in DOMAIN o :
           o[i] \in V /\ (\A j \in DOMAIN o : j < i => o[j] \notin V) => MostSpecific(W, k) = o[i]
      /\ (\A i \in DOMAIN o : o[i] \notin V) => MostSpecific(W, k) = NoRoute
  BY FirstVisible
<1>2. CASE k.event = NoEvent
  <2>1. /\ DOMAIN o = 1 .. 5
        /\ o[1] = Default(Category(k)) /\ o[2] = Category(k) /\ o[3] = Default(Vendor(k))
        /\ o[4] = Vendor(k) /\ o[5] = Default(NoRoute)
    BY <1>2, OrderIs
  <2>2. \A i \in 1 .. 5 : i \in {1, 2, 3, 4, 5}
    OBVIOUS
  <2>3. CASE o[1] \in V
    BY <1>1, <1>2, <2>1, <2>2, <2>3
  <2>4. CASE o[1] \notin V /\ o[2] \in V
    BY <1>1, <1>2, <2>1, <2>2, <2>4
  <2>5. CASE o[1] \notin V /\ o[2] \notin V /\ o[3] \in V
    BY <1>1, <1>2, <2>1, <2>2, <2>5
  <2>6. CASE o[1] \notin V /\ o[2] \notin V /\ o[3] \notin V /\ o[4] \in V
    BY <1>1, <1>2, <2>1, <2>2, <2>6
  <2>7. CASE o[1] \notin V /\ o[2] \notin V /\ o[3] \notin V /\ o[4] \notin V
    BY <1>1, <1>2, <2>1, <2>2, <2>7
  <2> QED
    BY <2>3, <2>4, <2>5, <2>6, <2>7
<1>3. CASE k.event # NoEvent
  <2>1. /\ DOMAIN o = 1 .. 6 /\ o[1] = Event(k)
        /\ o[2] = Default(Category(k)) /\ o[3] = Category(k) /\ o[4] = Default(Vendor(k))
        /\ o[5] = Vendor(k) /\ o[6] = Default(NoRoute)
    BY <1>3, OrderIs
  <2>2. \A i \in 1 .. 6 : i \in {1, 2, 3, 4, 5, 6}
    OBVIOUS
  <2>3. CASE o[1] \in V
    BY <1>1, <1>3, <2>1, <2>2, <2>3
  <2>4. CASE o[1] \notin V /\ o[2] \in V
    BY <1>1, <1>3, <2>1, <2>2, <2>4
  <2>5. CASE o[1] \notin V /\ o[2] \notin V /\ o[3] \in V
    BY <1>1, <1>3, <2>1, <2>2, <2>5
  <2>6. CASE o[1] \notin V /\ o[2] \notin V /\ o[3] \notin V /\ o[4] \in V
    BY <1>1, <1>3, <2>1, <2>2, <2>6
  <2>7. CASE o[1] \notin V /\ o[2] \notin V /\ o[3] \notin V /\ o[4] \notin V /\ o[5] \in V
    BY <1>1, <1>3, <2>1, <2>2, <2>7
  <2>8. CASE o[1] \notin V /\ o[2] \notin V /\ o[3] \notin V /\ o[4] \notin V /\ o[5] \notin V
    BY <1>1, <1>3, <2>1, <2>2, <2>8
  <2> QED
    BY <2>3, <2>4, <2>5, <2>6, <2>7, <2>8
<1> QED
  BY <1>2, <1>3

(* The lookup of resolve() finds the most specific path. *)
LEMMA LookupIs ==
  ASSUME NEW W \in SUBSET Path, NEW k \in Keys
  PROVE  Lookup(W, k) = MostSpecific(W, k)
<1> DEFINE e == Event(k)
           cd == Default(Category(k))
           c == Category(k)
           vd == Default(Vendor(k))
           v == Vendor(k)
           d == Default(NoRoute)
<1>1. \A p \in Path : p # NoRoute
  BY DEF Path, NoRoute
<1>2. /\ v \in Path /\ c \in Path /\ d \in Path /\ vd \in Path /\ cd \in Path
      /\ k.event # NoEvent => e \in Path
  BY PathsOf
<1>3. /\ d \in Visible(W) <=> d \in W
      /\ v \in Visible(W) <=> v \in W
      /\ vd \in Visible(W) <=> vd \in W /\ v \notin W
      /\ c \in Visible(W) <=> c \in W /\ v \notin W
      /\ cd \in Visible(W) <=> cd \in W /\ v \notin W /\ c \notin W
      /\ k.event # NoEvent => (e \in Visible(W) <=> e \in W /\ v \notin W /\ c \notin W)
  <2>1. v = <<k.vendor>> /\ c = <<k.vendor, k.category>>
    BY DEF Vendor, Category
  <2>2. d \in Visible(W) <=> d \in W
    BY PathsOf, VisibleIs
  <2>3. v \in Visible(W) <=> v \in W
    BY PathsOf, VisibleIs
  <2>4. vd \in Visible(W) <=> vd \in W /\ v \notin W
    <3>1. vd \in Path /\ Len(vd) = 2
      BY PathsOf
    <3>2. vd \in Visible(W) <=> vd \in W /\ <<vd[1]>> \notin W
      BY <3>1, VisibleIs
    <3>3. v = <<vd[1]>>
      BY <2>1, PathsOf
    <3> QED
      BY <3>2, <3>3
  <2>5. c \in Visible(W) <=> c \in W /\ v \notin W
    BY <2>1, PathsOf, VisibleIs
  <2>6. cd \in Visible(W) <=> cd \in W /\ v \notin W /\ c \notin W
    BY <2>1, PathsOf, VisibleIs
  <2>7. k.event # NoEvent => (e \in Visible(W) <=> e \in W /\ v \notin W /\ c \notin W)
    BY <2>1, PathsOf, VisibleIs
  <2> QED
    BY <2>2, <2>3, <2>4, <2>5, <2>6, <2>7
<1>4. /\ ~ Inner(W, v) /\ v \notin W =>
           vd \notin W /\ c \notin W /\ cd \notin W /\ (k.event # NoEvent => e \notin W)
      /\ ~ Inner(W, c) /\ c \notin W => cd \notin W /\ (k.event # NoEvent => e \notin W)
      /\ Inner(W, v) => v \notin W
      /\ Inner(W, c) => c \notin W
  <2>1. v = <<k.vendor>> /\ c = <<k.vendor, k.category>>
    BY DEF Vendor, Category
  <2>2. ~ Inner(W, v) /\ v \notin W => vd \notin W /\ c \notin W
    BY <2>1, PathsOf, InnerIs
  <2>3. ~ Inner(W, v) /\ v \notin W => cd \notin W
    BY <2>1, PathsOf, InnerIs
  <2>4. ~ Inner(W, v) /\ v \notin W /\ k.event # NoEvent => e \notin W
    BY <2>1, PathsOf, InnerIs
  <2>5. ~ Inner(W, c) /\ c \notin W => cd \notin W
    BY <2>1, PathsOf, InnerIs
  <2>6. ~ Inner(W, c) /\ c \notin W /\ k.event # NoEvent => e \notin W
    BY <2>1, PathsOf, InnerIs
  <2>7. (Inner(W, v) => v \notin W) /\ (Inner(W, c) => c \notin W)
    BY DEF Inner
  <2> QED
    BY <2>2, <2>3, <2>4, <2>5, <2>6, <2>7
<1>5. \A found, p : OrElse(found, p, W) = IF found # NoRoute THEN found
                                         ELSE IF p \in W THEN p ELSE NoRoute
  BY DEF OrElse
<1>6. InCategory(W, k) = IF k.event # NoEvent /\ e \in W THEN e
                         ELSE IF cd \in W THEN cd ELSE NoRoute
  BY <1>1, <1>2, <1>5 DEF InCategory
<1>7. InVendor(W, k) = IF Inner(W, c) /\ InCategory(W, k) # NoRoute THEN InCategory(W, k)
                       ELSE IF ~ Inner(W, c) /\ c \in W THEN c
                       ELSE IF vd \in W THEN vd ELSE NoRoute
  BY <1>1, <1>2, <1>5 DEF InVendor
<1>8. Lookup(W, k) = IF Inner(W, v) /\ InVendor(W, k) # NoRoute THEN InVendor(W, k)
                     ELSE IF ~ Inner(W, v) /\ v \in W THEN v
                     ELSE IF d \in W THEN d ELSE NoRoute
  BY <1>1, <1>2, <1>5 DEF Lookup
<1>9. MostSpecific(W, k) =
        IF k.event # NoEvent /\ e \in Visible(W) THEN e
        ELSE IF cd \in Visible(W) THEN cd ELSE IF c \in Visible(W) THEN c
        ELSE IF vd \in Visible(W) THEN vd ELSE IF v \in Visible(W) THEN v
        ELSE IF d \in Visible(W) THEN d ELSE NoRoute
  BY MostSpecificIs
<1>10. /\ v # NoRoute /\ c # NoRoute /\ d # NoRoute /\ vd # NoRoute /\ cd # NoRoute
       /\ k.event # NoEvent => e # NoRoute
  BY <1>1, <1>2
<1> HIDE DEF e, cd, c, vd, v, d
<1>11. CASE v \in W
  BY <1>3, <1>4, <1>8, <1>9, <1>11
<1>12. CASE v \notin W /\ ~ Inner(W, v)
  BY <1>3, <1>4, <1>8, <1>9, <1>12
<1>13. CASE Inner(W, v) /\ Inner(W, c)
  BY <1>3, <1>4, <1>6, <1>7, <1>8, <1>9, <1>10, <1>13
<1>14. CASE Inner(W, v) /\ ~ Inner(W, c)
  BY <1>3, <1>4, <1>7, <1>8, <1>9, <1>10, <1>14
<1> QED
  BY <1>11, <1>12, <1>13, <1>14

-------------------------------------------------------------------------------
(* The inductive invariant. *)

(* What the resolver holds is what the file holds, when the modification   *)
(* time says so.                                                           *)
CacheInv ==
  /\ step = "stat" => routes.kind # "none"
  /\ ~ blind /\ file.kind # "missing" /\ (step = "stat" \/ (built /\ mtime = loadedAt))
       => routes = file

(* What a call may go by, the file held since the call began. *)
SeenInv ==
  /\ step # "idle" => file \in seen
  /\ step \in {"check", "lookup"} /\ file.kind = "missing" => routes \in seen
  /\ step = "stat" => routes \in seen
  /\ step = "lookup" /\ ~ blind => routes \in seen
  /\ AnswersAreCurrent

(* The run that was reported ended the session. *)
RunsInv ==
  /\ \A e \in Events : ran[e] <= unsure[e] + (IF pc[e] = "done" THEN 1 ELSE 0)
  /\ RepeatsNeedLostAnswers

IndInv == TypeOK /\ CacheInv /\ SeenInv /\ RunsInv

-------------------------------------------------------------------------------
(* The invariant holds at the start. *)

LEMMA InitInd == DispatchInit => IndInv
<1> SUFFICES ASSUME DispatchInit PROVE IndInv
  OBVIOUS
<1> USE DEF DispatchInit, Init
<1>1. PICK W \in Tables : file = Table(W)
  OBVIOUS
<1>2. TypeOK
  <2>1. file \in [kind : {"routes", "null", "torn", "missing"}, paths : {{}} \cup Tables]
    BY <1>1 DEF Table
  <2>2. routes \in [kind : {"none", "routes", "null"}, paths : {{}} \cup Tables]
    BY DEF Text
  <2>3. mtime \in 1 .. (1 + writes) /\ loadedAt \in 0 .. mtime /\ writes \in 0 .. MaxWrites
    BY ResolverAssumption
  <2>4. built \in BOOLEAN /\ blind \in BOOLEAN /\ writing \in BOOLEAN
    OBVIOUS
  <2>5. posts \in [Events -> 0 .. MaxRetries] /\ ran \in [Events -> Nat]
        /\ unsure \in [Events -> Nat]
    BY DispatchAssumption
  <2>6. \A e \in Events : unsure[e] <= ran[e] /\ ran[e] <= posts[e]
    OBVIOUS
  <2> QED
    BY <2>1, <2>2, <2>3, <2>4, <2>5, <2>6 DEF TypeOK
<1>3. CacheInv
  BY DEF CacheInv
<1>4. SeenInv
  BY DEF SeenInv, AnswersAreCurrent
<1>5. RunsInv
  BY DEF RunsInv, RepeatsNeedLostAnswers
<1> QED
  BY <1>2, <1>3, <1>4, <1>5 DEF IndInv

-------------------------------------------------------------------------------
(* The owner of the file. *)

LEMMA FileTypes ==
  /\ \A W \in Tables :
       /\ Table(W) \in [kind : {"routes", "null", "torn", "missing"}, paths : {{}} \cup Tables]
       /\ Table(W).kind # "missing"
  /\ \A kind \in {"null", "torn", "missing"} :
       /\ Text(kind) \in [kind : {"routes", "null", "torn", "missing"}, paths : {{}} \cup Tables]
       /\ Text(kind).kind = kind
BY DEF Table, Text

LEMMA ChangeInd ==
  ASSUME IndInv, NEW text, Change(text), UNCHANGED clientVars, writing' \in BOOLEAN,
         text \in [kind : {"routes", "null", "torn", "missing"}, paths : {{}} \cup Tables],
         text.kind # "missing"
  PROVE  IndInv'
<1>1. /\ writes < MaxWrites /\ writes' = writes + 1 /\ file' = text
      /\ mtime' \in {mtime, mtime + 1}
      /\ blind' = (blind \/ step = "stat" \/ (built /\ mtime' = loadedAt))
      /\ seen' = seen \cup {text}
      /\ UNCHANGED <<built, routes, loadedAt, step, key, answer>>
      /\ UNCHANGED <<pc, posts, ran, unsure, refused>>
  BY DEF Change, resolverVars, clientVars
<1>2. TypeOK /\ CacheInv /\ SeenInv /\ RunsInv
  BY DEF IndInv
<1>3. TypeOK'
  <2>1. /\ mtime' \in 1 .. (1 + writes') /\ loadedAt' \in 0 .. mtime'
        /\ writes' \in 0 .. MaxWrites
    <3>1. /\ writes \in Nat /\ MaxWrites \in Nat /\ mtime \in Nat /\ 1 <= mtime
          /\ mtime <= 1 + writes /\ loadedAt \in Nat /\ loadedAt <= mtime
      BY <1>2, ResolverAssumption DEF TypeOK
    <3>2. CASE mtime' = mtime
      BY <1>1, <3>1, <3>2
    <3>3. CASE mtime' = mtime + 1
      BY <1>1, <3>1, <3>3
    <3> QED
      BY <1>1, <3>2, <3>3
  <2>2. blind' \in BOOLEAN
    BY <1>1
  <2> QED
    BY <1>1, <1>2, <2>1, <2>2 DEF TypeOK
<1>4. CacheInv'
  BY <1>1, <1>2 DEF CacheInv
<1>5. SeenInv'
  BY <1>1, <1>2 DEF SeenInv, AnswersAreCurrent
<1>6. RunsInv'
  BY <1>1, <1>2 DEF RunsInv, RepeatsNeedLostAnswers
<1> QED
  BY <1>3, <1>4, <1>5, <1>6 DEF IndInv

LEMMA DeleteInd ==
  ASSUME IndInv, Delete, UNCHANGED clientVars
  PROVE  IndInv'
<1>1. /\ writes < MaxWrites /\ writes' = writes + 1 /\ file' = Text("missing")
      /\ seen' = seen \cup {file', routes}
      /\ UNCHANGED <<mtime, writing, blind, built, routes, loadedAt, step, key, answer>>
      /\ UNCHANGED <<pc, posts, ran, unsure, refused>>
  BY DEF Delete, resolverVars, clientVars
<1>2. TypeOK /\ CacheInv /\ SeenInv /\ RunsInv
  BY DEF IndInv
<1>3. /\ file' \in [kind : {"routes", "null", "torn", "missing"}, paths : {{}} \cup Tables]
      /\ file'.kind = "missing"
  BY <1>1, FileTypes
<1>4. TypeOK'
  <2>1. mtime' \in 1 .. (1 + writes') /\ writes' \in 0 .. MaxWrites
    BY <1>1, <1>2, ResolverAssumption DEF TypeOK
  <2> QED
    BY <1>1, <1>2, <1>3, <2>1 DEF TypeOK
<1>5. CacheInv'
  BY <1>1, <1>2, <1>3 DEF CacheInv
<1>6. SeenInv'
  BY <1>1, <1>2, <1>3 DEF SeenInv, AnswersAreCurrent
<1>7. RunsInv'
  BY <1>1, <1>2 DEF RunsInv, RepeatsNeedLostAnswers
<1> QED
  BY <1>4, <1>5, <1>6, <1>7 DEF IndInv

LEMMA OwnerInd ==
  ASSUME IndInv, Owner, UNCHANGED clientVars
  PROVE  IndInv'
<1>1. writing \in BOOLEAN
  BY DEF IndInv, TypeOK
<1>2. ASSUME NEW W \in Tables, Replace(W) PROVE IndInv'
  <2>1. Change(Table(W)) /\ writing' \in BOOLEAN
    BY <1>1, <1>2 DEF Replace
  <2> QED
    BY <2>1, FileTypes, ChangeInd
<1>3. ASSUME NEW W \in Tables, EndWrite(W) PROVE IndInv'
  <2>1. writing' = FALSE => writing' \in BOOLEAN
    OBVIOUS
  <2>2. Change(Table(W)) /\ writing' \in BOOLEAN
    BY <1>3, <2>1 DEF EndWrite
  <2> QED
    BY <2>2, FileTypes, ChangeInd
<1>4. ASSUME BeginWrite PROVE IndInv'
  <2>1. writing' = TRUE => writing' \in BOOLEAN
    OBVIOUS
  <2>2. PICK kind \in {"torn", "null"} : Change(Text(kind))
    BY <1>4 DEF BeginWrite
  <2>3. writing' \in BOOLEAN
    BY <1>4, <2>1 DEF BeginWrite
  <2>4. /\ Text(kind) \in [kind : {"routes", "null", "torn", "missing"}, paths : {{}} \cup Tables]
        /\ Text(kind).kind # "missing"
    BY FileTypes
  <2> QED
    BY <2>2, <2>3, <2>4, ChangeInd
<1> QED
  BY <1>2, <1>3, <1>4, DeleteInd DEF Owner

-------------------------------------------------------------------------------
(* resolve(). *)

LEMMA TablePaths ==
  ASSUME NEW W \in {{}} \cup Tables
  PROVE  W \in SUBSET Path
<1>1. ASSUME NEW p \in W PROVE p \in Seq(STRING) /\ p # <<>>
  BY <1>1, ResolverAssumption
<1>2. STRING \subseteq Names
  BY DEF Names
<1>3. ASSUME NEW p \in W PROVE p \in Seq(Names)
  BY <1>1, <1>2, <1>3, SeqMonotonic
<1> QED
  BY <1>1, <1>3 DEF Path

LEMMA CheckInd ==
  ASSUME IndInv, Check, UNCHANGED clientVars
  PROVE  IndInv'
<1>1. /\ step = "check"
      /\ step' = IF file.kind = "missing" \/ mtime = loadedAt THEN "lookup" ELSE "read"
      /\ UNCHANGED <<file, mtime, writing, writes, built, routes, loadedAt, key, answer, seen, blind>>
      /\ UNCHANGED <<pc, posts, ran, unsure, refused>>
  BY DEF Check, Goto, fileVars, clientVars
<1>2. TypeOK /\ CacheInv /\ SeenInv /\ RunsInv /\ built
  BY <1>1 DEF IndInv, TypeOK
<1>3. TypeOK'
  BY <1>1, <1>2 DEF TypeOK
<1>4. CacheInv'
  BY <1>1, <1>2 DEF CacheInv
<1>5. SeenInv'
  <2>1. step' = "lookup" /\ ~ blind => routes \in seen
    BY <1>1, <1>2 DEF SeenInv, CacheInv
  <2> QED
    BY <1>1, <1>2, <2>1 DEF SeenInv, AnswersAreCurrent
<1>6. RunsInv'
  BY <1>1, <1>2 DEF RunsInv, RepeatsNeedLostAnswers
<1> QED
  BY <1>3, <1>4, <1>5, <1>6 DEF IndInv

LEMMA ReadInd ==
  ASSUME IndInv, Read, UNCHANGED clientVars
  PROVE  IndInv'
<1>1. /\ step = "read"
      /\ UNCHANGED <<file, mtime, writing, writes, built, loadedAt, key, seen>>
      /\ UNCHANGED <<pc, posts, ran, unsure, refused>>
  BY DEF Read, fileVars, clientVars
<1>2. TypeOK /\ CacheInv /\ SeenInv /\ RunsInv
  BY DEF IndInv
<1>3. RunsInv'
  BY <1>1, <1>2 DEF RunsInv, RepeatsNeedLostAnswers
<1>4. CASE file.kind \in {"missing", "torn"}
  <2>1. /\ step' = "idle" /\ answer'.raised /\ routes' = routes /\ blind' = blind
        /\ file.kind # "routes"
    BY <1>4 DEF Read, Return, Goto
  <2>2. TypeOK'
    BY <1>1, <1>2, <2>1 DEF TypeOK
  <2>3. CacheInv'
    BY <1>1, <1>2, <2>1 DEF CacheInv
  <2>4. SeenInv'
    BY <1>1, <1>2, <2>1 DEF SeenInv, AnswersAreCurrent
  <2> QED
    BY <1>3, <2>2, <2>3, <2>4 DEF IndInv
<1>5. CASE file.kind \notin {"missing", "torn"}
  <2>1. step' = "stat" /\ routes' = file /\ blind' = FALSE /\ answer' = answer
    BY <1>5 DEF Read, Goto
  <2>2. file.kind \in {"routes", "null"}
    BY <1>2, <1>5 DEF TypeOK
  <2>3. TypeOK'
    <3>1. routes' \in [kind : {"none", "routes", "null"}, paths : {{}} \cup Tables]
      BY <1>2, <2>1, <2>2 DEF TypeOK
    <3>2. blind' \in BOOLEAN
      BY <2>1
    <3>3. built' => routes'.kind # "none" /\ loadedAt' > 0
      BY <1>1, <1>2, <2>1, <2>2 DEF TypeOK
    <3> QED
      BY <1>1, <1>2, <2>1, <3>1, <3>2, <3>3 DEF TypeOK
  <2>4. CacheInv'
    BY <1>1, <1>2, <2>1, <2>2 DEF CacheInv
  <2>5. SeenInv'
    BY <1>1, <1>2, <2>1 DEF SeenInv, AnswersAreCurrent
  <2> QED
    BY <1>3, <2>3, <2>4, <2>5 DEF IndInv
<1> QED
  BY <1>4, <1>5

LEMMA StatInd ==
  ASSUME IndInv, Stat, UNCHANGED clientVars
  PROVE  IndInv'
<1>1. /\ step = "stat"
      /\ loadedAt' = IF file.kind = "missing" THEN loadedAt ELSE mtime
      /\ UNCHANGED <<file, mtime, writing, writes, routes, key, seen, blind>>
      /\ UNCHANGED <<pc, posts, ran, unsure, refused>>
  BY DEF Stat, fileVars, clientVars
<1>2. /\ TypeOK /\ CacheInv /\ SeenInv /\ RunsInv
      /\ file \in seen /\ routes \in seen /\ routes.kind # "none"
      /\ ~ blind /\ file.kind # "missing" => routes = file
      /\ mtime > 0 /\ loadedAt' \in 0 .. mtime
  <2>1. TypeOK /\ CacheInv /\ SeenInv /\ RunsInv
    BY DEF IndInv
  <2>2. mtime \in Nat /\ mtime > 0 /\ loadedAt \in 0 .. mtime
    BY <2>1 DEF TypeOK
  <2>3. loadedAt' \in 0 .. mtime
    <3>1. CASE file.kind = "missing"
      BY <1>1, <2>2, <3>1
    <3>2. CASE file.kind # "missing"
      BY <1>1, <2>2, <3>2
    <3> QED
      BY <3>1, <3>2
  <2>4. file \in seen /\ routes \in seen /\ routes.kind # "none"
    BY <1>1, <2>1 DEF SeenInv, CacheInv
  <2>5. ~ blind /\ file.kind # "missing" => routes = file
    BY <1>1, <2>1 DEF CacheInv
  <2> QED
    BY <2>1, <2>2, <2>3, <2>4, <2>5
<1>3. RunsInv'
  BY <1>1, <1>2 DEF RunsInv, RepeatsNeedLostAnswers
<1>4. CASE file.kind = "missing" \/ routes.kind = "null"
  <2>1. step' = "idle" /\ answer'.raised /\ built' = built
    BY <1>4 DEF Stat, Return, Goto
  <2>2. TypeOK'
    <3>1. built' => routes'.kind # "none" /\ loadedAt' > 0
      BY <1>1, <1>2, <2>1 DEF TypeOK
    <3> QED
      BY <1>1, <1>2, <2>1, <3>1 DEF TypeOK
  <2>3. CacheInv'
    BY <1>1, <1>2, <2>1 DEF CacheInv
  <2>4. SeenInv'
    <3>1. \E text \in seen : text.kind # "routes"
      BY <1>2, <1>4
    <3> QED
      BY <1>1, <1>2, <2>1, <3>1 DEF SeenInv, AnswersAreCurrent
  <2> QED
    BY <1>3, <2>2, <2>3, <2>4 DEF IndInv
<1>5. CASE ~ (file.kind = "missing" \/ routes.kind = "null")
  <2>1. /\ step' = IF built THEN "lookup" ELSE "check"
        /\ built' = TRUE /\ answer' = answer /\ loadedAt' = mtime
    BY <1>1, <1>5 DEF Stat, Goto
  <2>2. TypeOK'
    <3>1. built' \in BOOLEAN
      BY <2>1
    <3>2. step' \in {"idle", "check", "read", "stat", "lookup"}
      BY <2>1
    <3>3. step' # "idle" => \E e \in Events : pc[e] = "resolving" /\ KeyOf[e] = key
      BY <1>1, <1>2 DEF TypeOK
    <3>4. built' => routes'.kind # "none" /\ loadedAt' > 0
      BY <1>1, <1>2, <2>1
    <3> QED
      BY <1>1, <1>2, <2>1, <3>1, <3>2, <3>3, <3>4 DEF TypeOK
  <2>3. CacheInv'
    BY <1>1, <1>2, <1>5, <2>1 DEF CacheInv
  <2>4. SeenInv'
    BY <1>1, <1>2, <1>5, <2>1 DEF SeenInv, AnswersAreCurrent
  <2> QED
    BY <1>3, <2>2, <2>3, <2>4 DEF IndInv
<1> QED
  BY <1>4, <1>5

LEMMA FindInd ==
  ASSUME IndInv, Find, UNCHANGED clientVars
  PROVE  IndInv'
<1>1. /\ step = "lookup" /\ step' = "idle"
      /\ answer' = IF routes.kind = "null" THEN [raised |-> TRUE, path |-> NoRoute]
                   ELSE [raised |-> FALSE, path |-> Lookup(routes.paths, key)]
      /\ UNCHANGED <<file, mtime, writing, writes, built, routes, loadedAt, key, seen, blind>>
      /\ UNCHANGED <<pc, posts, ran, unsure, refused>>
  BY DEF Find, Return, Goto, fileVars, clientVars
<1>2. TypeOK /\ CacheInv /\ SeenInv /\ RunsInv
  BY DEF IndInv
<1>3. TypeOK'
  BY <1>1, <1>2 DEF TypeOK
<1>4. CacheInv'
  BY <1>1, <1>2 DEF CacheInv
<1>5. SeenInv'
  <2>1. routes.kind \in {"routes", "null"} /\ routes.paths \in {{}} \cup Tables /\ key \in Keys
    BY <1>1, <1>2 DEF TypeOK
  <2>2. routes.paths \in SUBSET Path
    BY <2>1, TablePaths
  <2>3. Lookup(routes.paths, key) = MostSpecific(routes.paths, key)
    BY <2>1, <2>2, LookupIs
  <2>4. IF answer'.raised THEN routes.kind # "routes"
                          ELSE /\ routes.kind = "routes"
                               /\ answer'.path = MostSpecific(routes.paths, key)
    <3>1. CASE routes.kind = "null"
      BY <1>1, <3>1
    <3>2. CASE routes.kind = "routes"
      BY <1>1, <2>3, <3>2
    <3> QED
      BY <2>1, <3>1, <3>2
  <2>5. ~ blind => routes \in seen
    BY <1>1, <1>2 DEF SeenInv
  <2>6. AnswersAreCurrent'
    BY <1>1, <2>4, <2>5 DEF AnswersAreCurrent
  <2> QED
    BY <1>1, <2>6 DEF SeenInv
<1>6. RunsInv'
  BY <1>1, <1>2 DEF RunsInv, RepeatsNeedLostAnswers
<1> QED
  BY <1>3, <1>4, <1>5, <1>6 DEF IndInv

-------------------------------------------------------------------------------
(* The sessions. *)

Codes == Ended \cup {"new", "resolving", "resolved", "posting"}

LEMMA ResolveRouteInd ==
  ASSUME IndInv, NEW e \in Events, ResolveRoute(e)
  PROVE  IndInv'
<1>1. /\ pc[e] = "new" /\ step = "idle"
      /\ step' = IF built THEN "check" ELSE "read"
      /\ key' = KeyOf[e]
      /\ seen' = {file} \cup (IF file.kind = "missing" THEN {routes} ELSE {})
      /\ UNCHANGED <<file, mtime, writing, writes, built, routes, loadedAt, answer, blind>>
      /\ pc' = [pc EXCEPT ![e] = "resolving"]
      /\ UNCHANGED <<posts, ran, unsure, refused>>
  BY DEF ResolveRoute, Call, Goto, Session, fileVars
<1>2. TypeOK /\ CacheInv /\ SeenInv /\ RunsInv /\ pc \in [Events -> Codes]
  BY DEF IndInv, TypeOK, Codes
<1>3. /\ pc' \in [Events -> Codes] /\ pc'[e] = "resolving"
      /\ \A f \in Events : f # e => pc'[f] = pc[f]
  <2>1. "resolving" \in Codes
    BY DEF Codes
  <2> QED
    BY <1>1, <1>2, <2>1
<1>4. TypeOK'
  <2>1. step' \in {"check", "read"} /\ (step' = "check" => built')
    BY <1>1, <1>2
  <2>2. key' \in Keys
    BY <1>1, DispatchAssumption
  <2>3. \E f \in Events : pc'[f] = "resolving" /\ KeyOf[f] = key'
    BY <1>1, <1>3
  <2>4. pc' \in [Events -> Ended \cup {"new", "resolving", "resolved", "posting"}]
    BY <1>3 DEF Codes
  <2> QED
    BY <1>1, <1>2, <2>1, <2>2, <2>3, <2>4 DEF TypeOK
<1>5. CacheInv'
  BY <1>1, <1>2 DEF CacheInv
<1>6. SeenInv'
  BY <1>1, <1>2 DEF SeenInv, AnswersAreCurrent
<1>7. RunsInv'
  BY <1>1, <1>2, <1>3 DEF RunsInv, RepeatsNeedLostAnswers
<1> QED
  BY <1>4, <1>5, <1>6, <1>7 DEF IndInv

(* A step of one session, outside of resolve(): its new place s, posts p,  *)
(* runs r and unreported runs u.                                           *)
LEMMA SessionInd ==
  ASSUME IndInv, NEW e \in Events, UNCHANGED resolveVars,
         pc[e] = "resolving" => step = "idle",
         NEW s \in Ended \cup {"resolved", "posting"}, pc' = [pc EXCEPT ![e] = s],
         NEW p \in 0 .. MaxRetries, posts' = [posts EXCEPT ![e] = p],
         NEW r \in Nat, ran' = [ran EXCEPT ![e] = r],
         NEW u \in Nat, unsure' = [unsure EXCEPT ![e] = u],
         u <= r, r <= p, r <= u + (IF s = "done" THEN 1 ELSE 0),
         NEW x \in SUBSET {e}, refused' = refused \cup x,
         s = "failed" => e \in refused' \/ p = MaxRetries,
         e \in refused' => s = "failed"
  PROVE  IndInv'
<1>1. UNCHANGED <<file, mtime, writing, writes, built, routes, loadedAt, step, key, answer,
                  seen, blind>>
  BY DEF resolveVars
<1>2. TypeOK /\ CacheInv /\ SeenInv /\ RunsInv /\ pc \in [Events -> Codes]
  BY DEF IndInv, TypeOK, Codes
<1>3. s \in Codes /\ s # "resolving"
  BY DEF Codes, Ended
<1>4. /\ pc' \in [Events -> Codes] /\ pc'[e] = s
      /\ posts' \in [Events -> 0 .. MaxRetries] /\ posts'[e] = p
      /\ ran' \in [Events -> Nat] /\ ran'[e] = r
      /\ unsure' \in [Events -> Nat] /\ unsure'[e] = u
      /\ \A f \in Events : f # e => /\ pc'[f] = pc[f] /\ posts'[f] = posts[f]
                                   /\ ran'[f] = ran[f] /\ unsure'[f] = unsure[f]
      /\ refused' \subseteq Events
      /\ \A f \in Events : f # e => (f \in refused' <=> f \in refused)
  <2>1. pc' \in [Events -> Codes] /\ pc'[e] = s /\ \A f \in Events : f # e => pc'[f] = pc[f]
    BY <1>2, <1>3
  <2>2. /\ posts' \in [Events -> 0 .. MaxRetries] /\ posts'[e] = p
        /\ \A f \in Events : f # e => posts'[f] = posts[f]
    BY <1>2 DEF TypeOK
  <2>3. /\ ran' \in [Events -> Nat] /\ ran'[e] = r
        /\ \A f \in Events : f # e => ran'[f] = ran[f]
    BY <1>2 DEF TypeOK
  <2>4. /\ unsure' \in [Events -> Nat] /\ unsure'[e] = u
        /\ \A f \in Events : f # e => unsure'[f] = unsure[f]
    BY <1>2 DEF TypeOK
  <2>5. refused' \subseteq Events /\ \A f \in Events : f # e => (f \in refused' <=> f \in refused)
    BY <1>2 DEF TypeOK
  <2> QED
    BY <2>1, <2>2, <2>3, <2>4, <2>5
<1>5. \A f \in Events : pc'[f] = "resolving" => pc[f] = "resolving"
  BY <1>3, <1>4
<1>6. TypeOK'
  <2>1. ASSUME step # "idle" PROVE \E f \in Events : pc'[f] = "resolving" /\ KeyOf[f] = key
    <3>1. PICK f \in Events : pc[f] = "resolving" /\ KeyOf[f] = key
      BY <1>2, <2>1 DEF TypeOK
    <3>2. f # e
      BY <2>1, <3>1
    <3> QED
      BY <1>4, <3>1, <3>2
  <2>2. pc' \in [Events -> Ended \cup {"new", "resolving", "resolved", "posting"}]
    BY <1>4 DEF Codes
  <2>3. ASSUME NEW f \in Events PROVE unsure'[f] <= ran'[f] /\ ran'[f] <= posts'[f]
    <3>1. CASE f = e
      BY <1>4, <3>1
    <3>2. CASE f # e
      BY <1>2, <1>4, <3>2 DEF TypeOK
    <3> QED
      BY <3>1, <3>2
  <2> QED
    BY <1>1, <1>2, <1>4, <2>1, <2>2, <2>3 DEF TypeOK
<1>7. CacheInv'
  BY <1>1, <1>2 DEF CacheInv
<1>8. SeenInv'
  BY <1>1, <1>2, <1>5 DEF SeenInv, AnswersAreCurrent
<1>9. RunsInv'
  <2>1. ASSUME NEW f \in Events
        PROVE  /\ ran'[f] <= unsure'[f] + (IF pc'[f] = "done" THEN 1 ELSE 0)
               /\ ran'[f] <= unsure'[f] + 1
               /\ pc'[f] = "failed" => f \in refused' \/ posts'[f] = MaxRetries
               /\ f \in refused' => pc'[f] = "failed"
    <3>1. CASE f = e
      <4>1. r <= u + 1
        <5>1. CASE s = "done"
          BY <5>1
        <5>2. CASE s # "done"
          BY <5>2
        <5> QED
          BY <5>1, <5>2
      <4>2. ran'[e] <= unsure'[e] + (IF pc'[e] = "done" THEN 1 ELSE 0) /\ ran'[e] <= unsure'[e] + 1
        BY <1>4, <4>1
      <4>3. /\ pc'[e] = "failed" => e \in refused' \/ posts'[e] = MaxRetries
            /\ e \in refused' => pc'[e] = "failed"
        BY <1>4
      <4> QED
        BY <3>1, <4>2, <4>3
    <3>2. CASE f # e
      BY <1>2, <1>4, <3>2 DEF RunsInv, RepeatsNeedLostAnswers
    <3> QED
      BY <3>1, <3>2
  <2> QED
    BY <2>1 DEF RunsInv, RepeatsNeedLostAnswers
<1> QED
  BY <1>6, <1>7, <1>8, <1>9 DEF IndInv

(* What is known of an event before such a step. *)
LEMMA SessionFacts ==
  ASSUME IndInv, NEW e \in Events
  PROVE  /\ posts[e] \in 0 .. MaxRetries /\ posts[e] \in Nat /\ MaxRetries \in Nat
         /\ ran[e] \in Nat /\ unsure[e] \in Nat
         /\ unsure[e] <= ran[e] /\ ran[e] <= posts[e]
         /\ pc[e] \in Codes
         /\ pc[e] # "done" => ran[e] <= unsure[e]
         /\ e \in refused => pc[e] = "failed"
         /\ posts = [posts EXCEPT ![e] = posts[e]]
         /\ ran = [ran EXCEPT ![e] = ran[e]]
         /\ unsure = [unsure EXCEPT ![e] = unsure[e]]
         /\ pc = [pc EXCEPT ![e] = pc[e]]
         /\ refused = refused \cup {}
<1>1. TypeOK /\ RunsInv
  BY DEF IndInv
<1>2. /\ posts \in [Events -> 0 .. MaxRetries] /\ ran \in [Events -> Nat]
      /\ unsure \in [Events -> Nat] /\ pc \in [Events -> Codes]
      /\ unsure[e] <= ran[e] /\ ran[e] <= posts[e]
  BY <1>1 DEF TypeOK, Codes
<1>3. posts[e] \in 0 .. MaxRetries /\ posts[e] \in Nat /\ MaxRetries \in Nat
  BY <1>2, DispatchAssumption
<1>4. ran[e] \in Nat /\ unsure[e] \in Nat /\ pc[e] \in Codes
  BY <1>2
<1>5. pc[e] # "done" => ran[e] <= unsure[e]
  <2>1. ran[e] <= unsure[e] + (IF pc[e] = "done" THEN 1 ELSE 0)
    BY <1>1 DEF RunsInv
  <2> QED
    BY <1>4, <2>1
<1>6. e \in refused => pc[e] = "failed"
  BY <1>1 DEF RunsInv, RepeatsNeedLostAnswers
<1>7. /\ posts = [posts EXCEPT ![e] = posts[e]] /\ ran = [ran EXCEPT ![e] = ran[e]]
      /\ unsure = [unsure EXCEPT ![e] = unsure[e]] /\ pc = [pc EXCEPT ![e] = pc[e]]
  BY <1>2
<1> QED
  BY <1>2, <1>3, <1>4, <1>5, <1>6, <1>7

LEMMA ToolInd ==
  ASSUME IndInv, NEW e \in Events, Resolved(e) \/ ExecuteWebhook(e) \/ GiveUp(e)
  PROVE  IndInv'
<1>1. /\ UNCHANGED resolveVars /\ posts' = posts /\ ran' = ran /\ unsure' = unsure
      /\ refused' = refused
  BY DEF Resolved, ExecuteWebhook, GiveUp
<1>2. PICK s \in Ended \cup {"resolved", "posting"} :
        /\ pc' = [pc EXCEPT ![e] = s] /\ s # "done" /\ pc[e] \in {"resolving", "resolved", "posting"}
        /\ s = "failed" => posts[e] = MaxRetries
        /\ pc[e] = "resolving" => step = "idle"
  <2>1. CASE Resolved(e)
    <3>1. PICK s \in {"raised", "noRoute", "resolved"} : pc' = [pc EXCEPT ![e] = s]
      BY <2>1 DEF Resolved, Session
    <3> QED
      BY <2>1, <3>1 DEF Resolved, Ended
  <2>2. CASE ExecuteWebhook(e)
    <3>1. PICK s \in {"posting", "invalid"} : pc' = [pc EXCEPT ![e] = s]
      BY <2>2 DEF ExecuteWebhook, Session
    <3> QED
      BY <2>2, <3>1 DEF ExecuteWebhook, Ended
  <2>3. CASE GiveUp(e)
    BY <2>3 DEF GiveUp, Session, Ended
  <2> QED
    BY <2>1, <2>2, <2>3
<1>3. PICK p \in 0 .. MaxRetries, r \in Nat, u \in Nat :
        /\ p = posts[e] /\ r = ran[e] /\ u = unsure[e]
        /\ u <= r /\ r <= p /\ r <= u
        /\ posts' = [posts EXCEPT ![e] = p] /\ ran' = [ran EXCEPT ![e] = r]
        /\ unsure' = [unsure EXCEPT ![e] = u]
  BY <1>1, <1>2, SessionFacts
<1>4. r <= u + (IF s = "done" THEN 1 ELSE 0)
  BY <1>2, <1>3
<1>5. e \notin refused'
  BY <1>1, <1>2, SessionFacts
<1>6. {} \in SUBSET {e} /\ refused' = refused \cup {}
  BY <1>1
<1> QED
  BY <1>1, <1>2, <1>3, <1>4, <1>5, <1>6, SessionInd

LEMMA PostInd ==
  ASSUME IndInv, NEW e \in Events,
         PostSucceeds(e) \/ PostRefused(e) \/ PostFails(e) \/ PostRaises(e)
  PROVE  IndInv'
<1>1. /\ pc[e] = "posting" /\ posts[e] < MaxRetries
      /\ posts' = [posts EXCEPT ![e] = posts[e] + 1] /\ UNCHANGED resolveVars
  BY DEF PostSucceeds, PostRefused, PostFails, PostRaises, Post
<1>2. /\ posts[e] + 1 \in 0 .. MaxRetries /\ posts[e] \in Nat
      /\ ran[e] \in Nat /\ unsure[e] \in Nat /\ ran[e] = unsure[e] /\ ran[e] <= posts[e]
      /\ e \notin refused /\ refused = refused \cup {}
      /\ ran = [ran EXCEPT ![e] = ran[e]] /\ unsure = [unsure EXCEPT ![e] = unsure[e]]
      /\ pc = [pc EXCEPT ![e] = "posting"]
  <2>1. posts[e] \in Nat /\ MaxRetries \in Nat
    BY SessionFacts
  <2>2. posts[e] + 1 \in 0 .. MaxRetries
    BY <1>1, <2>1
  <2>3. ran[e] \in Nat /\ unsure[e] \in Nat /\ unsure[e] <= ran[e] /\ ran[e] <= unsure[e]
    BY <1>1, SessionFacts
  <2>4. ran[e] = unsure[e]
    BY <2>3
  <2> QED
    BY <1>1, <2>1, <2>2, <2>3, <2>4, SessionFacts
<1>3. PICK s, r, u, x :
        /\ pc' = [pc EXCEPT ![e] = s] /\ ran' = [ran EXCEPT ![e] = r]
        /\ unsure' = [unsure EXCEPT ![e] = u] /\ refused' = refused \cup x
        /\ \/ s = "done" /\ r = ran[e] + 1 /\ u = unsure[e] /\ x = {}
           \/ s \in {"raised", "posting"} /\ r = ran[e] + 1 /\ u = unsure[e] + 1 /\ x = {}
           \/ s \in {"raised", "posting"} /\ r = ran[e] /\ u = unsure[e] /\ x = {}
           \/ s = "failed" /\ r = ran[e] /\ u = unsure[e] /\ x = {e}
  <2>1. CASE PostSucceeds(e)
    <3>1. refused' = refused \cup {}
      BY <2>1 DEF PostSucceeds
    <3>2. CASE Runs(e, TRUE) /\ Session(e, "done")
      <4>1. /\ pc' = [pc EXCEPT ![e] = "done"] /\ ran' = [ran EXCEPT ![e] = ran[e] + 1]
            /\ unsure' = [unsure EXCEPT ![e] = unsure[e]]
        BY <1>2, <3>2 DEF Runs, Session
      <4> QED
        BY <3>1, <4>1
    <3>3. CASE Runs(e, FALSE) /\ Session(e, "raised")
      <4>1. /\ pc' = [pc EXCEPT ![e] = "raised"] /\ ran' = [ran EXCEPT ![e] = ran[e] + 1]
            /\ unsure' = [unsure EXCEPT ![e] = unsure[e] + 1]
        BY <3>3 DEF Runs, Session
      <4> QED
        BY <3>1, <4>1
    <3> QED
      BY <2>1, <3>2, <3>3 DEF PostSucceeds
  <2>2. CASE PostRefused(e)
    <3>1. /\ pc' = [pc EXCEPT ![e] = "failed"] /\ ran' = [ran EXCEPT ![e] = ran[e]]
          /\ unsure' = [unsure EXCEPT ![e] = unsure[e]] /\ refused' = refused \cup {e}
      BY <1>2, <2>2 DEF PostRefused, Session
    <3> QED
      BY <3>1
  <2>3. CASE PostFails(e) \/ PostRaises(e)
    <3>1. refused' = refused \cup {}
      BY <2>3 DEF PostFails, PostRaises
    <3>2. PICK s \in {"raised", "posting"} : pc' = [pc EXCEPT ![e] = s]
      BY <1>2, <2>3 DEF PostFails, PostRaises, Session
    <3>3. CASE Runs(e, FALSE)
      <4>1. /\ ran' = [ran EXCEPT ![e] = ran[e] + 1]
            /\ unsure' = [unsure EXCEPT ![e] = unsure[e] + 1]
        BY <3>3 DEF Runs
      <4> QED
        BY <3>1, <3>2, <4>1
    <3>4. CASE UNCHANGED <<ran, unsure>>
      <4>1. ran' = [ran EXCEPT ![e] = ran[e]] /\ unsure' = [unsure EXCEPT ![e] = unsure[e]]
        BY <1>2, <3>4
      <4> QED
        BY <3>1, <3>2, <4>1
    <3> QED
      BY <2>3, <3>3, <3>4 DEF PostFails, PostRaises
  <2> QED
    BY <2>1, <2>2, <2>3
<1>4. s \in Ended \cup {"resolved", "posting"} /\ x \in SUBSET {e}
  BY <1>3 DEF Ended
<1>5. r \in Nat /\ u \in Nat /\ u <= r /\ r <= posts[e] + 1
  BY <1>2, <1>3
<1>6. r <= u + (IF s = "done" THEN 1 ELSE 0)
  BY <1>2, <1>3
<1>7. (s = "failed" => e \in refused') /\ (e \in refused' => s = "failed")
  BY <1>2, <1>3
<1>8. pc[e] # "resolving"
  BY <1>1
<1>9. PICK p \in 0 .. MaxRetries : p = posts[e] + 1
  BY <1>2
<1> QED
  BY <1>1, <1>3, <1>4, <1>5, <1>6, <1>7, <1>8, <1>9, SessionInd

-------------------------------------------------------------------------------
(* The theorems. *)

LEMMA NextInd == IndInv /\ [Next]_vars => IndInv'
<1> SUFFICES ASSUME IndInv, [Next]_vars PROVE IndInv'
  OBVIOUS
<1>1. CASE Owner /\ UNCHANGED clientVars
  BY <1>1, OwnerInd
<1>2. CASE Resolve /\ UNCHANGED clientVars
  BY <1>2, CheckInd, ReadInd, StatInd, FindInd DEF Resolve
<1>3. ASSUME NEW e \in Events, ResolveRoute(e) PROVE IndInv'
  BY <1>3, ResolveRouteInd
<1>4. ASSUME NEW e \in Events, Resolved(e) \/ ExecuteWebhook(e) PROVE IndInv'
  BY <1>4, ToolInd
<1>5. ASSUME NEW e \in Events, Execute(e) PROVE IndInv'
  BY <1>5, PostInd, ToolInd DEF Execute
<1>6. CASE UNCHANGED vars
  <2>1. /\ UNCHANGED <<file, mtime, writing, writes, built, routes, loadedAt, step, key, answer,
                       seen, blind>>
        /\ UNCHANGED <<pc, posts, ran, unsure, refused>>
    BY <1>6 DEF vars, resolveVars, clientVars
  <2> QED
    BY <2>1 DEF IndInv, TypeOK, CacheInv, SeenInv, AnswersAreCurrent, RunsInv,
                RepeatsNeedLostAnswers
<1> QED
  BY <1>1, <1>2, <1>3, <1>4, <1>5, <1>6 DEF Next

(* The inductive invariant holds in every state of every behaviour. *)
THEOREM Invariance == Spec => []IndInv
BY InitInd, NextInd, PTL DEF Spec

(* The resolver's state fits together: past the check the singleton exists *)
(* and what it looks up in was loaded; n8n runs a workflow at most once    *)
(* for every post.                                                         *)
THEOREM TypeCorrect == Spec => []TypeOK
<1>1. IndInv => TypeOK
  BY DEF IndInv
<1> QED
  BY <1>1, Invariance, PTL

(* The nested lookup of resolve() finds the most specific path of its      *)
(* docstring's order, in every route table over the paths of the keys,     *)
(* names that coincide with "_default" included.                           *)
THEOREM LookupFindsMostSpecific == Spec => []LookupIsMostSpecific
<1>1. \A k \in Keys : ToSet(Order(k)) \subseteq Path
  <2> SUFFICES ASSUME NEW k \in Keys, NEW i \in DOMAIN Order(k) PROVE Order(k)[i] \in Path
    BY DEF ToSet
  <2>1. CASE k.event = NoEvent
    <3>1. \A j \in 1 .. 5 : j \in {1, 2, 3, 4, 5}
      OBVIOUS
    <3> QED
      BY <2>1, <3>1, OrderIs, PathsOf
  <2>2. CASE k.event # NoEvent
    <3>1. \A j \in 1 .. 6 : j \in {1, 2, 3, 4, 5, 6}
      OBVIOUS
    <3> QED
      BY <2>2, <3>1, OrderIs, PathsOf
  <2> QED
    BY <2>1, <2>2
<1>2. TypeOK => LookupIsMostSpecific
  <2> SUFFICES ASSUME TypeOK, NEW W \in SUBSET UNION {ToSet(Order(k)) : k \in Keys}
               PROVE  Lookup(W, key) = MostSpecific(W, key)
    BY DEF LookupIsMostSpecific
  <2>1. W \in SUBSET Path
    BY <1>1
  <2>2. key \in Keys
    BY DEF TypeOK
  <2> QED
    BY <2>1, <2>2, LookupIs
<1> QED
  BY <1>2, TypeCorrect, PTL

(* What resolve() answers is what the route file held at some moment       *)
(* during the call, unless a change was hidden from its modification time. *)
THEOREM AnswersAreFresh == Spec => []AnswersAreCurrent
<1>1. IndInv => AnswersAreCurrent
  BY DEF IndInv, SeenInv
<1> QED
  BY <1>1, Invariance, PTL

(* execute() repeats a workflow only for a run whose success was not       *)
(* reported, and gives up only refused or after MaxRetries posts.          *)
THEOREM RepeatsAreUnreported == Spec => []RepeatsNeedLostAnswers
<1>1. IndInv => RepeatsNeedLostAnswers
  BY DEF IndInv, RunsInv
<1> QED
  BY <1>1, Invariance, PTL

===============================================================================
