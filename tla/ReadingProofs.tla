---------------------------- MODULE ReadingProofs ----------------------------
(***************************************************************************)
(* The lemmas about a reading, for every Read.  Their induction is over a  *)
(* set in the place of a predicate, from the well-foundedness of the       *)
(* finite subsets of Nat: no operator is a parameter of a lemma, the       *)
(* reading is one of the module, which is instantiated with it.            *)
(***************************************************************************)
EXTENDS Reading, FiniteSetTheorems, WellFoundedInduction, SequenceTheorems, TLAPS

\* Induction over the naturals, for a set in the place of a predicate.
LEMMA SetInduction ==
  ASSUME NEW T \in SUBSET Nat, 0 \in T, \A n \in T : n + 1 \in T
  PROVE  T = Nat
  <1> DEFINE Missing == Nat \ T
             Below   == {0..n : n \in Missing}
             R == StrictSubsetOrdering(Nat)
             S == FiniteSubsetsOf(Nat)
  <1> SUFFICES ASSUME Missing # {} PROVE FALSE
    OBVIOUS
  <1>1. Below \subseteq S /\ Below # {}
    <2>1. \A n \in Nat : IsFiniteSet(0..n)
      BY FS_Interval
    <2>2. QED
      BY <2>1 DEF FiniteSubsetsOf
  <1>2. IsWellFoundedOn(R, S)
    BY FS_StrictSubsetOrderingWellFounded
  <1> HIDE DEF Below, R, S
  <1>3. PICK x \in Below : \A y \in Below : <<y, x>> \notin R
    BY <1>1, <1>2, WFMin
  <1>4. PICK n \in Missing : x = 0..n
    BY <1>3 DEF Below
  <1>5. n - 1 \in Missing
    <2>1. n \in Nat /\ n # 0
      BY <1>4
    <2>2. n - 1 \in Nat /\ (n - 1) + 1 = n
      BY <2>1
    <2>3. n - 1 \notin T
      BY <1>4, <2>2
    <2>4. QED
      BY <2>2, <2>3
  <1>6. <<0..(n - 1), 0..n>> \in R
    <2>1. n \in Nat /\ n \notin 0..(n - 1) /\ n \in 0..n
      BY <1>4
    <2>2. 0..(n - 1) \subseteq 0..n /\ 0..n \subseteq Nat /\ 0..(n - 1) \subseteq Nat
      BY <2>1
    <2>3. QED
      BY <2>1, <2>2 DEF R, StrictSubsetOrdering
  <1>7. QED
    BY <1>3, <1>4, <1>5, <1>6 DEF Below

-----------------------------------------------------------------------------
\* f is the reading of the first n elements of s.
IsReading(f, s, n) ==
  f = [k \in 0..n |-> IF k = 0 THEN Nothing ELSE Read(f[k - 1], s[k])]

\* A recursive definition over 0..n defines a function.
LEMMA ReadingExists == ASSUME NEW s, NEW n \in Nat PROVE \E f : IsReading(f, s, n)
  <1> DEFINE T == {k \in Nat : \E f : IsReading(f, s, k)}
  <1>1. 0 \in T
    <2> DEFINE f == [k \in 0..0 |-> Nothing]
    <2>1. IsReading(f, s, 0)
      BY DEF IsReading
    <2>2. QED
      BY <2>1
  <1>2. ASSUME NEW m \in T PROVE m + 1 \in T
    <2>1. PICK f : IsReading(f, s, m)
      OBVIOUS
    <2> DEFINE g == [k \in 0..(m + 1) |-> IF k = m + 1 THEN Read(f[m], s[m + 1]) ELSE f[k]]
    <2>2. \A k \in 0..(m + 1) : g[k] = IF k = 0 THEN Nothing ELSE Read(g[k - 1], s[k])
      <3> SUFFICES ASSUME NEW k \in 0..(m + 1)
                   PROVE  g[k] = IF k = 0 THEN Nothing ELSE Read(g[k - 1], s[k])
        OBVIOUS
      <3>1. CASE k = m + 1
        <4>1. g[m] = f[m] /\ k # 0 /\ k - 1 = m
          BY <3>1
        <4>2. QED
          BY <3>1, <4>1
      <3>2. CASE k \in 0..m
        <4>1. f[k] = IF k = 0 THEN Nothing ELSE Read(f[k - 1], s[k])
          BY <2>1, <3>2 DEF IsReading
        <4>2. g[k] = f[k] /\ (k # 0 => g[k - 1] = f[k - 1])
          BY <3>2
        <4>3. QED
          BY <4>1, <4>2
      <3>3. QED
        BY <3>1, <3>2
    <2>3. IsReading(g, s, m + 1)
      <3> HIDE DEF g
      <3>1. g = [k \in 0..(m + 1) |-> g[k]]
        BY DEF g
      <3>2. QED
        BY <2>2, <3>1 DEF IsReading
    <2>4. QED
      BY <2>3
  <1>3. T = Nat
    <2> HIDE DEF T
    <2>1. T \in SUBSET Nat
      BY DEF T
    <2>2. QED
      BY <1>1, <1>2, <2>1, SetInduction
  <1>4. QED
    BY <1>3

\* Readings is that function.
LEMMA ReadingsIs == ASSUME NEW S, NEW s \in Seq(S) PROVE IsReading(Readings(s), s, Len(s))
  <1>1. \E f : IsReading(f, s, Len(s))
    BY ReadingExists
  <1>2. QED
    BY <1>1 DEF Readings, IsReading

\* Nothing is known behind the empty sequence.
LEMMA AfterEmpty == After(<<>>) = Nothing
  <1>1. <<>> \in Seq({}) /\ Len(<<>>) = 0
    OBVIOUS
  <1>2. IsReading(Readings(<<>>), <<>>, 0)
    BY <1>1, ReadingsIs
  <1>3. QED
    BY <1>1, <1>2 DEF IsReading, After

\* Behind one element more is known what that element adds to what was known.
LEMMA AfterAppend ==
  ASSUME NEW S, NEW s \in Seq(S), NEW x \in S
  PROVE  After(Append(s, x)) = Read(After(s), x)
  <1> DEFINE n == Len(s)  t == Append(s, x)  f == Readings(s)  g == Readings(t)
             T == {k \in Nat : k <= n => f[k] = g[k]}
  <1>1. n \in Nat /\ t \in Seq(S) /\ Len(t) = n + 1 /\ t[n + 1] = x /\ \A k \in 1..n : t[k] = s[k]
    BY AppendProperties, LenProperties
  <1>2. IsReading(f, s, n) /\ IsReading(g, t, n + 1)
    BY <1>1, ReadingsIs
  <1> HIDE DEF n, t, f, g
  <1>3. \A k \in 0..n : f[k] = IF k = 0 THEN Nothing ELSE Read(f[k - 1], s[k])
    BY <1>1, <1>2 DEF IsReading
  <1>4. \A k \in 0..(n + 1) : g[k] = IF k = 0 THEN Nothing ELSE Read(g[k - 1], t[k])
    BY <1>1, <1>2 DEF IsReading
  <1>5. T = Nat
    <2>1. 0 \in T
      BY <1>1, <1>3, <1>4
    <2>2. ASSUME NEW k \in T PROVE k + 1 \in T
      <3> SUFFICES ASSUME k + 1 <= n PROVE f[k + 1] = g[k + 1]
        OBVIOUS
      <3>1. k + 1 \in 1..n /\ k + 1 \in 0..(n + 1) /\ k + 1 # 0 /\ (k + 1) - 1 = k /\ f[k] = g[k]
        BY <1>1
      <3>2. QED
        BY <1>1, <1>3, <1>4, <3>1
    <2>3. QED
      <3> HIDE DEF T
      <3>1. T \in SUBSET Nat
        BY DEF T
      <3>2. QED
        BY <2>1, <2>2, <3>1, SetInduction
  <1>6. f[n] = g[n]
    BY <1>1, <1>5
  <1>7. g[n + 1] = Read(f[n], x)
    BY <1>1, <1>4, <1>6
  <1>8. QED
    BY <1>1, <1>7 DEF After, f, g, n, t

\* What is known behind each element, from what was known before it.
LEMMA ReadingsAre ==
  ASSUME NEW S, NEW s \in Seq(S)
  PROVE  \E f : /\ f[0] = Nothing /\ \A k \in 1..Len(s) : f[k] = Read(f[k - 1], s[k])
                /\ After(s) = f[Len(s)]
  <1> DEFINE n == Len(s)  f == Readings(s)
  <1>1. n \in Nat /\ IsReading(f, s, n) /\ After(s) = f[n]
    BY ReadingsIs, LenProperties DEF After
  <1> HIDE DEF n, f
  <1>2. \A k \in 0..n : f[k] = IF k = 0 THEN Nothing ELSE Read(f[k - 1], s[k])
    BY <1>1 DEF IsReading
  <1>3. f[0] = Nothing /\ \A k \in 1..n : f[k] = Read(f[k - 1], s[k])
    BY <1>1, <1>2
  <1>4. QED
    BY <1>1, <1>3 DEF n

\* and nothing else can be.
LEMMA AfterIs ==
  ASSUME NEW S, NEW s \in Seq(S), NEW h, h[0] = Nothing,
         \A k \in 1..Len(s) : h[k] = Read(h[k - 1], s[k])
  PROVE  After(s) = h[Len(s)]
  <1>1. PICK f : /\ f[0] = Nothing /\ \A k \in 1..Len(s) : f[k] = Read(f[k - 1], s[k])
                 /\ After(s) = f[Len(s)]
    BY ReadingsAre
  <1> DEFINE n == Len(s)
             T == {k \in Nat : k <= n => f[k] = h[k]}
  <1>2. n \in Nat
    BY LenProperties
  <1> HIDE DEF n
  <1>3. T = Nat
    <2>1. 0 \in T
      BY <1>1
    <2>2. ASSUME NEW k \in T PROVE k + 1 \in T
      <3> SUFFICES ASSUME k + 1 <= n PROVE f[k + 1] = h[k + 1]
        OBVIOUS
      <3>1. k + 1 \in 1..n /\ (k + 1) - 1 = k /\ f[k] = h[k]
        BY <1>2
      <3>2. QED
        BY <1>1, <3>1 DEF n
    <2>3. QED
      <3> HIDE DEF T
      <3>1. T \in SUBSET Nat
        BY DEF T
      <3>2. QED
        BY <2>1, <2>2, <3>1, SetInduction
  <1>4. f[n] = h[n]
    BY <1>2, <1>3
  <1>5. QED
    BY <1>1, <1>4 DEF n

\* A reading stays among the values its step stays among.
LEMMA AfterIn ==
  ASSUME NEW S, NEW V, Nothing \in V, \A r \in V : \A x \in S : Read(r, x) \in V,
         NEW s \in Seq(S)
  PROVE  After(s) \in V
  <1> DEFINE n == Len(s)  f == Readings(s)
             T == {k \in Nat : k <= n => f[k] \in V}
  <1>1. n \in Nat /\ \A k \in 1..n : s[k] \in S
    BY LenProperties, ElementOfSeq
  <1>2. IsReading(f, s, n)
    BY ReadingsIs
  <1> HIDE DEF n, f
  <1>3. \A k \in 0..n : f[k] = IF k = 0 THEN Nothing ELSE Read(f[k - 1], s[k])
    BY <1>1, <1>2 DEF IsReading
  <1>4. T = Nat
    <2>1. 0 \in T
      BY <1>1, <1>3
    <2>2. ASSUME NEW k \in T PROVE k + 1 \in T
      <3> SUFFICES ASSUME k + 1 <= n PROVE f[k + 1] \in V
        OBVIOUS
      <3>1. k + 1 \in 1..n /\ k + 1 \in 0..n /\ k + 1 # 0 /\ (k + 1) - 1 = k /\ f[k] \in V
        BY <1>1
      <3>2. f[k + 1] = Read(f[k], s[k + 1])
        BY <1>3, <3>1
      <3>3. QED
        BY <1>1, <3>1, <3>2
    <2>3. QED
      <3> HIDE DEF T
      <3>1. T \in SUBSET Nat
        BY DEF T
      <3>2. QED
        BY <2>1, <2>2, <3>1, SetInduction
  <1>5. QED
    BY <1>1, <1>4 DEF After, n, f

\* Behind a sequence and another, element by element of the other: what holds of the
\* reading behind the first, and is kept by each element, holds behind both.
LEMMA AfterConcat ==
  ASSUME NEW S, NEW s \in Seq(S), NEW t \in Seq(S), NEW V,
         <<0, After(s)>> \in V,
         \A k \in 0..(Len(t) - 1) : \A r : <<k, r>> \in V => <<k + 1, Read(r, t[k + 1])>> \in V
  PROVE  <<Len(t), After(s \o t)>> \in V
  <1> DEFINE n == Len(t)
             part(k) == SubSeq(t, 1, k)
             T == {k \in Nat : k <= n => <<k, After(s \o part(k))>> \in V}
  <1>1. n \in Nat /\ \A k \in 1..n : t[k] \in S
    BY LenProperties, ElementOfSeq
  <1>2. part(n) = t
    BY SubSeqFull
  <1>3. \A k \in 0..n : part(k) \in Seq(S)
    <2> SUFFICES ASSUME NEW k \in 0..n PROVE SubSeq(t, 1, k) \in Seq(S)
      OBVIOUS
    <2>1. 1 \in Int /\ k \in Int /\ \A j \in 1..k : t[j] \in S
      BY <1>1
    <2>2. QED
      BY <2>1, SubSeqProperties
  <1>4. \A k \in 0..(n - 1) : s \o part(k + 1) = Append(s \o part(k), t[k + 1])
    <2> SUFFICES ASSUME NEW k \in 0..(n - 1)
                 PROVE  s \o part(k + 1) = Append(s \o part(k), t[k + 1])
      OBVIOUS
    <2>1. k \in 0..n /\ k + 1 \in 1..n /\ 1 \in 1..n /\ k + 1 \in 1..Len(t) /\ (k + 1) - 1 = k
      BY <1>1
    <2>2. part(k + 1) = part(k) \o <<t[k + 1]>>
      BY <2>1, SubSeqRecursiveSecond
    <2> HIDE DEF part
    <2>3. part(k) \in Seq(S) /\ t[k + 1] \in S /\ <<t[k + 1]>> \in Seq(S)
      BY <1>1, <1>3, <2>1
    <2>4. s \o part(k) \in Seq(S) /\ s \o (part(k) \o <<t[k + 1]>>) = (s \o part(k)) \o <<t[k + 1]>>
      <3>1. s \o part(k) \in Seq(S)
        BY <2>3, ConcatProperties
      <3>2. (s \o part(k)) \o <<t[k + 1]>> = s \o (part(k) \o <<t[k + 1]>>)
        BY <2>3, ConcatAssociative, SMTT(40)
      <3>3. QED
        BY <3>1, <3>2, Zenon
    <2>5. Append(s \o part(k), t[k + 1]) = (s \o part(k)) \o <<t[k + 1]>>
      BY <2>3, <2>4, AppendIsConcat
    <2>6. QED
      BY <2>2, <2>4, <2>5
  <1>5. T = Nat
    <2>1. 0 \in T
      <3>1. part(0) = <<>>
        BY SubSeqEmpty
      <3>2. s \o part(0) = s
        BY <3>1, ConcatEmptySeq
      <3>3. QED
        BY <3>2
    <2>2. ASSUME NEW k \in T PROVE k + 1 \in T
      <3> SUFFICES ASSUME k + 1 <= n PROVE <<k + 1, After(s \o part(k + 1))>> \in V
        OBVIOUS
      <3>1. k \in 0..(n - 1) /\ k \in 0..n /\ k + 1 \in 1..n /\ <<k, After(s \o part(k))>> \in V
        BY <1>1
      <3>2. s \o part(k) \in Seq(S) /\ t[k + 1] \in S
        BY <1>1, <1>3, <3>1, ConcatProperties
      <3> HIDE DEF part
      <3>3. After(s \o part(k + 1)) = Read(After(s \o part(k)), t[k + 1])
        BY <1>4, <3>1, <3>2, AfterAppend
      <3>4. QED
        BY <3>1, <3>3
    <2>3. QED
      <3> HIDE DEF T
      <3>1. T \in SUBSET Nat
        BY DEF T
      <3>2. QED
        BY <2>1, <2>2, <3>1, SetInduction
  <1>6. n \in T
    BY <1>1, <1>5
  <1>7. <<n, After(s \o part(n))>> \in V
    BY <1>6, <1>1
  <1>8. QED
    BY <1>2, <1>7
=============================================================================
