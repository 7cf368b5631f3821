-------------------------- MODULE TcpClientProofs --------------------------
(***************************************************************************)
(* TcpClient is a queue of whole lines, however recv() cuts the stream and *)
(* whatever the size of its buffer and the guard.                          *)
(***************************************************************************)
EXTENDS TcpClient, FiniteSetTheorems, TLAPS

-----------------------------------------------------------------------------
(* The k-th of a finite set of places.                                     *)

Rank(places, p) == Cardinality(Upto(places, p))

\* A later place has a higher rank.
LEMMA RankOrder ==
    ASSUME NEW S \in SUBSET Nat, IsFiniteSet(S), NEW p \in S, NEW q \in S, p < q
    PROVE  Rank(S, p) < Rank(S, q)
<1>1. IsFiniteSet(Upto(S, p)) /\ IsFiniteSet(Upto(S, q))
  BY FS_Subset DEF Upto
<1>2. Upto(S, p) \subseteq Upto(S, q) /\ Upto(S, p) # Upto(S, q)
  <2>1. \A i \in S : i \in Nat /\ (i <= p => i <= q)
    OBVIOUS
  <2>2. q <= q /\ ~(q <= p)
    OBVIOUS
  <2> QED BY <2>1, <2>2 DEF Upto
<1>3. Rank(S, p) <= Rank(S, q) /\ Rank(S, p) # Rank(S, q)
  BY <1>1, <1>2, FS_Subset DEF Rank
<1>4. Rank(S, p) \in Nat /\ Rank(S, q) \in Nat
  BY <1>1, FS_CardinalityType DEF Rank
<1> QED BY <1>3, <1>4

\* Ranks count from one.
LEMMA RankRange ==
    ASSUME NEW S \in SUBSET Nat, IsFiniteSet(S), NEW p \in S
    PROVE  Cardinality(S) \in Nat /\ Rank(S, p) \in 1 .. Cardinality(S)
<1>1. IsFiniteSet(Upto(S, p)) /\ Upto(S, p) \in SUBSET S /\ p \in Upto(S, p)
  BY FS_Subset DEF Upto
<1>2. Rank(S, p) \in Nat /\ Cardinality(S) \in Nat
  BY <1>1, FS_CardinalityType DEF Rank
<1>3. Rank(S, p) # 0
  BY <1>1, FS_EmptySet DEF Rank
<1>4. Rank(S, p) <= Cardinality(S)
  BY <1>1, FS_Subset DEF Rank
<1> QED BY <1>2, <1>3, <1>4

\* Every rank up to the size of the set is taken: ranks are an injection into as
\* many numbers as there are places.
LEMMA RankOnto ==
    ASSUME NEW S \in SUBSET Nat, IsFiniteSet(S), NEW k \in 1 .. Cardinality(S)
    PROVE  \E p \in S : Rank(S, p) = k
<1> DEFINE n == Cardinality(S)
           f == [p \in S |-> Rank(S, p)]
<1>1. n \in Nat
  BY FS_CardinalityType
<1>2. f \in [S -> 1 .. n]
  BY RankRange
<1>3. ASSUME NEW p \in S, NEW q \in S, f[p] = f[q]
      PROVE  p = q
  <2>1. p < q => Rank(S, p) < Rank(S, q)
    BY RankOrder
  <2>2. q < p => Rank(S, q) < Rank(S, p)
    BY RankOrder
  <2>3. Rank(S, p) \in Nat /\ Rank(S, q) \in Nat /\ Rank(S, p) = Rank(S, q)
    BY <1>3, RankRange
  <2>4. p \in Nat /\ q \in Nat
    OBVIOUS
  <2> QED BY <2>1, <2>2, <2>3, <2>4
<1>4. f \in Injection(S, 1 .. n)
  BY <1>2, <1>3 DEF Injection, IsInjective
<1>5. IsFiniteSet(1 .. n) /\ Cardinality(1 .. n) = n
  BY <1>1, FS_Interval
<1>6. f \in Surjection(S, 1 .. n)
  BY <1>4, <1>5, FS_Injection
<1> QED BY <1>6 DEF Surjection

\* Place finds the place of a rank.
LEMMA PlaceOfRank ==
    ASSUME NEW S \in SUBSET Nat, IsFiniteSet(S), NEW k \in 1 .. Cardinality(S)
    PROVE  Place(S, k) \in S /\ Rank(S, Place(S, k)) = k
<1>1. k # 0
  BY FS_CardinalityType
<1>2. \E p \in S : Cardinality(Upto(S, p)) = k
  BY RankOnto DEF Rank
<1> QED BY <1>1, <1>2 DEF Place, Rank

LEMMA RankOfPlace ==
    ASSUME NEW S \in SUBSET Nat, IsFiniteSet(S), NEW p \in S
    PROVE  Place(S, Rank(S, p)) = p
<1> DEFINE q == Place(S, Rank(S, p))
<1>1. q \in S /\ Rank(S, q) = Rank(S, p)
  BY RankRange, PlaceOfRank
<1> HIDE DEF q
<1>2. p < q => Rank(S, p) < Rank(S, q)
  BY <1>1, RankOrder
<1>3. q < p => Rank(S, q) < Rank(S, p)
  BY <1>1, RankOrder
<1>4. Rank(S, p) \in Nat /\ p \in Nat /\ q \in Nat
  BY <1>1, RankRange
<1>5. p = q
  BY <1>1, <1>2, <1>3, <1>4
<1> QED BY <1>5 DEF q

\* The places of a prefix are the first places of the whole.
LEMMA PlacesOfPrefix ==
    ASSUME NEW S \in SUBSET Nat, IsFiniteSet(S), NEW n \in Nat
    PROVE  LET T == Upto(S, n)
           IN  /\ IsFiniteSet(T) /\ Cardinality(T) \in Nat
               /\ Cardinality(T) <= Cardinality(S) /\ Cardinality(S) \in Nat
               /\ \A k \in 0 .. Cardinality(T) : Place(T, k) = Place(S, k)
<1> DEFINE T == Upto(S, n)
<1>1. T \in SUBSET S /\ T \in SUBSET Nat
  BY DEF Upto
<1>2. /\ IsFiniteSet(T) /\ Cardinality(T) \in Nat
      /\ Cardinality(T) <= Cardinality(S) /\ Cardinality(S) \in Nat
  BY <1>1, FS_Subset, FS_CardinalityType
<1>3. ASSUME NEW k \in 1 .. Cardinality(T)
      PROVE  Place(T, k) = Place(S, k)
  <2> DEFINE p == Place(T, k)
  <2>1. p \in T /\ Rank(T, p) = k
    <3> HIDE DEF T
    <3> QED BY <1>1, <1>2, PlaceOfRank
  <2> HIDE DEF p
  <2>2. Upto(T, p) = Upto(S, p)
    <3>1. p \in Nat /\ p <= n
      BY <2>1, <1>1 DEF Upto
    <3>2. \A i \in S : i <= p => i <= n
      BY <3>1
    <3> QED BY <3>2, <1>1 DEF Upto
  <2>3. Rank(S, p) = k
    BY <2>1, <2>2 DEF Rank
  <2>4. Place(S, k) = p
    BY <2>1, <2>3, <1>1, RankOfPlace
  <2> QED BY <2>4 DEF p
<1>4. Place(T, 0) = Place(S, 0)
  BY DEF Place
<1>5. \A k \in 0 .. Cardinality(T) : k = 0 \/ k \in 1 .. Cardinality(T)
  BY <1>2
<1> HIDE DEF T
<1>6. \A k \in 0 .. Cardinality(T) : Place(T, k) = Place(S, k)
  BY <1>3, <1>4, <1>5
<1> QED BY <1>2, <1>6 DEF T

\* The places after c, counted from there.
After(places, c) == {i \in Nat \ {0} : i + c \in places}

LEMMA AfterCount ==
    ASSUME NEW S \in SUBSET Nat, IsFiniteSet(S), NEW c \in Nat, \A i \in S : c < i
    PROVE  IsFiniteSet(After(S, c)) /\ Cardinality(After(S, c)) = Cardinality(S)
<1> DEFINE f == [i \in S |-> i - c]
<1>1. f \in [S -> After(S, c)]
  <2>1. \A i \in S : i - c \in Nat \ {0} /\ (i - c) + c = i
    OBVIOUS
  <2> QED BY <2>1 DEF After
<1>2. \A i, j \in S : f[i] = f[j] => i = j
  OBVIOUS
<1>3. \A j \in After(S, c) : \E i \in S : f[i] = j
  <2> SUFFICES ASSUME NEW j \in After(S, c) PROVE \E i \in S : f[i] = j
    OBVIOUS
  <2>1. j \in Nat /\ j + c \in S
    BY DEF After
  <2>2. (j + c) - c = j
    BY <2>1
  <2> QED BY <2>1, <2>2
<1>4. f \in Bijection(S, After(S, c))
  BY <1>1, <1>2, <1>3 DEF Bijection, Injection, Surjection, IsInjective
<1>5. ExistsBijection(S, After(S, c))
  BY <1>4 DEF ExistsBijection
<1> QED BY <1>5, FS_Bijection

\* Without the first place, every rank is one less.
LEMMA PlacesOfRest ==
    ASSUME NEW S \in SUBSET Nat, IsFiniteSet(S), NEW c \in S, \A i \in S : c <= i
    PROVE  LET G == After(S, c)
           IN  /\ IsFiniteSet(G) /\ Cardinality(G) \in Nat
               /\ Cardinality(S) = Cardinality(G) + 1
               /\ Place(S, 1) = c
               /\ \A k \in 0 .. Cardinality(G) :
                     Place(G, k) \in Nat /\ Place(S, k + 1) = Place(G, k) + c
<1> DEFINE G == After(S, c)
<1>1. c \in Nat /\ \A i \in S : i \in Nat
  OBVIOUS
<1>2. \A i \in S \ {c} : c < i
  BY <1>1
<1>3. G = After(S \ {c}, c)
  BY <1>1 DEF After
<1>4. /\ IsFiniteSet(S \ {c}) /\ Cardinality(S \ {c}) = Cardinality(S) - 1
      /\ Cardinality(S) \in Nat
  BY FS_RemoveElement, FS_CardinalityType
<1>5. IsFiniteSet(G) /\ Cardinality(G) = Cardinality(S) - 1
  BY <1>1, <1>2, <1>3, <1>4, AfterCount
<1>6. Cardinality(G) \in Nat /\ Cardinality(S) = Cardinality(G) + 1
  BY <1>4, <1>5, FS_CardinalityType
<1>7. Place(S, 1) = c
  <2>1. Upto(S, c) = {c}
    <3>1. c <= c /\ \A i \in S : i <= c => i = c
      BY <1>1
    <3> QED BY <3>1 DEF Upto
  <2>2. Rank(S, c) = 1
    BY <2>1, FS_Singleton DEF Rank
  <2> QED BY <2>2, RankOfPlace
<1>8. G \in SUBSET Nat
  BY DEF After
<1>9. ASSUME NEW k \in 1 .. Cardinality(G)
      PROVE  Place(G, k) \in Nat /\ Place(S, k + 1) = Place(G, k) + c
  <2> DEFINE p == Place(G, k)
  <2>1. p \in G /\ Rank(G, p) = k
    <3> HIDE DEF G
    <3> QED BY <1>5, <1>8, PlaceOfRank
  <2> HIDE DEF p
  <2>2. p \in Nat \ {0} /\ p + c \in S
    BY <2>1 DEF After
  <2> DEFINE A == Upto(S, p + c)
  <2>3. A \in SUBSET S /\ A \in SUBSET Nat /\ c \in A
    BY <2>2, <1>1 DEF Upto
  <2>4. Upto(G, p) = After(A \ {c}, c)
    BY <2>2, <1>1 DEF Upto, After
  <2>5. IsFiniteSet(A) /\ IsFiniteSet(A \ {c})
        /\ Cardinality(A \ {c}) = Cardinality(A) - 1 /\ Cardinality(A) \in Nat
    BY <2>3, FS_Subset, FS_RemoveElement, FS_CardinalityType
  <2>6. \A i \in A \ {c} : c < i
    BY <2>3, <1>2
  <2>7. Rank(G, p) = Rank(S, p + c) - 1
    BY <2>3, <2>4, <2>5, <2>6, <1>1, AfterCount DEF Rank
  <2>8. Rank(S, p + c) = k + 1
    BY <2>1, <2>5, <2>7 DEF Rank
  <2>9. Place(S, k + 1) = p + c
    BY <2>2, <2>8, RankOfPlace
  <2> QED BY <2>2, <2>9 DEF p
<1>10. Place(G, 0) = 0
  BY DEF Place
<1>11. \A k \in 0 .. Cardinality(G) : k = 0 \/ k \in 1 .. Cardinality(G)
  BY <1>6
<1> HIDE DEF G
<1>12. ASSUME NEW k \in 0 .. Cardinality(G)
       PROVE  Place(G, k) \in Nat /\ Place(S, k + 1) = Place(G, k) + c
  <2>1. CASE k = 0
    <3>1. Place(S, k + 1) = c
      BY <2>1, <1>7
    <3> QED BY <2>1, <3>1, <1>1, <1>10
  <2>2. CASE k \in 1 .. Cardinality(G)
    BY <2>2, <1>9
  <2> QED BY <2>1, <2>2, <1>11
<1> QED BY <1>5, <1>6, <1>7, <1>12 DEF G

-----------------------------------------------------------------------------
(* The lines of a stream.                                                  *)

LEMMA FeedsType ==
    ASSUME NEW s \in Seq(Byte)
    PROVE  /\ Feeds(s) \in SUBSET Nat /\ IsFiniteSet(Feeds(s))
           /\ Cardinality(Feeds(s)) \in Nat
<1>1. Len(s) \in Nat
  OBVIOUS
<1>2. IsFiniteSet(1 .. Len(s))
  BY <1>1, FS_Interval
<1>3. Feeds(s) \in SUBSET (1 .. Len(s)) /\ Feeds(s) \in SUBSET Nat
  BY <1>1 DEF Feeds
<1> QED BY <1>2, <1>3, FS_Subset, FS_CardinalityType

LEMMA LinesLength ==
    ASSUME NEW s \in Seq(Byte)
    PROVE  LET n == Cardinality(Feeds(s))
           IN  /\ Lines(s) \in Seq({Line(s, k) : k \in 1 .. n})
               /\ Len(Lines(s)) = n
               /\ \A k \in 1 .. n : Lines(s)[k] = Line(s, k)
  BY FeedsType DEF Lines

\* Two streams that agree on a stretch have the same subsequence there.
LEMMA SameStretch ==
    ASSUME NEW s \in Seq(Byte), NEW t \in Seq(Byte),
           NEW a \in Nat, NEW e \in Nat, NEW c \in Nat,
           e <= Len(s) + 1, e + c <= Len(t) + 1,
           \A i \in 1 .. Len(s) : a < i /\ i < e => s[i] = t[i + c]
    PROVE  SubSeq(s, a + 1, e - 1) = SubSeq(t, a + c + 1, e + c - 1)
<1> DEFINE u == SubSeq(s, a + 1, e - 1)
           v == SubSeq(t, a + c + 1, e + c - 1)
           n == IF a + 1 <= e - 1 THEN e - 1 - a ELSE 0
<1>0. n \in Nat
  OBVIOUS
<1>1. u \in Seq(Byte) /\ Len(u) = n
  OBVIOUS
<1>2. v \in Seq(Byte) /\ Len(v) = n
  OBVIOUS
<1>3. ASSUME NEW i \in 1 .. n
      PROVE  u[i] = v[i]
  <2>1. u[i] = s[i + a]
    OBVIOUS
  <2>2. v[i] = t[i + a + c]
    OBVIOUS
  <2>3. i + a \in 1 .. Len(s) /\ a < i + a /\ i + a < e
    OBVIOUS
  <2> QED BY <2>1, <2>2, <2>3
<1> HIDE DEF u, v, n
<1>4. u = v
  BY <1>0, <1>1, <1>2, <1>3
<1> QED BY <1>4 DEF u, v

LEMMA ConcatIs ==
    ASSUME NEW s \in Seq(Byte), NEW t \in Seq(Byte)
    PROVE  /\ s \o t \in Seq(Byte) /\ Len(s \o t) = Len(s) + Len(t)
           /\ Len(s) \in Nat /\ Len(t) \in Nat
           /\ \A i \in 1 .. Len(s) : (s \o t)[i] = s[i]
           /\ \A i \in 1 .. Len(t) : (s \o t)[i + Len(s)] = t[i]
  OBVIOUS

\* What is left of two streams after a part of the first is taken away.
LEMMA DropConcat ==
    ASSUME NEW s \in Seq(Byte), NEW t \in Seq(Byte), NEW n \in Nat, n <= Len(s)
    PROVE  SubSeq(s \o t, n + 1, Len(s \o t)) = SubSeq(s, n + 1, Len(s)) \o t
<1> DEFINE w == s \o t
           a == SubSeq(s, n + 1, Len(s))
           u == SubSeq(w, n + 1, Len(w))
           v == a \o t
<1>1. /\ w \in Seq(Byte) /\ Len(w) = Len(s) + Len(t) /\ Len(s) \in Nat /\ Len(t) \in Nat
      /\ \A i \in 1 .. Len(s) : w[i] = s[i]
      /\ \A i \in 1 .. Len(t) : w[i + Len(s)] = t[i]
  BY ConcatIs
<1>2. a \in Seq(Byte) /\ Len(a) = Len(s) - n /\ \A i \in 1 .. Len(s) - n : a[i] = s[i + n]
  OBVIOUS
<1> HIDE DEF w, a
<1>3. u \in Seq(Byte) /\ Len(u) = Len(w) - n /\ \A i \in 1 .. Len(w) - n : u[i] = w[i + n]
  BY <1>1
<1>4. /\ v \in Seq(Byte) /\ Len(v) = Len(a) + Len(t)
      /\ \A i \in 1 .. Len(a) : v[i] = a[i]
      /\ \A i \in 1 .. Len(t) : v[i + Len(a)] = t[i]
  BY <1>2, ConcatIs
<1> HIDE DEF u, v
<1>5. Len(u) = Len(v) /\ Len(u) \in Nat
  BY <1>1, <1>2, <1>3, <1>4
<1>6. ASSUME NEW i \in 1 .. Len(u)
      PROVE  u[i] = v[i]
  <2>1. u[i] = w[i + n]
    BY <1>3
  <2>2. CASE i <= Len(a)
    <3>1. i \in 1 .. Len(a) /\ i \in 1 .. Len(s) - n /\ i + n \in 1 .. Len(s)
      BY <2>2, <1>1, <1>2
    <3> QED BY <3>1, <2>1, <1>1, <1>2, <1>4
  <2>3. CASE ~(i <= Len(a))
    <3>1. /\ i - Len(a) \in 1 .. Len(t)
          /\ (i - Len(a)) + Len(a) = i /\ (i - Len(a)) + Len(s) = i + n
      BY <2>3, <1>1, <1>2, <1>3
    <3>2. v[i] = t[i - Len(a)]
      BY <3>1, <1>4
    <3>3. w[i + n] = t[i - Len(a)]
      BY <3>1, <1>1
    <3> QED BY <3>2, <3>3, <2>1
  <2> QED BY <2>2, <2>3
<1>7. u = v
  BY <1>3, <1>4, <1>5, <1>6
<1> QED BY <1>7 DEF u, v, w, a

\* Moving bytes from the front of one stream to the end of another keeps both
\* together the same.
LEMMA MoveConcat ==
    ASSUME NEW s \in Seq(Byte), NEW t \in Seq(Byte), NEW n \in Nat, n <= Len(t)
    PROVE  (s \o SubSeq(t, 1, n)) \o SubSeq(t, n + 1, Len(t)) = s \o t
<1> DEFINE a == SubSeq(t, 1, n)
           b == SubSeq(t, n + 1, Len(t))
           u == s \o a
           v == u \o b
           w == s \o t
<1>1. a \in Seq(Byte) /\ Len(a) = n /\ \A i \in 1 .. n : a[i] = t[i]
  OBVIOUS
<1>2. b \in Seq(Byte) /\ Len(b) = Len(t) - n /\ \A i \in 1 .. Len(t) - n : b[i] = t[i + n]
  OBVIOUS
<1>3. /\ w \in Seq(Byte) /\ Len(w) = Len(s) + Len(t) /\ Len(s) \in Nat /\ Len(t) \in Nat
      /\ \A i \in 1 .. Len(s) : w[i] = s[i]
      /\ \A i \in 1 .. Len(t) : w[i + Len(s)] = t[i]
  BY ConcatIs
<1> HIDE DEF a, b
<1>4. /\ u \in Seq(Byte) /\ Len(u) = Len(s) + n
      /\ \A i \in 1 .. Len(s) : u[i] = s[i]
      /\ \A i \in 1 .. n : u[i + Len(s)] = a[i]
  BY <1>1, ConcatIs
<1> HIDE DEF u, w
<1>5. /\ v \in Seq(Byte) /\ Len(v) = Len(u) + (Len(t) - n)
      /\ \A i \in 1 .. Len(u) : v[i] = u[i]
      /\ \A i \in 1 .. Len(t) - n : v[i + Len(u)] = b[i]
  <2>1. /\ v \in Seq(Byte) /\ Len(v) = Len(u) + Len(b)
        /\ \A i \in 1 .. Len(u) : v[i] = u[i]
        /\ \A i \in 1 .. Len(b) : v[i + Len(u)] = b[i]
    BY <1>2, <1>4, ConcatIs
  <2> HIDE DEF v
  <2>2. Len(b) = Len(t) - n
    BY <1>2
  <2> QED BY <2>1, <2>2
<1> HIDE DEF v
<1>6. Len(v) = Len(w) /\ Len(v) \in Nat
  BY <1>3, <1>4, <1>5
<1>7. ASSUME NEW i \in 1 .. Len(v)
      PROVE  v[i] = w[i]
  <2>1. CASE i <= Len(s)
    <3>1. i \in 1 .. Len(s) /\ i \in 1 .. Len(u)
      BY <2>1, <1>3, <1>4
    <3> QED BY <3>1, <1>3, <1>4, <1>5
  <2>2. CASE Len(s) < i /\ i <= Len(s) + n
    <3>1. /\ i - Len(s) \in 1 .. n /\ i - Len(s) \in 1 .. Len(t) /\ i \in 1 .. Len(u)
          /\ (i - Len(s)) + Len(s) = i
      BY <2>2, <1>3, <1>4
    <3>2. v[i] = t[i - Len(s)]
      BY <3>1, <1>1, <1>4, <1>5
    <3>3. w[i] = t[i - Len(s)]
      BY <3>1, <1>3
    <3> QED BY <3>2, <3>3
  <2>3. CASE Len(s) + n < i
    <3>1. /\ i - Len(u) \in 1 .. Len(t) - n /\ (i - Len(u)) + Len(u) = i
          /\ (i - Len(u)) + n = i - Len(s)
          /\ i - Len(s) \in 1 .. Len(t) /\ (i - Len(s)) + Len(s) = i
      BY <2>3, <1>3, <1>4, <1>5
    <3>2. v[i] = t[i - Len(s)]
      BY <3>1, <1>2, <1>5
    <3>3. w[i] = t[i - Len(s)]
      BY <3>1, <1>3
    <3> QED BY <3>2, <3>3
  <2> QED BY <2>1, <2>2, <2>3, <1>3
<1>8. v = w
  BY <1>3, <1>5, <1>6, <1>7
<1> QED BY <1>8 DEF v, u, w, a, b

\* The lines of a prefix are the first lines of the whole.
LEMMA PrefixLines ==
    ASSUME NEW s \in Seq(Byte), NEW t \in Seq(Byte), Len(s) <= Len(t),
           \A i \in 1 .. Len(s) : s[i] = t[i]
    PROVE  /\ Len(Lines(s)) \in 0 .. Len(Lines(t))
           /\ Lines(s) = SubSeq(Lines(t), 1, Len(Lines(s)))
<1> DEFINE S == Feeds(t)
           T == Feeds(s)
           m == Cardinality(T)
           n == Cardinality(S)
<1>1. T = Upto(S, Len(s))
  <2>1. Len(s) \in Nat /\ Len(t) \in Nat
    OBVIOUS
  <2> QED BY <2>1 DEF Feeds, Upto
<1>2. S \in SUBSET Nat /\ IsFiniteSet(S) /\ T \in SUBSET Nat /\ IsFiniteSet(T)
  BY FeedsType
<1>3. m \in Nat /\ n \in Nat /\ m <= n /\ \A k \in 0 .. m : Place(T, k) = Place(S, k)
  <2>1. Len(s) \in Nat
    OBVIOUS
  <2> HIDE DEF S, T
  <2> QED BY <1>1, <1>2, <2>1, PlacesOfPrefix
<1>4. ASSUME NEW k \in 1 .. m
      PROVE  Line(s, k) = Line(t, k)
  <2> DEFINE a == Place(T, k - 1)
             e == Place(T, k)
  <2>1. e \in T
    <3> HIDE DEF T
    <3> QED BY <1>2, PlaceOfRank
  <2>2. a \in Nat
    <3>1. k = 1 \/ k - 1 \in 1 .. m
      BY <1>3
    <3>2. CASE k = 1
      BY <3>2 DEF Place
    <3>3. CASE k - 1 \in 1 .. m
      <4> HIDE DEF T
      <4> QED BY <3>3, <1>2, PlaceOfRank
    <3> QED BY <3>1, <3>2, <3>3
  <2>3. a = Place(S, k - 1) /\ e = Place(S, k)
    <3>1. k \in 0 .. m /\ k - 1 \in 0 .. m
      BY <1>3
    <3> HIDE DEF S, T, m
    <3> QED BY <3>1, <1>3
  <2>4. e \in Nat /\ e <= Len(s)
    BY <2>1 DEF Feeds
  <2> HIDE DEF a, e
  <2>5. SubSeq(s, a + 1, e - 1) = SubSeq(t, a + 1, e - 1)
    <3>1. e <= Len(s) + 1 /\ e + 0 <= Len(t) + 1
      BY <2>4
    <3>2. \A i \in 1 .. Len(s) : a < i /\ i < e => s[i] = t[i + 0]
      OBVIOUS
    <3>3. SubSeq(s, a + 1, e - 1) = SubSeq(t, a + 0 + 1, e + 0 - 1)
      BY <2>2, <2>4, <3>1, <3>2, SameStretch
    <3> QED BY <2>2, <2>4, <3>3
  <2>6. Line(s, k) = Trim(SubSeq(s, a + 1, e - 1))
    BY DEF Line, a, e
  <2>7. Line(t, k) = Trim(SubSeq(t, a + 1, e - 1))
    BY <2>3 DEF Line
  <2> QED BY <2>5, <2>6, <2>7
<1>5. Lines(t) \in Seq({Line(t, k) : k \in 1 .. n})
  BY LinesLength
<1>6. /\ Lines(s) = [k \in 1 .. m |-> Line(s, k)]
      /\ Len(Lines(t)) = n /\ Len(Lines(s)) = m
      /\ \A k \in 1 .. n : Lines(t)[k] = Line(t, k)
  BY LinesLength DEF Lines
<1> HIDE DEF m, n, S, T
<1>7. SubSeq(Lines(t), 1, m) = [k \in 1 .. m |-> Line(t, k)]
  BY <1>3, <1>5, <1>6
<1> QED BY <1>3, <1>4, <1>6, <1>7

LEMMA TailIs ==
    ASSUME NEW T, NEW q \in Seq(T), NEW m \in Nat, Len(q) = m + 1
    PROVE  Tail(q) = [k \in 1 .. m |-> q[k + 1]]
<1>1. Tail(q) \in Seq(T) /\ Len(Tail(q)) = m
  OBVIOUS
<1>2. \A k \in 1 .. m : Tail(q)[k] = q[k + 1]
  OBVIOUS
<1> DEFINE v == [k \in 1 .. m |-> q[k + 1]]
<1>3. v \in Seq(T) /\ Len(v) = m /\ \A k \in 1 .. m : v[k] = q[k + 1]
  OBVIOUS
<1> HIDE DEF v
<1>4. Tail(q) = v
  BY <1>1, <1>2, <1>3
<1> QED BY <1>4 DEF v

\* What is before the first line feed is the first line, and the lines of what
\* is after it are the others.
LEMMA RestLines ==
    ASSUME NEW s \in Seq(Byte), NEW nl \in Feeds(s), \A i \in Feeds(s) : nl <= i
    PROVE  /\ Lines(s) # <<>>
           /\ Head(Lines(s)) = Trim(SubSeq(s, 1, nl - 1))
           /\ Tail(Lines(s)) = Lines(SubSeq(s, nl + 1, Len(s)))
<1> DEFINE r == SubSeq(s, nl + 1, Len(s))
           S == Feeds(s)
           G == Feeds(r)
           m == Cardinality(G)
           n == Cardinality(S)
<1>1. nl \in Nat \ {0} /\ nl <= Len(s) /\ Len(s) \in Nat
  BY DEF Feeds
<1>2. /\ r \in Seq(Byte) /\ Len(r) = Len(s) - nl
      /\ \A i \in 1 .. Len(r) : r[i] = s[i + nl]
  BY <1>1
<1> HIDE DEF r
<1>3. G = After(S, nl)
  BY <1>1, <1>2 DEF Feeds, After
<1>4. S \in SUBSET Nat /\ IsFiniteSet(S) /\ G \in SUBSET Nat /\ IsFiniteSet(G)
  BY <1>2, FeedsType
<1>5. /\ m \in Nat /\ n = m + 1
      /\ Place(S, 1) = nl
      /\ \A k \in 0 .. m : Place(G, k) \in Nat /\ Place(S, k + 1) = Place(G, k) + nl
  <2> HIDE DEF S, G
  <2> QED BY <1>3, <1>4, PlacesOfRest DEF S
<1>6. Line(s, 1) = Trim(SubSeq(s, 1, nl - 1))
  <2>1. Place(S, 1 - 1) + 1 = 1
    BY DEF Place
  <2> QED BY <2>1, <1>5 DEF Line
<1>7. ASSUME NEW k \in 1 .. m
      PROVE  Line(r, k) = Line(s, k + 1)
  <2> DEFINE a == Place(G, k - 1)
             e == Place(G, k)
  <2>1. e \in G
    <3> HIDE DEF G
    <3> QED BY <1>4, PlaceOfRank
  <2>2. /\ a \in Nat /\ Place(S, k) = a + nl
        /\ e \in Nat /\ Place(S, k + 1) = e + nl
    <3>1. k \in 0 .. m /\ k - 1 \in 0 .. m /\ (k - 1) + 1 = k
      BY <1>5
    <3> HIDE DEF S, G, m
    <3> QED BY <3>1, <1>5
  <2>3. e <= Len(r)
    BY <2>1 DEF Feeds
  <2>4. Line(r, k) = Trim(SubSeq(r, a + 1, e - 1))
    BY DEF Line
  <2>5. Line(s, k + 1) = Trim(SubSeq(s, a + nl + 1, e + nl - 1))
    <3>1. (k + 1) - 1 = k
      OBVIOUS
    <3> DEFINE x == Place(S, (k + 1) - 1)
               y == Place(S, k + 1)
    <3>2. Line(s, k + 1) = Trim(SubSeq(s, x + 1, y - 1))
      BY DEF Line
    <3> HIDE DEF S, G, m, a, e
    <3>3. x = a + nl /\ y = e + nl
      BY <3>1, <2>2
    <3>4. x + 1 = a + nl + 1 /\ y - 1 = e + nl - 1
      BY <3>3, <2>2, <1>1
    <3> HIDE DEF x, y
    <3> QED BY <3>2, <3>4
  <2> HIDE DEF a, e
  <2>6. SubSeq(r, a + 1, e - 1) = SubSeq(s, a + nl + 1, e + nl - 1)
    <3>1. e <= Len(r) + 1 /\ e + nl <= Len(s) + 1 /\ nl \in Nat
      BY <2>2, <2>3, <1>1, <1>2
    <3>2. \A i \in 1 .. Len(r) : a < i /\ i < e => r[i] = s[i + nl]
      BY <1>2
    <3>3. r \in Seq(Byte) /\ a \in Nat /\ e \in Nat
      BY <1>2, <2>2
    <3> HIDE DEF S, G, m, n
    <3> QED BY <3>1, <3>2, <3>3, SameStretch
  <2> QED BY <2>4, <2>5, <2>6
<1>8. Lines(s) \in Seq({Line(s, k) : k \in 1 .. n})
  BY LinesLength
<1>9. /\ Lines(r) = [k \in 1 .. m |-> Line(r, k)]
      /\ Len(Lines(s)) = n
      /\ \A k \in 1 .. n : Lines(s)[k] = Line(s, k)
  BY <1>2, LinesLength DEF Lines
<1> HIDE DEF m, n, S, G
<1>10. Lines(s) # <<>> /\ Head(Lines(s)) = Line(s, 1)
  BY <1>5, <1>8, <1>9
<1>11. Tail(Lines(s)) = [k \in 1 .. m |-> Line(s, k + 1)]
  <2>1. Tail(Lines(s)) = [k \in 1 .. m |-> Lines(s)[k + 1]]
    BY <1>5, <1>8, <1>9, TailIs
  <2>2. \A k \in 1 .. m : k + 1 \in 1 .. n
    BY <1>5
  <2> QED BY <2>1, <2>2, <1>9
<1>12. Tail(Lines(s)) = Lines(r)
  BY <1>7, <1>9, <1>11
<1> QED BY <1>6, <1>10, <1>12 DEF r

\* A line feed completes one more line; another byte completes none.
LEMMA AppendLines ==
    ASSUME NEW s \in Seq(Byte), NEW b \in Byte
    PROVE  LET t == Append(s, b)
           IN  /\ b # "lf" => Lines(t) = Lines(s)
               /\ b = "lf" => /\ Len(Lines(t)) = Len(Lines(s)) + 1
                              /\ SubSeq(Lines(t), 1, Len(Lines(s))) = Lines(s)
<1> DEFINE t == Append(s, b)
<1>1. /\ t \in Seq(Byte) /\ Len(t) = Len(s) + 1 /\ Len(s) \in Nat
      /\ t[Len(s) + 1] = b /\ \A i \in 1 .. Len(s) : t[i] = s[i]
  OBVIOUS
<1> HIDE DEF t
<1>2. /\ Len(Lines(s)) \in 0 .. Len(Lines(t))
      /\ Lines(s) = SubSeq(Lines(t), 1, Len(Lines(s)))
  BY <1>1, PrefixLines
<1>3. /\ Len(Lines(s)) = Cardinality(Feeds(s)) /\ Len(Lines(t)) = Cardinality(Feeds(t))
      /\ IsFiniteSet(Feeds(s)) /\ Cardinality(Feeds(t)) \in Nat
  BY <1>1, LinesLength, FeedsType
<1>4. CASE b = "lf"
  <2>1. Feeds(t) = Feeds(s) \cup {Len(s) + 1} /\ Len(s) + 1 \notin Feeds(s)
    BY <1>1, <1>4 DEF Feeds
  <2>2. Cardinality(Feeds(t)) = Cardinality(Feeds(s)) + 1
    BY <2>1, <1>3, FS_AddElement
  <2> QED BY <2>2, <1>2, <1>3, <1>4 DEF t
<1>5. CASE b # "lf"
  <2>1. Feeds(t) = Feeds(s)
    BY <1>1, <1>5 DEF Feeds
  <2>2. Len(Lines(t)) = Len(Lines(s))
    BY <2>1, <1>3
  <2>3. Lines(t) \in Seq({Line(t, k) : k \in 1 .. Cardinality(Feeds(t))})
    BY <1>1, LinesLength
  <2>4. SubSeq(Lines(t), 1, Len(Lines(t))) = Lines(t)
    BY <2>3
  <2>5. Lines(t) = Lines(s)
    BY <2>2, <2>4, <1>2
  <2> QED BY <2>5, <1>5 DEF t
<1> QED BY <1>4, <1>5

LEMMA NoLines == Lines(<<>>) = <<>>
<1>1. Feeds(<<>>) = {}
  BY DEF Feeds
<1>2. Cardinality(Feeds(<<>>)) = 0
  BY <1>1, FS_EmptySet
<1> QED BY <1>2 DEF Lines

-----------------------------------------------------------------------------
(* The client.                                                             *)

\* find('\n') gives the first line feed of rx_, if there is one.
LEMMA FirstFeed ==
    ASSUME NEW s \in Seq(Byte), Feeds(s) # {}
    PROVE  Min(Feeds(s)) \in Feeds(s) /\ \A i \in Feeds(s) : Min(Feeds(s)) <= i
<1> DEFINE S == Feeds(s)
           c == Place(S, 1)
<1>1. S \in SUBSET Nat /\ IsFiniteSet(S) /\ Cardinality(S) \in Nat
  BY FeedsType
<1>2. Cardinality(S) # 0
  BY <1>1, FS_EmptySet
<1> HIDE DEF S
<1>3. c \in S /\ Rank(S, c) = 1
  <2>1. 1 \in 1 .. Cardinality(S)
    BY <1>1, <1>2
  <2> QED BY <2>1, <1>1, PlaceOfRank
<1> HIDE DEF c
<1>4. ASSUME NEW i \in S
      PROVE  c <= i
  <2>1. i < c => Rank(S, i) < Rank(S, c)
    BY <1>1, <1>3, RankOrder
  <2>2. Rank(S, i) \in Nat /\ Rank(S, i) >= 1 /\ c \in Nat /\ i \in Nat
    BY <1>1, <1>3, RankRange
  <2> QED BY <2>1, <2>2, <1>3
<1>5. \E x \in S : \A y \in S : x <= y
  BY <1>3, <1>4
<1>6. Min(S) \in S /\ \A y \in S : Min(S) <= y
  BY <1>5 DEF Min
<1> QED BY <1>6 DEF S

\* What read_line takes out of rx_ is up to its first line feed.
LEMMA TakesFirst ==
    ASSUME TypeOK, TakeLine
    PROVE  \E nl \in Feeds(rx) :
              /\ \A i \in Feeds(rx) : nl <= i
              /\ out' = Trim(SubSeq(rx, 1, nl - 1))
              /\ rx' = SubSeq(rx, nl + 1, Len(rx))
<1>1. Feeds(rx) # {}
  BY DEF TakeLine, HasLine, Contains, Feeds
<1>2. SelectInSeq(rx, LAMBDA b : b = "lf") = Min(Feeds(rx))
  BY <1>1 DEF SelectInSeq, Feeds
<1>3. /\ Min(Feeds(rx)) \in Feeds(rx)
      /\ \A i \in Feeds(rx) : Min(Feeds(rx)) <= i
  BY <1>1, FirstFeed DEF TypeOK
<1>4. /\ out' = Trim(SubSeq(rx, 1, Min(Feeds(rx)) - 1))
      /\ rx' = SubSeq(rx, Min(Feeds(rx)) + 1, Len(rx))
  BY <1>2 DEF TakeLine
<1> QED BY <1>3, <1>4

LEMMA NoBytes == <<>> \in Seq(Byte)
  OBVIOUS

\* Only an open client has a peer that can send.
PeerOK == peer = "up" => sock

LEMMA TypeStep == TypeOK /\ PeerOK /\ [Next]_vars => (TypeOK /\ PeerOK)'
<1> SUFFICES ASSUME TypeOK, PeerOK, [Next]_vars PROVE (TypeOK /\ PeerOK)'
  OBVIOUS
<1> USE TcpAssumption, NoBytes
<1>1. CASE Connect
  BY <1>1 DEF Connect, TypeOK, PeerOK
<1>2. CASE Close
  BY <1>2 DEF Close, TypeOK, PeerOK
<1>3. CASE ReadLine
  BY <1>3 DEF ReadLine, TypeOK, PeerOK
<1>4. CASE TakeLine
  <2>1. PICK nl \in Feeds(rx) : /\ out' = Trim(SubSeq(rx, 1, nl - 1))
                                /\ rx' = SubSeq(rx, nl + 1, Len(rx))
    BY <1>4, TakesFirst
  <2>2. nl \in Nat /\ 1 <= nl /\ nl <= Len(rx) /\ rx \in Seq(Byte)
    BY DEF TypeOK, Feeds
  <2>3. rx' \in Seq(Byte)
    BY <2>1, <2>2
  <2>4. SubSeq(rx, 1, nl - 1) \in Seq(Byte)
    BY <2>2
  <2>5. \A l \in Seq(Byte) : Trim(l) \in Seq(Byte)
    BY DEF Trim, Front
  <2>6. out' \in Seq(Byte)
    BY <2>1, <2>4, <2>5
  <2> QED BY <2>3, <2>6, <1>4 DEF TakeLine, TypeOK, PeerOK
<1>5. CASE Recv
  <2>1. PICK n \in 1 .. Chunk : /\ n <= Len(wire)
                                /\ rx' = rx \o SubSeq(wire, 1, n)
                                /\ wire' = SubSeq(wire, n + 1, Len(wire))
    BY <1>5 DEF Recv
  <2>2. rx' \in Seq(Byte) /\ wire' \in Seq(Byte)
    BY <2>1 DEF TypeOK
  <2> QED BY <2>2, <1>5 DEF Recv, TypeOK, PeerOK
<1>6. CASE RecvFails
  BY <1>6 DEF RecvFails, TypeOK, PeerOK
<1>7. ASSUME NEW b \in Byte, PeerSends(b)
      PROVE  (TypeOK /\ PeerOK)'
  BY <1>7 DEF PeerSends, TypeOK, PeerOK
<1>8. CASE PeerCloses
  BY <1>8 DEF PeerCloses, TypeOK, PeerOK
<1>9. CASE PeerResets
  BY <1>9 DEF PeerResets, TypeOK, PeerOK
<1>10. CASE UNCHANGED vars
  BY <1>10 DEF vars, TypeOK, PeerOK
<1> QED
  BY <1>1, <1>2, <1>3, <1>4, <1>5, <1>6, <1>7, <1>8, <1>9, <1>10
     DEF Next, Read

LEMMA TypeInit == Init => TypeOK /\ PeerOK
<1> SUFFICES ASSUME Init PROVE TypeOK /\ PeerOK
  OBVIOUS
<1>1. 0 \in 0 .. MaxStream /\ 0 \in 0 .. MaxConns
  BY TcpAssumption
<1>2. sock = FALSE /\ pc = "idle" /\ peer = "gone"
  BY DEF Init
<1>3. rx \in Seq(Byte) /\ out \in Seq(Byte) /\ wire \in Seq(Byte) /\ rx = <<>>
  BY NoBytes DEF Init
<1>4. sent \in 0 .. MaxStream /\ conns \in 0 .. MaxConns
  BY <1>1 DEF Init
<1> QED BY <1>2, <1>3, <1>4 DEF TypeOK, PeerOK

\* Every variable of the client has its type.
THEOREM TcpTypeCorrect == Spec => []TypeOK
  BY TypeInit, TypeStep, PTL DEF Spec

-----------------------------------------------------------------------------
(* The queue.                                                              *)

LEMMA QueueStep == TypeOK /\ PeerOK /\ [Next]_vars => [Channel!Next]_(Channel!vars)
<1> SUFFICES ASSUME TypeOK, PeerOK, [Next]_vars PROVE [Channel!Next]_(Channel!vars)
  OBVIOUS
<1> DEFINE s == rx \o wire
<1>0. rx \in Seq(Byte) /\ wire \in Seq(Byte) /\ s \in Seq(Byte)
  BY DEF TypeOK
<1>1. CASE Connect
  <2>1. Pending' = <<>>
    BY <1>1, NoLines DEF Connect, Pending
  <2> QED BY <1>1, <2>1 DEF Connect, Channel!Next, Channel!Open
<1>2. CASE Close
  <2>1. Pending' = <<>>
    BY <1>2, NoLines DEF Close, Pending
  <2> QED BY <1>2, <2>1 DEF Close, Channel!Next, Channel!Shut
<1>3. CASE ReadLine \/ RecvFails \/ PeerCloses \/ UNCHANGED vars
  <2>1. UNCHANGED <<sock, out, rx, wire>>
    BY <1>3 DEF ReadLine, RecvFails, PeerCloses, vars
  <2> QED BY <2>1 DEF Channel!vars, Pending
<1>4. CASE TakeLine
  <2>1. PICK nl \in Feeds(rx) : /\ \A i \in Feeds(rx) : nl <= i
                                /\ out' = Trim(SubSeq(rx, 1, nl - 1))
                                /\ rx' = SubSeq(rx, nl + 1, Len(rx))
    BY <1>4, TakesFirst
  <2>2. /\ nl \in Nat /\ 1 <= nl /\ nl <= Len(rx)
        /\ Len(rx) \in Nat /\ Len(wire) \in Nat /\ Len(s) = Len(rx) + Len(wire)
        /\ \A i \in 1 .. Len(rx) : s[i] = rx[i]
    BY <1>0 DEF Feeds
  <2>3. nl \in Feeds(s) /\ \A i \in Feeds(s) : nl <= i
    <3>1. s[nl] = "lf" /\ nl \in 1 .. Len(s)
      BY <2>2 DEF Feeds
    <3>2. ASSUME NEW i \in Feeds(s) PROVE nl <= i
      <4>1. i \in Nat /\ 1 <= i /\ s[i] = "lf"
        BY <2>2 DEF Feeds
      <4>2. i <= Len(rx) => i \in Feeds(rx)
        BY <4>1, <2>2 DEF Feeds
      <4> QED BY <4>1, <4>2, <2>1, <2>2
    <3> QED BY <3>1, <3>2 DEF Feeds
  <2>4. SubSeq(s, 1, nl - 1) = SubSeq(rx, 1, nl - 1)
    <3>1. nl <= Len(rx) + 1 /\ nl + 0 <= Len(s) + 1
      BY <2>2
    <3>2. \A i \in 1 .. Len(rx) : 0 < i /\ i < nl => rx[i] = s[i + 0]
      BY <2>2
    <3>3. SubSeq(rx, 0 + 1, nl - 1) = SubSeq(s, 0 + 0 + 1, nl + 0 - 1)
      <4> HIDE DEF s
      <4> QED BY <1>0, <2>2, <3>1, <3>2, SameStretch
    <3> QED BY <2>2, <3>3
  <2>5. SubSeq(s, nl + 1, Len(s)) = rx' \o wire
    BY <1>0, <2>1, <2>2, DropConcat
  <2>6. /\ Pending # <<>> /\ Head(Pending) = Trim(SubSeq(s, 1, nl - 1))
        /\ Tail(Pending) = Lines(SubSeq(s, nl + 1, Len(s)))
    <3>1. Pending = Lines(s)
      BY DEF Pending
    <3> HIDE DEF s
    <3> QED BY <1>0, <2>3, <3>1, RestLines
  <2>7. Pending' = Lines(rx' \o wire)
    BY <1>4 DEF TakeLine, Pending
  <2>8. sock /\ sock' = sock
    BY <1>4 DEF TakeLine, TypeOK
  <2>9. out' = Head(Pending) /\ Pending' = Tail(Pending)
    BY <2>1, <2>4, <2>5, <2>6, <2>7
  <2> QED BY <2>6, <2>8, <2>9 DEF Channel!Next, Channel!Receive
<1>5. CASE Recv
  <2>1. PICK n \in 1 .. Chunk : /\ n <= Len(wire)
                                /\ rx' = rx \o SubSeq(wire, 1, n)
                                /\ wire' = SubSeq(wire, n + 1, Len(wire))
    BY <1>5 DEF Recv
  <2>2. n \in Nat
    BY TcpAssumption
  <2>3. (rx \o SubSeq(wire, 1, n)) \o SubSeq(wire, n + 1, Len(wire)) = s
    BY <1>0, <2>1, <2>2, MoveConcat
  <2>4. rx' \o wire' = s
    BY <2>1, <2>3
  <2>5. Pending' = Pending
    BY <2>4 DEF Pending
  <2> QED BY <2>5, <1>5 DEF Recv, Channel!vars
<1>6. ASSUME NEW b \in Byte, PeerSends(b)
      PROVE  [Channel!Next]_(Channel!vars)
  <2>1. rx \o Append(wire, b) = Append(s, b)
    BY <1>0
  <2>2. Pending = Lines(s) /\ Pending' = Lines(Append(s, b))
    BY <1>6, <2>1 DEF PeerSends, Pending
  <2>3. sock /\ sock' = sock /\ out' = out
    BY <1>6 DEF PeerSends, PeerOK
  <2> HIDE DEF s
  <2>4. CASE b = "lf"
    <3>1. Len(Pending') = Len(Pending) + 1 /\ SubSeq(Pending', 1, Len(Pending)) = Pending
      BY <1>0, <2>2, <2>4, AppendLines
    <3> QED BY <3>1, <2>3 DEF Channel!Next, Channel!Arrive
  <2>5. CASE b # "lf"
    <3>1. Pending' = Pending
      BY <1>0, <2>2, <2>5, AppendLines
    <3> QED BY <3>1, <2>3 DEF Channel!vars
  <2> QED BY <2>4, <2>5
<1>7. CASE PeerResets
  <2>1. Pending = Lines(s) /\ Pending' = Lines(rx)
    <3>1. rx \o <<>> = rx
      BY <1>0
    <3> QED BY <1>7, <3>1 DEF PeerResets, Pending
  <2>2. Len(rx) <= Len(s) /\ \A i \in 1 .. Len(rx) : rx[i] = s[i]
    BY <1>0
  <2>3. sock /\ sock' = sock /\ out' = out
    BY <1>7 DEF PeerResets, PeerOK
  <2> HIDE DEF s
  <2>4. /\ Len(Pending') \in 0 .. Len(Pending)
        /\ Pending' = SubSeq(Pending, 1, Len(Pending'))
    BY <1>0, <2>1, <2>2, PrefixLines
  <2> QED BY <2>3, <2>4 DEF Channel!Next, Channel!Break
<1> QED
  BY <1>1, <1>2, <1>3, <1>4, <1>5, <1>6, <1>7 DEF Next, Read

\* TcpClient provides the queue of messages the pool sessions are written over:
\* for every stream, every way recv() cuts it and every place of the guard,
\* read_line() hands over the lines of a connection in order and once each.
THEOREM TcpIsAChannel == Spec => IsAChannel
<1>1. Init => Channel!Init
  <2> SUFFICES ASSUME Init PROVE Channel!Init
    OBVIOUS
  <2>1. Pending = <<>>
    BY NoLines DEF Init, Pending
  <2> QED BY <2>1 DEF Init, Channel!Init
<1> QED
  BY <1>1, TypeInit, TypeStep, QueueStep, PTL DEF Spec, IsAChannel, Channel!Spec
=============================================================================
