------------------------- MODULE ArithmeticProofs -------------------------
(***************************************************************************)
(* Every invariant of Arithmetic holds for every value of its constants:   *)
(* the targets, the order of hashes, the padding of SHA-256, the division  *)
(* of the dataset and the work that is handed out are right at the real    *)
(* sizes too, not only at the small ones that are enumerated.              *)
(*                                                                         *)
(* The model's loops are recursive functions.  What such a function        *)
(* computes is shown by induction in the form of sets of naturals          *)
(* (SetInduction), after a function that satisfies the recursion has been  *)
(* shown to exist (the lemmas named ...Exists).                            *)
(***************************************************************************)
EXTENDS Arithmetic, NaturalsInduction, WellFoundedInduction, SequenceTheorems, TLAPS

-----------------------------------------------------------------------------
(* Induction and powers.                                                   *)

\* Induction, as a statement about sets: the library's form takes an operator.
LEMMA SetInduction ==
    ASSUME NEW S \in SUBSET Nat, 0 \in S, \A n \in S : n + 1 \in S
    PROVE  S = Nat
<1> DEFINE T == Nat \ S
<1>1. SUFFICES ASSUME T # {} PROVE FALSE
  OBVIOUS
<1>2. PICK x \in T : \A y \in Nat : <<y, x>> \in OpToRel(<, Nat) => y \notin T
  BY <1>1, NatLessThanWellFounded, WFMin
<1>3. x \in Nat /\ x # 0
  BY <1>2
<1>4. x - 1 \in Nat /\ x - 1 < x
  BY <1>3
<1>5. <<x - 1, x>> \in OpToRel(<, Nat)
  BY <1>3, <1>4 DEF OpToRel
<1>6. x - 1 \in S
  BY <1>2, <1>4, <1>5
<1>7. x - 1 + 1 \in S
  BY <1>6
<1>8. x - 1 + 1 = x
  BY <1>3
<1> HIDE DEF T
<1>9. x \in S
  BY <1>7, <1>8
<1> QED BY <1>9, <1>2 DEF T

\* f satisfies the recursion that defines the powers of b up to n.
PowerFn(f, b, n) == f = [i \in 0 .. n |-> IF i = 0 THEN 1 ELSE b * f[i - 1]]

\* A function that satisfies the recursion of a power exists.
LEMMA PowerExists ==
    ASSUME NEW b \in Nat, NEW n \in Nat
    PROVE  \E f : PowerFn(f, b, n) /\ f \in [0 .. n -> Nat]
<1> DEFINE S == {m \in Nat : \E f : PowerFn(f, b, m) /\ f \in [0 .. m -> Nat]}
<1>1. 0 \in S
  <2> DEFINE f == [i \in 0 .. 0 |-> 1]
  <2>1. PowerFn(f, b, 0) /\ f \in [0 .. 0 -> Nat]
    BY DEF PowerFn
  <2> HIDE DEF f
  <2> QED BY <2>1
<1>2. ASSUME NEW m \in S PROVE m + 1 \in S
  <2>1. PICK f : PowerFn(f, b, m) /\ f \in [0 .. m -> Nat]
    OBVIOUS
  <2> DEFINE g == [i \in 0 .. m + 1 |-> IF i = m + 1 THEN b * f[m] ELSE f[i]]
  <2>2. m \in Nat
    OBVIOUS
  <2>3. g \in [0 .. m + 1 -> Nat]
    BY <2>2, <2>1
  <2>4. \A i \in 0 .. m + 1 : g[i] = IF i = 0 THEN 1 ELSE b * g[i - 1]
    <3> TAKE i \in 0 .. m + 1
    <3>1. CASE i = m + 1
      BY <3>1, <2>2
    <3>2. CASE i # m + 1
      <4>1. i \in 0 .. m /\ g[i] = f[i]
        BY <3>2, <2>2
      <4>2. f[i] = IF i = 0 THEN 1 ELSE b * f[i - 1]
        BY <4>1, <2>1 DEF PowerFn
      <4>3. i # 0 => g[i - 1] = f[i - 1]
        BY <4>1, <2>2
      <4> QED BY <4>1, <4>2, <4>3
    <3> QED BY <3>1, <3>2
  <2>5. PowerFn(g, b, m + 1)
    BY <2>3, <2>4 DEF PowerFn
  <2> HIDE DEF g
  <2> QED BY <2>2, <2>3, <2>5
<1> HIDE DEF S
<1>3. S = Nat
  <2>1. S \in SUBSET Nat
    BY DEF S
  <2> QED BY <1>1, <1>2, <2>1, SetInduction
<1> QED BY <1>3 DEF S

\* Two such functions agree wherever both are defined.
LEMMA PowerUnique ==
    ASSUME NEW b \in Nat, NEW m \in Nat, NEW n \in Nat, m <= n,
           NEW f, NEW g, PowerFn(f, b, m), PowerFn(g, b, n)
    PROVE  f[m] = g[m]
<1> DEFINE S == {i \in Nat : i <= m => f[i] = g[i]}
<1>1. 0 \in S
  BY DEF PowerFn
<1>2. ASSUME NEW i \in S PROVE i + 1 \in S
  <2>1. SUFFICES ASSUME i + 1 <= m PROVE f[i + 1] = g[i + 1]
    OBVIOUS
  <2>2. f[i] = g[i] /\ i + 1 \in 0 .. m /\ i + 1 \in 0 .. n /\ i + 1 # 0 /\ i + 1 - 1 = i
    BY <2>1
  <2>3. f[i + 1] = b * f[i] /\ g[i + 1] = b * g[i]
    BY <2>2 DEF PowerFn
  <2> QED BY <2>2, <2>3
<1> HIDE DEF S
<1>3. S = Nat
  <2>1. S \in SUBSET Nat
    BY DEF S
  <2> QED BY <1>1, <1>2, <2>1, SetInduction
<1> QED BY <1>3 DEF S

\* The powers are what the recursion says they are.
LEMMA Powers ==
    ASSUME NEW b \in Nat, NEW n \in Nat
    PROVE  /\ b ^^ n \in Nat
           /\ b ^^ 0 = 1
           /\ b ^^ (n + 1) = b * b ^^ n
<1> DEFINE p(m) == CHOOSE f : PowerFn(f, b, m)
<1>1. ASSUME NEW m \in Nat
      PROVE  PowerFn(p(m), b, m) /\ b ^^ m = p(m)[m]
  <2>1. \E f : PowerFn(f, b, m)
    BY PowerExists
  <2>2. PowerFn(p(m), b, m)
    BY <2>1, Zenon
  <2>3. b ^^ m = p(m)[m]
    BY Zenon DEF PowerFn, ^^
  <2> QED BY <2>2, <2>3
<1>2. ASSUME NEW m \in Nat
      PROVE  b ^^ m \in Nat
  <2>1. PICK f : PowerFn(f, b, m) /\ f \in [0 .. m -> Nat]
    BY PowerExists
  <2>2. p(m)[m] = f[m]
    BY <1>1, <2>1, PowerUnique
  <2> QED BY <1>1, <2>1, <2>2
<1> HIDE DEF p
<1>3. b ^^ 0 = 1
  BY <1>1 DEF PowerFn
<1>4. p(n + 1)[n + 1] = b * p(n + 1)[n]
  BY <1>1 DEF PowerFn
<1>5. p(n + 1)[n] = p(n)[n]
  BY <1>1, PowerUnique
<1> QED BY <1>1, <1>2, <1>3, <1>4, <1>5

-----------------------------------------------------------------------------
(* Division.                                                               *)

\* Multiples of a natural number are ordered as their factors.
LEMMA MultiplesOrdered ==
    ASSUME NEW p \in Nat, NEW i \in Nat, NEW j \in Nat, i <= j
    PROVE  i * p <= j * p
<1>1. PICK d \in Nat : j = i + d
  <2>1. j - i \in Nat /\ j = i + (j - i)
    OBVIOUS
  <2> QED BY <2>1
<1>2. j * p = i * p + d * p
  BY <1>1
<1>3. d * p \in Nat /\ i * p \in Nat
  BY <1>1
<1> QED BY <1>2, <1>3

\* The next multiple.
LEMMA NextMultiple ==
    ASSUME NEW i \in Nat, NEW p \in Nat
    PROVE  i * p \in Nat /\ (i + 1) * p = i * p + p
OBVIOUS

\* What integer division gives: the quotient and the bound on what is left.
LEMMA Division ==
    ASSUME NEW x \in Nat, NEW p \in Nat, p > 0
    PROVE  /\ x \div p \in Nat
           /\ (x \div p) * p <= x
           /\ x < (x \div p + 1) * p
<1>1. x \div p \in Int /\ x \div p >= 0
  OBVIOUS
<1>2. x % p \in 0 .. p - 1
  OBVIOUS
<1>3. x = (x % p) + (x \div p) * p
  OBVIOUS
<1>4. (x \div p + 1) * p = (x \div p) * p + p
  BY <1>1
<1> QED BY <1>1, <1>2, <1>3, <1>4

\* A quotient and its remainder give the number back.
LEMMA Remainder ==
    ASSUME NEW x \in Nat, NEW p \in Nat, p > 0
    PROVE  /\ x \div p \in Nat
           /\ x % p \in 0 .. p - 1
           /\ x = (x \div p) * p + (x % p)
<1>1. x \div p \in Int /\ x \div p >= 0
  OBVIOUS
<1>2. x % p \in 0 .. p - 1
  OBVIOUS
<1>3. x = (x % p) + (x \div p) * p
  OBVIOUS
<1> QED BY <1>1, <1>2, <1>3

\* A quotient and a remainder are the only ones.
LEMMA DivisionUnique ==
    ASSUME NEW p \in Nat, NEW q \in Nat, NEW r \in Nat, r < p
    PROVE  /\ (q * p + r) \div p = q
           /\ (q * p + r) % p = r
<1> DEFINE x == q * p + r
<1>1. q * p \in Nat /\ x \in Nat /\ p > 0
  OBVIOUS
<1> DEFINE y == x \div p
           s == x % p
<1>2. y \in Nat /\ s \in 0 .. p - 1 /\ x = y * p + s
  BY <1>1, Remainder
<1> HIDE DEF y, s
<1>3. y * p \in Nat /\ (y + 1) * p = y * p + p /\ (q + 1) * p = q * p + p
  BY <1>2
<1>4. ~ y < q
  <2>1. SUFFICES ASSUME y + 1 <= q PROVE FALSE
    BY <1>2
  <2>2. (y + 1) * p <= q * p
    BY <2>1, <1>2, MultiplesOrdered
  <2> QED BY <2>2, <1>3, <1>2, <1>1
<1>5. ~ q < y
  <2>1. SUFFICES ASSUME q + 1 <= y PROVE FALSE
    BY <1>2
  <2>2. (q + 1) * p <= y * p
    BY <2>1, <1>2, MultiplesOrdered
  <2> QED BY <2>2, <1>3, <1>2, <1>1
<1>6. y = q
  BY <1>4, <1>5, <1>2
<1>7. s = r
  BY <1>6, <1>2, <1>1
<1> QED BY <1>6, <1>7 DEF y, s

\* A number below the divisor is its own remainder.
LEMMA SmallRemainder ==
    ASSUME NEW x \in Nat, NEW p \in Nat, x < p
    PROVE  x % p = x /\ x \div p = 0
<1>1. 0 * p + x = x
  OBVIOUS
<1> QED BY <1>1, DivisionUnique

\* Division by a product, in two steps.
LEMMA DivisionTwice ==
    ASSUME NEW x \in Nat, NEW p \in Nat, NEW b \in Nat, p > 0, b > 0
    PROVE  /\ p * b \in Nat /\ p * b > 0
           /\ x \div (p * b) = (x \div p) \div b
           /\ x % (p * b) = (x % p) + ((x \div p) % b) * p
<1> DEFINE q == x \div p
           r == x % p
<1>1. q \in Nat /\ r \in 0 .. p - 1 /\ x = q * p + r
  BY Remainder
<1> DEFINE t == q \div b
           u == q % b
<1> HIDE DEF q, r
<1>2. t \in Nat /\ u \in 0 .. b - 1 /\ q = t * b + u
  BY <1>1, Remainder
<1> HIDE DEF t, u
<1>3. u * p \in Nat /\ t * b \in Nat
  BY <1>2
<1>4. q * p = (t * b) * p + u * p
  BY <1>1, <1>2, <1>3
<1>5. (t * b) * p = t * (p * b)
  BY <1>2
<1>6. p * b \in Nat /\ p * b = b * p
  OBVIOUS
<1>7. (u + 1) * p <= b * p /\ (u + 1) * p = u * p + p
  <2>1. u \in Nat /\ u + 1 <= b
    BY <1>2
  <2> QED BY <2>1, MultiplesOrdered
<1>8. u * p + r \in Nat /\ u * p + r < p * b
  BY <1>7, <1>6, <1>3, <1>1
<1>9. x = t * (p * b) + (u * p + r)
  BY <1>1, <1>3, <1>4, <1>5
<1>10. x \div (p * b) = t /\ x % (p * b) = u * p + r
  <2> DEFINE d == p * b
             w == u * p + r
  <2>1. d \in Nat /\ w \in Nat /\ w < d /\ x = t * d + w
    BY <1>6, <1>8, <1>9
  <2> HIDE DEF d, w
  <2>2. x \div d = t /\ x % d = w
    BY <2>1, <1>2, DivisionUnique
  <2> QED BY <2>2 DEF d, w
<1>11. p * b > 0
  BY <1>7, <1>6, <1>3
<1>12. u * p + r = r + u * p
  BY <1>1, <1>3
<1> QED BY <1>10, <1>6, <1>11, <1>12 DEF q, r, t, u

\* Powers of a positive number are positive.
LEMMA PowerPositive ==
    ASSUME NEW b \in Nat, b > 0, NEW n \in Nat
    PROVE  b ^^ n \in Nat /\ b ^^ n > 0
<1> DEFINE S == {m \in Nat : b ^^ m > 0}
<1>1. 0 \in S
  BY Powers
<1>2. ASSUME NEW m \in S PROVE m + 1 \in S
  <2>1. b ^^ m \in Nat /\ b ^^ m > 0 /\ b ^^ (m + 1) = b * b ^^ m
    BY Powers
  <2> QED BY <2>1
<1> HIDE DEF S
<1>3. S = Nat
  <2>1. S \in SUBSET Nat
    BY DEF S
  <2> QED BY <1>1, <1>2, <2>1, SetInduction
<1> QED BY <1>3, Powers DEF S

\* A power of a sum is the product of the powers.
LEMMA PowerSum ==
    ASSUME NEW b \in Nat, NEW m \in Nat, NEW n \in Nat
    PROVE  b ^^ (m + n) = b ^^ m * b ^^ n
<1> DEFINE S == {i \in Nat : b ^^ (m + i) = b ^^ m * b ^^ i}
<1>1. b ^^ m \in Nat
  BY Powers
<1>2. 0 \in S
  <2>1. b ^^ 0 = 1 /\ m + 0 = m
    BY Powers
  <2> QED BY <1>1, <2>1
<1>3. ASSUME NEW i \in S PROVE i + 1 \in S
  <2>1. i \in Nat /\ b ^^ (m + i) = b ^^ m * b ^^ i
    OBVIOUS
  <2>2. m + i \in Nat /\ m + (i + 1) = (m + i) + 1
    BY <2>1
  <2>3. b ^^ (m + (i + 1)) = b * b ^^ (m + i)
    BY <2>2, Powers
  <2>4. b ^^ i \in Nat /\ b ^^ (i + 1) = b * b ^^ i
    BY <2>1, Powers
  <2>5. b * (b ^^ m * b ^^ i) = b ^^ m * (b * b ^^ i)
    BY <1>1, <2>4
  <2> QED BY <2>1, <2>3, <2>4, <2>5
<1> HIDE DEF S
<1>4. S = Nat
  <2>1. S \in SUBSET Nat
    BY DEF S
  <2> QED BY <1>2, <1>3, <2>1, SetInduction
<1> QED BY <1>4 DEF S

\* A power of two exceeds its exponent, so that every number has a bit length.
LEMMA TwoPowersGrow ==
    ASSUME NEW n \in Nat
    PROVE  2 ^^ n \in Nat /\ 2 ^^ n > n
<1> DEFINE S == {m \in Nat : 2 ^^ m > m}
<1> HIDE DEF S
<1>1. 0 \in S
  BY Powers DEF S
<1>2. ASSUME NEW m \in S PROVE m + 1 \in S
  <2>1. m \in Nat /\ 2 ^^ m > m
    BY DEF S
  <2>2. 2 ^^ m \in Nat /\ 2 ^^ (m + 1) = 2 * 2 ^^ m
    BY <2>1, Powers
  <2>3. 2 ^^ (m + 1) > m + 1
    BY <2>1, <2>2
  <2> QED BY <2>1, <2>3 DEF S
<1>3. S = Nat
  <2>1. S \in SUBSET Nat
    BY DEF S
  <2> QED BY <1>1, <1>2, <2>1, SetInduction
<1> QED BY <1>3, Powers DEF S

-----------------------------------------------------------------------------
(* Byte strings: their numbers and their order.                            *)

\* A sum of lower digits never makes up for a higher digit that is smaller.
LEMMA Carry ==
    ASSUME NEW s \in Nat, NEW t \in Nat, NEW x \in Nat, NEW y \in Nat, NEW p \in Nat,
           s < p, x + 1 <= y
    PROVE  /\ x * p \in Nat /\ y * p \in Nat /\ s + x * p \in Nat /\ t + y * p \in Nat
           /\ s + x * p < t + y * p
           /\ s + x * p < y * p
<1>1. (x + 1) * p <= y * p
  BY MultiplesOrdered
<1>2. (x + 1) * p = x * p + p /\ x * p \in Nat /\ y * p \in Nat
  OBVIOUS
<1> QED BY <1>1, <1>2

\* What the assumptions say of the sizes of bytes, words and targets.
LEMMA BaseFacts ==
    /\ Base \in Nat /\ Base > 0 /\ Base >= 2
    /\ WordBytes \in Nat /\ WordBytes > 1
    /\ Words \in Nat /\ Words > 2
    /\ Bytes \in Nat /\ Bytes = WordBytes * Words
    /\ Bytes > 2 * WordBytes /\ Bytes > 3
<1>1. /\ Base \in Nat /\ WordBytes \in Nat /\ WordBytes > 0 /\ WordBytes % 2 = 0
      /\ Words \in Nat /\ Words > 2
  BY TargetAssumption
<1>2. Base >= 2
  <2>1. PICK bits \in 1 .. Base : Base = 2 ^^ bits
    BY TargetAssumption
  <2>2. bits \in Nat /\ bits >= 1
    BY <1>1
  <2>3. 2 ^^ bits > bits
    BY <2>2, TwoPowersGrow
  <2> QED BY <2>1, <2>2, <2>3, <1>1
<1>3. WordBytes # 1
  BY <1>1
<1>4. 3 * WordBytes <= Words * WordBytes
  BY <1>1, MultiplesOrdered
<1>5. Words * WordBytes = WordBytes * Words /\ WordBytes * Words \in Nat
  BY <1>1
<1> QED BY <1>2, <1>1, <1>3, <1>4, <1>5 DEF Bytes

\* Byte strings of n bytes.
Digits(n) == [0 .. n - 1 -> 0 .. Base - 1]

\* f satisfies the recursion that adds up the bytes of b.
ValueFn(f, b, n) ==
    f = [i \in 0 .. n |->
            IF i = 0 THEN 0 ELSE f[i - 1] + b[i - 1] * Base ^^ (i - 1)]

\* The partial sums of a byte string exist.
LEMMA ValueExists ==
    ASSUME NEW b, NEW n \in Nat
    PROVE  \E f : ValueFn(f, b, n)
<1> DEFINE S == {m \in Nat : \E f : ValueFn(f, b, m)}
<1>1. 0 \in S
  <2> DEFINE f == [i \in 0 .. 0 |-> 0]
  <2>1. ValueFn(f, b, 0)
    BY DEF ValueFn
  <2> HIDE DEF f
  <2> QED BY <2>1
<1>2. ASSUME NEW m \in S PROVE m + 1 \in S
  <2>1. PICK f : ValueFn(f, b, m)
    OBVIOUS
  <2> DEFINE g == [i \in 0 .. m + 1 |->
                      IF i = m + 1 THEN f[m] + b[m] * Base ^^ m ELSE f[i]]
  <2>2. m \in Nat
    OBVIOUS
  <2>3. \A i \in 0 .. m + 1 :
           g[i] = IF i = 0 THEN 0 ELSE g[i - 1] + b[i - 1] * Base ^^ (i - 1)
    <3> TAKE i \in 0 .. m + 1
    <3>1. CASE i = m + 1
      <4>1. i # 0 /\ i - 1 = m /\ g[m] = f[m]
        BY <3>1, <2>2
      <4>2. g[i] = f[m] + b[m] * Base ^^ m
        BY <3>1
      <4> QED BY <4>1, <4>2
    <3>2. CASE i # m + 1
      <4>1. i \in 0 .. m /\ g[i] = f[i]
        BY <3>2, <2>2
      <4>2. f[i] = IF i = 0 THEN 0 ELSE f[i - 1] + b[i - 1] * Base ^^ (i - 1)
        BY <4>1, <2>1 DEF ValueFn
      <4>3. i # 0 => g[i - 1] = f[i - 1]
        BY <4>1, <2>2
      <4> QED BY <4>1, <4>2, <4>3
    <3> QED BY <3>1, <3>2
  <2>4. ValueFn(g, b, m + 1)
    BY <2>3 DEF ValueFn
  <2> HIDE DEF g
  <2> QED BY <2>2, <2>4
<1> HIDE DEF S
<1>3. S = Nat
  <2>1. S \in SUBSET Nat
    BY DEF S
  <2> QED BY <1>1, <1>2, <2>1, SetInduction
<1> QED BY <1>3 DEF S

\* The partial sums of a byte string, least significant byte first.
LEMMA PartialSums ==
    ASSUME NEW n \in Nat, NEW b \in Digits(n)
    PROVE  \E sum \in [0 .. n -> Nat] :
              /\ sum[0] = 0
              /\ \A i \in 0 .. n - 1 : sum[i + 1] = sum[i] + b[i] * Base ^^ i
              /\ \A i \in 0 .. n : sum[i] < Base ^^ i
              /\ ValueOf(b, n) = sum[n]
<1> DEFINE sum == CHOOSE f : ValueFn(f, b, n)
<1>1. ValueFn(sum, b, n)
  <2>1. \E f : ValueFn(f, b, n)
    BY ValueExists
  <2> QED BY <2>1, Zenon
<1>2. ValueOf(b, n) = sum[n]
  BY Zenon DEF ValueFn, ValueOf
<1> HIDE DEF sum
<1>3. sum[0] = 0
  BY <1>1 DEF ValueFn
<1>4. ASSUME NEW i \in 0 .. n - 1
      PROVE  sum[i + 1] = sum[i] + b[i] * Base ^^ i
  <2>1. i + 1 \in 0 .. n /\ i + 1 # 0 /\ i + 1 - 1 = i
    OBVIOUS
  <2> QED BY <2>1, <1>1 DEF ValueFn
<1> DEFINE S == {i \in Nat : i <= n => sum[i] \in Nat /\ sum[i] < Base ^^ i}
<1> HIDE DEF S
<1>5. 0 \in S
  <2>1. Base ^^ 0 = 1
    BY BaseFacts, Powers
  <2> QED BY <1>3, <2>1 DEF S
<1>6. ASSUME NEW i \in S PROVE i + 1 \in S
  <2>1. SUFFICES ASSUME i + 1 <= n
                 PROVE  sum[i + 1] \in Nat /\ sum[i + 1] < Base ^^ (i + 1)
    BY DEF S
  <2>2. i \in Nat /\ i \in 0 .. n - 1 /\ sum[i] \in Nat /\ sum[i] < Base ^^ i
    BY <2>1 DEF S
  <2>3. b[i] \in Nat /\ b[i] + 1 <= Base
    BY <2>2, BaseFacts DEF Digits
  <2>4. Base ^^ i \in Nat /\ Base ^^ (i + 1) = Base * Base ^^ i
    BY <2>2, BaseFacts, Powers
  <2>5. sum[i] + b[i] * Base ^^ i \in Nat /\ sum[i] + b[i] * Base ^^ i < Base * Base ^^ i
    BY <2>2, <2>3, <2>4, BaseFacts, Carry
  <2>6. sum[i + 1] = sum[i] + b[i] * Base ^^ i
    BY <1>4, <2>2
  <2> QED BY <2>4, <2>5, <2>6
<1>7. S = Nat
  <2>1. S \in SUBSET Nat
    BY DEF S
  <2> QED BY <1>5, <1>6, <2>1, SetInduction
<1>8. \A i \in 0 .. n : sum[i] \in Nat /\ sum[i] < Base ^^ i
  BY <1>7 DEF S
<1>9. sum \in [0 .. n -> Nat]
  BY <1>1, <1>8 DEF ValueFn
<1> QED BY <1>2, <1>3, <1>4, <1>8, <1>9

\* The most significant byte in which two strings differ orders their numbers.
LEMMA FirstDifferenceDecides ==
    ASSUME NEW n \in Nat, NEW a \in Digits(n), NEW b \in Digits(n), NEW d \in 0 .. n - 1,
           a[d] < b[d], \A i \in d + 1 .. n - 1 : a[i] = b[i]
    PROVE  ValueOf(a, n) < ValueOf(b, n)
<1>1. PICK s \in [0 .. n -> Nat] :
              /\ \A i \in 0 .. n - 1 : s[i + 1] = s[i] + a[i] * Base ^^ i
              /\ \A i \in 0 .. n : s[i] < Base ^^ i
              /\ ValueOf(a, n) = s[n]
  BY PartialSums
<1>2. PICK t \in [0 .. n -> Nat] :
              /\ \A i \in 0 .. n - 1 : t[i + 1] = t[i] + b[i] * Base ^^ i
              /\ ValueOf(b, n) = t[n]
  BY PartialSums
<1> DEFINE S == {i \in Nat : i < n - d => s[d + 1 + i] < t[d + 1 + i]}
<1> HIDE DEF S
<1>3. d \in Nat /\ d < n
  OBVIOUS
<1>4. 0 \in S
  <2> DEFINE p == Base ^^ d
  <2>1. p \in Nat
    BY <1>3, BaseFacts, Powers
  <2>2. d \in 0 .. n /\ d \in Nat /\ s[d] \in Nat /\ t[d] \in Nat /\ s[d] < p
    BY <1>1, <1>2
  <2>3. s[d + 1] = s[d] + a[d] * p /\ t[d + 1] = t[d] + b[d] * p
    BY <1>1, <1>2
  <2>4. a[d] \in Nat /\ b[d] \in Nat /\ a[d] + 1 <= b[d]
    BY BaseFacts DEF Digits
  <2> HIDE DEF p
  <2>5. s[d] + a[d] * p < t[d] + b[d] * p
    BY <2>1, <2>2, <2>4, Carry
  <2>6. s[d + 1] < t[d + 1]
    BY <2>3, <2>5
  <2>7. d + 1 + 0 = d + 1
    BY <2>2
  <2> QED BY <2>6, <2>7 DEF S
<1>5. ASSUME NEW i \in S PROVE i + 1 \in S
  <2>1. SUFFICES ASSUME i + 1 < n - d PROVE s[d + 1 + (i + 1)] < t[d + 1 + (i + 1)]
    BY DEF S
  <2> DEFINE k == d + 1 + i
  <2>2. /\ i \in Nat /\ k \in d + 1 .. n - 1 /\ k \in 0 .. n - 1 /\ k \in Nat
        /\ k + 1 = d + 1 + (i + 1)
    BY <2>1 DEF S
  <2>3. s[k] < t[k]
    BY <2>1 DEF S
  <2> HIDE DEF k
  <2>4. s[k + 1] = s[k] + a[k] * Base ^^ k /\ t[k + 1] = t[k] + b[k] * Base ^^ k /\ a[k] = b[k]
    BY <2>2, <1>1, <1>2
  <2>5. a[k] \in Nat /\ Base ^^ k \in Nat /\ s[k] \in Nat /\ t[k] \in Nat
    <3>1. a[k] \in 0 .. Base - 1
      BY <2>2 DEF Digits
    <3>2. Base ^^ k \in Nat
      BY <2>2, BaseFacts, Powers
    <3>3. k \in 0 .. n
      BY <2>2
    <3> QED BY <3>1, <3>2, <3>3, BaseFacts
  <2>6. a[k] * Base ^^ k \in Nat
    <3>1. \A x, y \in Nat : x * y \in Nat
      OBVIOUS
    <3> QED BY <3>1, <2>5
  <2>7. s[k + 1] < t[k + 1]
    BY <2>3, <2>4, <2>5, <2>6
  <2> QED BY <2>7, <2>2
<1>6. S = Nat
  <2>1. S \in SUBSET Nat
    BY DEF S
  <2> QED BY <1>4, <1>5, <2>1, SetInduction
<1>7. n - d - 1 \in S /\ n - d - 1 < n - d /\ d + 1 + (n - d - 1) = n
  BY <1>6
<1>8. s[n] < t[n]
  BY <1>7 DEF S
<1> QED BY <1>1, <1>2, <1>8

\* A set of naturals that is not empty has a least element, and Min is it.
LEMMA Minimum ==
    ASSUME NEW T \in SUBSET Nat, T # {}
    PROVE  Min(T) \in T /\ \A y \in T : Min(T) <= y
<1> DEFINE S == {i \in Nat : \A y \in T : i <= y}
<1> HIDE DEF S
<1>1. \E x \in T : \A y \in T : x <= y
  <2>1. SUFFICES ASSUME \A x \in T : \E y \in T : ~ x <= y PROVE FALSE
    OBVIOUS
  <2>2. 0 \in S
    BY DEF S
  <2>3. ASSUME NEW i \in S PROVE i + 1 \in S
    <3>1. i \in Nat /\ \A y \in T : i <= y
      BY DEF S
    <3>2. i \notin T
      BY <3>1, <2>1
    <3>3. \A y \in T : i + 1 <= y
      BY <3>1, <3>2
    <3> QED BY <3>1, <3>3 DEF S
  <2>4. S = Nat
    <3>1. S \in SUBSET Nat
      BY DEF S
    <3> QED BY <2>2, <2>3, <3>1, SetInduction
  <2>5. PICK x \in T : TRUE
    OBVIOUS
  <2>6. x + 1 \in S
    BY <2>4
  <2> QED BY <2>5, <2>6 DEF S
<1>2. PICK x \in T : \A y \in T : x <= y
  BY <1>1
<1> QED BY <1>2 DEF Min

\* A bounded set of naturals that is not empty has a greatest element, and Max is it.
LEMMA Maximum ==
    ASSUME NEW n \in Nat, NEW T \in SUBSET (0 .. n), T # {}
    PROVE  Max(T) \in T /\ \A y \in T : y <= Max(T)
<1> DEFINE U == {i \in Nat : \A y \in T : y <= i}
<1> HIDE DEF U
<1>1. U \in SUBSET Nat /\ n \in U
  BY DEF U
<1>2. Min(U) \in U /\ \A y \in U : Min(U) <= y
  BY <1>1, Minimum
<1>3. PICK m \in U : \A y \in U : m <= y
  BY <1>2
<1>4. m \in Nat /\ \A y \in T : y <= m
  BY <1>3 DEF U
<1>5. m \in T
  <2>1. SUFFICES ASSUME m \notin T PROVE FALSE
    OBVIOUS
  <2>2. PICK z \in T : TRUE
    OBVIOUS
  <2>3. z \in Nat /\ z <= m /\ z # m
    BY <2>1, <2>2, <1>4
  <2>4. m - 1 \in Nat
    BY <2>3, <1>4
  <2>5. \A y \in T : y <= m - 1
    BY <2>1, <1>4
  <2>6. m - 1 \in U
    BY <2>4, <2>5 DEF U
  <2> QED BY <2>6, <1>3, <1>4
<1>6. \E x \in T : \A y \in T : x >= y
  BY <1>4, <1>5
<1>7. Max(T) \in T /\ \A y \in T : Max(T) >= y
  BY <1>6 DEF Max
<1>8. \A x \in T : x \in Nat
  OBVIOUS
<1>9. Max(T) \in Nat
  BY <1>7, <1>8
<1> QED BY <1>7, <1>8, <1>9

\* A byte string stands for a natural number.
LEMMA ValueOfType ==
    ASSUME NEW n \in Nat, NEW b \in Digits(n)
    PROVE  ValueOf(b, n) \in Nat
<1>1. PICK sum \in [0 .. n -> Nat] : ValueOf(b, n) = sum[n]
  BY PartialSums
<1> QED BY <1>1

\* What meets_target computes is the order of the two numbers.
LEMMA MeetsTargetIsOrder ==
    ASSUME NEW h \in Hash256, NEW t \in Hash256
    PROVE  MeetsTarget(h, t) <=> Number(h) <= Number(t)
<1> DEFINE differ == {i \in 0 .. Bytes - 1 : h[i] # t[i]}
<1>1. Bytes \in Nat /\ Bytes > 0 /\ h \in Digits(Bytes) /\ t \in Digits(Bytes)
  BY BaseFacts DEF Hash256, Digits
<1>2. ValueOf(h, Bytes) \in Nat /\ ValueOf(t, Bytes) \in Nat
  BY <1>1, ValueOfType
<1>3. CASE differ = {}
  <2>1. h = t
    <3>1. \A i \in 0 .. Bytes - 1 : h[i] = t[i]
      BY <1>3
    <3> QED BY <3>1, <1>1 DEF Digits
  <2> QED BY <1>2, <1>3, <2>1 DEF MeetsTarget, Number
<1>4. CASE differ # {}
  <2> DEFINE d == Max(differ)
  <2>1. d \in differ /\ \A y \in differ : y <= d
    <3>1. Bytes - 1 \in Nat /\ differ \in SUBSET (0 .. Bytes - 1)
      BY <1>1
    <3> HIDE DEF differ
    <3> QED BY <3>1, <1>4, Maximum
  <2>2. MeetsTarget(h, t) <=> h[d] < t[d]
    BY <1>4 DEF MeetsTarget
  <2> HIDE DEF d
  <2>3. d \in 0 .. Bytes - 1 /\ h[d] # t[d]
    BY <2>1
  <2>4. \A i \in d + 1 .. Bytes - 1 : h[i] = t[i] /\ t[i] = h[i]
    <3> TAKE i \in d + 1 .. Bytes - 1
    <3>1. i \in 0 .. Bytes - 1 /\ ~ i <= d
      BY <1>1, <2>3
    <3> QED BY <3>1, <2>1
  <2>5. h[d] \in Int /\ t[d] \in Int
    BY <2>3 DEF Hash256
  <2>6. CASE h[d] < t[d]
    <3>1. ValueOf(h, Bytes) < ValueOf(t, Bytes)
      BY <2>3, <2>4, <2>6, <1>1, FirstDifferenceDecides
    <3> QED BY <3>1, <1>2, <2>2, <2>6 DEF Number
  <2>7. CASE t[d] < h[d]
    <3>1. ValueOf(t, Bytes) < ValueOf(h, Bytes)
      BY <2>3, <2>4, <2>7, <1>1, FirstDifferenceDecides
    <3> QED BY <3>1, <1>2, <2>2, <2>5, <2>7 DEF Number
  <2> QED BY <2>3, <2>5, <2>6, <2>7
<1> QED BY <1>3, <1>4

\* Byte strings of one length are as many as the numbers they stand for.
LEMMA ValuesDiffer ==
    ASSUME NEW n \in Nat, NEW a \in Digits(n), NEW b \in Digits(n),
           ValueOf(a, n) = ValueOf(b, n)
    PROVE  a = b
<1> DEFINE differ == {i \in 0 .. n - 1 : a[i] # b[i]}
<1>1. ValueOf(a, n) \in Nat /\ ValueOf(b, n) \in Nat
  BY ValueOfType
<1>2. SUFFICES ASSUME differ # {} PROVE FALSE
  <2>1. SUFFICES ASSUME differ = {} PROVE a = b
    OBVIOUS
  <2>2. \A i \in 0 .. n - 1 : a[i] = b[i]
    BY <2>1
  <2> QED BY <2>2 DEF Digits
<1> DEFINE d == Max(differ)
<1>3. d \in differ /\ \A y \in differ : y <= d
  <2>1. n - 1 \in Nat /\ differ \in SUBSET (0 .. n - 1)
    BY <1>2
  <2> HIDE DEF differ
  <2> QED BY <2>1, <1>2, Maximum
<1> HIDE DEF d
<1>4. d \in 0 .. n - 1 /\ a[d] # b[d]
  BY <1>3
<1>5. \A i \in d + 1 .. n - 1 : a[i] = b[i] /\ b[i] = a[i]
  <2> TAKE i \in d + 1 .. n - 1
  <2>1. i \in 0 .. n - 1 /\ ~ i <= d
    BY <1>4
  <2> QED BY <2>1, <1>3
<1>6. a[d] \in Int /\ b[d] \in Int
  BY <1>4 DEF Digits
<1>7. CASE a[d] < b[d]
  BY <1>1, <1>4, <1>5, <1>7, FirstDifferenceDecides
<1>8. CASE b[d] < a[d]
  BY <1>1, <1>4, <1>5, <1>8, FirstDifferenceDecides
<1> QED BY <1>4, <1>6, <1>7, <1>8

\* A byte is a byte.
LEMMA ByteOfType ==
    ASSUME NEW v \in Nat, NEW i \in Nat
    PROVE  ByteOf(v, i) \in 0 .. Base - 1
<1>1. Base ^^ i \in Nat /\ Base ^^ i > 0
  BY BaseFacts, PowerPositive
<1>2. v \div Base ^^ i \in Nat
  BY <1>1, Remainder
<1> QED BY <1>2, BaseFacts, Remainder DEF ByteOf

\* The bytes of a number, read back, give the number again, less what does not fit.
LEMMA BytesRoundTrip ==
    ASSUME NEW v \in Nat, NEW n \in Nat
    PROVE  /\ ByteString(v, n) \in Digits(n)
           /\ ValueOf(ByteString(v, n), n) = v % Base ^^ n
<1> DEFINE b == ByteString(v, n)
<1>1. b \in Digits(n) /\ \A i \in 0 .. n - 1 : b[i] = (v \div Base ^^ i) % Base
  BY ByteOfType DEF ByteString, Digits, ByteOf
<1> HIDE DEF b
<1>2. PICK s \in [0 .. n -> Nat] :
              /\ s[0] = 0
              /\ \A i \in 0 .. n - 1 : s[i + 1] = s[i] + b[i] * Base ^^ i
              /\ ValueOf(b, n) = s[n]
  BY <1>1, PartialSums
<1> DEFINE S == {i \in Nat : i <= n => s[i] = v % Base ^^ i}
<1> HIDE DEF S
<1>3. 0 \in S
  <2>1. Base ^^ 0 = 1
    BY BaseFacts, Powers
  <2>2. v % 1 = 0
    OBVIOUS
  <2> QED BY <1>2, <2>1, <2>2 DEF S
<1>4. ASSUME NEW i \in S PROVE i + 1 \in S
  <2>1. SUFFICES ASSUME i + 1 <= n PROVE s[i + 1] = v % Base ^^ (i + 1)
    BY DEF S
  <2>2. i \in Nat /\ i \in 0 .. n - 1 /\ s[i] = v % Base ^^ i
    BY <2>1 DEF S
  <2>3. Base ^^ i \in Nat /\ Base ^^ i > 0 /\ Base ^^ (i + 1) = Base * Base ^^ i
    BY <2>2, BaseFacts, Powers, PowerPositive
  <2>4. Base * Base ^^ i = Base ^^ i * Base
    BY <2>3, BaseFacts
  <2>5. v % (Base ^^ i * Base) = (v % Base ^^ i) + ((v \div Base ^^ i) % Base) * Base ^^ i
    <3> DEFINE p == Base ^^ i
    <3>1. p \in Nat /\ p > 0 /\ Base \in Nat /\ Base > 0
      BY <2>3, BaseFacts
    <3> HIDE DEF p
    <3>2. v % (p * Base) = (v % p) + ((v \div p) % Base) * p
      BY <3>1, DivisionTwice
    <3> QED BY <3>2 DEF p
  <2>6. s[i + 1] = s[i] + b[i] * Base ^^ i /\ b[i] = (v \div Base ^^ i) % Base
    BY <2>2, <1>1, <1>2
  <2> QED BY <2>2, <2>3, <2>4, <2>5, <2>6
<1>5. S = Nat
  <2>1. S \in SUBSET Nat
    BY DEF S
  <2> QED BY <1>3, <1>4, <2>1, SetInduction
<1>6. s[n] = v % Base ^^ n
  BY <1>5 DEF S
<1> QED BY <1>1, <1>2, <1>6 DEF b

\* Products of naturals.
LEMMA Product ==
    ASSUME NEW x \in Nat, NEW y \in Nat
    PROVE  x * y \in Nat /\ x * y = y * x /\ (y > 0 => x <= x * y)
<1>1. x * y \in Nat /\ x * y = y * x
  OBVIOUS
<1>2. y > 0 => x <= x * y
  <2> SUFFICES ASSUME y > 0 PROVE x <= x * y
    OBVIOUS
  <2>1. 1 * x <= y * x
    BY MultiplesOrdered
  <2> QED BY <2>1, <1>1
<1> QED BY <1>1, <1>2

\* A power is the product of a lower one and the rest.
LEMMA PowerSplit ==
    ASSUME NEW b \in Nat, b > 0, NEW m \in Nat, NEW n \in Nat, m <= n
    PROVE  /\ n - m \in Nat
           /\ b ^^ n = b ^^ m * b ^^ (n - m)
           /\ b ^^ m <= b ^^ n
<1>1. n - m \in Nat /\ m + (n - m) = n
  OBVIOUS
<1>2. b ^^ n = b ^^ m * b ^^ (n - m)
  BY <1>1, PowerSum
<1>3. b ^^ m \in Nat /\ b ^^ (n - m) \in Nat /\ b ^^ (n - m) > 0
  BY <1>1, PowerPositive
<1>4. b ^^ m <= b ^^ m * b ^^ (n - m)
  BY <1>3, Product
<1> QED BY <1>1, <1>2, <1>4

\* Above its length, a number has no bytes.
LEMMA HighBytesZero ==
    ASSUME NEW v \in Nat, NEW n \in Nat, v < Base ^^ n, NEW i \in Nat, n <= i
    PROVE  ByteOf(v, i) = 0
<1>1. Base ^^ n \in Nat /\ Base ^^ i \in Nat /\ Base ^^ n <= Base ^^ i
  BY BaseFacts, Powers, PowerSplit
<1> DEFINE p == Base ^^ i
<1>2. p \in Nat /\ v < p
  BY <1>1
<1>3. ByteOf(v, i) = (v \div p) % Base
  BY DEF ByteOf
<1> HIDE DEF p
<1>4. (0 * p + v) \div p = 0
  BY <1>2, DivisionUnique
<1>5. 0 * p + v = v
  BY <1>2
<1>6. 0 % Base = 0
  BY BaseFacts
<1> QED BY <1>3, <1>4, <1>5, <1>6

\* A number that is shifted by s bytes has its bytes s places higher.
LEMMA ShiftedBytes ==
    ASSUME NEW v \in Nat, NEW s \in Nat, NEW i \in Nat
    PROVE  /\ v * Base ^^ s \in Nat
           /\ i < s => ByteOf(v * Base ^^ s, i) = 0
           /\ s <= i => ByteOf(v * Base ^^ s, i) = ByteOf(v, i - s)
<1> DEFINE p == Base ^^ s
           q == Base ^^ i
<1>1. p \in Nat /\ p > 0 /\ q \in Nat /\ q > 0
  BY BaseFacts, PowerPositive
<1>2. ByteOf(v * p, i) = ((v * p) \div q) % Base
  BY DEF ByteOf
<1>3. v * p \in Nat
  BY <1>1, Product
<1>4. ASSUME i < s PROVE ByteOf(v * p, i) = 0
  <2>1. s - (i + 1) \in Nat /\ (i + 1) + (s - (i + 1)) = s
    BY <1>4
  <2> DEFINE c == Base ^^ (s - (i + 1))
  <2>2. c \in Nat
    BY <2>1, BaseFacts, Powers
  <2>3. p = Base ^^ (i + 1) * c /\ Base ^^ (i + 1) = Base * q
    BY <1>4, BaseFacts, PowerSplit, Powers
  <2> HIDE DEF c, p, q
  <2>4. v * p = ((v * c) * Base) * q + 0 /\ (v * c) * Base \in Nat /\ v * c \in Nat
    BY <2>2, <2>3, <1>1, BaseFacts
  <2>5. (v * p) \div q = (v * c) * Base
    BY <2>4, <1>1, DivisionUnique
  <2>6. (v * c) * Base = (v * c) * Base + 0
    BY <2>4
  <2>7. ((v * c) * Base) % Base = 0
    BY <2>4, <2>6, BaseFacts, DivisionUnique
  <2> QED BY <2>5, <2>7, <1>2
<1>5. ASSUME s <= i PROVE ByteOf(v * p, i) = ByteOf(v, i - s)
  <2> DEFINE c == Base ^^ (i - s)
  <2>1. c \in Nat /\ c > 0 /\ q = p * c
    BY <1>5, BaseFacts, PowerSplit, PowerPositive
  <2>2. ByteOf(v, i - s) = (v \div c) % Base
    BY DEF ByteOf
  <2> HIDE DEF c, p, q
  <2>3. (v * p) \div q = ((v * p) \div p) \div c
    BY <2>1, <1>1, <1>3, DivisionTwice
  <2>4. v * p = v * p + 0
    BY <1>3
  <2>5. (v * p) \div p = v
    BY <2>4, <1>1, DivisionUnique
  <2> QED BY <2>2, <2>3, <2>5, <1>2
<1> QED BY <1>3, <1>4, <1>5

\* The bytes below byte n do not depend on the others.
LEMMA LowBytes ==
    ASSUME NEW v \in Nat, NEW n \in Nat, NEW i \in Nat
    PROVE  /\ v % Base ^^ n \in Nat /\ v \div Base ^^ n \in Nat
           /\ v % Base ^^ n < Base ^^ n
           /\ i < n => ByteOf(v % Base ^^ n, i) = ByteOf(v, i)
           /\ ByteOf(v \div Base ^^ n, i) = ByteOf(v, n + i)
<1> DEFINE p == Base ^^ n
           q == Base ^^ i
<1>1. p \in Nat /\ p > 0 /\ q \in Nat /\ q > 0
  BY BaseFacts, PowerPositive
<1> DEFINE h == v \div p
           l == v % p
<1>2. h \in Nat /\ l \in Nat /\ l < p /\ v = h * p + l
  <2> HIDE DEF p
  <2>1. h \in Nat /\ l \in 0 .. p - 1 /\ v = h * p + l
    BY <1>1, Remainder
  <2> QED BY <2>1, <1>1
<1>3. ASSUME i < n PROVE ByteOf(l, i) = ByteOf(v, i)
  <2> DEFINE c == Base ^^ (n - (i + 1))
  <2>1. n - (i + 1) \in Nat /\ c \in Nat
    BY <1>3, BaseFacts, Powers
  <2>2. p = Base ^^ (i + 1) * c /\ Base ^^ (i + 1) = Base * q
    BY <1>3, BaseFacts, PowerSplit, Powers
  <2> DEFINE t == l \div q
             u == l % q
  <2>3. ByteOf(l, i) = t % Base /\ ByteOf(v, i) = (v \div q) % Base
    BY DEF ByteOf
  <2> HIDE DEF h, l, c, p, q
  <2>4. t \in Nat /\ u \in Nat /\ u < q /\ l = t * q + u
    BY <1>1, <1>2, Remainder
  <2> DEFINE w == (h * c) * Base
  <2> HIDE DEF t, u
  <2>5. h * c \in Nat /\ w \in Nat /\ h * p = w * q
    BY <1>2, <2>1, <2>2, <1>1, BaseFacts
  <2>6. w + t \in Nat /\ (w + t) * q = w * q + t * q /\ t * q \in Nat /\ w * q \in Nat
    BY <2>4, <2>5, <1>1
  <2>7. v = (w + t) * q + u
    BY <1>2, <2>4, <2>5, <2>6
  <2>8. v \div q = w + t
    BY <2>4, <2>6, <2>7, <1>1, DivisionUnique
  <2> DEFINE d == t \div Base
             e == t % Base
  <2>9. d \in Nat /\ e \in Nat /\ e < Base /\ t = d * Base + e
    BY <2>4, BaseFacts, Remainder
  <2> HIDE DEF d, e
  <2>10. h * c + d \in Nat /\ w + t = (h * c + d) * Base + e
    <3>1. \A x \in Nat : x * Base + (d * Base + e) = (x + d) * Base + e
      BY <2>9, BaseFacts
    <3> QED BY <3>1, <2>5, <2>9
  <2>11. (w + t) % Base = e
    <3>1. \A x \in Nat : (x * Base + e) % Base = e
      BY <2>9, BaseFacts, DivisionUnique
    <3> QED BY <3>1, <2>10
  <2> QED BY <2>3, <2>8, <2>11 DEF e
<1>4. ByteOf(h, i) = ByteOf(v, n + i)
  <2>1. Base ^^ (n + i) = p * q
    BY BaseFacts, PowerSum
  <2>2. ByteOf(h, i) = (h \div q) % Base /\ ByteOf(v, n + i) = (v \div (p * q)) % Base
    BY <2>1 DEF ByteOf
  <2> HIDE DEF p, q
  <2>3. v \div (p * q) = h \div q
    BY <1>1, DivisionTwice
  <2> QED BY <2>2, <2>3
<1> QED BY <1>2, <1>3, <1>4

\* 2^32 and 2^64, in the sizes of the model.
LEMMA RadixFacts ==
    /\ Radix \in Nat /\ Radix > 1 /\ Radix = Base ^^ WordBytes
    /\ High \in Nat /\ High > 0 /\ High = Radix * Radix /\ High = Base ^^ (2 * WordBytes)
<1>1. Radix \in Nat /\ Radix > 0 /\ Radix = Base ^^ WordBytes
  BY BaseFacts, PowerPositive DEF Radix
<1>2. Base >= 2
  BY BaseFacts
<1>3. Base <= Radix
  <2>1. WordBytes - 1 \in Nat /\ WordBytes = (WordBytes - 1) + 1
    BY BaseFacts
  <2>2. Base ^^ (WordBytes - 1) \in Nat /\ Base ^^ (WordBytes - 1) > 0
    BY <2>1, BaseFacts, PowerPositive
  <2>3. Base ^^ WordBytes = Base * Base ^^ (WordBytes - 1)
    BY <2>1, BaseFacts, Powers
  <2> QED BY <2>2, <2>3, <1>1, BaseFacts, Product
<1>4. 2 * WordBytes = WordBytes + WordBytes
  BY BaseFacts
<1>5. High = Base ^^ (2 * WordBytes)
  BY <1>1, <1>4, BaseFacts, PowerSum DEF High
<1>6. High \in Nat /\ High > 0 /\ High = Radix * Radix
  <2>1. Radix * Radix \in Nat /\ Radix <= Radix * Radix
    BY <1>1, Product
  <2> QED BY <2>1, <1>1 DEF High
<1> QED BY <1>1, <1>2, <1>3, <1>5, <1>6, BaseFacts

\* A target whose bytes are those of v stands for v.
LEMMA NumberOfBytes ==
    ASSUME NEW v \in Nat
    PROVE  /\ ByteString(v, Bytes) \in Hash256
           /\ Number(ByteString(v, Bytes)) = v % Base ^^ Bytes
           /\ v < Base ^^ Bytes => Number(ByteString(v, Bytes)) = v
<1>1. /\ ByteString(v, Bytes) \in Digits(Bytes)
      /\ ValueOf(ByteString(v, Bytes), Bytes) = v % Base ^^ Bytes
  BY BaseFacts, BytesRoundTrip
<1>2. Base ^^ Bytes \in Nat
  BY BaseFacts, Powers
<1>3. \A p \in Nat : v < p => v % p = v
  <2> TAKE p \in Nat
  <2> HAVE v < p
  <2>1. (0 * p + v) % p = v /\ 0 * p + v = v
    BY DivisionUnique
  <2> QED BY <2>1
<1> QED BY <1>1, <1>2, <1>3 DEF Number, Hash256, Digits

\* The two words that monero_target_from_hex sets at the top stand for the 64 bits
\* it computed.
LEMMA PutHighValue ==
    ASSUME NEW hi \in Nat, hi < High
    PROVE  /\ PutHigh(hi) \in Hash256
           /\ Number(PutHigh(hi)) = hi * Base ^^ (Bytes - 2 * WordBytes)
<1> DEFINE s == Bytes - 2 * WordBytes
           p == Base ^^ s
<1>1. s \in Nat /\ Bytes = 2 * WordBytes + s
  BY BaseFacts
<1>2. p \in Nat /\ p > 0 /\ hi * p \in Nat
  BY <1>1, BaseFacts, PowerPositive, Product
<1>3. PutHigh(hi) = ByteString(hi * p, Bytes)
  <2>1. ASSUME NEW i \in 0 .. Bytes - 1
        PROVE  (IF i < s THEN 0 ELSE ByteOf(hi, i - s)) = ByteOf(hi * p, i)
    <3>1. i \in Nat
      BY BaseFacts
    <3> HIDE DEF s
    <3>2. CASE i < s
      BY <3>1, <3>2, <1>1, ShiftedBytes
    <3>3. CASE s <= i
      <4>1. ~ i < s
        BY <3>1, <3>3, <1>1
      <4> QED BY <3>1, <3>3, <4>1, <1>1, ShiftedBytes
    <3> QED BY <3>1, <3>2, <3>3, <1>1
  <2> QED BY <2>1 DEF PutHigh, ByteString
<1>4. hi * p < Base ^^ Bytes
  <2>1. Base ^^ Bytes = High * p
    <3>1. 2 * WordBytes \in Nat
      BY BaseFacts
    <3> HIDE DEF s
    <3>2. Base ^^ (2 * WordBytes + s) = Base ^^ (2 * WordBytes) * Base ^^ s
      BY <3>1, <1>1, BaseFacts, PowerSum
    <3> QED BY <3>2, <1>1, RadixFacts
  <2>2. hi + 1 <= High /\ High \in Nat
    BY RadixFacts
  <2> HIDE DEF p
  <2>3. (hi + 1) * p <= High * p /\ (hi + 1) * p = hi * p + p /\ High * p \in Nat
    BY <2>2, <1>2, MultiplesOrdered
  <2> QED BY <2>1, <2>3, <1>2
<1> QED BY <1>2, <1>3, <1>4, NumberOfBytes

\* A compact Monero target admits the high words whose difficulty is enough.
LEMMA CompactMonero ==
    ASSUME NEW word \in Nat, word > 0, word < Radix, NEW hi \in Nat, hi < High
    PROVE  MeetsTarget(PutHigh(hi), MoneroTarget(ByteString(word, WordBytes), WordBytes))
              <=> hi = 0 \/ (High - 1) \div hi >= (Radix - 1) \div word
<1> DEFINE diff == (Radix - 1) \div word
           top  == (High - 1) \div diff
<1>1. diff \in Nat /\ diff > 0
  <2>1. Radix - 1 \in Nat
    BY RadixFacts
  <2>2. diff \in Nat /\ Radix - 1 < (diff + 1) * word
    BY <2>1, Division
  <2> HIDE DEF diff
  <2>3. diff # 0
    <3>1. diff = 0 => (diff + 1) * word = word
      BY <2>2
    <3> QED BY <3>1, <2>2, RadixFacts
  <2> QED BY <2>2, <2>3
<1>2. High - 1 \in Nat
  BY RadixFacts
<1> HIDE DEF diff
<1>3. top \in Nat /\ top * diff <= High - 1 /\ High - 1 < (top + 1) * diff
  BY <1>1, <1>2, Division
<1>4. top < High
  <2> HIDE DEF top
  <2>1. top <= top * diff
    BY <1>1, <1>3, Product
  <2>2. top * diff \in Nat
    BY <1>1, <1>3
  <2> QED BY <2>1, <2>2, <1>3, RadixFacts
<1>5. MoneroTarget(ByteString(word, WordBytes), WordBytes) = PutHigh(top)
  <2>1. ValueOf(ByteString(word, WordBytes), WordBytes) = word
    <3>1. ValueOf(ByteString(word, WordBytes), WordBytes) = word % Radix
      BY BaseFacts, RadixFacts, BytesRoundTrip
    <3>2. word % Radix = word
      <4>1. \A p \in Nat : word < p => (0 * p + word) % p = word
        BY DivisionUnique
      <4>2. 0 * Radix + word = word
        BY RadixFacts
      <4> QED BY <4>1, <4>2, RadixFacts
    <3> QED BY <3>1, <3>2
  <2>2. WordBytes # Bytes /\ WordBytes # 2 * WordBytes /\ word # 0
    BY BaseFacts
  <2>3. ASSUME NEW b, ValueOf(b, WordBytes) = word
        PROVE  MoneroTarget(b, WordBytes) = PutHigh((High - 1) \div ((Radix - 1) \div word))
    BY <2>2, <2>3 DEF MoneroTarget
  <2> QED BY <2>1, <2>3 DEF diff, top
<1> HIDE DEF top
<1> DEFINE p == Base ^^ (Bytes - 2 * WordBytes)
<1>6. p \in Nat /\ p > 0
  <2>1. Bytes - 2 * WordBytes \in Nat
    BY BaseFacts
  <2> QED BY <2>1, BaseFacts, PowerPositive
<1>7. MeetsTarget(PutHigh(hi), PutHigh(top)) <=> hi * p <= top * p
  BY <1>3, <1>4, PutHighValue, MeetsTargetIsOrder
<1> HIDE DEF p
<1>8. hi * p <= top * p <=> hi <= top
  <2>1. hi <= top => hi * p <= top * p
    BY <1>3, <1>6, MultiplesOrdered
  <2>2. ASSUME ~ hi <= top PROVE ~ hi * p <= top * p
    <3>1. /\ (top + 1) * p <= hi * p /\ (top + 1) * p = top * p + p
          /\ top * p \in Nat /\ hi * p \in Nat
      BY <2>2, <1>3, <1>6, MultiplesOrdered
    <3> QED BY <3>1, <1>6
  <2> QED BY <2>1, <2>2
<1>9. hi <= top <=> hi * diff <= High - 1
  <2>1. ASSUME hi <= top PROVE hi * diff <= High - 1
    <3>1. hi * diff <= top * diff /\ hi * diff \in Nat /\ top * diff \in Nat
      BY <2>1, <1>1, <1>3, MultiplesOrdered
    <3> QED BY <3>1, <1>2, <1>3
  <2>2. ASSUME ~ hi <= top PROVE ~ hi * diff <= High - 1
    <3>1. (top + 1) * diff <= hi * diff /\ (top + 1) * diff \in Nat /\ hi * diff \in Nat
      BY <2>2, <1>1, <1>3, MultiplesOrdered
    <3> QED BY <3>1, <1>2, <1>3
  <2> QED BY <2>1, <2>2
<1>10. ASSUME hi > 0 PROVE hi * diff <= High - 1 <=> (High - 1) \div hi >= diff
  <2> DEFINE q == (High - 1) \div hi
  <2>1. q \in Nat /\ q * hi <= High - 1 /\ High - 1 < (q + 1) * hi
    BY <1>10, <1>2, Division
  <2> HIDE DEF q
  <2>2. hi * diff = diff * hi
    BY <1>1
  <2>3. ASSUME q >= diff PROVE diff * hi <= High - 1
    <3>1. diff * hi <= q * hi /\ diff * hi \in Nat /\ q * hi \in Nat
      BY <2>3, <2>1, <1>1, MultiplesOrdered
    <3> QED BY <3>1, <2>1, <1>2
  <2>4. ASSUME ~ q >= diff PROVE ~ diff * hi <= High - 1
    <3>1. (q + 1) * hi <= diff * hi /\ diff * hi \in Nat /\ (q + 1) * hi \in Nat
      BY <2>4, <2>1, <1>1, MultiplesOrdered
    <3> QED BY <3>1, <2>1, <1>2
  <2> QED BY <2>2, <2>3, <2>4 DEF q
<1>11. hi = 0 => hi * diff <= High - 1
  BY <1>1, <1>2
<1>12. hi = 0 \/ hi > 0
  OBVIOUS
<1> QED BY <1>5, <1>7, <1>8, <1>9, <1>10, <1>11, <1>12 DEF diff

\* An nBits target is its mantissa shifted by its exponent.
LEMMA CompactValue ==
    ASSUME NEW exp \in Nat, NEW mantissa \in Nat
    PROVE  LET mant == mantissa % (Base ^^ 3 \div 2)
           IN  Number(TargetFromCompact(exp, mantissa)) =
                 IF exp <= 3 THEN mant \div Base ^^ (3 - exp)
                 ELSE (mant * Base ^^ (exp - 3)) % Base ^^ Bytes
<1> DEFINE c    == Base ^^ 3 \div 2
           mant == mantissa % c
           low  == mant \div Base ^^ (3 - exp)
<1>1. Base ^^ 3 \in Nat /\ Base ^^ 3 > 1 /\ c \in Nat /\ c > 0 /\ c <= Base ^^ 3
  <2>1. Base \in Nat /\ Base >= 2
    BY BaseFacts
  <2>2. Base ^^ 2 \in Nat /\ Base ^^ 2 > 0 /\ Base ^^ 3 = Base * Base ^^ 2
    <3>1. 2 + 1 = 3
      OBVIOUS
    <3> QED BY <3>1, <2>1, BaseFacts, Powers, PowerPositive
  <2>3. Base <= Base * Base ^^ 2 /\ Base * Base ^^ 2 \in Nat
    BY <2>1, <2>2, Product
  <2>4. \A x \in Nat : x > 1 => x \div 2 \in Nat /\ x \div 2 > 0 /\ x \div 2 <= x
    OBVIOUS
  <2> QED BY <2>1, <2>2, <2>3, <2>4
<1> HIDE DEF c
<1>2. mant \in Nat /\ mant < c
  <2>1. mant \in 0 .. c - 1
    BY <1>1, Remainder
  <2> QED BY <2>1, <1>1
<1> HIDE DEF mant
<1>3. mant < Base ^^ 3
  BY <1>1, <1>2
<1>4. CASE exp <= 3
  <2>1. 3 - exp \in Nat
    BY <1>4
  <2>2. low \in Nat /\ low <= mant
    <3> DEFINE p == Base ^^ (3 - exp)
    <3>1. p \in Nat /\ p > 0
      BY <2>1, BaseFacts, PowerPositive
    <3>2. low \in Nat /\ low * p <= mant
      BY <3>1, <1>2, Division
    <3> HIDE DEF p, low
    <3>3. low <= low * p /\ low * p \in Nat
      BY <3>1, <3>2, Product
    <3> QED BY <3>2, <3>3, <1>2
  <2> HIDE DEF low
  <2>3. low < Base ^^ 3
    BY <2>2, <1>1, <1>2, <1>3
  <2>4. \A i \in 0 .. Bytes - 1 : i >= 3 => ByteOf(low, i) = 0
    <3> TAKE i \in 0 .. Bytes - 1
    <3>1. i \in Nat
      BY BaseFacts
    <3> QED BY <3>1, <2>2, <2>3, HighBytesZero
  <2>5. \A i \in 0 .. Bytes - 1 : ~ i < 3 <=> i >= 3
    BY BaseFacts
  <2>6. TargetFromCompact(exp, mantissa) =
          [i \in 0 .. Bytes - 1 |-> IF i < 3 THEN ByteOf(low, i) ELSE 0]
    BY <1>4 DEF TargetFromCompact, low, mant, c
  <2>7. TargetFromCompact(exp, mantissa) = ByteString(low, Bytes)
    BY <2>4, <2>5, <2>6 DEF ByteString
  <2>8. low < Base ^^ Bytes
    <3>1. Base ^^ 3 <= Base ^^ Bytes /\ Base ^^ Bytes \in Nat
      BY BaseFacts, PowerSplit, Powers
    <3> QED BY <3>1, <2>2, <2>3, <1>1
  <2> QED BY <2>2, <2>7, <2>8, <1>4, NumberOfBytes DEF low, mant, c
<1>5. CASE ~ exp <= 3
  <2> DEFINE s == exp - 3
             v == mant * Base ^^ s
  <2>1. s \in Nat /\ v \in Nat
    <3>1. s \in Nat
      BY <1>5
    <3>2. Base ^^ s \in Nat
      BY <3>1, BaseFacts, Powers
    <3> QED BY <3>1, <3>2, <1>2, Product
  <2>2. TargetFromCompact(exp, mantissa) =
          [i \in 0 .. Bytes - 1 |-> IF i - s \in 0 .. 2 THEN ByteOf(mant, i - s) ELSE 0]
    BY <1>5 DEF TargetFromCompact, mant, c
  <2>3. ASSUME NEW i \in 0 .. Bytes - 1
        PROVE  (IF i - s \in 0 .. 2 THEN ByteOf(mant, i - s) ELSE 0) = ByteOf(v, i)
    <3>1. i \in Nat
      BY BaseFacts
    <3> HIDE DEF s
    <3>2. CASE i < s
      <4>1. ~ i - s \in 0 .. 2
        BY <3>1, <3>2, <2>1
      <4> QED BY <4>1, <3>1, <3>2, <2>1, <1>2, ShiftedBytes
    <3>3. CASE s <= i /\ i - s <= 2
      <4>1. i - s \in 0 .. 2
        BY <3>1, <3>3, <2>1
      <4> QED BY <4>1, <3>1, <3>3, <2>1, <1>2, ShiftedBytes
    <3>4. CASE s <= i /\ ~ i - s <= 2
      <4>1. i - s \in Nat /\ 3 <= i - s /\ ~ i - s \in 0 .. 2
        BY <3>1, <3>4, <2>1
      <4>2. ByteOf(mant, i - s) = 0
        BY <4>1, <1>2, <1>3, HighBytesZero
      <4>3. ByteOf(v, i) = ByteOf(mant, i - s)
        BY <3>1, <3>4, <2>1, <1>2, ShiftedBytes
      <4> QED BY <4>1, <4>2, <4>3
    <3> QED BY <3>1, <3>2, <3>3, <3>4, <2>1
  <2>4. TargetFromCompact(exp, mantissa) = ByteString(v, Bytes)
    <3> HIDE DEF s, v
    <3> QED BY <2>2, <2>3 DEF ByteString
  <2> QED BY <2>1, <2>4, <1>5, NumberOfBytes DEF mant, c
<1> QED BY <1>4, <1>5

-----------------------------------------------------------------------------
(* The targets of difficulties: types.                                     *)

\* The bit length of a number bounds it from both sides.
LEMMA BitLengthFacts ==
    ASSUME NEW q \in Nat
    PROVE  LET e == BitLength(q)
           IN  e \in Nat /\ 2 ^^ e > q /\ (e = 0 \/ 2 ^^ (e - 1) <= q)
<1> DEFINE T == {e \in Nat : 2 ^^ e > q}
           m == Min(T)
<1> HIDE DEF T
<1>1. T \in SUBSET Nat /\ q \in T
  BY TwoPowersGrow DEF T
<1>2. m \in T /\ \A y \in T : m <= y
  BY <1>1, Minimum
<1> HIDE DEF m
<1>3. m \in Nat /\ m <= q /\ 2 ^^ m > q
  BY <1>1, <1>2 DEF T
<1>4. m = 0 \/ 2 ^^ (m - 1) <= q
  <2>1. SUFFICES ASSUME m # 0, ~ 2 ^^ (m - 1) <= q PROVE FALSE
    OBVIOUS
  <2>2. m - 1 \in Nat /\ 2 ^^ (m - 1) \in Nat
    BY <2>1, <1>3, Powers
  <2>3. m - 1 \in T
    BY <2>1, <2>2 DEF T
  <2> QED BY <2>3, <1>2, <1>3
<1>5. \E e \in 0 .. q : 2 ^^ e > q /\ (e = 0 \/ 2 ^^ (e - 1) <= q)
  BY <1>3, <1>4
<1>6. /\ BitLength(q) \in 0 .. q
      /\ 2 ^^ BitLength(q) > q
      /\ BitLength(q) = 0 \/ 2 ^^ (BitLength(q) - 1) <= q
  BY <1>5, Zenon DEF BitLength
<1> QED BY <1>6

\* Rounding gives an integer.
LEMMA NearestType ==
    ASSUME NEW a \in Nat, NEW b \in Nat, b > 0
    PROVE  Nearest(a, b) \in Nat
<1>1. a \div b \in Nat
  BY Remainder
<1> QED BY <1>1 DEF Nearest

\* A quotient of doubles, truncated, is a natural number.
LEMMA DoubleQuotientType ==
    ASSUME NEW a \in Nat, NEW b \in Nat, b > 0
    PROVE  DoubleQuotient(a, b) \in Nat
<1> DEFINE q == a \div b
           e == BitLength(q)
<1>1. q \in Nat
  BY Remainder
<1>2. Precision \in Nat /\ Precision > 0
  BY TargetAssumption
<1> HIDE DEF q
<1>3. e \in Nat
  BY <1>1, BitLengthFacts
<1> HIDE DEF e
<1>4. CASE e >= Precision
  <2> DEFINE p == 2 ^^ (e - Precision)
  <2>1. p \in Nat /\ p > 0
    BY <1>2, <1>3, <1>4, PowerPositive
  <2>2. DoubleQuotient(a, b) = Nearest(a, b * p) * p
    BY <1>4 DEF DoubleQuotient, e, q
  <2> HIDE DEF p
  <2>3. b * p \in Nat /\ b * p > 0
    <3>1. b * p \in Nat /\ b <= b * p
      BY <2>1, Product
    <3> QED BY <3>1
  <2>4. Nearest(a, b * p) \in Nat
    BY <2>3, NearestType
  <2> QED BY <2>1, <2>2, <2>4, Product
<1>5. CASE ~ e >= Precision
  <2> DEFINE p == 2 ^^ (Precision - e)
  <2>1. p \in Nat /\ p > 0
    BY <1>2, <1>3, <1>5, PowerPositive
  <2>2. DoubleQuotient(a, b) = Nearest(a * p, b) \div p
    BY <1>5 DEF DoubleQuotient, e, q
  <2> HIDE DEF p
  <2>3. a * p \in Nat
    BY <2>1, Product
  <2>4. Nearest(a * p, b) \in Nat
    BY <2>3, NearestType
  <2> QED BY <2>1, <2>2, <2>4, Remainder
<1> QED BY <1>4, <1>5

\* fill(0xff) is a target.
LEMMA AllOnesType == AllOnes \in Hash256
BY BaseFacts DEF AllOnes, Hash256

\* What put_word leaves behind is a target, whatever it is given.
LEMMA PutWordsType ==
    ASSUME NEW m \in Nat, NEW k
    PROVE  PutWords(k, m) \in Hash256
<1>1. m % Radix \in Nat /\ m \div Radix \in Nat
  BY RadixFacts, Remainder
<1>2. \A i \in 0 .. Bytes - 1 : i % WordBytes \in Nat
  BY BaseFacts, Remainder
<1>3. \A i \in 0 .. Bytes - 1 :
         /\ ByteOf(m % Radix, i % WordBytes) \in 0 .. Base - 1
         /\ ByteOf(m \div Radix, i % WordBytes) \in 0 .. Base - 1
  BY <1>1, <1>2, ByteOfType
<1>4. 0 \in 0 .. Base - 1
  BY BaseFacts
<1>5. ASSUME NEW i \in 0 .. Bytes - 1
      PROVE  (CASE i \div WordBytes = k     -> ByteOf(m % Radix, i % WordBytes)
                [] i \div WordBytes = k + 1 -> ByteOf(m \div Radix, i % WordBytes)
                [] OTHER                    -> 0) \in 0 .. Base - 1
  BY <1>3, <1>4
<1> QED BY <1>5 DEF PutWords, Hash256

\* The loop of target_from_difficulty stops at the first quotient that is at most 1,
\* or at word 0.
LEMMA DivisionsType ==
    ASSUME NEW num \in Nat, NEW den \in Nat
    PROVE  LET j == Divisions(num, den)
           IN  /\ j \in 0 .. TopWord
               /\ j = TopWord \/ num <= den * Radix ^^ j
               /\ \A i \in 0 .. j - 1 : ~ num <= den * Radix ^^ i
<1> DEFINE T == {j \in 0 .. TopWord : j = TopWord \/ num <= den * Radix ^^ j}
<1>1. TopWord \in Nat
  BY BaseFacts DEF TopWord
<1>2. T \in SUBSET Nat /\ TopWord \in T
  BY <1>1
<1>3. Min(T) \in T /\ \A y \in T : Min(T) <= y
  BY <1>2, Minimum
<1>4. Divisions(num, den) = Min(T)
  BY DEF Divisions
<1> DEFINE j == Min(T)
<1>5. j \in 0 .. TopWord /\ (j = TopWord \/ num <= den * Radix ^^ j)
  BY <1>3
<1>6. ASSUME NEW i \in 0 .. j - 1 PROVE ~ num <= den * Radix ^^ i
  <2>1. i \in 0 .. TopWord /\ ~ j <= i
    BY <1>1, <1>5
  <2> QED BY <2>1, <1>3
<1> HIDE DEF T
<1> QED BY <1>4, <1>5, <1>6

\* half is 2^16, and Diff1 is 0xffff0000.
LEMMA Diff1Facts ==
    LET half == Base ^^ (WordBytes \div 2)
    IN  /\ half \in Nat /\ half > 1
        /\ Radix = half * half
        /\ Diff1 = (half - 1) * half
        /\ Diff1 \in Nat /\ Diff1 > 0
<1> DEFINE n    == WordBytes \div 2
           half == Base ^^ n
<1>1. n \in Nat /\ n > 0 /\ WordBytes = n + n
  BY TargetAssumption
<1> HIDE DEF n
<1>2. half \in Nat /\ half > 0 /\ Radix = half * half
  BY <1>1, BaseFacts, PowerPositive, PowerSum DEF Radix
<1>3. Diff1 = (half - 1) * half
  BY DEF Diff1, n
<1> HIDE DEF half
<1>4. half # 1
  BY <1>2, RadixFacts
<1>5. (half - 1) * half \in Nat /\ half - 1 <= (half - 1) * half
  BY <1>2, Product
<1> QED BY <1>2, <1>3, <1>4, <1>5 DEF half, n

\* The conversion gives 64 bits, also where it is undefined.
LEMMA ToUint64Type ==
    ASSUME NEW a \in Nat, NEW b \in Nat, b > 0, NEW over \in Overflow
    PROVE  ToUint64(a, b, over) \in Nat /\ ToUint64(a, b, over) < High
<1>1. DoubleQuotient(a, b) \in Nat
  BY DoubleQuotientType
<1>2. over \in Nat /\ over < High
  BY RadixFacts DEF Overflow
<1> QED BY <1>1, <1>2, RadixFacts DEF ToUint64

\* target_from_difficulty returns a target.
LEMMA TargetFromDifficultyType ==
    ASSUME NEW num \in Nat, NEW den \in Nat, NEW over \in Overflow
    PROVE  TargetFromDifficulty(num, den, over) \in Hash256
<1>1. CASE num <= 0
  BY <1>1, AllOnesType DEF TargetFromDifficulty
<1>2. CASE ~ num <= 0
  <2> DEFINE j == Divisions(num, den)
             a == Diff1 * den * Radix ^^ j
             m == ToUint64(a, num, over)
  <2>1. j \in Nat
    <3>1. j \in 0 .. TopWord /\ TopWord \in Nat
      BY DivisionsType, BaseFacts DEF TopWord
    <3> QED BY <3>1
  <2> HIDE DEF j
  <2>2. a \in Nat
    BY <2>1, Diff1Facts, RadixFacts, Powers, Product
  <2> HIDE DEF a
  <2>3. m \in Nat
    BY <2>2, <1>2, ToUint64Type
  <2> HIDE DEF m
  <2>4. PutWords(TopWord - j, m) \in Hash256
    BY <2>3, PutWordsType
  <2>5. TargetFromDifficulty(num, den, over) =
            IF m = 0 /\ TopWord - j = TopWord THEN AllOnes ELSE PutWords(TopWord - j, m)
    BY <1>2 DEF TargetFromDifficulty, j, a, m
  <2> QED BY <2>4, <2>5, AllOnesType
<1> QED BY <1>1, <1>2

-----------------------------------------------------------------------------
(* What a call returns, the invariant of every theorem below.              *)

\* The work that rebuild_job() puts together at counter n.
BuildAt(n) ==
    BuildWork(AnyJob(input.branch), <<-16>>, EncodeExtranonce2(n, input.size))

\* A call has a result only of the function that was called on its input.
Returned ==
    /\ input \in Inputs
    /\ Done("difficulty") =>
          Result = <<TargetFromDifficulty(input.num, Den, input.over),
                     TargetFromDifficulty(input.num + 1, Den, input.over)>>
    /\ Done("meets") =>
          LET t == TargetFromDifficulty(input.num, Den, 0)
          IN  Result = [met |-> MeetsTarget(input.hash, t), target |-> t]
    /\ Done("monero") => Result = MoneroTarget(ByteString(input.word, input.n), input.n)
    /\ Done("compact") => Result = TargetFromCompact(input.exp, input.mant)
    /\ Done("sha256") =>
          LET msg   == Msg(input.len)
              first == Update(Fresh, SubSeq(msg, 1, input.cut))
          IN  Result = Finish(Update(first, SubSeq(msg, input.cut + 1, input.len)))
    /\ Done("dataset") =>
          LET n == InitThreads(input.n)
          IN  Result = [i \in 0 .. n - 1 |-> Slice(input.total, n, i)]
    /\ Done("work") => Result = <<BuildAt(input.first), BuildAt(input.second)>>

\* The function called is one of seven, and its arguments are its own.
LEMMA InputTypes ==
    ASSUME input \in Inputs
    PROVE  /\ input.fn = "difficulty" => input \in Difficulty
           /\ input.fn = "meets" => input \in Compare
           /\ input.fn = "monero" => input \in Monero
           /\ input.fn = "compact" => input \in Compact
           /\ input.fn = "sha256" => input \in Message
           /\ input.fn = "dataset" => input \in Items
           /\ input.fn = "work" => input \in Rebuilds
BY DEF Inputs, Difficulty, Compare, Monero, Compact, Message, Items, Rebuilds

\* A call returns what its function computes, and changes nothing else.
LEMMA ReturnedInvariant == Spec => []Returned
<1>1. Init => Returned
  BY DEF Init, Returned, Done
<1>2. Returned /\ [Next]_vars => Returned'
  <2> SUFFICES ASSUME Returned, [Next]_vars PROVE Returned'
    OBVIOUS
  <2>1. CASE RunDifficulty
    BY <2>1 DEF RunDifficulty, Call, Return, Returned, Done, Result
  <2>2. CASE RunMeets
    BY <2>2 DEF RunMeets, Call, Return, Returned, Done, Result
  <2>3. CASE RunMonero
    BY <2>3 DEF RunMonero, Call, Return, Returned, Done, Result
  <2>4. CASE RunCompact
    BY <2>4 DEF RunCompact, Call, Return, Returned, Done, Result
  <2>5. CASE RunSha256
    BY <2>5 DEF RunSha256, Call, Return, Returned, Done, Result
  <2>6. CASE RunDataset
    BY <2>6 DEF RunDataset, Call, Return, Returned, Done, Result
  <2>7. CASE RunWork
    BY <2>7 DEF RunWork, Call, Return, Returned, Done, Result, BuildAt
  <2>8. CASE UNCHANGED vars
    BY <2>8 DEF vars, Returned, Done, Result, BuildAt
  <2> QED BY <2>1, <2>2, <2>3, <2>4, <2>5, <2>6, <2>7, <2>8 DEF Next
<1> QED BY <1>1, <1>2, PTL DEF Spec

\* meets_target says yes exactly to the hashes that are, as numbers, at most the target:
\* the comparison byte by byte, most significant first, is the order of the numbers.
THEOREM HashesAreOrdered == Spec => []MeetsIsOrder
<1>1. Returned => MeetsIsOrder
  <2> SUFFICES ASSUME Returned, Done("meets")
               PROVE  Result.met <=> Number(input.hash) <= Number(Result.target)
    BY DEF MeetsIsOrder
  <2> DEFINE t == TargetFromDifficulty(input.num, Den, 0)
  <2>1. input.hash \in Hash256 /\ input.num \in Nat
    BY InputTypes, ArithmeticAssumption DEF Returned, Done, Compare
  <2>2. t \in Hash256
    BY <2>1, ArithmeticAssumption, TargetFromDifficultyType DEF Overflow
  <2>3. Result = [met |-> MeetsTarget(input.hash, t), target |-> t]
    BY DEF Returned
  <2> HIDE DEF t
  <2>4. MeetsTarget(input.hash, t) <=> Number(input.hash) <= Number(t)
    BY <2>1, <2>2, MeetsTargetIsOrder
  <2> QED BY <2>3, <2>4
<1> QED BY <1>1, ReturnedInvariant, PTL

\* monero_target_from_hex and target_from_compact return the target that was written
\* down: a compact Monero target admits exactly the high words of enough difficulty, the
\* longer form is the 64 bits on top, and nBits is the mantissa shifted by the exponent.
THEOREM TargetsAreDecoded == Spec => []TargetsDecode
<1>1. Returned => TargetsDecode
  <2> SUFFICES ASSUME Returned PROVE TargetsDecode
    OBVIOUS
  <2>1. ASSUME Done("monero"), input.n = WordBytes, input.word > 0, NEW hi \in 0 .. High - 1
        PROVE  MeetsTarget(PutHigh(hi), Result)
                  <=> hi = 0 \/ (High - 1) \div hi >= (Radix - 1) \div input.word
    <3>1. input \in Monero
      BY <2>1, InputTypes DEF Returned, Done
    <3>2. input.word \in Nat /\ input.word < Base ^^ input.n
      BY <3>1, RadixFacts DEF Monero
    <3>3. input.word < Radix
      BY <3>2, <2>1 DEF Radix
    <3>4. hi \in Nat /\ hi < High
      BY RadixFacts
    <3>5. Result = MoneroTarget(ByteString(input.word, WordBytes), WordBytes)
      BY <2>1 DEF Returned
    <3> QED BY <2>1, <3>2, <3>3, <3>4, <3>5, CompactMonero
  <2>2. ASSUME Done("monero"), input.n = 2 * WordBytes
        PROVE  Number(Result) = input.word * Base ^^ (Bytes - 2 * WordBytes)
    <3>1. input \in Monero
      BY <2>2, InputTypes DEF Returned, Done
    <3> DEFINE n == 2 * WordBytes
               b == ByteString(input.word, n)
    <3>2. input.word \in Nat /\ input.word < High
      BY <3>1, RadixFacts DEF Monero
    <3>3. Result = MoneroTarget(b, n)
      BY <2>2 DEF Returned
    <3>4. ValueOf(b, n) = input.word
      <4>1. n \in Nat
        BY BaseFacts
      <4>2. ValueOf(b, n) = input.word % High
        BY <4>1, <3>2, RadixFacts, BytesRoundTrip
      <4> QED BY <4>2, <3>2, RadixFacts, SmallRemainder
    <3>5. n # WordBytes /\ n # Bytes
      BY BaseFacts
    <3>6. ASSUME NEW z, ValueOf(z, n) = input.word
          PROVE  MoneroTarget(z, n) = PutHigh(input.word)
      BY <3>5, <3>6 DEF MoneroTarget
    <3>7. Result = PutHigh(input.word)
      BY <3>3, <3>4, <3>6
    <3> QED BY <3>2, <3>7, PutHighValue
  <2>3. ASSUME Done("compact")
        PROVE  LET mant == input.mant % (Base ^^ 3 \div 2)
               IN  Number(Result) = IF input.exp <= 3 THEN mant \div Base ^^ (3 - input.exp)
                                    ELSE (mant * Base ^^ (input.exp - 3)) % Base ^^ Bytes
    <3>1. input \in Compact
      BY <2>3, InputTypes DEF Returned, Done
    <3>2. input.exp \in Nat /\ input.mant \in Nat
      BY <3>1 DEF Compact
    <3>3. Result = TargetFromCompact(input.exp, input.mant)
      BY <2>3 DEF Returned
    <3> QED BY <3>2, <3>3, CompactValue
  <2> QED BY <2>1, <2>3, <2>2 DEF TargetsDecode
<1> QED BY <1>1, ReturnedInvariant, PTL

-----------------------------------------------------------------------------
(* Doubles: the error of a quotient and the order of quotients.            *)

\* Multiples are ordered exactly as their factors.
LEMMA FactorsOrdered ==
    ASSUME NEW p \in Nat, p > 0, NEW i \in Nat, NEW j \in Nat
    PROVE  /\ i * p \in Nat /\ j * p \in Nat
           /\ i * p <= j * p <=> i <= j
           /\ i * p < j * p <=> i < j
<1>1. i * p \in Nat /\ j * p \in Nat
  BY Product
<1>2. ASSUME i <= j PROVE i * p <= j * p
  BY <1>2, MultiplesOrdered
<1>3. ASSUME j <= i PROVE j * p <= i * p
  BY <1>3, MultiplesOrdered
<1>4. ASSUME i < j PROVE i * p < j * p
  <2>1. (i + 1) * p <= j * p /\ (i + 1) * p = i * p + p
    BY <1>4, MultiplesOrdered, NextMultiple
  <2> QED BY <2>1, <1>1
<1>5. ASSUME j < i PROVE j * p < i * p
  <2>1. (j + 1) * p <= i * p /\ (j + 1) * p = j * p + p
    BY <1>5, MultiplesOrdered, NextMultiple
  <2> QED BY <2>1, <1>1
<1> QED BY <1>1, <1>2, <1>3, <1>4, <1>5

\* Rounding errs by half at most, and does not move across an integer.
LEMMA NearestBounds ==
    ASSUME NEW a \in Nat, NEW b \in Nat, b > 0
    PROVE  LET n == Nearest(a, b)
           IN  /\ n \in Nat /\ n * b \in Nat
               /\ a \div b <= n
               /\ 2 * (n * b) <= 2 * a + b
               /\ 2 * a <= 2 * (n * b) + b
               /\ \A c \in Nat : c * b <= a => c <= n
               /\ \A c \in Nat : a <= c * b => n <= c
<1> DEFINE n == Nearest(a, b)
           q == a \div b
           r == a % b
<1>1. q \in Nat /\ r \in 0 .. b - 1 /\ a = q * b + r
  BY Remainder
<1>2. n = IF 2 * r < b \/ (2 * r = b /\ q % 2 = 0) THEN q ELSE q + 1
  BY DEF Nearest
<1> HIDE DEF q, r, n
<1>3. /\ n = q \/ n = q + 1
      /\ n = q => 2 * r <= b
      /\ n = q + 1 => 2 * r >= b
  BY <1>1, <1>2
<1>4. q * b \in Nat /\ (q + 1) * b = q * b + b
  BY <1>1, NextMultiple
<1>5. n \in Nat /\ n * b \in Nat
  <2>1. n \in Nat
    BY <1>1, <1>3
  <2> QED BY <2>1, Product
<1>6. 2 * (n * b) <= 2 * a + b /\ 2 * a <= 2 * (n * b) + b
  <2>1. CASE n = q
    <3>1. n * b = q * b
      BY <2>1
    <3> QED BY <3>1, <2>1, <1>1, <1>3, <1>4
  <2>2. CASE n = q + 1
    <3>1. n * b = q * b + b
      BY <2>2, <1>4
    <3> QED BY <3>1, <2>2, <1>1, <1>3, <1>4
  <2> QED BY <2>1, <2>2, <1>3
<1>7. ASSUME NEW c \in Nat, c * b <= a PROVE c <= n
  <2>1. c * b < (q + 1) * b
    BY <1>1, <1>4, <1>7, Product
  <2>2. q + 1 \in Nat
    BY <1>1
  <2>3. c < q + 1
    BY <2>1, <2>2, FactorsOrdered
  <2> QED BY <2>3, <1>1, <1>3
<1>8. ASSUME NEW c \in Nat, a <= c * b PROVE n <= c
  <2>1. q * b <= c * b /\ c * b \in Nat
    BY <1>1, <1>4, <1>8, Product
  <2>2. q <= c
    BY <2>1, <1>1, FactorsOrdered
  <2>3. CASE q < c
    BY <2>3, <1>1, <1>3
  <2>4. CASE q = c
    <3>1. r = 0
      <4>1. q * b = c * b
        BY <2>4
      <4> QED BY <4>1, <1>1, <1>4, <1>8
    <3>2. n = q
      BY <3>1, <1>2
    <3> QED BY <3>2, <2>4, <1>1
  <2> QED BY <2>2, <2>3, <2>4, <1>1
<1>9. q <= n
  BY <1>1, <1>3
<1> QED BY <1>5, <1>6, <1>7, <1>8, <1>9 DEF n, q

\* A larger divisor never gives a larger rounded quotient.
LEMMA NearestFalls ==
    ASSUME NEW a \in Nat, NEW b \in Nat, b > 0, NEW d \in Nat, b <= d
    PROVE  Nearest(a, d) <= Nearest(a, b)
<1> DEFINE q == a \div b
           r == a % b
           t == a \div d
           u == a % d
<1>1. q \in Nat /\ r \in 0 .. b - 1 /\ a = q * b + r
  BY Remainder
<1>2. t \in Nat /\ u \in 0 .. d - 1 /\ a = t * d + u
  BY Remainder
<1>3. Nearest(a, b) = IF 2 * r < b \/ (2 * r = b /\ q % 2 = 0) THEN q ELSE q + 1
  BY DEF Nearest
<1>4. Nearest(a, d) = IF 2 * u < d \/ (2 * u = d /\ t % 2 = 0) THEN t ELSE t + 1
  BY DEF Nearest
<1> HIDE DEF q, r, t, u
<1>5. t * b <= t * d /\ t * b \in Nat /\ t * d \in Nat
  <2>1. b * t <= d * t
    BY <1>2, MultiplesOrdered
  <2> QED BY <2>1, <1>2, Product
<1>6. t <= q
  <2>1. (q + 1) * b = q * b + b /\ q * b \in Nat
    BY <1>1, NextMultiple
  <2>2. t * b < (q + 1) * b
    BY <2>1, <1>1, <1>2, <1>5
  <2>3. q + 1 \in Nat
    BY <1>1
  <2>4. t < q + 1
    BY <2>2, <2>3, <1>2, FactorsOrdered
  <2> QED BY <2>4, <1>1, <1>2
<1>7. CASE t < q
  BY <1>1, <1>2, <1>3, <1>4, <1>7
<1>8. CASE t = q
  <2>1. u <= r
    <3>1. q * b = t * b
      BY <1>8
    <3> QED BY <3>1, <1>1, <1>2, <1>5
  <2> QED BY <2>1, <1>1, <1>2, <1>3, <1>4, <1>8
<1> QED BY <1>1, <1>2, <1>6, <1>7, <1>8

\* The precision of a double.
LEMMA PrecisionFacts ==
    /\ Precision \in Nat /\ Precision > 0 /\ Precision - 1 \in Nat
    /\ 2 ^^ Precision \in Nat /\ 2 ^^ Precision > 1
    /\ 2 ^^ Precision = 2 * 2 ^^ (Precision - 1) /\ 2 ^^ (Precision - 1) \in Nat
<1>1. /\ Precision \in Nat /\ Precision > 0
      /\ Precision - 1 \in Nat /\ (Precision - 1) + 1 = Precision
  BY TargetAssumption
<1>2. 2 ^^ Precision \in Nat /\ 2 ^^ Precision > Precision
  BY <1>1, TwoPowersGrow
<1>3. 2 ^^ ((Precision - 1) + 1) = 2 * 2 ^^ (Precision - 1) /\ 2 ^^ (Precision - 1) \in Nat
  BY <1>1, Powers
<1> QED BY <1>1, <1>2, <1>3

\* The bits of a quotient, without the remainder.
LEMMA QuotientBits ==
    ASSUME NEW a \in Nat, NEW b \in Nat, b > 0
    PROVE  LET e == BitLength(a \div b)
           IN  /\ e \in Nat /\ 2 ^^ e \in Nat /\ 2 ^^ e > 0
               /\ a < 2 ^^ e * b
               /\ e # 0 => /\ e - 1 \in Nat
                           /\ 2 ^^ (e - 1) \in Nat /\ 2 ^^ e = 2 * 2 ^^ (e - 1)
                           /\ 2 ^^ (e - 1) <= a \div b
                           /\ 2 ^^ (e - 1) * b <= a
<1> DEFINE q == a \div b
           e == BitLength(q)
<1>1. q \in Nat /\ q * b <= a /\ a < (q + 1) * b
  BY Division
<1> HIDE DEF q
<1>2. e \in Nat /\ 2 ^^ e > q /\ (e = 0 \/ 2 ^^ (e - 1) <= q)
  BY <1>1, BitLengthFacts
<1> HIDE DEF e
<1>3. 2 ^^ e \in Nat /\ 2 ^^ e > 0
  BY <1>2, PowerPositive
<1>4. a < 2 ^^ e * b
  <2>1. q + 1 <= 2 ^^ e /\ q + 1 \in Nat
    BY <1>1, <1>2, <1>3
  <2>2. (q + 1) * b <= 2 ^^ e * b
    BY <2>1, <1>3, MultiplesOrdered
  <2>3. (q + 1) * b \in Nat /\ 2 ^^ e * b \in Nat
    BY <2>1, <1>3, Product
  <2> QED BY <2>2, <2>3, <1>1
<1>5. ASSUME e # 0
      PROVE  /\ e - 1 \in Nat
             /\ 2 ^^ (e - 1) \in Nat /\ 2 ^^ e = 2 * 2 ^^ (e - 1)
             /\ 2 ^^ (e - 1) <= q
             /\ 2 ^^ (e - 1) * b <= a
  <2>1. e - 1 \in Nat /\ (e - 1) + 1 = e
    BY <1>2, <1>5
  <2>2. 2 ^^ (e - 1) \in Nat /\ 2 ^^ ((e - 1) + 1) = 2 * 2 ^^ (e - 1)
    BY <2>1, Powers
  <2>3. 2 ^^ (e - 1) <= q
    BY <1>2, <1>5
  <2>4. 2 ^^ (e - 1) * b <= q * b /\ q * b \in Nat /\ 2 ^^ (e - 1) * b \in Nat
    BY <2>2, <2>3, <1>1, MultiplesOrdered, Product
  <2> QED BY <2>1, <2>2, <2>3, <2>4, <1>1
<1> QED BY <1>2, <1>3, <1>4, <1>5 DEF e, q

\* A quotient of at least Precision bits is rounded to a multiple of
\* 2^(bits - Precision).
LEMMA LargeQuotient ==
    ASSUME NEW a \in Nat, NEW b \in Nat, b > 0,
           BitLength(a \div b) >= Precision
    PROVE  LET e == BitLength(a \div b)
               p == 2 ^^ (e - Precision)
               d == DoubleQuotient(a, b)
               z == 2 ^^ Precision
           IN  /\ p \in Nat /\ p > 0 /\ b * p \in Nat /\ b * p > 0
               /\ d = Nearest(a, b * p) * p
               /\ d <= 2 ^^ e
               /\ 2 ^^ (e - 1) <= d
               /\ z * (d * b) <= z * a + a
               /\ z * a <= z * (d * b) + a
<1> DEFINE e == BitLength(a \div b)
           p == 2 ^^ (e - Precision)
           d == DoubleQuotient(a, b)
           z == 2 ^^ Precision
           y == 2 ^^ (Precision - 1)
           c == b * p
           n == Nearest(a, c)
<1>1. /\ e \in Nat /\ 2 ^^ e \in Nat /\ a < 2 ^^ e * b
      /\ e # 0 => /\ e - 1 \in Nat
                  /\ 2 ^^ (e - 1) \in Nat /\ 2 ^^ e = 2 * 2 ^^ (e - 1)
                  /\ 2 ^^ (e - 1) * b <= a
  BY QuotientBits
<1>2. d = n * p
  BY DEF DoubleQuotient
<1>3. e >= Precision
  OBVIOUS
<1> HIDE DEF e, d, n
<1>4. Precision \in Nat /\ Precision > 0 /\ z \in Nat /\ z > 0 /\ y \in Nat /\ z = 2 * y
  BY PrecisionFacts
<1>5. e # 0
  BY <1>3, <1>1, <1>4
<1>6. /\ e - Precision \in Nat /\ p \in Nat /\ p > 0 /\ 2 ^^ e = z * p
  <2>1. e - Precision \in Nat /\ 2 ^^ e = z * p
    BY <1>3, <1>1, <1>4, PowerSplit
  <2> QED BY <2>1, PowerPositive
<1>7. 2 ^^ (e - 1) = y * p
  <2>1. z * p = 2 * (y * p) /\ y * p \in Nat
    <3> HIDE DEF z, y, p
    <3>1. y * p \in Nat
      BY <1>4, <1>6, Product
    <3> QED BY <3>1, <1>4, <1>6
  <2> QED BY <2>1, <1>1, <1>5, <1>6
<1> DEFINE f == 2 ^^ e
           g == 2 ^^ (e - 1)
<1>8. /\ f \in Nat /\ g \in Nat /\ a < f * b /\ g * b <= a
      /\ f = z * p /\ g = y * p /\ f = 2 * g
  BY <1>1, <1>5, <1>6, <1>7
<1> HIDE DEF f, g, p, z, y
<1>9. c \in Nat /\ c > 0
  <2>1. c \in Nat /\ b <= c
    BY <1>6, Product
  <2> QED BY <2>1
<1>10. f * b = z * c /\ g * b = y * c
  BY <1>4, <1>6, <1>8
<1> HIDE DEF c
<1>11. /\ n \in Nat /\ n * c \in Nat
       /\ 2 * (n * c) <= 2 * a + c
       /\ 2 * a <= 2 * (n * c) + c
       /\ \A x \in Nat : x * c <= a => x <= n
       /\ \A x \in Nat : a <= x * c => n <= x
  BY <1>9, NearestBounds DEF n
<1>12. z * c \in Nat /\ y * c \in Nat
  BY <1>4, <1>9, Product
<1>13. n <= z /\ y <= n
  <2>1. a <= z * c /\ y * c <= a
    BY <1>8, <1>10, <1>12
  <2> QED BY <2>1, <1>4, <1>11
<1>14. d <= f /\ g <= d
  BY <1>2, <1>4, <1>6, <1>8, <1>11, <1>13, MultiplesOrdered
<1>15. d * b = n * c
  BY <1>2, <1>6, <1>11 DEF c
<1>16. z * c <= 2 * a
  <2>1. z * c = 2 * (y * c)
    BY <1>4, <1>9
  <2> QED BY <2>1, <1>8, <1>10, <1>12
<1> DEFINE x == n * c
<1>17. z * x <= z * a + a /\ z * a <= z * x + a
  <2>1. x \in Nat /\ 2 * x <= 2 * a + c /\ 2 * a <= 2 * x + c
    BY <1>11
  <2> HIDE DEF x
  <2>2. (2 * x) * z <= (2 * a + c) * z /\ (2 * a) * z <= (2 * x + c) * z
    <3>1. 2 * x \in Nat /\ 2 * a \in Nat /\ 2 * a + c \in Nat /\ 2 * x + c \in Nat
      BY <2>1, <1>9
    <3> QED BY <3>1, <2>1, <1>4, MultiplesOrdered
  <2>3. /\ (2 * x) * z = 2 * (z * x) /\ (2 * a) * z = 2 * (z * a)
        /\ (2 * a + c) * z = 2 * (z * a) + z * c
        /\ (2 * x + c) * z = 2 * (z * x) + z * c
        /\ z * x \in Nat /\ z * a \in Nat
    BY <2>1, <1>4, <1>9
  <2> QED BY <2>2, <2>3, <1>12, <1>16
<1> QED BY <1>2, <1>6, <1>9, <1>14, <1>15, <1>17 DEF c, n, d, e, f, g, p, z

\* A quotient of fewer bits keeps some behind the point, which are cut off.
LEMMA SmallQuotient ==
    ASSUME NEW a \in Nat, NEW b \in Nat, b > 0,
           ~ BitLength(a \div b) >= Precision
    PROVE  LET e == BitLength(a \div b)
               p == 2 ^^ (Precision - e)
               d == DoubleQuotient(a, b)
               z == 2 ^^ Precision
           IN  /\ p \in Nat /\ p > 0 /\ a * p \in Nat
               /\ d = Nearest(a * p, b) \div p
               /\ d <= 2 ^^ e
               /\ e # 0 => 2 ^^ (e - 1) <= d
               /\ a \div b <= d
               /\ z * (d * b) <= z * a + a
<1> DEFINE e == BitLength(a \div b)
           p == 2 ^^ (Precision - e)
           d == DoubleQuotient(a, b)
           z == 2 ^^ Precision
           c == a * p
           n == Nearest(c, b)
           q == a \div b
           f == 2 ^^ e
           g == 2 ^^ (e - 1)
<1>1. /\ e \in Nat /\ f \in Nat /\ f > 0 /\ a < f * b
      /\ e # 0 => /\ g \in Nat /\ f = 2 * g
                  /\ g <= q
                  /\ g * b <= a
  BY QuotientBits
<1>2. d = n \div p
  BY DEF DoubleQuotient
<1>3. e < Precision /\ Precision \in Nat /\ z \in Nat /\ z > 1
  BY <1>1, PrecisionFacts
<1>4. q \in Nat /\ q * b <= a
  BY Division
<1>5. e = 0 => f = 1
  BY Powers
<1> HIDE DEF e, d, n, q
<1>6. p \in Nat /\ p > 0 /\ z = f * p
  <2>1. Precision - e \in Nat /\ z = f * p
    BY <1>1, <1>3, PowerSplit
  <2> QED BY <2>1, PowerPositive
<1> HIDE DEF p, z, f, g
<1>7. c \in Nat
  BY <1>6, Product
<1>8. c <= z * b
  <2>1. a * p <= (f * b) * p
    <3>1. f * b \in Nat
      BY <1>1, Product
    <3> QED BY <3>1, <1>1, <1>6, MultiplesOrdered
  <2>2. (f * b) * p = (f * p) * b
    BY <1>1, <1>6
  <2> QED BY <2>1, <2>2, <1>6
<1>9. (q * p) * b <= c /\ q * p \in Nat
  <2>1. q * b \in Nat /\ q * p \in Nat
    BY <1>4, <1>6, Product
  <2>2. (q * b) * p <= a * p
    BY <2>1, <1>4, <1>6, MultiplesOrdered
  <2>3. (q * b) * p = (q * p) * b
    BY <1>4, <1>6
  <2> QED BY <2>1, <2>2, <2>3
<1> HIDE DEF c
<1>10. /\ n \in Nat /\ n * b \in Nat
       /\ 2 * (n * b) <= 2 * c + b
       /\ \A x \in Nat : x * b <= c => x <= n
       /\ \A x \in Nat : c <= x * b => n <= x
  BY <1>7, NearestBounds DEF n
<1>11. n <= z /\ q * p <= n
  BY <1>3, <1>8, <1>9, <1>10
<1>12. d \in Nat /\ d * p <= n /\ n < (d + 1) * p
  BY <1>2, <1>6, <1>10, Division
<1>13. d * p \in Nat /\ (d + 1) * p \in Nat /\ d + 1 \in Nat
  BY <1>6, <1>12, Product
<1>14. d <= f
  <2>1. d * p <= f * p
    BY <1>3, <1>6, <1>10, <1>11, <1>12, <1>13
  <2> QED BY <2>1, <1>1, <1>6, <1>12, FactorsOrdered
<1>15. q <= d
  <2>1. q * p < (d + 1) * p
    BY <1>9, <1>10, <1>11, <1>12, <1>13
  <2>2. q < d + 1
    BY <2>1, <1>4, <1>6, <1>13, FactorsOrdered
  <2> QED BY <2>2, <1>4, <1>12
<1>16. e # 0 => g <= d
  BY <1>1, <1>4, <1>12, <1>15
<1>17. d = 0 \/ f * b <= 2 * a
  <2>1. CASE e # 0
    <3>1. f * b = 2 * (g * b) /\ g * b \in Nat
      BY <2>1, <1>1
    <3> QED BY <3>1, <2>1, <1>1
  <2>2. CASE e = 0 /\ d # 0
    <3>1. f = 1 /\ z = p /\ d = 1
      BY <2>2, <1>1, <1>5, <1>6, <1>12, <1>14
    <3>2. n = p
      <4>1. d * p = p
        BY <3>1, <1>6
      <4> QED BY <4>1, <3>1, <1>6, <1>10, <1>11, <1>12
    <3>3. 2 * (p * b) <= 2 * (a * p) + b
      BY <3>2, <1>10 DEF c
    <3>4. b <= 2 * a
      <4>1. SUFFICES ASSUME 2 * a + 1 <= b PROVE FALSE
        OBVIOUS
      <4>2. (2 * a + 1) * p <= b * p /\ (2 * a + 1) * p = 2 * (a * p) + p
        BY <4>1, <1>6, MultiplesOrdered
      <4>3. p * b = b * p /\ p * b \in Nat /\ a * p \in Nat
        BY <1>6, Product
      <4>4. p * b + p <= b
        BY <4>2, <4>3, <3>3, <1>6
      <4>5. b <= b * p
        BY <1>6, Product
      <4> QED BY <4>3, <4>4, <4>5, <1>6
    <3>5. f * b = b
      BY <3>1
    <3> QED BY <3>4, <3>5
  <2> QED BY <2>1, <2>2
<1>18. z * (d * b) <= z * a + a
  <2>1. CASE d = 0
    <3>1. d * b = 0 /\ z * 0 = 0 /\ z * a \in Nat
      BY <2>1, <1>3
    <3> QED BY <3>1
  <2>2. CASE f * b <= 2 * a
    <3> DEFINE x == n * b
    <3>1. x \in Nat /\ 2 * x <= 2 * c + b
      BY <1>10
    <3>2. (d * p) * b <= x /\ (d * p) * b \in Nat
      BY <1>10, <1>12, <1>13, MultiplesOrdered, Product
    <3> HIDE DEF x
    <3>3. ((d * p) * b) * f <= x * f /\ x * f \in Nat
      BY <3>1, <3>2, <1>1, MultiplesOrdered, Product
    <3>4. ((d * p) * b) * f = z * (d * b)
      <4>1. d * b \in Nat
        BY <1>12, Product
      <4>2. (d * p) * b = (d * b) * p
        BY <1>6, <1>12
      <4>3. ((d * b) * p) * f = (f * p) * (d * b)
        BY <4>1, <1>1, <1>6
      <4> QED BY <4>2, <4>3, <1>6
    <3>5. (2 * x) * f <= (2 * c + b) * f
      <4>1. 2 * x \in Nat /\ 2 * c + b \in Nat
        BY <3>1, <1>7
      <4> QED BY <4>1, <3>1, <1>1, MultiplesOrdered
    <3>6. (2 * x) * f = 2 * (x * f) /\ (2 * c + b) * f = 2 * (c * f) + f * b /\ f * b \in Nat
      BY <3>1, <1>1, <1>7
    <3>7. c * f = z * a /\ c * f \in Nat
      BY <1>1, <1>6 DEF c
    <3>8. x * f <= z * a + a
      BY <3>3, <3>5, <3>6, <3>7, <2>2
    <3>9. z * a \in Nat /\ z * (d * b) \in Nat
      BY <3>2, <3>4, <3>7, <1>1, Product
    <3> QED BY <3>3, <3>4, <3>8, <3>9
  <2> QED BY <2>1, <2>2, <1>17
<1> QED BY <1>2, <1>6, <1>7, <1>14, <1>15, <1>16, <1>18 DEF c, n, d, e, f, g, p, z, q

\* The rounding error of a quotient is at most one part in 2^Precision, below
\* which only a fraction is lost.
LEMMA QuotientError ==
    ASSUME NEW a \in Nat, NEW b \in Nat, b > 0
    PROVE  LET d == DoubleQuotient(a, b)
               z == 2 ^^ Precision
           IN  /\ d \in Nat
               /\ z * (d * b) <= z * a + a
               /\ z * a <= z * (d * b) + a \/ a \div b <= d
<1>1. DoubleQuotient(a, b) \in Nat
  BY DoubleQuotientType
<1>2. CASE BitLength(a \div b) >= Precision
  BY <1>1, <1>2, LargeQuotient
<1>3. CASE ~ BitLength(a \div b) >= Precision
  BY <1>1, <1>3, SmallQuotient
<1> QED BY <1>2, <1>3

\* Powers of two are ordered as their exponents.
LEMMA TwoPowersOrdered ==
    ASSUME NEW m \in Nat, NEW n \in Nat
    PROVE  2 ^^ m \in Nat /\ 2 ^^ n \in Nat /\ (2 ^^ m <= 2 ^^ n <=> m <= n)
<1>1. 2 ^^ m \in Nat /\ 2 ^^ n \in Nat /\ 2 ^^ n > 0
  BY TwoPowersGrow
<1>2. ASSUME m <= n PROVE 2 ^^ m <= 2 ^^ n
  BY <1>2, PowerSplit
<1>3. ASSUME ~ m <= n PROVE ~ 2 ^^ m <= 2 ^^ n
  <2>1. n + 1 \in Nat /\ n + 1 <= m
    BY <1>3
  <2>2. 2 ^^ (n + 1) <= 2 ^^ m
    BY <2>1, PowerSplit
  <2>3. 2 ^^ (n + 1) = 2 * 2 ^^ n
    BY Powers
  <2> QED BY <2>2, <2>3, <1>1
<1> QED BY <1>1, <1>2, <1>3

\* A larger divisor never gives a larger quotient.
LEMMA DivisionFalls ==
    ASSUME NEW a \in Nat, NEW b \in Nat, b > 0, NEW c \in Nat, b <= c
    PROVE  a \div b \in Nat /\ a \div c \in Nat /\ a \div c <= a \div b
<1> DEFINE q == a \div b
           t == a \div c
<1>1. q \in Nat /\ a < (q + 1) * b
  BY Division
<1>2. t \in Nat /\ t * c <= a
  BY Division
<1> HIDE DEF q, t
<1>3. t * b <= t * c /\ t * b \in Nat /\ t * c \in Nat
  <2>1. b * t <= c * t
    BY <1>2, MultiplesOrdered
  <2> QED BY <2>1, <1>2, Product
<1>4. q + 1 \in Nat /\ (q + 1) * b \in Nat
  BY <1>1, Product
<1>5. t * b < (q + 1) * b
  BY <1>1, <1>2, <1>3, <1>4
<1>6. t < q + 1
  BY <1>2, <1>4, <1>5, FactorsOrdered
<1> QED BY <1>1, <1>2, <1>6 DEF q, t

\* A larger number never has a smaller quotient.
LEMMA DivisionRises ==
    ASSUME NEW a \in Nat, NEW c \in Nat, a <= c, NEW b \in Nat, b > 0
    PROVE  a \div b <= c \div b
<1> DEFINE q == c \div b
           t == a \div b
<1>1. q \in Nat /\ c < (q + 1) * b
  BY Division
<1>2. t \in Nat /\ t * b <= a
  BY Division
<1> HIDE DEF q, t
<1>3. q + 1 \in Nat /\ (q + 1) * b \in Nat /\ t * b \in Nat
  BY <1>1, <1>2, Product
<1>4. t * b < (q + 1) * b
  BY <1>1, <1>2, <1>3
<1>5. t < q + 1
  BY <1>2, <1>3, <1>4, FactorsOrdered
<1> QED BY <1>1, <1>2, <1>5 DEF q, t

\* A larger divisor never gives a larger quotient of doubles.
LEMMA QuotientFalls ==
    ASSUME NEW a \in Nat, NEW b \in Nat, b > 0, NEW c \in Nat, b <= c
    PROVE  DoubleQuotient(a, c) <= DoubleQuotient(a, b)
<1> DEFINE e == BitLength(a \div b)
           h == BitLength(a \div c)
<1>1. c > 0
  OBVIOUS
<1>2. a \div b \in Nat /\ a \div c \in Nat /\ a \div c <= a \div b
  BY DivisionFalls
<1>3. e \in Nat /\ 2 ^^ e \in Nat /\ 2 ^^ e > a \div b
  BY <1>2, BitLengthFacts, Powers
<1>4. h \in Nat /\ (h = 0 \/ 2 ^^ (h - 1) <= a \div c)
  BY <1>2, BitLengthFacts
<1>5. h <= e
  <2>1. SUFFICES ASSUME e < h PROVE FALSE
    BY <1>3, <1>4
  <2> HIDE DEF e, h
  <2>2. h # 0 /\ h - 1 \in Nat /\ e <= h - 1
    BY <2>1, <1>3, <1>4
  <2>3. 2 ^^ e <= 2 ^^ (h - 1) /\ 2 ^^ (h - 1) \in Nat
    BY <2>2, <1>3, TwoPowersOrdered
  <2> QED BY <2>2, <2>3, <1>2, <1>3, <1>4
<1>6. DoubleQuotient(a, b) \in Nat /\ DoubleQuotient(a, c) \in Nat
  BY <1>1, DoubleQuotientType
<1>7. CASE h = e /\ e >= Precision
  <2> DEFINE p == 2 ^^ (e - Precision)
             m == Nearest(a, b * p)
             n == Nearest(a, c * p)
  <2>1. p \in Nat /\ b * p \in Nat /\ b * p > 0 /\ DoubleQuotient(a, b) = m * p
    BY <1>7, LargeQuotient
  <2>2. c * p \in Nat /\ c * p > 0 /\ DoubleQuotient(a, c) = n * p
    BY <1>1, <1>7, LargeQuotient
  <2> HIDE DEF p
  <2>3. b * p <= c * p
    BY <2>1, MultiplesOrdered
  <2>4. n <= m /\ m \in Nat /\ n \in Nat
    BY <2>1, <2>2, <2>3, NearestFalls, NearestType
  <2> HIDE DEF m, n
  <2>5. n * p <= m * p
    BY <2>1, <2>4, MultiplesOrdered
  <2> QED BY <2>1, <2>2, <2>5
<1>8. CASE h = e /\ ~ e >= Precision
  <2> DEFINE p == 2 ^^ (Precision - e)
             m == Nearest(a * p, b)
             n == Nearest(a * p, c)
  <2>1. p \in Nat /\ p > 0 /\ a * p \in Nat /\ DoubleQuotient(a, b) = m \div p
    BY <1>8, SmallQuotient
  <2>2. DoubleQuotient(a, c) = n \div p
    BY <1>1, <1>8, SmallQuotient
  <2> HIDE DEF p
  <2>3. n <= m /\ m \in Nat /\ n \in Nat
    BY <1>1, <2>1, NearestFalls, NearestType
  <2> HIDE DEF m, n
  <2>4. n \div p <= m \div p
    BY <2>1, <2>3, DivisionRises
  <2> QED BY <2>1, <2>2, <2>4
<1>9. CASE h < e
  <2>1. DoubleQuotient(a, c) <= 2 ^^ h
    <3>1. CASE h >= Precision
      BY <1>1, <3>1, LargeQuotient
    <3>2. CASE ~ h >= Precision
      BY <1>1, <3>2, SmallQuotient
    <3> QED BY <3>1, <3>2
  <2>2. 2 ^^ (e - 1) <= DoubleQuotient(a, b)
    <3>1. e # 0
      BY <1>3, <1>4, <1>9
    <3>2. CASE e >= Precision
      BY <3>2, LargeQuotient
    <3>3. CASE ~ e >= Precision
      BY <3>1, <3>3, SmallQuotient
    <3> QED BY <3>2, <3>3
  <2> HIDE DEF e, h
  <2>3. e - 1 \in Nat /\ h <= e - 1
    BY <1>3, <1>4, <1>9
  <2>4. 2 ^^ h <= 2 ^^ (e - 1) /\ 2 ^^ h \in Nat /\ 2 ^^ (e - 1) \in Nat
    BY <2>3, <1>4, TwoPowersOrdered
  <2> QED BY <2>1, <2>2, <2>4, <1>6
<1> QED BY <1>3, <1>4, <1>5, <1>7, <1>8, <1>9

\* Integers of few bits, with zeros after them, are doubles.
LEMMA QuotientExact ==
    ASSUME NEW h \in Nat, h <= Precision, NEW s \in Nat, NEW x \in Nat,
           x = (2 ^^ h - 1) * 2 ^^ s,
           NEW b \in Nat, b > 0
    PROVE  DoubleQuotient(x * b, b) = x
<1> DEFINE a == x * b
           e == BitLength(a \div b)
<1>1. a \in Nat /\ a \div b = x
  <2>1. a \in Nat /\ x * b + 0 = x * b
    BY Product
  <2> QED BY <2>1, DivisionUnique
<1>2. e \in Nat /\ 2 ^^ e > x /\ (e = 0 \/ 2 ^^ (e - 1) <= x)
  BY <1>1, BitLengthFacts
<1>3. ASSUME NEW n \in Nat, NEW c \in Nat, NEW d \in Nat, d > 0, c = n * d
      PROVE  Nearest(c, d) = n
  <2>1. n * d <= c /\ c <= n * d
    BY <1>3
  <2>2. n <= Nearest(c, d) /\ Nearest(c, d) <= n /\ Nearest(c, d) \in Nat
    BY <1>3, <2>1, NearestBounds
  <2> QED BY <2>2
<1>4. CASE e >= Precision
  <2> DEFINE p == 2 ^^ (e - Precision)
             c == b * p
  <2>1. p \in Nat /\ p > 0 /\ c \in Nat /\ c > 0 /\ DoubleQuotient(a, b) = Nearest(a, c) * p
    BY <1>1, <1>4, LargeQuotient
  <2>2. Precision \in Nat /\ Precision > 0
    BY PrecisionFacts
  <2> HIDE DEF e
  <2>3. e # 0 /\ e - 1 \in Nat /\ e - Precision \in Nat
    BY <2>2, <1>2, <1>4
  <2>4. e <= h + s
    <3>1. SUFFICES ASSUME h + s <= e - 1 PROVE FALSE
      BY <1>2
    <3>2. h + s \in Nat /\ 2 ^^ (h + s) <= 2 ^^ (e - 1) /\ 2 ^^ (e - 1) \in Nat
      BY <3>1, <2>3, TwoPowersOrdered
    <3> DEFINE f == 2 ^^ h
               g == 2 ^^ s
    <3>3. f \in Nat /\ f > 0 /\ g \in Nat /\ g > 0 /\ 2 ^^ (h + s) = f * g /\ x = (f - 1) * g
      BY PowerPositive, PowerSum
    <3> HIDE DEF f, g
    <3>4. f - 1 \in Nat /\ (f - 1) + 1 = f
      BY <3>3
    <3>5. f * g = x + g
      <4>1. ((f - 1) + 1) * g = (f - 1) * g + g
        BY <3>3, <3>4, NextMultiple
      <4> QED BY <4>1, <3>3, <3>4
    <3> QED BY <3>2, <3>3, <3>5, <2>3, <1>2
  <2>5. e - Precision <= s
    BY <2>2, <2>3, <2>4, <1>2
  <2> DEFINE r == 2 ^^ (s - (e - Precision))
             y == (2 ^^ h - 1) * r
  <2>6. r \in Nat /\ 2 ^^ s = p * r
    <3>1. s - (e - Precision) \in Nat /\ 2 ^^ s = p * r
      BY <2>3, <2>5, PowerSplit
    <3> QED BY <3>1, Powers
  <2>7. 2 ^^ h - 1 \in Nat
    <3>1. 2 ^^ h \in Nat /\ 2 ^^ h > 0
      BY PowerPositive
    <3> QED BY <3>1
  <2>8. y \in Nat /\ y * p = x
    <3> DEFINE f == 2 ^^ h - 1
    <3>1. f \in Nat /\ x = f * (p * r) /\ y = f * r
      BY <2>6, <2>7
    <3> HIDE DEF f, p, r
    <3>2. f * r \in Nat /\ (f * r) * p = f * (p * r)
      BY <3>1, <2>1, <2>6
    <3> QED BY <3>1, <3>2
  <2> HIDE DEF p, r, y
  <2>9. a = y * c
    <3>1. (y * p) * b = y * (b * p)
      BY <2>1, <2>8
    <3> QED BY <3>1, <2>8
  <2> HIDE DEF c
  <2>10. Nearest(a, c) = y
    BY <2>1, <2>8, <2>9, <1>1, <1>3
  <2> QED BY <2>1, <2>8, <2>10
<1>5. CASE ~ e >= Precision
  <2> DEFINE p == 2 ^^ (Precision - e)
  <2>1. p \in Nat /\ p > 0 /\ a * p \in Nat /\ DoubleQuotient(a, b) = Nearest(a * p, b) \div p
    BY <1>1, <1>5, SmallQuotient
  <2> HIDE DEF p
  <2>2. x * p \in Nat /\ a * p = (x * p) * b
    BY <2>1, Product
  <2>3. Nearest(a * p, b) = x * p
    BY <2>1, <2>2, <1>3
  <2>4. x * p + 0 = x * p
    BY <2>2
  <2>5. (x * p) \div p = x
    BY <2>1, <2>4, DivisionUnique
  <2> QED BY <2>1, <2>3, <2>5
<1> QED BY <1>4, <1>5

\* half is a power of two, and a double holds it.
LEMMA HalfFacts ==
    \E h \in Nat : h <= Precision /\ Base ^^ (WordBytes \div 2) = 2 ^^ h
<1>1. PICK bits \in 1 .. Base : Base = 2 ^^ bits
  BY TargetAssumption
<1>2. bits \in Nat
  BY BaseFacts
<1> DEFINE S == {m \in Nat : \E h \in Nat : Base ^^ m = 2 ^^ h}
<1> HIDE DEF S
<1>3. 0 \in S
  <2>1. Base ^^ 0 = 1 /\ 2 ^^ 0 = 1 /\ 0 \in Nat
    BY BaseFacts, Powers
  <2> QED BY <2>1 DEF S
<1>4. ASSUME NEW m \in S PROVE m + 1 \in S
  <2>1. m \in Nat
    BY DEF S
  <2>2. PICK h \in Nat : Base ^^ m = 2 ^^ h
    BY DEF S
  <2>3. Base ^^ (m + 1) = Base * Base ^^ m
    BY <2>1, BaseFacts, Powers
  <2>4. 2 ^^ (bits + h) = 2 ^^ bits * 2 ^^ h
    BY <1>2, PowerSum
  <2>5. Base ^^ (m + 1) = 2 ^^ (bits + h) /\ bits + h \in Nat
    BY <1>1, <1>2, <2>2, <2>3, <2>4
  <2> QED BY <2>1, <2>5 DEF S
<1>5. S = Nat
  <2>1. S \in SUBSET Nat
    BY DEF S
  <2> QED BY <1>3, <1>4, <2>1, SetInduction
<1>6. WordBytes \div 2 \in Nat
  BY BaseFacts
<1>7. PICK h \in Nat : Base ^^ (WordBytes \div 2) = 2 ^^ h
  BY <1>5, <1>6 DEF S
<1>8. 2 ^^ h <= 2 ^^ Precision
  BY <1>7, TargetAssumption
<1>9. h <= Precision
  BY <1>8, PrecisionFacts, TwoPowersOrdered
<1> QED BY <1>7, <1>9

\* 0xffff0000, and 0xffff0000 shifted by a word, are doubles.
LEMMA Diff1Exact ==
    ASSUME NEW b \in Nat, b > 0
    PROVE  /\ DoubleQuotient(Diff1 * b, b) = Diff1
           /\ DoubleQuotient((Diff1 * Radix) * b, b) = Diff1 * Radix
<1>1. PICK h \in Nat : h <= Precision /\ Base ^^ (WordBytes \div 2) = 2 ^^ h
  BY HalfFacts
<1> DEFINE f == 2 ^^ h
           g == 2 ^^ (h + h)
           k == 2 ^^ (h + (h + h))
<1>2. f \in Nat /\ f > 0 /\ g = f * f /\ k = f * g
  BY PowerPositive, PowerSum
<1>3. Radix = f * f /\ Diff1 = (f - 1) * f /\ Diff1 \in Nat /\ Radix \in Nat
  BY <1>1, Diff1Facts, RadixFacts
<1>4. DoubleQuotient(Diff1 * b, b) = Diff1
  BY <1>1, <1>3, QuotientExact
<1>5. Diff1 * Radix \in Nat /\ Diff1 * Radix = (f - 1) * k
  <2> HIDE DEF f, g, k
  <2>1. ((f - 1) * f) * (f * f) = (f - 1) * (f * (f * f))
    BY <1>2
  <2> QED BY <2>1, <1>2, <1>3, Product
<1>6. h + (h + h) \in Nat
  OBVIOUS
<1>7. DoubleQuotient((Diff1 * Radix) * b, b) = Diff1 * Radix
  BY <1>1, <1>5, <1>6, QuotientExact
<1> QED BY <1>4, <1>7

-----------------------------------------------------------------------------
(* The targets of difficulties: their numbers.                             *)

\* A shift by k words is one by WordBytes * k bytes.
LEMMA RadixPowers ==
    ASSUME NEW k \in Nat
    PROVE  /\ WordBytes * k \in Nat
           /\ Radix ^^ k = Base ^^ (WordBytes * k)
           /\ Radix ^^ k \in Nat /\ Radix ^^ k > 0
<1> DEFINE S == {m \in Nat : Radix ^^ m = Base ^^ (WordBytes * m)}
<1> HIDE DEF S
<1>1. 0 \in S
  <2>1. Radix ^^ 0 = 1 /\ Base ^^ 0 = 1 /\ WordBytes * 0 = 0
    BY BaseFacts, RadixFacts, Powers
  <2> QED BY <2>1 DEF S
<1>2. ASSUME NEW m \in S PROVE m + 1 \in S
  <2>1. m \in Nat /\ Radix ^^ m = Base ^^ (WordBytes * m)
    BY DEF S
  <2>2. Radix ^^ (m + 1) = Radix * Radix ^^ m
    BY <2>1, RadixFacts, Powers
  <2>3. WordBytes * m \in Nat /\ WordBytes * (m + 1) = WordBytes + WordBytes * m
    BY <2>1, BaseFacts
  <2>4. Base ^^ (WordBytes + WordBytes * m) = Base ^^ WordBytes * Base ^^ (WordBytes * m)
    BY <2>3, BaseFacts, PowerSum
  <2>5. Radix ^^ (m + 1) = Base ^^ (WordBytes * (m + 1))
    BY <2>1, <2>2, <2>3, <2>4, RadixFacts
  <2> QED BY <2>1, <2>5 DEF S
<1>3. S = Nat
  <2>1. S \in SUBSET Nat
    BY DEF S
  <2> QED BY <1>1, <1>2, <2>1, SetInduction
<1>4. WordBytes * k \in Nat
  BY BaseFacts, Product
<1>5. Radix ^^ k \in Nat /\ Radix ^^ k > 0
  <2>1. Radix \in Nat /\ Radix > 0
    BY RadixFacts
  <2> QED BY <2>1, PowerPositive
<1> QED BY <1>3, <1>4, <1>5 DEF S

\* The two top words fill the target up.
LEMMA TopFacts ==
    /\ TopWord \in Nat /\ TopWord > 0 /\ Words = TopWord + 2
    /\ Base ^^ Bytes \in Nat /\ Base ^^ Bytes > 0
    /\ Base ^^ Bytes = High * Radix ^^ TopWord
<1>1. TopWord \in Nat /\ TopWord > 0 /\ Words = TopWord + 2
  BY BaseFacts DEF TopWord
<1>2. Base ^^ Bytes \in Nat /\ Base ^^ Bytes > 0
  BY BaseFacts, PowerPositive
<1>3. Bytes = 2 * WordBytes + WordBytes * TopWord
  BY <1>1, BaseFacts
<1>4. 2 * WordBytes \in Nat /\ WordBytes * TopWord \in Nat
      /\ Radix ^^ TopWord = Base ^^ (WordBytes * TopWord)
  BY <1>1, BaseFacts, RadixPowers
<1>5. Base ^^ (2 * WordBytes + WordBytes * TopWord)
        = Base ^^ (2 * WordBytes) * Base ^^ (WordBytes * TopWord)
  BY <1>4, BaseFacts, PowerSum
<1> QED BY <1>1, <1>2, <1>3, <1>4, <1>5, RadixFacts

\* The two words that put_word sets stand for m, k words up.
LEMMA PutWordsValue ==
    ASSUME NEW m \in Nat, m < High, NEW k \in 0 .. TopWord
    PROVE  /\ m * Radix ^^ k \in Nat
           /\ Number(PutWords(k, m)) = m * Radix ^^ k
<1> DEFINE s == WordBytes * k
           v == m * Base ^^ s
<1>1. k \in Nat /\ TopWord \in Nat /\ k <= TopWord
  BY TopFacts
<1>2. s \in Nat /\ Radix ^^ k = Base ^^ s /\ Radix ^^ k \in Nat
  BY <1>1, RadixPowers
<1>3. v \in Nat
  BY <1>2, Product
<1>4. ASSUME NEW i \in 0 .. Bytes - 1
      PROVE  (CASE i \div WordBytes = k     -> ByteOf(m % Radix, i % WordBytes)
                [] i \div WordBytes = k + 1 -> ByteOf(m \div Radix, i % WordBytes)
                [] OTHER                    -> 0) = ByteOf(v, i)
  <2> DEFINE c == i \div WordBytes
             r == i % WordBytes
  <2>1. i \in Nat
    BY BaseFacts
  <2>2. c \in Nat /\ r \in Nat /\ r < WordBytes /\ i = c * WordBytes + r
    BY <2>1, BaseFacts, Remainder
  <2> HIDE DEF c, r, v
  <2>3. CASE c < k
    <3>1. /\ (c + 1) * WordBytes <= k * WordBytes
          /\ (c + 1) * WordBytes = c * WordBytes + WordBytes
          /\ c * WordBytes \in Nat
      BY <2>2, <2>3, <1>1, BaseFacts, MultiplesOrdered, NextMultiple
    <3>2. k * WordBytes = s
      BY <1>1, BaseFacts
    <3>3. i < s
      BY <3>1, <3>2, <2>2, <1>2, BaseFacts
    <3>4. ByteOf(v, i) = 0
      BY <3>3, <2>1, <1>2, ShiftedBytes DEF v
    <3>5. c # k /\ c # k + 1
      BY <2>2, <2>3, <1>1
    <3> QED BY <3>4, <3>5 DEF c
  <2>4. CASE c = k
    <3>1. i = s + r /\ s <= i /\ i - s = r
      <4>1. c * WordBytes = s
        BY <2>4, <1>1, BaseFacts
      <4> QED BY <4>1, <2>2, <1>2
    <3>2. ByteOf(v, i) = ByteOf(m, r)
      BY <3>1, <2>1, <1>2, ShiftedBytes DEF v
    <3>3. ByteOf(m % Radix, r) = ByteOf(m, r)
      BY <2>2, BaseFacts, RadixFacts, LowBytes
    <3> QED BY <3>2, <3>3, <2>4 DEF c, r
  <2>5. CASE c = k + 1
    <3>1. s <= i /\ i - s = WordBytes + r
      <4>1. c * WordBytes = s + WordBytes
        BY <2>5, <1>1, BaseFacts
      <4> QED BY <4>1, <2>2, <1>2, BaseFacts
    <3>2. ByteOf(v, i) = ByteOf(m, WordBytes + r)
      BY <3>1, <2>1, <1>2, ShiftedBytes DEF v
    <3>3. ByteOf(m \div Radix, r) = ByteOf(m, WordBytes + r)
      BY <2>2, BaseFacts, RadixFacts, LowBytes
    <3>4. c # k
      BY <2>5, <1>1
    <3> QED BY <3>2, <3>3, <3>4, <2>5 DEF c, r
  <2>6. CASE c > k + 1
    <3>1. (k + 2) * WordBytes <= c * WordBytes /\ (k + 2) * WordBytes = s + 2 * WordBytes
      <4>1. k + 2 \in Nat /\ k + 2 <= c
        BY <2>2, <2>6, <1>1
      <4>2. (k + 2) * WordBytes <= c * WordBytes
        BY <4>1, <2>2, BaseFacts, MultiplesOrdered
      <4> QED BY <4>2, <1>1, BaseFacts
    <3>2. s <= i /\ i - s \in Nat /\ 2 * WordBytes <= i - s
      <4>1. c * WordBytes \in Nat
        BY <2>2, BaseFacts, Product
      <4> QED BY <3>1, <4>1, <2>2, <1>2, BaseFacts
    <3>3. ByteOf(v, i) = ByteOf(m, i - s)
      BY <3>2, <2>1, <1>2, ShiftedBytes DEF v
    <3>4. ByteOf(m, i - s) = 0
      BY <3>2, BaseFacts, RadixFacts, HighBytesZero
    <3>5. c # k /\ c # k + 1
      BY <2>2, <2>6, <1>1
    <3> QED BY <3>3, <3>4, <3>5 DEF c
  <2> QED BY <2>2, <2>3, <2>4, <2>5, <2>6, <1>1
<1>5. PutWords(k, m) = ByteString(v, Bytes)
  <2> HIDE DEF v
  <2> QED BY <1>4 DEF PutWords, ByteString
<1>6. v < Base ^^ Bytes
  <2> DEFINE p == Radix ^^ k
             q == Radix ^^ TopWord
  <2>1. p \in Nat /\ p > 0 /\ q \in Nat /\ p <= q /\ v = m * p
    <3>1. Radix \in Nat /\ Radix > 0
      BY RadixFacts
    <3>2. p <= q
      BY <3>1, <1>1, PowerSplit
    <3> QED BY <3>2, <1>1, <1>2, RadixPowers
  <2> HIDE DEF p, q, v
  <2>2. m * p < High * p /\ m * p \in Nat /\ High * p \in Nat
    BY <2>1, RadixFacts, FactorsOrdered
  <2>3. High * p <= High * q /\ High * q \in Nat
    <3>1. p * High <= q * High
      BY <2>1, RadixFacts, MultiplesOrdered
    <3> QED BY <3>1, <2>1, RadixFacts, Product
  <2>4. v < High * q
    BY <2>1, <2>2, <2>3
  <2> QED BY <2>4, TopFacts DEF q
<1>7. Number(ByteString(v, Bytes)) = v
  BY <1>3, <1>6, NumberOfBytes
<1> QED BY <1>2, <1>3, <1>5, <1>7

\* The all-ones target is the largest.
LEMMA AllOnesValue ==
    /\ \A t \in Hash256 : Number(t) <= Number(AllOnes)
    /\ Number(AllOnes) = Base ^^ Bytes - 1
<1>1. AllOnes \in Hash256
  BY AllOnesType
<1>2. ASSUME NEW t \in Hash256 PROVE Number(t) <= Number(AllOnes)
  <2> DEFINE differ == {i \in 0 .. Bytes - 1 : t[i] # AllOnes[i]}
  <2>1. MeetsTarget(t, AllOnes)
    <3>1. CASE differ = {}
      BY <3>1 DEF MeetsTarget
    <3>2. CASE differ # {}
      <4> DEFINE d == Max(differ)
      <4>1. d \in differ
        <5>1. Bytes - 1 \in Nat /\ differ \in SUBSET (0 .. Bytes - 1)
          BY BaseFacts
        <5> HIDE DEF differ
        <5> QED BY <5>1, <3>2, Maximum
      <4>2. d \in 0 .. Bytes - 1 /\ t[d] # AllOnes[d]
        BY <4>1
      <4>3. MeetsTarget(t, AllOnes) <=> t[d] < AllOnes[d]
        BY <3>2 DEF MeetsTarget
      <4> HIDE DEF d
      <4>4. AllOnes[d] = Base - 1 /\ t[d] \in 0 .. Base - 1
        BY <4>2 DEF AllOnes, Hash256
      <4> QED BY <4>2, <4>3, <4>4, BaseFacts
    <3> QED BY <3>1, <3>2
  <2> QED BY <2>1, <1>1, MeetsTargetIsOrder
<1>3. Number(AllOnes) \in Nat /\ Number(AllOnes) < Base ^^ Bytes
  <2>1. AllOnes \in Digits(Bytes) /\ Bytes \in Nat
    BY <1>1, BaseFacts DEF Hash256, Digits
  <2>2. PICK sum \in [0 .. Bytes -> Nat] :
               /\ \A i \in 0 .. Bytes : sum[i] < Base ^^ i
               /\ ValueOf(AllOnes, Bytes) = sum[Bytes]
    BY <2>1, PartialSums
  <2>3. Bytes \in 0 .. Bytes
    BY <2>1
  <2> QED BY <2>2, <2>3 DEF Number
<1>4. Base ^^ Bytes - 1 <= Number(AllOnes)
  <2> DEFINE v == Base ^^ Bytes - 1
  <2>1. v \in Nat /\ v < Base ^^ Bytes
    BY TopFacts
  <2> HIDE DEF v
  <2>2. ByteString(v, Bytes) \in Hash256 /\ Number(ByteString(v, Bytes)) = v
    BY <2>1, NumberOfBytes
  <2>3. v <= Number(AllOnes)
    BY <2>2, <1>2
  <2> QED BY <2>3 DEF v
<1> QED BY <1>2, <1>3, <1>4, TopFacts

\* An integer that exceeds e / b by one part in z at most.
LEMMA RoundedUp ==
    ASSUME NEW z \in Nat, z > 0, NEW b \in Nat, b > 0, NEW e \in Nat, NEW n \in Nat,
           z * (n * b) <= z * e + e
    PROVE  /\ e \div b \in Nat /\ (e \div b) \div z \in Nat
           /\ n <= e \div b + (e \div b) \div z + 1
<1> DEFINE x == e \div b
           u == x \div z
<1>1. x \in Nat /\ e < (x + 1) * b
  BY Division
<1> HIDE DEF x
<1>2. u \in Nat /\ x < (u + 1) * z
  BY <1>1, Division
<1> HIDE DEF u
<1>3. n <= x + u + 1
  <2>1. SUFFICES ASSUME x + u + 2 <= n PROVE FALSE
    BY <1>1, <1>2
  <2> DEFINE c == (x + 1) * b
             d == (u + 1) * b
  <2>2. x + 1 \in Nat /\ u + 1 \in Nat /\ c \in Nat /\ d \in Nat
    BY <1>1, <1>2, Product
  <2>3. c + d <= n * b
    <3>1. x + u + 2 \in Nat /\ (x + u + 2) * b = c + d
      BY <1>1, <1>2
    <3>2. (x + u + 2) * b <= n * b
      BY <3>1, <2>1, MultiplesOrdered
    <3> QED BY <3>1, <3>2
  <2>4. c <= z * d
    <3>1. x + 1 <= (u + 1) * z /\ (u + 1) * z \in Nat
      BY <2>2, <1>1, <1>2, Product
    <3>2. (x + 1) * b <= ((u + 1) * z) * b
      BY <3>1, <2>2, MultiplesOrdered
    <3>3. ((u + 1) * z) * b = z * ((u + 1) * b)
      BY <1>2
    <3> QED BY <3>2, <3>3
  <2> HIDE DEF c, d
  <2>5. z * c \in Nat /\ z * d \in Nat /\ z * (n * b) \in Nat /\ z * e \in Nat /\ n * b \in Nat
    BY <2>2, Product
  <2>6. z * c + z * d <= z * (n * b)
    <3>1. (c + d) * z <= (n * b) * z
      BY <2>2, <2>3, <2>5, MultiplesOrdered
    <3>2. (c + d) * z = z * c + z * d /\ (n * b) * z = z * (n * b)
      BY <2>2, <2>5
    <3> QED BY <3>1, <3>2
  <2>7. z * e <= z * c
    <3>1. e * z <= c * z
      BY <2>2, <1>1, MultiplesOrdered DEF c
    <3> QED BY <3>1, <2>2, Product
  <2>8. e < c
    BY <1>1 DEF c
  <2> QED BY <2>2, <2>4, <2>5, <2>6, <2>7, <2>8
<1> QED BY <1>1, <1>2, <1>3 DEF x, u

\* An integer that falls short of e / b by one part in z at most.
LEMMA RoundedDown ==
    ASSUME NEW z \in Nat, z > 0, NEW b \in Nat, b > 0, NEW e \in Nat, NEW n \in Nat,
           z * e <= z * (n * b) + e
    PROVE  e \div b <= n + (e \div b) \div z + 1
<1> DEFINE x == e \div b
           u == x \div z
<1>1. x \in Nat /\ x * b <= e /\ e < (x + 1) * b
  BY Division
<1> HIDE DEF x
<1>2. u \in Nat /\ x < (u + 1) * z
  BY <1>1, Division
<1> HIDE DEF u
<1>3. x <= n + u + 1
  <2>1. SUFFICES ASSUME n + u + 2 <= x PROVE FALSE
    BY <1>1, <1>2
  <2> DEFINE c == (n + u + 1) * b
             d == (u + 1) * b
  <2>2. x + 1 \in Nat /\ u + 1 \in Nat /\ n + u + 1 \in Nat
    BY <1>1, <1>2
  <2>3. c \in Nat /\ d \in Nat /\ n * b \in Nat /\ c = n * b + d /\ x * b \in Nat
    BY <2>2, <1>1, <1>2
  <2>4. e < z * d
    <3>1. x + 1 <= (u + 1) * z /\ (u + 1) * z \in Nat
      BY <2>2, <1>1, <1>2, Product
    <3>2. (x + 1) * b <= ((u + 1) * z) * b
      BY <3>1, <2>2, MultiplesOrdered
    <3>3. ((u + 1) * z) * b = z * ((u + 1) * b)
      BY <1>2
    <3>4. (x + 1) * b \in Nat /\ z * d \in Nat
      BY <2>2, <2>3, Product
    <3> QED BY <3>2, <3>3, <3>4, <1>1
  <2>5. c < e
    <3>1. n + u + 1 < x
      BY <2>1, <1>1, <1>2
    <3>2. c < x * b
      BY <3>1, <2>2, <1>1, FactorsOrdered
    <3> QED BY <3>2, <2>3, <1>1
  <2> HIDE DEF c, d
  <2>6. c * z < e * z
    BY <2>3, <2>5, FactorsOrdered
  <2>7. c * z = z * (n * b) + z * d /\ e * z = z * e
    BY <2>3
  <2>8. z * (n * b) \in Nat /\ z * d \in Nat /\ z * e \in Nat
    BY <2>3, Product
  <2> QED BY <2>4, <2>6, <2>7, <2>8
<1> QED BY <1>3 DEF x, u

\* 0xffff0000 fits in a word, and shifted by a word in 64 bits.
LEMMA Diff1Small ==
    /\ Diff1 \in Nat /\ Diff1 > 0 /\ Diff1 < Radix /\ Diff1 < High
    /\ Diff1 * Radix \in Nat /\ Diff1 * Radix < High
<1> DEFINE half == Base ^^ (WordBytes \div 2)
<1>1. half \in Nat /\ half > 1 /\ Radix = half * half /\ Diff1 = (half - 1) * half
      /\ Diff1 \in Nat /\ Diff1 > 0
  BY Diff1Facts
<1> HIDE DEF half
<1>2. Diff1 < Radix
  <2>1. half - 1 \in Nat /\ half - 1 < half /\ half > 0
    BY <1>1
  <2>2. (half - 1) * half < half * half
    BY <2>1, <1>1, FactorsOrdered
  <2> QED BY <2>2, <1>1
<1>3. Radix \in Nat /\ Radix > 0 /\ High = Radix * Radix /\ High \in Nat
  BY RadixFacts
<1>4. Diff1 * Radix \in Nat /\ Diff1 * Radix < Radix * Radix
  BY <1>1, <1>2, <1>3, FactorsOrdered
<1>5. Diff1 <= Diff1 * Radix
  BY <1>1, <1>3, Product
<1> QED BY <1>1, <1>2, <1>3, <1>4, <1>5

\* The numerator of the quotient that is converted.
Numerator(den, j) == Diff1 * den * Radix ^^ j

\* The divisions of the loop, turned into multiplications of 0xffff0000.
LEMMA NumeratorFacts ==
    ASSUME NEW den \in Nat, den > 0, NEW j \in 0 .. TopWord
    PROVE  /\ j \in Nat /\ TopWord - j \in Nat
           /\ Numerator(den, j) \in Nat
           /\ den * Radix ^^ j \in Nat /\ den * Radix ^^ j > 0
           /\ Numerator(den, j) = Diff1 * (den * Radix ^^ j)
           /\ j > 0 => /\ Numerator(den, j) = (Diff1 * Radix) * (den * Radix ^^ (j - 1))
                       /\ den * Radix ^^ j = (den * Radix ^^ (j - 1)) * Radix
           /\ Numerator(den, j) * Radix ^^ (TopWord - j) = Diff1 * Radix ^^ TopWord * den
<1>1. j \in Nat /\ TopWord \in Nat /\ TopWord - j \in Nat /\ j <= TopWord
  BY TopFacts
<1>2. Diff1 \in Nat /\ Radix \in Nat /\ Radix > 0
  BY Diff1Small, RadixFacts
<1> DEFINE p == Radix ^^ j
           r == Radix ^^ (TopWord - j)
           q == Radix ^^ TopWord
<1>3. p \in Nat /\ p > 0 /\ r \in Nat /\ q = p * r
  BY <1>1, <1>2, PowerSplit, RadixPowers
<1>4. Numerator(den, j) = Diff1 * den * p
  BY DEF Numerator
<1>5. ASSUME j > 0
      PROVE  j - 1 \in Nat /\ Radix ^^ (j - 1) \in Nat /\ p = Radix * Radix ^^ (j - 1)
  <2>1. j - 1 \in Nat /\ (j - 1) + 1 = j
    BY <1>1, <1>5
  <2> DEFINE i == j - 1
  <2>2. i \in Nat /\ i + 1 = j
    BY <2>1
  <2> HIDE DEF i
  <2>3. Radix ^^ i \in Nat /\ Radix ^^ (i + 1) = Radix * Radix ^^ i
    BY <2>2, <1>2, Powers
  <2> QED BY <2>2, <2>3 DEF i
<1> HIDE DEF p, r, q
<1>6. /\ den * p \in Nat /\ den <= den * p
      /\ Diff1 * den * p = Diff1 * (den * p)
      /\ Diff1 * (den * p) \in Nat
  BY <1>2, <1>3, Product
<1>7. (Diff1 * den * p) * r = Diff1 * q * den
  <2>1. (Diff1 * den * p) * r = Diff1 * (p * r) * den
    BY <1>2, <1>3
  <2> QED BY <2>1, <1>3
<1>8. ASSUME j > 0
      PROVE  /\ Diff1 * den * p = (Diff1 * Radix) * (den * Radix ^^ (j - 1))
             /\ den * p = (den * Radix ^^ (j - 1)) * Radix
  <2> DEFINE s == Radix ^^ (j - 1)
  <2>1. s \in Nat /\ p = Radix * s
    BY <1>5, <1>8
  <2> HIDE DEF s
  <2>2. Diff1 * den * (Radix * s) = (Diff1 * Radix) * (den * s)
    BY <2>1, <1>2
  <2>3. den * (Radix * s) = (den * s) * Radix
    BY <2>1, <1>2
  <2> QED BY <2>1, <2>2, <2>3 DEF s
<1>9. den * p > 0
  BY <1>6
<1> QED BY <1>1, <1>4, <1>6, <1>7, <1>8, <1>9 DEF p, r, q

\* What target_from_difficulty returns, as a number: the quotient in the place
\* of its word; only without a division can the conversion overflow.
LEMMA TargetValue ==
    ASSUME NEW num \in Nat, num > 0, NEW den \in Nat, den > 0, NEW over \in Overflow
    PROVE  LET j == Divisions(num, den)
               d == DoubleQuotient(Numerator(den, j), num)
               v == Number(TargetFromDifficulty(num, den, over))
           IN  /\ d \in Nat
               /\ d < High => v = d * Radix ^^ (TopWord - j)
               /\ d >= High =>
                    /\ j = 0
                    /\ v = IF over = 0 THEN Base ^^ Bytes - 1
                           ELSE (High - 1) * Radix ^^ TopWord
<1> DEFINE j == Divisions(num, den)
           k == TopWord - j
           a == Numerator(den, j)
           d == DoubleQuotient(a, num)
           t == TargetFromDifficulty(num, den, over)
           m == ToUint64(a, num, over)
<1>1. /\ j \in 0 .. TopWord
      /\ j = TopWord \/ num <= den * Radix ^^ j
      /\ \A i \in 0 .. j - 1 : ~ num <= den * Radix ^^ i
  BY DivisionsType
<1>2. t = IF m = 0 /\ k = TopWord THEN AllOnes ELSE PutWords(k, m)
  BY DEF TargetFromDifficulty, Numerator
<1>3. m = IF d < High THEN d ELSE over
  BY DEF ToUint64
<1> HIDE DEF j, t, m
<1>4. /\ a \in Nat /\ d \in Nat /\ TopWord \in Nat /\ TopWord > 0
      /\ j \in Nat /\ k \in 0 .. TopWord
  <2>1. a \in Nat
    BY <1>1, NumeratorFacts
  <2> HIDE DEF a
  <2> QED BY <2>1, <1>1, TopFacts, DoubleQuotientType
<1>5. j = 0 => d > 0
  <2> SUFFICES ASSUME j = 0 PROVE d > 0
    OBVIOUS
  <2>1. num <= den * Radix ^^ 0 /\ Radix ^^ 0 = 1
    BY <1>1, <1>4, RadixFacts, Powers
  <2>2. a = Diff1 * den /\ Diff1 * den \in Nat
    <3>1. a = Diff1 * (den * Radix ^^ 0)
      BY <1>1, NumeratorFacts
    <3> QED BY <3>1, <2>1, Diff1Small, Product
  <2>3. num <= den
    BY <2>1
  <2>4. DoubleQuotient(Diff1 * den, den) <= DoubleQuotient(Diff1 * den, num)
    BY <2>2, <2>3, QuotientFalls
  <2>5. DoubleQuotient(Diff1 * den, den) = Diff1
    BY Diff1Exact
  <2> QED BY <2>2, <2>4, <2>5, <1>4, Diff1Small
<1>6. j # 0 => d < High
  <2> SUFFICES ASSUME j # 0 PROVE d < High
    OBVIOUS
  <2> DEFINE c == den * Radix ^^ (j - 1)
             x == Diff1 * Radix
  <2>1. j - 1 \in 0 .. TopWord /\ j - 1 \in 0 .. j - 1 /\ j > 0
    BY <1>1, <1>4
  <2>2. c \in Nat /\ c > 0 /\ ~ num <= c
    BY <2>1, <1>1, NumeratorFacts
  <2>3. a = x * c
    BY <2>1, <1>1, NumeratorFacts
  <2>4. x \in Nat /\ x < High
    BY Diff1Small
  <2>5. DoubleQuotient(x * c, c) = x
    BY <2>2, Diff1Exact
  <2> HIDE DEF a, c, x
  <2>6. x * c \in Nat /\ c <= num
    BY <2>2, <2>4, Product
  <2>7. DoubleQuotient(x * c, num) <= DoubleQuotient(x * c, c)
    BY <2>2, <2>6, QuotientFalls
  <2> QED BY <2>3, <2>4, <2>5, <2>7, <1>4, RadixFacts
<1> HIDE DEF a, d
<1>7. k = TopWord <=> j = 0
  BY <1>4
<1>8. ASSUME d < High PROVE Number(t) = d * Radix ^^ k
  <2>1. m = d /\ ~ (m = 0 /\ k = TopWord)
    BY <1>3, <1>4, <1>5, <1>7, <1>8
  <2>2. t = PutWords(k, d)
    BY <2>1, <1>2
  <2> QED BY <2>2, <1>4, <1>8, PutWordsValue
<1>9. ASSUME d >= High
      PROVE  /\ j = 0
             /\ Number(t) = IF over = 0 THEN Base ^^ Bytes - 1
                            ELSE (High - 1) * Radix ^^ TopWord
  <2>1. j = 0 /\ k = TopWord /\ m = over
    BY <1>3, <1>4, <1>6, <1>9, RadixFacts
  <2>2. CASE over = 0
    BY <2>1, <2>2, <1>2, AllOnesValue
  <2>3. CASE over # 0
    <3>1. over = High - 1 /\ High - 1 \in Nat /\ High - 1 < High
      BY <2>3, RadixFacts DEF Overflow
    <3>2. t = PutWords(TopWord, High - 1)
      BY <2>1, <2>3, <3>1, <1>2
    <3>3. TopWord \in 0 .. TopWord
      BY <1>4
    <3> QED BY <2>1, <2>3, <3>1, <3>2, <3>3, PutWordsValue
  <2> QED BY <2>1, <2>2, <2>3
<1> QED BY <1>4, <1>8, <1>9 DEF j, a, d, t

\* Where the next difficulty takes one more division, the one before was the
\* last that did not: exactly den * 2^(32 j).
LEMMA NextDivision ==
    ASSUME NEW num \in Nat, num > 0, NEW den \in Nat, den > 0,
           Divisions(num + 1, den) # Divisions(num, den)
    PROVE  LET j == Divisions(num, den)
           IN  /\ Divisions(num + 1, den) = j + 1
               /\ j + 1 <= TopWord
               /\ num = den * Radix ^^ j
<1> DEFINE j == Divisions(num, den)
           i == Divisions(num + 1, den)
<1>1. /\ j \in 0 .. TopWord
      /\ j = TopWord \/ num <= den * Radix ^^ j
      /\ \A x \in 0 .. j - 1 : ~ num <= den * Radix ^^ x
  BY DivisionsType
<1>2. /\ i \in 0 .. TopWord
      /\ i = TopWord \/ num + 1 <= den * Radix ^^ i
      /\ \A x \in 0 .. i - 1 : ~ num + 1 <= den * Radix ^^ x
  BY DivisionsType
<1>3. i # j
  OBVIOUS
<1> HIDE DEF i, j
<1>4. TopWord \in Nat
  BY TopFacts
<1>5. \A x \in 0 .. TopWord : den * Radix ^^ x \in Nat /\ den * Radix ^^ x > 0
  BY NumeratorFacts
<1>6. j < i
  <2>1. SUFFICES ASSUME i < j PROVE FALSE
    BY <1>1, <1>2, <1>3, <1>4
  <2>2. i \in 0 .. j - 1 /\ i # TopWord
    BY <2>1, <1>1, <1>2, <1>4
  <2>3. num + 1 <= den * Radix ^^ i /\ ~ num <= den * Radix ^^ i
    BY <2>2, <1>1, <1>2
  <2> QED BY <2>3, <1>2, <1>5
<1> DEFINE c == den * Radix ^^ j
<1>7. c \in Nat /\ c > 0 /\ num = c
  <2>1. j # TopWord /\ j \in 0 .. i - 1
    BY <1>1, <1>2, <1>4, <1>6
  <2>2. num <= c /\ ~ num + 1 <= c
    BY <2>1, <1>1, <1>2
  <2>3. c \in Nat /\ c > 0
    BY <1>1, <1>5
  <2> QED BY <2>2, <2>3
<1>8. i = j + 1
  <2>1. SUFFICES ASSUME j + 1 < i PROVE FALSE
    BY <1>1, <1>2, <1>4, <1>6
  <2>2. j + 1 \in 0 .. i - 1 /\ j + 1 \in 0 .. TopWord /\ j + 1 > 0 /\ (j + 1) - 1 = j
    BY <2>1, <1>1, <1>2, <1>4
  <2>3. ~ num + 1 <= den * Radix ^^ (j + 1)
    BY <2>2, <1>2
  <2>4. den * Radix ^^ (j + 1) = c * Radix
    BY <2>2, NumeratorFacts
  <2> HIDE DEF c
  <2>5. c + 1 <= c * Radix
    <3>1. 2 * c <= Radix * c
      BY <1>7, RadixFacts, MultiplesOrdered
    <3>2. Radix * c = c * Radix
      BY <1>7, RadixFacts
    <3> QED BY <3>1, <3>2, <1>7, RadixFacts
  <2> QED BY <2>3, <2>4, <2>5, <1>7
<1>9. j + 1 <= TopWord
  BY <1>2, <1>4, <1>8
<1> QED BY <1>7, <1>8, <1>9 DEF i, j

\* A higher difficulty never has an easier target.
LEMMA TargetsFall ==
    ASSUME NEW num \in Nat, NEW den \in Nat, den > 0, NEW over \in Overflow
    PROVE  Number(TargetFromDifficulty(num + 1, den, over))
              <= Number(TargetFromDifficulty(num, den, over))
<1>1. CASE num = 0
  <2>1. TargetFromDifficulty(num, den, over) = AllOnes
    BY <1>1 DEF TargetFromDifficulty
  <2>2. num + 1 \in Nat
    OBVIOUS
  <2>3. TargetFromDifficulty(num + 1, den, over) \in Hash256
    BY <2>2, TargetFromDifficultyType
  <2> QED BY <2>1, <2>3, AllOnesValue
<1>2. CASE num # 0
  <2> DEFINE j == Divisions(num, den)
             i == Divisions(num + 1, den)
             d == DoubleQuotient(Numerator(den, j), num)
             e == DoubleQuotient(Numerator(den, i), num + 1)
             v == Number(TargetFromDifficulty(num, den, over))
             w == Number(TargetFromDifficulty(num + 1, den, over))
             top == Radix ^^ TopWord
  <2>1. num > 0 /\ num + 1 \in Nat /\ num + 1 > 0
    BY <1>2
  <2>2. /\ d \in Nat
        /\ d < High => v = d * Radix ^^ (TopWord - j)
        /\ d >= High => /\ j = 0
                        /\ v = IF over = 0 THEN Base ^^ Bytes - 1 ELSE (High - 1) * top
    BY <2>1, TargetValue
  <2>3. /\ e \in Nat
        /\ e < High => w = e * Radix ^^ (TopWord - i)
        /\ e >= High => /\ i = 0
                        /\ w = IF over = 0 THEN Base ^^ Bytes - 1 ELSE (High - 1) * top
    BY <2>1, TargetValue
  <2>4. j \in 0 .. TopWord /\ i \in 0 .. TopWord
    BY <2>1, DivisionsType
  <2>5. High \in Nat /\ TopWord \in Nat
    BY RadixFacts, TopFacts
  <2> SUFFICES w <= v
    OBVIOUS
  <2> HIDE DEF v, w
  <2>6. CASE i = j
    <3> DEFINE r == Radix ^^ (TopWord - j)
    <3>1. TopWord - j \in Nat
      BY <2>4, <2>5
    <3>2. r \in Nat /\ r > 0
      BY <3>1, RadixPowers
    <3>3. e <= d
      <4> DEFINE a == Numerator(den, j)
      <4>1. a \in Nat
        BY <2>4, NumeratorFacts
      <4>2. num <= num + 1
        OBVIOUS
      <4> HIDE DEF a, j, i
      <4>3. DoubleQuotient(a, num + 1) <= DoubleQuotient(a, num)
        BY <4>1, <4>2, <2>1, QuotientFalls
      <4> QED BY <4>3, <2>6 DEF a
    <3> HIDE DEF d, e, i, j, r
    <3>4. CASE d < High
      <4>1. e < High
        BY <3>3, <3>4, <2>2, <2>3, <2>5
      <4>2. v = d * r /\ w = e * r
        BY <3>4, <4>1, <2>2, <2>3, <2>6 DEF r
      <4>3. e * r <= d * r
        BY <3>2, <3>3, <2>2, <2>3, MultiplesOrdered
      <4> QED BY <4>2, <4>3
    <3>5. CASE d >= High /\ e >= High
      <4>1. v = w
        BY <3>5, <2>2, <2>3
      <4>2. v \in Int
        <5>1. top \in Nat /\ High - 1 \in Nat
          BY <2>5, RadixPowers, RadixFacts
        <5>2. (High - 1) * top \in Nat
          BY <5>1, Product
        <5> QED BY <5>2, <3>5, <2>2, TopFacts
      <4> QED BY <4>1, <4>2
    <3>6. CASE d >= High /\ e < High
      <4>1. j = 0 /\ TopWord - j = TopWord
        BY <3>6, <2>2, <2>5
      <4>2. w = e * top
        BY <4>1, <3>6, <2>3, <2>6
      <4>3. top \in Nat /\ top > 0 /\ High - 1 \in Nat /\ e <= High - 1
        BY <3>6, <2>3, <2>5, RadixPowers, RadixFacts
      <4>4. Base ^^ Bytes = High * top
        BY TopFacts
      <4> HIDE DEF top
      <4>5. e * top <= (High - 1) * top
        BY <4>3, <2>3, MultiplesOrdered
      <4>6. High * top = (High - 1) * top + top /\ (High - 1) * top \in Nat /\ e * top \in Nat
        <5>1. (High - 1) + 1 = High
          BY <2>5
        <5>2. ((High - 1) + 1) * top = (High - 1) * top + top
          BY <4>3, NextMultiple
        <5> QED BY <5>1, <5>2, <4>3, <2>3, Product
      <4>7. v = High * top - 1 \/ v = (High - 1) * top
        BY <3>6, <4>4, <2>2
      <4> QED BY <4>2, <4>3, <4>5, <4>6, <4>7
    <3> QED BY <3>4, <3>5, <3>6, <2>2, <2>3, <2>5
  <2>7. CASE i # j
    <3> DEFINE c == den * Radix ^^ j
               x == Diff1 * Radix
               r == Radix ^^ (TopWord - j)
               s == Radix ^^ (TopWord - i)
    <3>1. i = j + 1 /\ j + 1 <= TopWord /\ num = c
      BY <2>1, <2>7, NextDivision
    <3>2. c \in Nat /\ c > 0 /\ Numerator(den, j) = Diff1 * c
      BY <2>4, NumeratorFacts
    <3>3. Numerator(den, i) = x * c
      <4>1. i > 0 /\ i - 1 = j
        BY <3>1, <2>4, <2>5
      <4> QED BY <4>1, <2>4, NumeratorFacts
    <3>4. r = Radix * s /\ s \in Nat
      <4>1. TopWord - i \in Nat /\ (TopWord - i) + 1 = TopWord - j
        BY <3>1, <2>4, <2>5
      <4>2. s \in Nat /\ Radix ^^ ((TopWord - i) + 1) = Radix * s
        BY <4>1, RadixFacts, Powers
      <4> QED BY <4>1, <4>2
    <3>5. d = Diff1
      BY <3>1, <3>2, Diff1Exact
    <3>6. x \in Nat /\ x < High /\ Diff1 \in Nat /\ Diff1 < High /\ Radix \in Nat
      BY Diff1Small, RadixFacts
    <3>7. e <= x
      <4>1. DoubleQuotient(x * c, c) = x
        BY <3>2, Diff1Exact
      <4> HIDE DEF c, x
      <4>2. x * c \in Nat /\ c + 1 \in Nat /\ c <= c + 1
        BY <3>2, <3>6, Product
      <4>3. DoubleQuotient(x * c, c + 1) <= DoubleQuotient(x * c, c)
        BY <3>2, <4>2, QuotientFalls
      <4> QED BY <3>1, <3>3, <4>1, <4>3
    <3> HIDE DEF d, e, i, j, c, r, s
    <3>8. v = Diff1 * r
      BY <3>5, <3>6, <2>2 DEF r
    <3>9. w = e * s
      BY <3>6, <3>7, <2>3, <2>5 DEF s
    <3>10. e * s <= x * s
      BY <3>4, <3>6, <3>7, <2>3, MultiplesOrdered
    <3>11. x * s = Diff1 * r
      BY <3>4, <3>6
    <3> QED BY <3>8, <3>9, <3>10, <3>11
  <2> QED BY <2>6, <2>7
<1> QED BY <1>1, <1>2

\* The target is the exact one, but for what is lost of the words below and the
\* last bit of a double.
LEMMA TargetIsClose ==
    ASSUME NEW num \in Nat, num > 0, NEW den \in Nat, den > 0, NEW over \in Overflow,
           (Diff1 * Radix ^^ TopWord * den) \div num < Base ^^ Bytes
    PROVE  LET exact == (Diff1 * Radix ^^ TopWord * den) \div num
               ulp   == (exact \div 2 ^^ Precision) + 1
               lost  == Radix ^^ (TopWord - Divisions(num, den))
           IN  Number(TargetFromDifficulty(num, den, over))
                  \in exact - lost - ulp .. exact + ulp
<1> DEFINE j == Divisions(num, den)
           a == Numerator(den, j)
           d == DoubleQuotient(a, num)
           v == Number(TargetFromDifficulty(num, den, over))
           r == Radix ^^ (TopWord - j)
           n == Diff1 * Radix ^^ TopWord * den
           x == n \div num
           z == 2 ^^ Precision
           u == x \div z
<1>1. /\ d \in Nat
      /\ d < High => v = d * r
      /\ d >= High => /\ j = 0
                      /\ v = IF over = 0 THEN Base ^^ Bytes - 1
                             ELSE (High - 1) * Radix ^^ TopWord
  BY TargetValue
<1>2. j \in 0 .. TopWord
  BY DivisionsType
<1>3. TopWord - j \in Nat /\ a \in Nat /\ a * r = n
  BY <1>2, NumeratorFacts
<1>4. r \in Nat /\ r > 0
  BY <1>3, RadixPowers
<1>5. z \in Nat /\ z > 0
  BY PrecisionFacts
<1>6. /\ z * (d * num) <= z * a + a
      /\ z * a <= z * (d * num) + a \/ a \div num <= d
  BY <1>3, QuotientError
<1>7. x < Base ^^ Bytes
  OBVIOUS
<1>8. SUFFICES v \in x - r - (u + 1) .. x + (u + 1)
  OBVIOUS
<1> HIDE DEF a, d, v, z
<1>9. n \in Nat
  BY <1>3, <1>4, Product
<1>10. x \in Nat /\ x * num <= n
  BY <1>9, Division
<1> HIDE DEF n
<1>11. u \in Nat
  BY <1>5, <1>10, Remainder
<1>12. ASSUME NEW m \in Nat, z * (m * num) <= z * a + a
       PROVE  m * r \in Nat /\ m * r <= x + u + 1
  <2>1. m * num \in Nat /\ m * r \in Nat
    BY <1>4, Product
  <2>2. z * (m * num) \in Nat /\ z * a + a \in Nat
    BY <2>1, <1>3, <1>5, Product
  <2>3. (z * (m * num)) * r <= (z * a + a) * r
    BY <2>2, <1>4, <1>12, MultiplesOrdered
  <2>4. (z * (m * num)) * r = z * ((m * r) * num)
    BY <1>4, <1>5
  <2>5. (z * a + a) * r = z * (a * r) + a * r
    BY <1>3, <1>4, <1>5
  <2>6. z * ((m * r) * num) <= z * n + n
    BY <2>3, <2>4, <2>5, <1>3
  <2>7. m * r <= x + u + 1
    BY <2>1, <2>6, <1>5, <1>9, RoundedUp
  <2> QED BY <2>1, <2>7
<1>13. CASE d < High
  <2>1. v = d * r /\ v \in Nat /\ v <= x + u + 1
    BY <1>1, <1>6, <1>12, <1>13
  <2>2. x <= v + u + 1 + r
    <3>1. CASE z * a <= z * (d * num) + a
      <4>1. d * num \in Nat /\ z * a \in Nat
        BY <1>1, <1>3, <1>5, Product
      <4>2. z * (d * num) + a \in Nat
        BY <4>1, <1>3, <1>5, Product
      <4>3. (z * a) * r <= (z * (d * num) + a) * r
        BY <3>1, <4>1, <4>2, <1>4, MultiplesOrdered
      <4>4. (z * a) * r = z * (a * r)
        BY <1>3, <1>4, <1>5
      <4>5. (z * (d * num) + a) * r = z * ((d * r) * num) + a * r
        BY <1>1, <1>3, <1>4, <1>5
      <4>6. z * n <= z * (v * num) + n
        BY <4>3, <4>4, <4>5, <2>1, <1>3
      <4>7. x <= v + u + 1
        BY <4>6, <2>1, <1>5, <1>9, RoundedDown
      <4> QED BY <4>7, <2>1, <1>4, <1>10, <1>11
    <3>2. CASE a \div num <= d
      <4> DEFINE q == a \div num
      <4>1. q \in Nat /\ a < (q + 1) * num
        BY <1>3, Division
      <4>2. q <= d
        BY <3>2
      <4> HIDE DEF q
      <4>3. (q + 1) * num <= (d + 1) * num /\ (q + 1) * num \in Nat /\ (d + 1) * num \in Nat
        BY <4>1, <4>2, <1>1, MultiplesOrdered, Product
      <4>4. a < (d + 1) * num
        BY <4>1, <4>3, <1>3
      <4>5. a * r < ((d + 1) * num) * r
        BY <4>3, <4>4, <1>3, <1>4, FactorsOrdered
      <4>6. ((d + 1) * num) * r = (d * r + r) * num
        BY <1>1, <1>4
      <4>7. v + r \in Nat /\ x * num < (v + r) * num
        <5>1. (v + r) * num \in Nat /\ x * num \in Nat
          BY <2>1, <1>4, <1>10, Product
        <5>2. n < (v + r) * num
          BY <4>5, <4>6, <2>1, <1>3
        <5> QED BY <5>1, <5>2, <2>1, <1>4, <1>9, <1>10
      <4>8. x < v + r
        BY <4>7, <1>10, FactorsOrdered
      <4> QED BY <4>8, <2>1, <1>4, <1>10, <1>11
    <3> QED BY <3>1, <3>2, <1>6
  <2> QED BY <2>1, <2>2, <1>4, <1>10, <1>11
<1>14. CASE ~ d < High
  <2>1. d >= High /\ High \in Nat /\ High - 1 \in Nat
    BY <1>1, <1>14, RadixFacts
  <2>2. j = 0 /\ TopWord - j = TopWord
    BY <2>1, <1>1, TopFacts
  <2>3. v = IF over = 0 THEN Base ^^ Bytes - 1 ELSE (High - 1) * r
    BY <2>1, <2>2, <1>1
  <2>4. Base ^^ Bytes = High * r
    BY <2>2, TopFacts
  <2> DEFINE b == High * r
  <2>5. b = (High - 1) * r + r /\ (High - 1) * r \in Nat
    <3>1. (High - 1) + 1 = High
      BY <2>1
    <3> HIDE DEF r
    <3>2. ((High - 1) + 1) * r = (High - 1) * r + r /\ (High - 1) * r \in Nat
      BY <2>1, <1>4, NextMultiple
    <3> QED BY <3>1, <3>2
  <2>6. b <= x + u + 1 /\ b \in Nat
    <3>1. High * num <= d * num /\ High * num \in Nat /\ d * num \in Nat
      BY <2>1, <1>1, MultiplesOrdered, Product
    <3>2. (High * num) * z <= (d * num) * z
      BY <3>1, <1>5, MultiplesOrdered
    <3>3. (High * num) * z = z * (High * num) /\ (d * num) * z = z * (d * num)
          /\ z * (High * num) \in Nat /\ z * (d * num) \in Nat
      BY <3>1, <1>5
    <3>4. z * a + a \in Nat
      BY <1>3, <1>5, Product
    <3>5. z * (High * num) <= z * a + a
      BY <3>2, <3>3, <3>4, <1>6
    <3> QED BY <3>5, <2>1, <1>12
  <2>7. v \in Int /\ v <= b /\ b <= v + r
    BY <2>3, <2>4, <2>5, <2>6, <1>4
  <2>8. x < b
    BY <2>4, <1>7
  <2> HIDE DEF b, r, x, u
  <2> QED BY <2>6, <2>7, <2>8, <1>4, <1>10, <1>11
<1> QED BY <1>13, <1>14

\* target_from_difficulty returns 0xffff0000 * 2^192 divided by the difficulty, up to
\* the words below the two it sets and the last bit of a double, and never an easier target
\* for a higher difficulty, where a division is added and where the conversion of the
\* quotient is undefined too.
THEOREM TargetsAreFaithful == Spec => []TargetFaithful
<1>1. Returned => TargetFaithful
  <2> SUFFICES ASSUME Returned, Done("difficulty") PROVE TargetFaithful
    BY DEF TargetFaithful
  <2> DEFINE num  == input.num
             over == input.over
             t(i) == TargetFromDifficulty(i, Den, over)
  <2>1. num \in Nat /\ over \in Overflow
    <3>1. input \in Difficulty
      BY InputTypes DEF Returned, Done
    <3> QED BY <3>1 DEF Difficulty
  <2>2. Den \in Nat /\ Den > 0
    BY ArithmeticAssumption
  <2>3. Result = <<t(num), t(num + 1)>>
    BY DEF Returned
  <2>4. Result[1] = t(num) /\ Result[2] = t(num + 1)
    BY <2>3
  <2> HIDE DEF num, over
  <2>5. Number(t(num + 1)) <= Number(t(num))
    BY <2>1, <2>2, TargetsFall
  <2>6. Number(t(num)) >= Number(t(num + 1))
    BY <2>5
  <2>7. ASSUME num > 0, (Diff1 * Radix ^^ TopWord * Den) \div num < Base ^^ Bytes
        PROVE  LET exact == (Diff1 * Radix ^^ TopWord * Den) \div num
                   ulp   == (exact \div 2 ^^ Precision) + 1
                   lost  == Radix ^^ (TopWord - Divisions(num, Den))
               IN  Number(t(num)) \in exact - lost - ulp .. exact + ulp
    BY <2>1, <2>2, <2>7, TargetIsClose
  <2> HIDE DEF t
  <2> QED BY <2>4, <2>6, <2>7 DEF TargetFaithful, num
<1> QED BY <1>1, ReturnedInvariant, PTL

-----------------------------------------------------------------------------
(* Stratum work: a header for each extranonce2.                            *)

\* Byte strings of the same counter, most significant byte first, agree exactly
\* when the counters do in the bytes there are.
LEMMA ExtranonceEqual ==
    ASSUME NEW v \in Nat, NEW w \in Nat, NEW n \in Nat
    PROVE  EncodeExtranonce2(v, n) = EncodeExtranonce2(w, n) <=> v % Base ^^ n = w % Base ^^ n
<1>1. ASSUME EncodeExtranonce2(v, n) = EncodeExtranonce2(w, n)
      PROVE  ByteString(v, n) = ByteString(w, n)
  <2>1. ASSUME NEW i \in 0 .. n - 1 PROVE ByteOf(v, i) = ByteOf(w, i)
    <3>1. n - i \in 1 .. n /\ n - (n - i) = i
      OBVIOUS
    <3>2. EncodeExtranonce2(v, n)[n - i] = ByteOf(v, n - (n - i))
      BY <3>1 DEF EncodeExtranonce2
    <3>3. EncodeExtranonce2(w, n)[n - i] = ByteOf(w, n - (n - i))
      BY <3>1 DEF EncodeExtranonce2
    <3> QED BY <3>1, <3>2, <3>3, <1>1
  <2> QED BY <2>1 DEF ByteString
<1>2. ASSUME ByteString(v, n) = ByteString(w, n)
      PROVE  EncodeExtranonce2(v, n) = EncodeExtranonce2(w, n)
  <2>1. ASSUME NEW i \in 1 .. n PROVE ByteOf(v, n - i) = ByteOf(w, n - i)
    <3>1. n - i \in 0 .. n - 1
      OBVIOUS
    <3>2. /\ ByteString(v, n)[n - i] = ByteOf(v, n - i)
          /\ ByteString(w, n)[n - i] = ByteOf(w, n - i)
      BY <3>1 DEF ByteString
    <3> QED BY <3>2, <1>2
  <2> QED BY <2>1 DEF EncodeExtranonce2
<1>3. /\ ByteString(v, n) \in Digits(n) /\ ValueOf(ByteString(v, n), n) = v % Base ^^ n
      /\ ByteString(w, n) \in Digits(n) /\ ValueOf(ByteString(w, n), n) = w % Base ^^ n
  BY BytesRoundTrip
<1>4. ByteString(v, n) = ByteString(w, n) <=> v % Base ^^ n = w % Base ^^ n
  BY <1>3, ValuesDiffer
<1> QED BY <1>1, <1>2, <1>4

\* f satisfies the recursion that hashes a merkle branch into a coinbase hash.
RootFn(f, c, branch, n) ==
    f = [i \in 0 .. n |->
            IF i = 0 THEN Sha256d(c) ELSE Sha256d(<<f[i - 1], branch[i]>>)]

\* The hashes along a merkle branch exist.
LEMMA RootExists ==
    ASSUME NEW c, NEW branch, NEW n \in Nat
    PROVE  \E f : RootFn(f, c, branch, n)
<1> DEFINE S == {m \in Nat : \E f : RootFn(f, c, branch, m)}
<1>1. 0 \in S
  <2> DEFINE f == [i \in 0 .. 0 |-> Sha256d(c)]
  <2>1. RootFn(f, c, branch, 0)
    BY DEF RootFn
  <2> HIDE DEF f
  <2> QED BY <2>1
<1>2. ASSUME NEW m \in S PROVE m + 1 \in S
  <2>1. PICK f : RootFn(f, c, branch, m)
    OBVIOUS
  <2> DEFINE g == [i \in 0 .. m + 1 |->
                      IF i = m + 1 THEN Sha256d(<<f[m], branch[m + 1]>>) ELSE f[i]]
  <2>2. m \in Nat
    OBVIOUS
  <2>3. \A i \in 0 .. m + 1 :
           g[i] = IF i = 0 THEN Sha256d(c) ELSE Sha256d(<<g[i - 1], branch[i]>>)
    <3> TAKE i \in 0 .. m + 1
    <3>1. CASE i = m + 1
      <4>1. i # 0 /\ i - 1 = m /\ g[m] = f[m]
        BY <3>1, <2>2
      <4>2. g[i] = Sha256d(<<f[m], branch[m + 1]>>)
        BY <3>1
      <4> QED BY <3>1, <4>1, <4>2
    <3>2. CASE i # m + 1
      <4>1. i \in 0 .. m /\ g[i] = f[i]
        BY <3>2, <2>2
      <4>2. f[i] = IF i = 0 THEN Sha256d(c) ELSE Sha256d(<<f[i - 1], branch[i]>>)
        BY <4>1, <2>1 DEF RootFn
      <4>3. i # 0 => g[i - 1] = f[i - 1]
        BY <4>1, <2>2
      <4> QED BY <4>1, <4>2, <4>3
    <3> QED BY <3>1, <3>2
  <2>4. RootFn(g, c, branch, m + 1)
    BY <2>3 DEF RootFn
  <2> HIDE DEF g
  <2> QED BY <2>2, <2>4
<1> HIDE DEF S
<1>3. S = Nat
  <2>1. S \in SUBSET Nat
    BY DEF S
  <2> QED BY <1>1, <1>2, <2>1, SetInduction
<1> QED BY <1>3 DEF S

\* The coinbase transaction that build_work hashes.
Coinbase(job, xn1, xn2) == job.coinb1 \o xn1 \o xn2 \o job.coinb2

\* Two merkle roots of a job are the same only when the coinbases are.
LEMMA RootsEqual ==
    ASSUME NEW job, NEW xn1, NEW x, NEW y, Len(job.branch) \in Nat
    PROVE  MerkleRoot(job, xn1, x) = MerkleRoot(job, xn1, y)
              <=> Coinbase(job, xn1, x) = Coinbase(job, xn1, y)
<1> DEFINE n == Len(job.branch)
           c == Coinbase(job, xn1, x)
           d == Coinbase(job, xn1, y)
           f == CHOOSE r : RootFn(r, c, job.branch, n)
           g == CHOOSE r : RootFn(r, d, job.branch, n)
<1>1. RootFn(f, c, job.branch, n) /\ RootFn(g, d, job.branch, n)
  <2>1. (\E r : RootFn(r, c, job.branch, n)) /\ (\E r : RootFn(r, d, job.branch, n))
    BY RootExists
  <2> QED BY <2>1, Zenon
<1>2. MerkleRoot(job, xn1, x) = f[n] /\ MerkleRoot(job, xn1, y) = g[n]
  BY Zenon DEF MerkleRoot, RootFn, Coinbase
<1> HIDE DEF f, g, c, d, n
<1> DEFINE S == {i \in Nat : i <= n => (f[i] = g[i] <=> c = d)}
<1> HIDE DEF S
<1>3. n \in Nat
  BY DEF n
<1>4. 0 \in S
  <2>1. f[0] = Sha256d(c) /\ g[0] = Sha256d(d)
    BY <1>1, <1>3 DEF RootFn
  <2>2. Sha256d(c) = Sha256d(d) <=> c = d
    BY DEF Sha256d
  <2> QED BY <2>1, <2>2 DEF S
<1>5. ASSUME NEW i \in S PROVE i + 1 \in S
  <2>1. SUFFICES ASSUME NEW k \in Nat, k = i + 1, k <= n PROVE f[k] = g[k] <=> c = d
    BY DEF S
  <2>2. i \in Nat /\ (f[i] = g[i] <=> c = d)
    BY <2>1, <1>3 DEF S
  <2>3. k \in 0 .. n /\ k # 0 /\ k - 1 = i
    BY <2>1, <2>2, <1>3
  <2>4. /\ f[k] = Sha256d(<<f[i], job.branch[k]>>)
        /\ g[k] = Sha256d(<<g[i], job.branch[k]>>)
    BY <2>3, <1>1 DEF RootFn
  <2>5. \A p, q, z : Sha256d(<<p, z>>) = Sha256d(<<q, z>>) <=> p = q
    BY DEF Sha256d
  <2> QED BY <2>2, <2>4, <2>5
<1>6. S = Nat
  <2>1. S \in SUBSET Nat
    BY DEF S
  <2> QED BY <1>4, <1>5, <2>1, SetInduction
<1>7. f[n] = g[n] <=> c = d
  BY <1>3, <1>6 DEF S
<1> QED BY <1>2, <1>7 DEF c, d

\* Equal strings with equal beginnings have equal ends.
LEMMA CancelLeft ==
    ASSUME NEW S, NEW s \in Seq(S), NEW t \in Seq(S), NEW v \in Seq(S), s \o t = s \o v
    PROVE  t = v
BY ConcatSimplifications

\* Equal strings with equal ends have equal beginnings.
LEMMA CancelRight ==
    ASSUME NEW S, NEW s \in Seq(S), NEW t \in Seq(S), NEW v \in Seq(S), s \o v = t \o v
    PROVE  s = t
BY ConcatSimplifications

\* The two places where the extranonce2 ends up do not depend on anything else.
LEMMA CoinbaseEqual ==
    ASSUME NEW job, job.coinb1 \in Seq(Int), job.coinb2 \in Seq(Int),
           NEW xn1 \in Seq(Int), NEW x \in Seq(Int), NEW y \in Seq(Int)
    PROVE  Coinbase(job, xn1, x) = Coinbase(job, xn1, y) <=> x = y
<1> DEFINE p == job.coinb1 \o xn1
<1>1. p \in Seq(Int)
  BY ConcatProperties
<1>2. /\ Coinbase(job, xn1, x) = (p \o x) \o job.coinb2
      /\ Coinbase(job, xn1, y) = (p \o y) \o job.coinb2
  BY DEF Coinbase
<1> HIDE DEF p
<1>3. p \o x \in Seq(Int) /\ p \o y \in Seq(Int)
  BY <1>1, ConcatProperties
<1>4. ASSUME Coinbase(job, xn1, x) = Coinbase(job, xn1, y) PROVE x = y
  <2>1. p \o x = p \o y
    BY <1>2, <1>3, <1>4, CancelRight
  <2> QED BY <2>1, <1>1, CancelLeft
<1> QED BY <1>2, <1>4

\* Reversed bytes are bytes.
LEMMA ReverseType ==
    ASSUME NEW s \in Seq(Int)
    PROVE  Reverse(s) \in Seq(Int)
<1>1. Len(s) \in Nat
  BY LenProperties
<1>2. \A i \in 1 .. Len(s) : s[(Len(s) - i) + 1] \in Int
  <2> TAKE i \in 1 .. Len(s)
  <2>1. (Len(s) - i) + 1 \in 1 .. Len(s)
    BY <1>1
  <2> QED BY <2>1, ElementOfSeq
<1>3. [i \in 1 .. Len(s) |-> s[(Len(s) - i) + 1]] \in Seq(Int)
  BY <1>1, <1>2, IsASeq
<1> QED BY <1>3 DEF Reverse

\* The bytes of the previous hash, swapped word by word, are bytes.
LEMMA SwapWordsType ==
    ASSUME NEW s \in Seq(Int), Len(s) = 2 * WordBytes
    PROVE  SwapWords(s) \in Seq(Int)
<1> DEFINE at(i) == 2 * ((i - 1) \div WordBytes) * WordBytes + WordBytes + 1 - i
<1>1. Len(s) \in Nat
  BY LenProperties
<1>2. ASSUME NEW i \in 1 .. Len(s) PROVE s[at(i)] \in Int
  <2> DEFINE w == (i - 1) \div WordBytes
             r == (i - 1) % WordBytes
  <2>1. i - 1 \in Nat
    BY <1>1
  <2>2. w \in Nat /\ r \in 0 .. WordBytes - 1 /\ i - 1 = w * WordBytes + r
    BY <2>1, BaseFacts, Remainder
  <2>3. at(i) = 2 * w * WordBytes + WordBytes + 1 - i
    OBVIOUS
  <2> HIDE DEF w, r, at
  <2>4. w * WordBytes \in Nat /\ 2 * w * WordBytes = w * WordBytes + w * WordBytes
    BY <2>2, BaseFacts
  <2>5. w <= 1
    <3>1. SUFFICES ASSUME 2 <= w PROVE FALSE
      BY <2>2
    <3>2. 2 * WordBytes <= w * WordBytes
      BY <3>1, <2>2, BaseFacts, MultiplesOrdered
    <3> QED BY <3>2, <2>2, <2>4, BaseFacts
  <2>6. w * WordBytes <= WordBytes
    <3>1. w * WordBytes <= 1 * WordBytes
      BY <2>2, <2>5, BaseFacts, MultiplesOrdered
    <3> QED BY <3>1, BaseFacts
  <2>7. at(i) \in 1 .. Len(s)
    BY <2>2, <2>3, <2>4, <2>6, BaseFacts
  <2> QED BY <2>7, ElementOfSeq
<1>3. [i \in 1 .. Len(s) |-> s[at(i)]] \in Seq(Int)
  <2> HIDE DEF at
  <2> QED BY <1>1, <1>2, IsASeq
<1> QED BY <1>3 DEF SwapWords

\* The job of the model, field by field.
LEMMA AnyJobTypes ==
    ASSUME NEW branch \in Nat
    PROVE  LET job == AnyJob(branch)
           IN  /\ job.coinb1 \in Seq(Int) /\ job.coinb2 \in Seq(Int)
               /\ Len(job.branch) = branch
               /\ job.prevhash \in Seq(Int) /\ Len(job.prevhash) = 2 * WordBytes
               /\ job.version \in Seq(Int) /\ job.ntime \in Seq(Int) /\ job.nbits \in Seq(Int)
<1> DEFINE job == AnyJob(branch)
<1>1. /\ job.coinb1 = <<-1>> /\ job.coinb2 = <<-2>>
      /\ job.branch = [i \in 1 .. branch |-> -20 - i]
      /\ job.prevhash = [i \in 1 .. 2 * WordBytes |-> -2 - i] /\ job.version = <<-10, -11>>
      /\ job.ntime = <<-12, -13>> /\ job.nbits = <<-14, -15>>
  BY DEF AnyJob
<1>2. 2 * WordBytes \in Nat
  BY BaseFacts
<1>3. /\ [i \in 1 .. branch |-> -20 - i] \in Seq(Int)
      /\ Len([i \in 1 .. branch |-> -20 - i]) = branch
  OBVIOUS
<1>4. ASSUME NEW n \in Nat
      PROVE  [i \in 1 .. n |-> -2 - i] \in Seq(Int) /\ Len([i \in 1 .. n |-> -2 - i]) = n
  OBVIOUS
<1>5. <<-1>> \in Seq(Int) /\ <<-2>> \in Seq(Int) /\ <<-10, -11>> \in Seq(Int)
      /\ <<-12, -13>> \in Seq(Int) /\ <<-14, -15>> \in Seq(Int)
  OBVIOUS
<1> HIDE DEF job
<1> QED BY <1>1, <1>2, <1>3, <1>4, <1>5 DEF job

\* encode_extranonce2 returns as many bytes as it is asked for.
LEMMA EncodeType ==
    ASSUME NEW v \in Nat, NEW n \in Nat
    PROVE  EncodeExtranonce2(v, n) \in Seq(Int) /\ Len(EncodeExtranonce2(v, n)) = n
<1>1. \A i \in 1 .. n : ByteOf(v, n - i) \in Int
  <2> TAKE i \in 1 .. n
  <2>1. n - i \in Nat
    OBVIOUS
  <2>2. ByteOf(v, n - i) \in 0 .. Base - 1
    BY <2>1, ByteOfType
  <2> QED BY <2>2
<1>2. [i \in 1 .. n |-> ByteOf(v, n - i)] \in Seq(Int)
  BY <1>1, IsASeq
<1>3. Len([i \in 1 .. n |-> ByteOf(v, n - i)]) = n
  BY <1>2, LenProperties
<1> QED BY <1>2, <1>3 DEF EncodeExtranonce2

\* Two headers of a job are equal exactly when their merkle roots are.
LEMMA BlobEqual ==
    ASSUME NEW job, NEW xn1, NEW x, NEW y,
           job.prevhash \in Seq(Int), Len(job.prevhash) = 2 * WordBytes,
           job.version \in Seq(Int), job.ntime \in Seq(Int), job.nbits \in Seq(Int)
    PROVE  BuildWork(job, xn1, x).blob = BuildWork(job, xn1, y).blob
              <=> MerkleRoot(job, xn1, x) = MerkleRoot(job, xn1, y)
<1> DEFINE r == MerkleRoot(job, xn1, x)
           s == MerkleRoot(job, xn1, y)
           a == Reverse(job.version)
           b == SwapWords(job.prevhash)
           c == Reverse(job.ntime)
           d == Reverse(job.nbits)
           e == [i \in 1 .. WordBytes |-> 0]
<1>1. a \in Seq(Int) /\ b \in Seq(Int) /\ c \in Seq(Int) /\ d \in Seq(Int)
  BY ReverseType, SwapWordsType
<1>2. e \in Seq(Int)
  BY BaseFacts
<1>3. /\ BuildWork(job, xn1, x).blob = a \o b \o <<r>> \o c \o d \o e
      /\ BuildWork(job, xn1, y).blob = a \o b \o <<s>> \o c \o d \o e
  BY DEF BuildWork
<1> HIDE DEF a, b, c, d, e, r, s
<1> DEFINE S == Int \cup {r, s}
<1>4. /\ a \in Seq(S) /\ b \in Seq(S) /\ c \in Seq(S) /\ d \in Seq(S) /\ e \in Seq(S)
      /\ r \in S /\ s \in S
  <2>1. Int \subseteq S /\ r \in S /\ s \in S
    OBVIOUS
  <2> HIDE DEF S
  <2> QED BY <2>1, <1>1, <1>2, SeqMonotonic
<1> HIDE DEF S
<1> DEFINE p == a \o b
           u == p \o <<r>>
           v == p \o <<s>>
<1>5. p \in Seq(S) /\ <<r>> \in Seq(S) /\ <<s>> \in Seq(S)
  BY <1>4, ConcatProperties
<1> HIDE DEF p
<1>6. u \in Seq(S) /\ v \in Seq(S)
  BY <1>5, ConcatProperties
<1>7. u = v => r = s
  <2>1. u = v => <<r>> = <<s>>
    BY <1>5, CancelLeft
  <2> QED BY <2>1
<1>8. ASSUME u \o c \o d \o e = v \o c \o d \o e PROVE u = v
  <2> HIDE DEF u, v
  <2>1. u \o c \in Seq(S) /\ v \o c \in Seq(S)
    BY <1>4, <1>6, ConcatProperties
  <2>2. u \o c \o d \in Seq(S) /\ v \o c \o d \in Seq(S)
    BY <1>4, <2>1, ConcatProperties
  <2>3. u \o c \o d = v \o c \o d
    BY <1>4, <1>8, <2>2, CancelRight
  <2>4. u \o c = v \o c
    <3> DEFINE k == u \o c
               l == v \o c
    <3>1. k \in Seq(S) /\ l \in Seq(S) /\ k \o d = l \o d
      BY <2>1, <2>3
    <3> HIDE DEF k, l
    <3>2. k = l
      BY <1>4, <3>1, CancelRight
    <3> QED BY <3>2 DEF k, l
  <2> QED BY <1>4, <2>4, <1>6, CancelRight
<1> QED BY <1>3, <1>7, <1>8 DEF r, s, p, u, v

\* rebuild_job() hands out the same header for two values of its counter exactly when
\* the bytes the pool allows for the extranonce2 cannot tell them apart, whatever the
\* length of the extranonce2 and of the merkle branch.
THEOREM WorkIsNotRepeated == Spec => []WorkIsNew
<1>1. Returned => WorkIsNew
  <2> SUFFICES ASSUME Returned, Done("work") PROVE WorkIsNew
    BY DEF WorkIsNew
  <2> DEFINE job == AnyJob(input.branch)
             v   == input.first
             w   == input.second
             n   == input.size
             x   == EncodeExtranonce2(v, n)
             y   == EncodeExtranonce2(w, n)
             xn1 == <<-16>>
             r   == MerkleRoot(job, xn1, x)
             s   == MerkleRoot(job, xn1, y)
  <2>1. v \in Nat /\ w \in Nat /\ n \in Nat /\ input.branch \in Nat
    <3>1. input \in Rebuilds
      BY InputTypes DEF Returned, Done
    <3> QED BY <3>1 DEF Rebuilds
  <2>2. /\ job.coinb1 \in Seq(Int) /\ job.coinb2 \in Seq(Int)
        /\ Len(job.branch) \in Nat
        /\ job.prevhash \in Seq(Int) /\ Len(job.prevhash) = 2 * WordBytes
        /\ job.version \in Seq(Int) /\ job.ntime \in Seq(Int) /\ job.nbits \in Seq(Int)
    BY <2>1, AnyJobTypes
  <2>3. Result = <<BuildWork(job, xn1, x), BuildWork(job, xn1, y)>>
    BY DEF Returned, BuildAt
  <2> HIDE DEF job, v, w, n, x, y, r, s
  <2>4. x \in Seq(Int) /\ Len(x) = n /\ y \in Seq(Int) /\ Len(y) = n
    BY <2>1, EncodeType DEF x, y
  <2>5. xn1 \in Seq(Int)
    OBVIOUS
  <2> HIDE DEF xn1
  <2>6. r = s <=> x = y
    <3>1. r = s <=> Coinbase(job, xn1, x) = Coinbase(job, xn1, y)
      BY <2>2, RootsEqual DEF r, s
    <3>2. Coinbase(job, xn1, x) = Coinbase(job, xn1, y) <=> x = y
      BY <2>2, <2>4, <2>5, CoinbaseEqual
    <3> QED BY <3>1, <3>2
  <2>7. /\ BuildWork(job, xn1, x).extranonce2 = x
        /\ BuildWork(job, xn1, y).extranonce2 = y
    BY DEF BuildWork
  <2>8. BuildWork(job, xn1, x).blob = BuildWork(job, xn1, y).blob <=> r = s
    BY <2>2, BlobEqual DEF r, s
  <2>9. x = y <=> v % Base ^^ n = w % Base ^^ n
    BY <2>1, ExtranonceEqual DEF x, y
  <2>10. Result[1].blob = Result[2].blob <=> v % Base ^^ n = w % Base ^^ n
    BY <2>3, <2>6, <2>8, <2>9
  <2>11. ASSUME NEW z \in ToSet(Result) PROVE Len(z.extranonce2) = n
    <3>1. z = BuildWork(job, xn1, x) \/ z = BuildWork(job, xn1, y)
      BY <2>3 DEF ToSet
    <3> QED BY <3>1, <2>4, <2>7
  <2> QED BY <2>10, <2>11 DEF WorkIsNew, v, w, n
<1> QED BY <1>1, ReturnedInvariant, PTL

-----------------------------------------------------------------------------
(* SHA-256: what transform() is given.                                     *)

\* s has taken in the first n bytes of w: the blocks and the buffer are its
\* bytes in order, no block is short, no full buffer is left, and the length is
\* that of the blocks.
Holds(s, w, n) ==
    /\ s \in [blocks : Seq(Seq(Int)), buf : Seq(Int), bitlen : Nat]
    /\ w \in Seq(Int) /\ n \in 0 .. Len(w)
    /\ Len(s.buf) < BlockLen
    /\ n = Len(s.blocks) * BlockLen + Len(s.buf)
    /\ s.bitlen = (Len(s.blocks) * (BlockLen * ByteBits)) % LenMod
    /\ \A i \in 1 .. Len(s.blocks) :
          /\ Len(s.blocks[i]) = BlockLen
          /\ \A j \in 1 .. BlockLen : s.blocks[i][j] = w[(i - 1) * BlockLen + j]
    /\ \A j \in 1 .. Len(s.buf) : s.buf[j] = w[Len(s.blocks) * BlockLen + j]

\* What the assumptions say of the sizes of blocks and of the length.
LEMMA BlockFacts ==
    /\ BlockLen \in Nat /\ BlockLen > 0
    /\ LenLen \in Nat /\ LenLen > 0 /\ LenLen < BlockLen
    /\ ByteBits \in Nat /\ ByteBits > 0
    /\ LenMod \in Nat /\ LenMod > 0
<1>1. /\ BlockLen \in Nat /\ BlockLen > 0
      /\ LenLen \in Nat /\ LenLen > 0 /\ LenLen < BlockLen
      /\ ByteBits \in Nat /\ ByteBits > 0
  BY Sha256Assumption
<1>2. ByteBits * LenLen \in Nat
  BY <1>1, Product
<1>3. LenMod \in Nat /\ LenMod > 0
  BY <1>2, PowerPositive DEF LenMod
<1> QED BY <1>1, <1>3

\* A sum may be reduced before its last term is added, as bitlen_ is.
LEMMA RemainderSum ==
    ASSUME NEW x \in Nat, NEW y \in Nat, NEW m \in Nat, m > 0
    PROVE  ((x % m) + y) % m = (x + y) % m
<1> DEFINE q == x \div m
           r == x % m
<1>1. q \in Nat /\ r \in 0 .. m - 1 /\ x = q * m + r
  BY Remainder
<1> HIDE DEF q, r
<1> DEFINE t == (r + y) \div m
           u == (r + y) % m
<1>2. r + y \in Nat
  BY <1>1
<1>3. t \in Nat /\ u \in 0 .. m - 1 /\ r + y = t * m + u
  BY <1>2, Remainder
<1> HIDE DEF t, u
<1>4. x + y = (q + t) * m + u /\ q + t \in Nat
  <2>1. (q + t) * m = q * m + t * m /\ q * m \in Nat /\ t * m \in Nat
    BY <1>1, <1>3
  <2> QED BY <2>1, <1>1, <1>3
<1>5. \A z \in Nat : (z * m + u) % m = u
  BY <1>3, DivisionUnique
<1> QED BY <1>4, <1>5 DEF r, u

\* One turn of the loop in update() takes in one byte.
LEMMA PutTakes ==
    ASSUME NEW s, NEW w, NEW n, Holds(s, w, n), n < Len(w)
    PROVE  Holds(Put(s, w[n + 1]), w, n + 1)
<1> DEFINE b   == w[n + 1]
           buf == Append(s.buf, b)
           k   == Len(s.blocks)
           off == k * BlockLen
<1>1. /\ s.blocks \in Seq(Seq(Int)) /\ s.buf \in Seq(Int) /\ s.bitlen \in Nat
      /\ w \in Seq(Int) /\ Len(w) \in Nat /\ n \in Nat /\ n + 1 \in 1 .. Len(w)
      /\ s \in [blocks : Seq(Seq(Int)), buf : Seq(Int), bitlen : Nat]
  BY DEF Holds
<1>2. b \in Int
  BY <1>1, ElementOfSeq
<1>3. k \in Nat /\ Len(s.buf) \in Nat /\ off \in Nat
  BY <1>1, BlockFacts, LenProperties, Product
<1>4. n = off + Len(s.buf) /\ Len(s.buf) < BlockLen
  BY DEF Holds
<1>5. s.bitlen = (k * (BlockLen * ByteBits)) % LenMod
  BY DEF Holds
<1>6. \A i \in 1 .. k : /\ Len(s.blocks[i]) = BlockLen
                        /\ \A j \in 1 .. BlockLen : s.blocks[i][j] = w[(i - 1) * BlockLen + j]
  BY DEF Holds
<1>7. \A j \in 1 .. Len(s.buf) : s.buf[j] = w[off + j]
  BY DEF Holds
<1>8. /\ buf \in Seq(Int) /\ Len(buf) = Len(s.buf) + 1
      /\ \A j \in 1 .. Len(s.buf) : buf[j] = s.buf[j]
      /\ buf[Len(s.buf) + 1] = b
  BY <1>1, <1>2, AppendProperties
<1> HIDE DEF buf
<1>9. \A j \in 1 .. Len(buf) : buf[j] = w[off + j]
  <2> TAKE j \in 1 .. Len(buf)
  <2>1. CASE j \in 1 .. Len(s.buf)
    BY <2>1, <1>7, <1>8
  <2>2. CASE j = Len(s.buf) + 1
    <3>1. off + j = n + 1
      BY <2>2, <1>3, <1>4
    <3> QED BY <3>1, <2>2, <1>8
  <2> QED BY <2>1, <2>2, <1>3, <1>8
<1> DEFINE t == Put(s, b)
<1>10. CASE Len(buf) = BlockLen
  <2> DEFINE blocks == Append(s.blocks, buf)
  <2>1. t = [blocks |-> blocks, buf |-> <<>>,
             bitlen |-> (s.bitlen + BlockLen * ByteBits) % LenMod]
    BY <1>10 DEF Put, buf
  <2>2. /\ blocks \in Seq(Seq(Int)) /\ Len(blocks) = k + 1
        /\ \A i \in 1 .. k : blocks[i] = s.blocks[i]
        /\ blocks[k + 1] = buf
    BY <1>1, <1>8, AppendProperties
  <2>3. <<>> \in Seq(Int) /\ Len(<<>>) = 0
    OBVIOUS
  <2> DEFINE bb == BlockLen * ByteBits
  <2>4. bb \in Nat /\ k * bb \in Nat /\ (k + 1) * bb = k * bb + bb
    <3>1. bb \in Nat
      BY BlockFacts, Product
    <3> HIDE DEF bb, k
    <3> QED BY <3>1, <1>3, NextMultiple
  <2>5. (s.bitlen + bb) % LenMod = ((k + 1) * bb) % LenMod
    <3> HIDE DEF bb
    <3>1. (((k * bb) % LenMod) + bb) % LenMod = (k * bb + bb) % LenMod
      BY <2>4, BlockFacts, RemainderSum
    <3> QED BY <3>1, <2>4, <1>5 DEF bb
  <2>6. (s.bitlen + bb) % LenMod \in Nat
    BY <2>4, <1>1, BlockFacts, Remainder
  <2> HIDE DEF blocks
  <2>7. (k + 1) * BlockLen = off + BlockLen
    <3> HIDE DEF k
    <3> QED BY <1>3, BlockFacts, NextMultiple
  <2>8. n + 1 = (k + 1) * BlockLen + 0
    <3> HIDE DEF k, off
    <3>1. n + 1 = off + BlockLen
      <4>1. Len(buf) = Len(s.buf) + 1
        BY <1>8
      <4>2. \A x, y \in Nat : x + y + 1 = x + (y + 1)
        OBVIOUS
      <4> QED BY <4>1, <4>2, <1>3, <1>4, <1>10
    <3>2. \A x \in Nat : x + 0 = x
      OBVIOUS
    <3> QED BY <3>1, <3>2, <2>7, <1>1
  <2>9. ASSUME NEW i \in 1 .. k + 1
        PROVE  /\ Len(blocks[i]) = BlockLen
               /\ \A j \in 1 .. BlockLen : blocks[i][j] = w[(i - 1) * BlockLen + j]
    <3>1. CASE i \in 1 .. k
      BY <3>1, <1>6, <2>2
    <3>2. CASE i = k + 1
      <4>1. i - 1 = k
        BY <3>2, <1>3
      <4> QED BY <3>2, <4>1, <1>9, <1>10, <2>2
    <3> QED BY <3>1, <3>2, <1>3
  <2>10. /\ t \in [blocks : Seq(Seq(Int)), buf : Seq(Int), bitlen : Nat]
         /\ t.blocks = blocks /\ t.buf = <<>> /\ t.bitlen = ((k + 1) * bb) % LenMod
    BY <2>1, <2>2, <2>3, <2>5, <2>6
  <2> HIDE DEF t
  <2>11. Holds(t, w, n + 1)
    <3>1. n + 1 \in 0 .. Len(w) /\ Len(t.buf) = 0 /\ Len(t.blocks) = k + 1
      BY <1>1, <2>2, <2>3, <2>10
    <3>2. \A j \in 1 .. Len(t.buf) : FALSE
      BY <3>1
    <3>3. n + 1 = Len(t.blocks) * BlockLen + Len(t.buf)
      BY <3>1, <2>8
    <3>4. t.bitlen = (Len(t.blocks) * (BlockLen * ByteBits)) % LenMod
      BY <3>1, <2>10
    <3>5. \A i \in 1 .. Len(t.blocks) :
            /\ Len(t.blocks[i]) = BlockLen
            /\ \A j \in 1 .. BlockLen : t.blocks[i][j] = w[(i - 1) * BlockLen + j]
      <4>1. t.blocks = blocks /\ Len(t.blocks) = k + 1
        BY <3>1, <2>10
      <4>2. \A i \in 1 .. k + 1 :
              /\ Len(blocks[i]) = BlockLen
              /\ \A j \in 1 .. BlockLen : blocks[i][j] = w[(i - 1) * BlockLen + j]
        BY <2>9, Zenon
      <4> HIDE DEF k
      <4> QED BY <4>1, <4>2, Zenon
    <3> QED BY <1>1, <2>10, <3>1, <3>2, <3>3, <3>4, <3>5, BlockFacts DEF Holds
  <2> QED BY <2>11 DEF t
<1>11. CASE Len(buf) # BlockLen
  <2>1. t = [s EXCEPT !.buf = buf]
    BY <1>11 DEF Put, buf
  <2>2. /\ t \in [blocks : Seq(Seq(Int)), buf : Seq(Int), bitlen : Nat]
        /\ t.blocks = s.blocks /\ t.buf = buf /\ t.bitlen = s.bitlen
    BY <2>1, <1>1, <1>8
  <2> HIDE DEF t
  <2>3. n + 1 = k * BlockLen + Len(t.buf) /\ n + 1 \in 0 .. Len(w) /\ Len(t.buf) < BlockLen
    <3>1. n + 1 = off + Len(t.buf) /\ n + 1 \in 0 .. Len(w) /\ Len(t.buf) < BlockLen
      <4> HIDE DEF off
      <4>1. BlockLen \in Nat
        BY BlockFacts
      <4>2. Len(t.buf) = Len(s.buf) + 1 /\ Len(t.buf) # BlockLen
        BY <2>2, <1>8, <1>11
      <4>3. Len(t.buf) < BlockLen
        BY <4>1, <4>2, <1>3, <1>4
      <4>4. n + 1 = off + Len(t.buf)
        BY <4>2, <1>3, <1>4
      <4> QED BY <4>3, <4>4, <1>1
    <3> QED BY <3>1
  <2>4. Holds(t, w, n + 1)
    BY <1>1, <1>5, <1>6, <1>9, <2>2, <2>3 DEF Holds
  <2> QED BY <2>4 DEF t
<1> QED BY <1>10, <1>11

\* f is the state of the hasher after each byte of an update.
AfterFn(f, s, data, n) ==
    f = [i \in 0 .. n |-> IF i = 0 THEN s ELSE Put(f[i - 1], data[i])]

\* The states of an update exist.
LEMMA AfterExists ==
    ASSUME NEW s, NEW data, NEW n \in Nat
    PROVE  \E f : AfterFn(f, s, data, n)
<1> DEFINE S == {m \in Nat : \E f : AfterFn(f, s, data, m)}
<1>1. 0 \in S
  <2> DEFINE f == [i \in 0 .. 0 |-> s]
  <2>1. AfterFn(f, s, data, 0)
    BY DEF AfterFn
  <2> HIDE DEF f
  <2> QED BY <2>1
<1>2. ASSUME NEW m \in S PROVE m + 1 \in S
  <2>1. PICK f : AfterFn(f, s, data, m)
    OBVIOUS
  <2> DEFINE g == [i \in 0 .. m + 1 |-> IF i = m + 1 THEN Put(f[m], data[m + 1]) ELSE f[i]]
  <2>2. m \in Nat
    OBVIOUS
  <2>3. \A i \in 0 .. m + 1 : g[i] = IF i = 0 THEN s ELSE Put(g[i - 1], data[i])
    <3> TAKE i \in 0 .. m + 1
    <3>1. CASE i = m + 1
      <4>1. i # 0 /\ i - 1 = m /\ g[m] = f[m]
        BY <3>1, <2>2
      <4>2. g[i] = Put(f[m], data[m + 1])
        BY <3>1
      <4> QED BY <3>1, <4>1, <4>2
    <3>2. CASE i # m + 1
      <4>1. i \in 0 .. m /\ g[i] = f[i]
        BY <3>2, <2>2
      <4>2. f[i] = IF i = 0 THEN s ELSE Put(f[i - 1], data[i])
        BY <4>1, <2>1 DEF AfterFn
      <4>3. i # 0 => g[i - 1] = f[i - 1]
        BY <4>1, <2>2
      <4> QED BY <4>1, <4>2, <4>3
    <3> QED BY <3>1, <3>2
  <2>4. AfterFn(g, s, data, m + 1)
    BY <2>3 DEF AfterFn
  <2> HIDE DEF g
  <2> QED BY <2>2, <2>4
<1> HIDE DEF S
<1>3. S = Nat
  <2>1. S \in SUBSET Nat
    BY DEF S
  <2> QED BY <1>1, <1>2, <2>1, SetInduction
<1> QED BY <1>3 DEF S

\* update() takes in the bytes it is given.
LEMMA UpdateTakes ==
    ASSUME NEW s, NEW w, NEW n \in Nat, Holds(s, w, n),
           NEW data, Len(data) \in Nat, n + Len(data) <= Len(w),
           \A i \in 1 .. Len(data) : data[i] = w[n + i]
    PROVE  Holds(Update(s, data), w, n + Len(data))
<1> DEFINE l == Len(data)
           f == CHOOSE r : AfterFn(r, s, data, l)
<1>1. AfterFn(f, s, data, l)
  <2>1. \E r : AfterFn(r, s, data, l)
    BY AfterExists
  <2> QED BY <2>1, Zenon
<1>2. Update(s, data) = f[l]
  BY Zenon DEF Update, AfterFn
<1>3. l \in Nat /\ n + l <= Len(w) /\ \A i \in 1 .. l : data[i] = w[n + i]
  OBVIOUS
<1>4. Len(w) \in Nat
  BY LenProperties DEF Holds
<1> HIDE DEF f, l
<1> DEFINE S == {i \in Nat : i <= l => Holds(f[i], w, n + i)}
<1> HIDE DEF S
<1>5. 0 \in S
  <2>1. f[0] = s /\ n + 0 = n
    BY <1>1, <1>3 DEF AfterFn
  <2> QED BY <2>1 DEF S
<1>6. ASSUME NEW i \in S PROVE i + 1 \in S
  <2>1. SUFFICES ASSUME NEW k \in Nat, k = i + 1, k <= l PROVE Holds(f[k], w, n + k)
    BY DEF S
  <2>2. i \in Nat /\ Holds(f[i], w, n + i)
    BY <2>1, <1>3 DEF S
  <2>3. k \in 0 .. l /\ k \in 1 .. l /\ k # 0 /\ k - 1 = i
    BY <2>1, <2>2, <1>3
  <2>4. f[k] = Put(f[i], data[k])
    BY <2>3, <1>1 DEF AfterFn
  <2>5. data[k] = w[n + k] /\ n + k = (n + i) + 1 /\ n + i < Len(w)
    BY <2>1, <2>2, <2>3, <1>4, <1>3
  <2>6. Holds(Put(f[i], w[(n + i) + 1]), w, (n + i) + 1)
    BY <2>2, <2>5, PutTakes
  <2> QED BY <2>4, <2>5, <2>6
<1>7. S = Nat
  <2>1. S \in SUBSET Nat
    BY DEF S
  <2> QED BY <1>5, <1>6, <2>1, SetInduction
<1>8. Holds(f[l], w, n + l)
  <2>1. l \in S /\ l <= l
    BY <1>3, <1>7
  <2> QED BY <2>1 DEF S
<1> QED BY <1>2, <1>8 DEF l

\* How far the buffer is filled after more bytes, whatever they are.
LEMMA BufferLength ==
    ASSUME NEW s, NEW w, NEW n \in Nat, Holds(s, w, n),
           NEW data \in Seq(Int)
    PROVE  Len(Update(s, data).buf) = (n + Len(data)) % BlockLen
<1> DEFINE l == Len(data)
           v == [i \in 1 .. n + l |-> IF i <= n THEN w[i] ELSE data[i - n]]
<1>1. l \in Nat /\ w \in Seq(Int) /\ Len(w) \in Nat /\ n <= Len(w)
  BY LenProperties DEF Holds
<1>2. \A i \in 1 .. n + l : (IF i <= n THEN w[i] ELSE data[i - n]) \in Int
  <2> TAKE i \in 1 .. n + l
  <2>1. CASE i <= n
    <3>1. i \in 1 .. Len(w)
      BY <2>1, <1>1
    <3> QED BY <2>1, <3>1, <1>1, ElementOfSeq
  <2>2. CASE ~ i <= n
    <3>1. i - n \in 1 .. Len(data)
      BY <2>2, <1>1
    <3> QED BY <2>2, <3>1, ElementOfSeq
  <2> QED BY <2>1, <2>2
<1>3. v \in Seq(Int) /\ Len(v) = n + l
  <2>1. n + l \in Nat
    BY <1>1
  <2>2. v \in Seq(Int)
    BY <2>1, <1>2, IsASeq
  <2>3. DOMAIN v = 1 .. n + l
    OBVIOUS
  <2> HIDE DEF v
  <2> QED BY <2>1, <2>2, <2>3, LenProperties
<1>4. \A i \in 1 .. n : v[i] = w[i]
  BY <1>1
<1>5. \A i \in 1 .. l : data[i] = v[n + i]
  <2> TAKE i \in 1 .. l
  <2>1. n + i \in 1 .. n + l /\ ~ n + i <= n /\ (n + i) - n = i
    BY <1>1
  <2> QED BY <2>1
<1> HIDE DEF v
<1>6. Holds(s, v, n)
  <2> DEFINE k   == Len(s.blocks)
             off == k * BlockLen
  <2>1. k \in Nat /\ Len(s.buf) \in Nat /\ off \in Nat /\ n = off + Len(s.buf)
    BY BlockFacts, LenProperties, Product DEF Holds
  <2>2. ASSUME NEW i \in 1 .. k, NEW j \in 1 .. BlockLen
        PROVE  v[(i - 1) * BlockLen + j] = w[(i - 1) * BlockLen + j]
    <3> HIDE DEF k
    <3>1. i - 1 \in Nat /\ i <= k /\ i = (i - 1) + 1 /\ i \in Nat
      BY <2>1
    <3>2. i * BlockLen <= off /\ i * BlockLen = (i - 1) * BlockLen + BlockLen
          /\ (i - 1) * BlockLen \in Nat
      <4>1. i * BlockLen <= k * BlockLen
        BY <3>1, <2>1, BlockFacts, MultiplesOrdered
      <4>2. /\ ((i - 1) + 1) * BlockLen = (i - 1) * BlockLen + BlockLen
            /\ (i - 1) * BlockLen \in Nat
        BY <3>1, BlockFacts, NextMultiple
      <4> QED BY <3>1, <4>1, <4>2
    <3> DEFINE z == (i - 1) * BlockLen
    <3>3. z \in Nat /\ z + BlockLen <= off
      BY <3>2
    <3> HIDE DEF z, off
    <3>4. z + j \in 1 .. n
      BY <3>3, <2>1, BlockFacts
    <3> QED BY <3>4, <1>4 DEF z
  <2>3. ASSUME NEW j \in 1 .. Len(s.buf)
        PROVE  v[off + j] = w[off + j]
    <3> HIDE DEF off
    <3>1. off + j \in 1 .. n
      BY <2>1
    <3> QED BY <3>1, <1>4
  <2>4. n \in 0 .. Len(v)
    BY <1>1, <1>3
  <2> QED BY <1>3, <2>2, <2>3, <2>4 DEF Holds
<1>7. Holds(Update(s, data), v, n + l)
  <2>1. n + Len(data) <= Len(v) /\ Len(data) \in Nat
    BY <1>1, <1>3
  <2>2. \A i \in 1 .. Len(data) : data[i] = v[n + i]
    BY <1>5
  <2>3. Holds(Update(s, data), v, n + Len(data))
    BY <2>1, <2>2, <1>6, UpdateTakes
  <2> QED BY <2>3
<1> DEFINE t == Update(s, data)
           k == Len(t.blocks)
           r == Len(t.buf)
<1>8. k \in Nat /\ r \in Nat /\ r < BlockLen /\ n + l = k * BlockLen + r
  BY <1>7, LenProperties DEF Holds
<1> HIDE DEF k, r
<1>9. (k * BlockLen + r) % BlockLen = r
  BY <1>8, BlockFacts, DivisionUnique
<1> QED BY <1>8, <1>9 DEF r

\* f satisfies the recursion that joins the first sequences of seqs.
FlatFn(f, seqs, n) ==
    f = [i \in 1 .. n |-> IF i = 1 THEN seqs[i] ELSE f[i - 1] \o seqs[i]]

\* The joined sequences exist.
LEMMA FlatExists ==
    ASSUME NEW seqs, NEW n \in Nat
    PROVE  \E f : FlatFn(f, seqs, n)
<1> DEFINE S == {m \in Nat : \E f : FlatFn(f, seqs, m)}
<1>1. 0 \in S
  <2> DEFINE f == [i \in 1 .. 0 |-> 0]
  <2>1. FlatFn(f, seqs, 0)
    BY DEF FlatFn
  <2> HIDE DEF f
  <2> QED BY <2>1
<1>2. ASSUME NEW m \in S PROVE m + 1 \in S
  <2>1. PICK f : FlatFn(f, seqs, m)
    OBVIOUS
  <2> DEFINE top == IF m = 0 THEN seqs[1] ELSE f[m] \o seqs[m + 1]
             g   == [i \in 1 .. m + 1 |-> IF i = m + 1 THEN top ELSE f[i]]
  <2>2. m \in Nat
    OBVIOUS
  <2>3. \A i \in 1 .. m + 1 : g[i] = IF i = 1 THEN seqs[i] ELSE g[i - 1] \o seqs[i]
    <3> TAKE i \in 1 .. m + 1
    <3>1. CASE i = m + 1 /\ m = 0
      BY <3>1
    <3>2. CASE i = m + 1 /\ m # 0
      <4>1. i # 1 /\ i - 1 = m /\ g[m] = f[m]
        BY <3>2, <2>2
      <4>2. g[i] = f[m] \o seqs[m + 1]
        BY <3>2
      <4> QED BY <3>2, <4>1, <4>2
    <3>3. CASE i # m + 1
      <4>1. i \in 1 .. m /\ g[i] = f[i]
        BY <3>3, <2>2
      <4>2. f[i] = IF i = 1 THEN seqs[i] ELSE f[i - 1] \o seqs[i]
        BY <4>1, <2>1 DEF FlatFn
      <4>3. i # 1 => g[i - 1] = f[i - 1]
        BY <4>1, <2>2
      <4> QED BY <4>1, <4>2, <4>3
    <3> QED BY <3>1, <3>2, <3>3
  <2>4. FlatFn(g, seqs, m + 1)
    BY <2>3 DEF FlatFn
  <2> HIDE DEF g
  <2> QED BY <2>2, <2>4
<1> HIDE DEF S
<1>3. S = Nat
  <2>1. S \in SUBSET Nat
    BY DEF S
  <2> QED BY <1>1, <1>2, <2>1, SetInduction
<1> QED BY <1>3 DEF S

\* When all of w was taken in and the buffer is empty, the blocks are w.
LEMMA BlocksAreWhole ==
    ASSUME NEW s, NEW w, Holds(s, w, Len(w)), Len(s.buf) = 0
    PROVE  FlattenSeq(s.blocks) = w
<1> DEFINE n    == Len(s.blocks)
           seqs == s.blocks
<1>1. /\ seqs \in Seq(Seq(Int)) /\ n \in Nat /\ w \in Seq(Int) /\ Len(w) \in Nat
      /\ Len(w) = n * BlockLen + 0
  BY LenProperties DEF Holds
<1>2. \A i \in 1 .. n : /\ Len(seqs[i]) = BlockLen
                        /\ \A j \in 1 .. BlockLen : seqs[i][j] = w[(i - 1) * BlockLen + j]
  BY DEF Holds
<1>3. \A i \in 1 .. n : seqs[i] \in Seq(Int)
  BY <1>1, ElementOfSeq
<1>4. n * BlockLen \in Nat /\ Len(w) = n * BlockLen
  <2> HIDE DEF n
  <2> QED BY <1>1, BlockFacts, Product
<1>5. CASE n = 0
  <2>1. Len(w) = 0
    BY <1>4, <1>5, BlockFacts
  <2>2. w = <<>> /\ seqs = <<>>
    BY <1>1, <1>5, <2>1, EmptySeq
  <2> QED BY <1>5, <2>2 DEF FlattenSeq
<1>6. CASE n # 0
  <2> DEFINE f == CHOOSE g : FlatFn(g, seqs, n)
  <2>1. FlatFn(f, seqs, n)
    <3>1. \E g : FlatFn(g, seqs, n)
      BY <1>1, FlatExists
    <3> QED BY <3>1, Zenon
  <2>2. FlattenSeq(seqs) = f[n]
    BY <1>6, Zenon DEF FlattenSeq, FlatFn
  <2> HIDE DEF f, n, seqs
  <2> DEFINE Part(i) == /\ f[i] \in Seq(Int) /\ Len(f[i]) = i * BlockLen
                        /\ \A k \in 1 .. i * BlockLen : f[i][k] = w[k]
             S == {i \in Nat : i < n => Part(i + 1)}
  <2> HIDE DEF S
  <2>3. 0 \in S
    <3>1. 1 \in 1 .. n
      BY <1>1, <1>6
    <3>2. f[1] = seqs[1]
      BY <3>1, <2>1 DEF FlatFn
    <3>3. (1 - 1) * BlockLen = 0 /\ 1 * BlockLen = BlockLen /\ 0 + 1 = 1
      BY BlockFacts
    <3>4. \A j \in 1 .. BlockLen : 0 + j = j
      BY BlockFacts
    <3>5. \A j \in 1 .. BlockLen : seqs[1][j] = w[(1 - 1) * BlockLen + j]
      BY <3>1, <1>2
    <3>6. \A j \in 1 .. BlockLen : seqs[1][j] = w[j]
      BY <3>3, <3>4, <3>5
    <3>7. Part(1)
      BY <3>1, <3>2, <3>3, <3>6, <1>2, <1>3
    <3> QED BY <3>3, <3>7 DEF S
  <2>4. ASSUME NEW i \in S PROVE i + 1 \in S
    <3>1. SUFFICES ASSUME NEW k \in Nat, k = i + 1, k < n PROVE Part(k + 1)
      BY DEF S
    <3>2. i \in Nat /\ Part(k)
      BY <3>1, <1>1 DEF S
    <3> DEFINE m   == k + 1
               off == k * BlockLen
    <3>3. m \in 1 .. n /\ m # 1 /\ m - 1 = k
      BY <3>1, <3>2, <1>1
    <3>4. f[m] = f[k] \o seqs[m]
      BY <3>3, <2>1 DEF FlatFn
    <3>5. off \in Nat /\ m * BlockLen = off + BlockLen
      BY <3>1, BlockFacts, NextMultiple
    <3>6. f[k] \in Seq(Int) /\ Len(f[k]) = off /\ \A z \in 1 .. off : f[k][z] = w[z]
      BY <3>2
    <3>7. /\ seqs[m] \in Seq(Int) /\ Len(seqs[m]) = BlockLen
          /\ \A j \in 1 .. BlockLen : seqs[m][j] = w[off + j]
      BY <3>3, <1>2, <1>3
    <3> HIDE DEF m, off, Part
    <3>8. /\ f[m] \in Seq(Int) /\ Len(f[m]) = off + BlockLen
          /\ \A z \in 1 .. off + BlockLen :
                f[m][z] = IF z <= off THEN f[k][z] ELSE seqs[m][z - off]
      <4> DEFINE a == f[k]
                 b == seqs[m]
      <4>1. a \in Seq(Int) /\ b \in Seq(Int) /\ Len(a) = off /\ Len(b) = BlockLen
        BY <3>6, <3>7
      <4> HIDE DEF a, b
      <4>2. /\ a \o b \in Seq(Int) /\ Len(a \o b) = Len(a) + Len(b)
            /\ \A z \in 1 .. Len(a) + Len(b) :
                  (a \o b)[z] = IF z <= Len(a) THEN a[z] ELSE b[z - Len(a)]
        BY <4>1, ConcatProperties
      <4>3. f[m] = a \o b
        BY <3>4 DEF a, b
      <4> QED BY <4>1, <4>2, <4>3, Zenon DEF a, b
    <3>9. ASSUME NEW z \in 1 .. off + BlockLen PROVE f[m][z] = w[z]
      <4>1. CASE z <= off
        <5>1. z \in 1 .. off
          BY <4>1, <3>5, BlockFacts
        <5> QED BY <4>1, <5>1, <3>6, <3>8
      <4>2. CASE ~ z <= off
        <5>1. z - off \in 1 .. BlockLen /\ off + (z - off) = z
          BY <4>2, <3>5, BlockFacts
        <5>2. seqs[m][z - off] = w[off + (z - off)]
          BY <5>1, <3>7
        <5> QED BY <4>2, <5>1, <5>2, <3>8
      <4> QED BY <4>1, <4>2
    <3>10. Part(m)
      BY <3>5, <3>8, <3>9 DEF Part
    <3> QED BY <3>10 DEF m
  <2>5. S = Nat
    <3>1. S \in SUBSET Nat
      BY DEF S
    <3> QED BY <2>3, <2>4, <3>1, SetInduction
  <2>6. Part(n)
    <3>1. n - 1 \in Nat /\ n - 1 < n /\ (n - 1) + 1 = n
      BY <1>1, <1>6
    <3>2. n - 1 \in S
      BY <3>1, <2>5
    <3>3. Part((n - 1) + 1)
      BY <3>1, <3>2 DEF S
    <3> QED BY <3>1, <3>3
  <2>7. f[n] \in Seq(Int) /\ Len(f[n]) = Len(w) /\ \A k \in 1 .. Len(f[n]) : f[n][k] = w[k]
    BY <2>6, <1>4
  <2>8. f[n] = w
    BY <2>7, <1>1, SeqEqual
  <2> QED BY <2>2, <2>8 DEF seqs
<1> QED BY <1>5, <1>6

\* The numbers of zeros after which only the length is missing from the last block.
Room(n) == {z \in 0 .. BlockLen : (n + 1 + z) % BlockLen = BlockLen - LenLen}

\* The lengths at which message, bit and length fill whole blocks.
Fits(n) == {k \in 1 .. n + 2 * BlockLen + 1 : k % BlockLen = 0 /\ k >= n + 1 + LenLen}

\* The zeros after which the loop of finish() stops are the fewest that fill the last
\* block up.
LEMMA FewestZeros ==
    ASSUME NEW n \in Nat
    PROVE  /\ Min(Room(n)) \in Nat
           /\ (n + 1 + Min(Room(n))) % BlockLen = BlockLen - LenLen
           /\ Min(Fits(n)) = n + 1 + Min(Room(n)) + LenLen
           /\ Min(Fits(n)) % BlockLen = 0
<1> DEFINE q == (n + 1) \div BlockLen
           r == (n + 1) % BlockLen
           z == Min(Room(n))
           t == Min(Fits(n))
<1>1. q \in Nat /\ r \in 0 .. BlockLen - 1 /\ n + 1 = q * BlockLen + r
  BY BlockFacts, Remainder
<1> HIDE DEF q, r
<1>2. ASSUME NEW k \in Nat, NEW x \in 0 .. BlockLen - 1
      PROVE  (k * BlockLen + x) % BlockLen = x
  BY BlockFacts, DivisionUnique
<1>3. BlockLen - LenLen \in 0 .. BlockLen - 1
  BY BlockFacts
<1>4. Room(n) # {}
  <2> DEFINE off == q * BlockLen
  <2>1. off \in Nat /\ (q + 1) * BlockLen = off + BlockLen
    BY <1>1, BlockFacts, NextMultiple
  <2>2. CASE r <= BlockLen - LenLen
    <3> DEFINE y == BlockLen - LenLen - r
    <3>1. y \in 0 .. BlockLen
      BY <2>2, <1>1, BlockFacts
    <3>2. n + 1 + y = q * BlockLen + (BlockLen - LenLen)
      <4> HIDE DEF off
      <4>1. n + 1 + y = off + (BlockLen - LenLen)
        <5>1. n + 1 = off + r
          BY <1>1 DEF off
        <5> QED BY <5>1, <2>1, <1>1, BlockFacts
      <4> QED BY <4>1 DEF off
    <3>3. (n + 1 + y) % BlockLen = BlockLen - LenLen
      BY <3>2, <1>1, <1>2, <1>3
    <3> QED BY <3>1, <3>3 DEF Room
  <2>3. CASE ~ r <= BlockLen - LenLen
    <3> DEFINE y == BlockLen + BlockLen - LenLen - r
    <3>1. y \in 0 .. BlockLen
      BY <2>3, <1>1, BlockFacts
    <3>2. n + 1 + y = (q + 1) * BlockLen + (BlockLen - LenLen)
      <4> HIDE DEF off
      <4>1. n + 1 + y = off + BlockLen + (BlockLen - LenLen)
        <5>1. n + 1 = off + r
          BY <1>1 DEF off
        <5> QED BY <5>1, <2>1, <1>1, BlockFacts
      <4> QED BY <4>1, <2>1
    <3>3. (n + 1 + y) % BlockLen = BlockLen - LenLen
      <4>1. q + 1 \in Nat
        BY <1>1
      <4> QED BY <3>2, <4>1, <1>2, <1>3
    <3> QED BY <3>1, <3>3 DEF Room
  <2> QED BY <2>2, <2>3
<1>5. z \in Room(n) /\ \A y \in Room(n) : z <= y
  <2>1. Room(n) \in SUBSET Nat
    BY BlockFacts DEF Room
  <2> QED BY <2>1, <1>4, Minimum
<1> HIDE DEF z
<1>6. z \in 0 .. BlockLen /\ z \in Nat /\ (n + 1 + z) % BlockLen = BlockLen - LenLen
  BY <1>5, BlockFacts DEF Room
<1> DEFINE e == n + 1 + z + LenLen
           c == (n + 1 + z) \div BlockLen
<1>7. c \in Nat /\ n + 1 + z = c * BlockLen + (BlockLen - LenLen)
  <2>1. n + 1 + z \in Nat
    BY <1>6
  <2> QED BY <2>1, <1>6, BlockFacts, Remainder
<1> HIDE DEF c
<1>8. e = (c + 1) * BlockLen + 0
  <2> DEFINE off == c * BlockLen
  <2>1. /\ off \in Nat /\ (c + 1) * BlockLen = off + BlockLen
        /\ n + 1 + z = off + (BlockLen - LenLen)
    BY <1>7, BlockFacts, NextMultiple
  <2> HIDE DEF off
  <2> QED BY <2>1, <1>6, BlockFacts
<1>9. e % BlockLen = 0
  <2>1. c + 1 \in Nat /\ 0 \in 0 .. BlockLen - 1
    BY <1>7, BlockFacts
  <2> HIDE DEF e
  <2> QED BY <2>1, <1>2, <1>8
<1>10. e \in Nat /\ e \in 1 .. n + 2 * BlockLen + 1 /\ e >= n + 1 + LenLen
  BY <1>6, BlockFacts
<1>11. e \in Fits(n)
  BY <1>9, <1>10 DEF Fits
<1>12. t \in Fits(n) /\ \A y \in Fits(n) : t <= y
  <2>1. Fits(n) \in SUBSET Nat
    BY BlockFacts DEF Fits
  <2> QED BY <2>1, <1>11, Minimum
<1> HIDE DEF t
<1>13. t \in Nat /\ t >= n + 1 + LenLen /\ t % BlockLen = 0 /\ t <= e /\ t > 0
  BY <1>11, <1>12, BlockFacts DEF Fits
<1>14. t = e
  <2>1. SUFFICES ASSUME t < e PROVE FALSE
    BY <1>10, <1>13
  <2> DEFINE y == t - LenLen - (n + 1)
             d == t \div BlockLen
  <2>2. y \in 0 .. BlockLen /\ y < z /\ n + 1 + y = t - LenLen
    BY <2>1, <1>6, <1>13, BlockFacts
  <2>3. d \in Nat /\ t = d * BlockLen + 0
    BY <1>13, BlockFacts, Remainder
  <2> HIDE DEF d, y
  <2>4. d # 0
    <3>1. 0 * BlockLen + 0 = 0
      BY BlockFacts
    <3> QED BY <3>1, <2>3, <1>13
  <2>5. d - 1 \in Nat /\ d = (d - 1) + 1
    BY <2>3, <2>4
  <2>6. t - LenLen = (d - 1) * BlockLen + (BlockLen - LenLen)
    <3> DEFINE off == (d - 1) * BlockLen
    <3>1. off \in Nat /\ d * BlockLen = off + BlockLen
      BY <2>5, BlockFacts, NextMultiple
    <3> HIDE DEF off
    <3>2. t - LenLen = off + (BlockLen - LenLen)
      BY <3>1, <2>3, <1>13, BlockFacts
    <3> QED BY <3>2 DEF off
  <2>7. (n + 1 + y) % BlockLen = BlockLen - LenLen
    BY <2>2, <2>5, <2>6, <1>2, <1>3
  <2>8. y \in Room(n)
    BY <2>2, <2>7 DEF Room
  <2> QED BY <2>2, <2>8, <1>5, <1>6
<1> QED BY <1>6, <1>9, <1>14 DEF z, t

\* Two strings, one after the other.
LEMMA Joined ==
    ASSUME NEW a \in Seq(Int), NEW b \in Seq(Int)
    PROVE  /\ a \o b \in Seq(Int)
           /\ Len(a) \in Nat /\ Len(b) \in Nat
           /\ Len(a \o b) = Len(a) + Len(b)
           /\ \A i \in 1 .. Len(a) : (a \o b)[i] = a[i]
           /\ \A i \in 1 .. Len(b) : (a \o b)[Len(a) + i] = b[i]
<1>1. Len(a) \in Nat /\ Len(b) \in Nat
  BY LenProperties
<1>2. /\ a \o b \in Seq(Int) /\ Len(a \o b) = Len(a) + Len(b)
      /\ \A z \in 1 .. Len(a) + Len(b) :
            (a \o b)[z] = IF z <= Len(a) THEN a[z] ELSE b[z - Len(a)]
  BY ConcatProperties
<1>3. ASSUME NEW i \in 1 .. Len(a) PROVE (a \o b)[i] = a[i]
  <2>1. i \in 1 .. Len(a) + Len(b) /\ i <= Len(a)
    BY <1>1
  <2> QED BY <2>1, <1>2
<1>4. ASSUME NEW i \in 1 .. Len(b) PROVE (a \o b)[Len(a) + i] = b[i]
  <2>1. Len(a) + i \in 1 .. Len(a) + Len(b) /\ ~ Len(a) + i <= Len(a)
        /\ (Len(a) + i) - Len(a) = i
    BY <1>1
  <2> QED BY <2>1, <1>2
<1> QED BY <1>1, <1>2, <1>3, <1>4

\* What finish() adds to a message are bytes, in the number that is expected.
LEMMA PiecesType ==
    /\ <<2 ^^ (ByteBits - 1)>> \in Seq(Int) /\ Len(<<2 ^^ (ByteBits - 1)>>) = 1
    /\ \A n \in Nat : Msg(n) \in Seq(Int) /\ Len(Msg(n)) = n
    /\ \A n \in Nat : Zeros(n) \in Seq(Int) /\ Len(Zeros(n)) = n
    /\ \A b \in Nat : LenBytes(b) \in Seq(Int) /\ Len(LenBytes(b)) = LenLen
<1>1. <<2 ^^ (ByteBits - 1)>> \in Seq(Int) /\ Len(<<2 ^^ (ByteBits - 1)>>) = 1
  <2> DEFINE v == 2 ^^ (ByteBits - 1)
  <2>1. v \in Int
    <3>1. ByteBits - 1 \in Nat
      BY BlockFacts
    <3> QED BY <3>1, Powers
  <2> HIDE DEF v
  <2>2. <<v>> \in Seq(Int) /\ Len(<<v>>) = 1
    BY <2>1
  <2> QED BY <2>2 DEF v
<1>2. ASSUME NEW n \in Nat PROVE Msg(n) \in Seq(Int) /\ Len(Msg(n)) = n
  BY DEF Msg
<1>3. ASSUME NEW n \in Nat PROVE Zeros(n) \in Seq(Int) /\ Len(Zeros(n)) = n
  BY DEF Zeros
<1>4. ASSUME NEW b \in Nat PROVE LenBytes(b) \in Seq(Int) /\ Len(LenBytes(b)) = LenLen
  <2>1. \A i \in 1 .. LenLen :
           (b \div 2 ^^ (ByteBits * (LenLen - i))) % 2 ^^ ByteBits \in Int
    <3> TAKE i \in 1 .. LenLen
    <3>1. LenLen - i \in Nat /\ ByteBits \in Nat
      BY BlockFacts
    <3>2. ByteBits * (LenLen - i) \in Nat
      BY <3>1, Product
    <3> DEFINE p == 2 ^^ (ByteBits * (LenLen - i))
               q == 2 ^^ ByteBits
    <3>3. p \in Nat /\ p > 0 /\ q \in Nat /\ q > 0
      BY <3>1, <3>2, PowerPositive
    <3> HIDE DEF p, q
    <3>4. b \div p \in Nat
      BY <3>3, Remainder
    <3>5. (b \div p) % q \in 0 .. q - 1
      BY <3>3, <3>4, Remainder
    <3> QED BY <3>3, <3>5 DEF p, q
  <2>2. LenBytes(b) \in Seq(Int)
    BY <2>1, BlockFacts, IsASeq DEF LenBytes
  <2>3. DOMAIN LenBytes(b) = 1 .. LenLen
    BY DEF LenBytes
  <2> QED BY <2>2, <2>3, BlockFacts, LenProperties
<1> QED BY <1>1, <1>2, <1>3, <1>4

\* What transform() must see of a message m: m, the bit, z zeros, its length.
Padded(m, z, bits) == m \o <<2 ^^ (ByteBits - 1)>> \o Zeros(z) \o LenBytes(bits)

\* The padded message, byte by byte.
LEMMA PaddedFacts ==
    ASSUME NEW m \in Seq(Int), NEW z \in Nat, NEW bits \in Nat
    PROVE  LET w == Padded(m, z, bits)
               l == Len(m)
           IN  /\ w \in Seq(Int) /\ l \in Nat
               /\ Len(w) = l + 1 + z + LenLen
               /\ \A i \in 1 .. l : w[i] = m[i]
               /\ w[l + 1] = 2 ^^ (ByteBits - 1)
               /\ \A i \in 1 .. z : w[l + 1 + i] = Zeros(z)[i]
               /\ \A i \in 1 .. LenLen : w[l + 1 + z + i] = LenBytes(bits)[i]
<1> DEFINE l == Len(m)
           o == <<2 ^^ (ByteBits - 1)>>
           a == m \o o
           b == a \o Zeros(z)
           w == b \o LenBytes(bits)
<1>1. w = Padded(m, z, bits) /\ o[1] = 2 ^^ (ByteBits - 1)
  BY DEF Padded
<1>2. /\ o \in Seq(Int) /\ Len(o) = 1
      /\ Zeros(z) \in Seq(Int) /\ Len(Zeros(z)) = z
      /\ LenBytes(bits) \in Seq(Int) /\ Len(LenBytes(bits)) = LenLen
  BY PiecesType
<1> HIDE DEF o
<1>3. /\ a \in Seq(Int) /\ l \in Nat /\ Len(a) = l + 1
      /\ \A i \in 1 .. l : a[i] = m[i]
      /\ a[l + 1] = o[1]
  <2>1. /\ a \in Seq(Int) /\ l \in Nat /\ Len(a) = l + Len(o)
        /\ \A i \in 1 .. l : a[i] = m[i]
        /\ \A i \in 1 .. Len(o) : a[l + i] = o[i]
    BY <1>2, Joined
  <2> QED BY <2>1, <1>2
<1> HIDE DEF a
<1>4. /\ b \in Seq(Int) /\ Len(b) = l + 1 + z
      /\ \A i \in 1 .. l + 1 : b[i] = a[i]
      /\ \A i \in 1 .. z : b[l + 1 + i] = Zeros(z)[i]
  <2>1. /\ b \in Seq(Int) /\ Len(b) = Len(a) + Len(Zeros(z))
        /\ \A i \in 1 .. Len(a) : b[i] = a[i]
        /\ \A i \in 1 .. Len(Zeros(z)) : b[Len(a) + i] = Zeros(z)[i]
    BY <1>2, <1>3, Joined
  <2> QED BY <2>1, <1>2, <1>3
<1> HIDE DEF b
<1>5. /\ w \in Seq(Int) /\ Len(w) = l + 1 + z + LenLen
      /\ \A i \in 1 .. l + 1 + z : w[i] = b[i]
      /\ \A i \in 1 .. LenLen : w[l + 1 + z + i] = LenBytes(bits)[i]
  <2>1. /\ w \in Seq(Int) /\ Len(w) = Len(b) + Len(LenBytes(bits))
        /\ \A i \in 1 .. Len(b) : w[i] = b[i]
        /\ \A i \in 1 .. Len(LenBytes(bits)) : w[Len(b) + i] = LenBytes(bits)[i]
    BY <1>2, <1>4, Joined
  <2> QED BY <2>1, <1>2, <1>4
<1> HIDE DEF w, l
<1>6. \A i \in 1 .. l : w[i] = m[i]
  <2> TAKE i \in 1 .. l
  <2>1. i \in 1 .. l + 1 + z /\ i \in 1 .. l + 1
    BY <1>3
  <2> QED BY <2>1, <1>3, <1>4, <1>5
<1>7. w[l + 1] = o[1]
  <2>1. l + 1 \in 1 .. l + 1 + z /\ l + 1 \in 1 .. l + 1
    BY <1>3
  <2> QED BY <2>1, <1>3, <1>4, <1>5
<1>8. \A i \in 1 .. z : w[l + 1 + i] = Zeros(z)[i]
  <2> TAKE i \in 1 .. z
  <2>1. l + 1 + i \in 1 .. l + 1 + z
    BY <1>3
  <2> QED BY <2>1, <1>4, <1>5
<1> QED BY <1>1, <1>3, <1>5, <1>6, <1>7, <1>8 DEF l

\* The length that finish() writes down is that of the bytes taken in.
LEMMA BitsTaken ==
    ASSUME NEW s, NEW w, NEW n, Holds(s, w, n)
    PROVE  Bits(s) = (n * ByteBits) % LenMod
<1> DEFINE k == Len(s.blocks)
           r == Len(s.buf)
<1>1. /\ k \in Nat /\ r \in Nat /\ n = k * BlockLen + r
      /\ s.bitlen = (k * (BlockLen * ByteBits)) % LenMod
  BY LenProperties DEF Holds
<1>2. Bits(s) = (s.bitlen + r * ByteBits) % LenMod
  BY DEF Bits
<1> HIDE DEF k, r
<1> DEFINE x == k * (BlockLen * ByteBits)
           y == r * ByteBits
<1>3. BlockLen \in Nat /\ ByteBits \in Nat /\ LenMod \in Nat /\ LenMod > 0
  BY BlockFacts
<1>4. BlockLen * ByteBits \in Nat
  BY <1>3, Product
<1>5. x \in Nat /\ y \in Nat
  BY <1>1, <1>3, <1>4, Product
<1>6. n * ByteBits = x + y
  BY <1>1, <1>3
<1> HIDE DEF x, y
<1>7. ((x % LenMod) + y) % LenMod = (x + y) % LenMod
  BY <1>3, <1>5, RemainderSum
<1> QED BY <1>1, <1>2, <1>6, <1>7 DEF x, y

\* finish() adds to a message of n bytes one bit, the fewest zeros, the length.
LEMMA FinishPads ==
    ASSUME NEW m \in Seq(Int), NEW s,
           Holds(s, Padded(m, Min(Room(Len(m))), (Len(m) * ByteBits) % LenMod), Len(m))
    PROVE  LET w == Padded(m, Min(Room(Len(m))), (Len(m) * ByteBits) % LenMod)
           IN  Holds(Finish(s), w, Len(w)) /\ Len(Finish(s).buf) = 0
<1> DEFINE n    == Len(m)
           z    == Min(Room(n))
           bits == (n * ByteBits) % LenMod
           w    == Padded(m, z, bits)
           one  == Put(s, 2 ^^ (ByteBits - 1))
           p    == Update(one, Zeros(z))
           e    == Update(p, LenBytes(bits))
<1>1. n \in Nat
  BY LenProperties
<1>2. /\ z \in Nat
      /\ Min(Fits(n)) = n + 1 + z + LenLen
      /\ Min(Fits(n)) % BlockLen = 0
  BY <1>1, FewestZeros
<1>3. bits \in Nat
  <2>1. n * ByteBits \in Nat
    BY <1>1, BlockFacts, Product
  <2> QED BY <2>1, BlockFacts, Remainder
<1>4. Holds(s, w, n)
  OBVIOUS
<1>5. Bits(s) = bits
  BY <1>4, BitsTaken
<1> HIDE DEF z, bits
<1>6. /\ w \in Seq(Int)
      /\ Len(w) = n + 1 + z + LenLen
      /\ w[n + 1] = 2 ^^ (ByteBits - 1)
      /\ \A i \in 1 .. z : w[n + 1 + i] = Zeros(z)[i]
      /\ \A i \in 1 .. LenLen : w[n + 1 + z + i] = LenBytes(bits)[i]
  <2>1. /\ w \in Seq(Int) /\ Len(w) = n + 1 + z + LenLen
        /\ w[n + 1] = 2 ^^ (ByteBits - 1)
    BY <1>2, <1>3, PaddedFacts
  <2>2. \A i \in 1 .. z : w[n + 1 + i] = Zeros(z)[i]
    BY <1>2, <1>3, PaddedFacts
  <2>3. \A i \in 1 .. LenLen : w[n + 1 + z + i] = LenBytes(bits)[i]
    BY <1>2, <1>3, PaddedFacts
  <2> QED BY <2>1, <2>2, <2>3
<1> HIDE DEF w, n
<1>7. Holds(one, w, n + 1)
  <2>1. n < Len(w)
    BY <1>1, <1>2, <1>6, BlockFacts
  <2>2. Holds(Put(s, w[n + 1]), w, n + 1)
    BY <1>4, <2>1, PutTakes
  <2> QED BY <2>2, <1>6
<1> HIDE DEF one
<1>8. Pad(s) = p
  <2>1. ASSUME NEW y \in 0 .. BlockLen
        PROVE  Len(Update(one, Zeros(y)).buf) = (n + 1 + y) % BlockLen
    <3>1. y \in Nat
      BY BlockFacts
    <3>2. Zeros(y) \in Seq(Int) /\ Len(Zeros(y)) = y
      BY <3>1, PiecesType
    <3>3. n + 1 \in Nat
      BY <1>1
    <3>4. Len(Update(one, Zeros(y)).buf) = ((n + 1) + Len(Zeros(y))) % BlockLen
      BY <1>7, <3>2, <3>3, BufferLength
    <3> QED BY <3>2, <3>4
  <2>2. {y \in 0 .. BlockLen : Len(Update(one, Zeros(y)).buf) = BlockLen - LenLen} = Room(n)
    BY <2>1 DEF Room
  <2> QED BY <2>2, Zenon DEF Pad, one, p, z
<1>9. Holds(p, w, n + 1 + z)
  <2>1. Len(Zeros(z)) = z
    BY <1>2, PiecesType
  <2>2. n + 1 \in Nat /\ (n + 1) + z <= Len(w)
    BY <1>1, <1>2, <1>6, BlockFacts
  <2>3. \A i \in 1 .. Len(Zeros(z)) : Zeros(z)[i] = w[(n + 1) + i]
    BY <1>6, <2>1
  <2>4. Len(Zeros(z)) \in Nat /\ (n + 1) + Len(Zeros(z)) <= Len(w)
    BY <1>2, <2>1, <2>2
  <2>5. Holds(p, w, (n + 1) + Len(Zeros(z)))
    BY <1>7, <2>2, <2>3, <2>4, UpdateTakes
  <2> QED BY <2>1, <2>5
<1> HIDE DEF p
<1>10. Holds(e, w, Len(w))
  <2> DEFINE d == LenBytes(bits)
             h == n + 1 + z
  <2>1. Len(d) = LenLen
    BY <1>3, PiecesType
  <2>2. h \in Nat /\ Len(w) = h + LenLen /\ Len(w) \in Nat
    BY <1>1, <1>2, <1>6, BlockFacts
  <2>3. \A i \in 1 .. Len(d) : d[i] = w[h + i]
    BY <1>6, <2>1
  <2>4. Len(d) \in Nat /\ h + Len(d) <= Len(w)
    BY <2>1, <2>2, BlockFacts
  <2> HIDE DEF d, h
  <2>5. Holds(Update(p, d), w, h + Len(d))
    BY <1>9, <2>2, <2>3, <2>4, UpdateTakes DEF h
  <2> QED BY <2>1, <2>2, <2>5 DEF d
<1>11. Finish(s) = e
  BY <1>5, <1>8 DEF Finish
<1> HIDE DEF e
<1>12. Len(e.buf) = 0
  <2> DEFINE k == Len(e.blocks)
             r == Len(e.buf)
  <2>1. k \in Nat /\ r \in Nat /\ r < BlockLen /\ Len(w) = k * BlockLen + r
    BY <1>10, LenProperties DEF Holds
  <2> HIDE DEF k, r
  <2>2. (k * BlockLen + r) % BlockLen = r
    BY <2>1, BlockFacts, DivisionUnique
  <2>3. Len(w) % BlockLen = 0
    BY <1>2, <1>6
  <2> QED BY <2>1, <2>2, <2>3 DEF r
<1> QED BY <1>10, <1>11, <1>12 DEF w, n, z, bits

\* However a message is cut into updates, transform() is given the message, one bit, the
\* fewest zeros that fill the last block, and the length of the message before padding; for
\* every length, those at a block boundary and those over 2^64 bits (where the length
\* wraps) included.
THEOREM PaddingIsExact == Spec => []PaddingExact
<1>1. Returned => PaddingExact
  <2> SUFFICES ASSUME Returned, Done("sha256") PROVE PaddingExact
    BY DEF PaddingExact
  <2> DEFINE n     == input.len
             cut   == input.cut
             m     == Msg(n)
             a     == SubSeq(m, 1, cut)
             b     == SubSeq(m, cut + 1, n)
             first == Update(Fresh, a)
             s     == Update(first, b)
             z     == Min(Room(n))
             bits  == (n * ByteBits) % LenMod
             w     == Padded(m, z, bits)
  <2>1. n \in Nat /\ cut \in Nat /\ cut <= n
    <3>1. input \in Message
      BY InputTypes DEF Returned, Done
    <3> QED BY <3>1 DEF Message
  <2>2. Result = Finish(s)
    BY DEF Returned
  <2> HIDE DEF n, cut
  <2>3. m \in Seq(Int) /\ Len(m) = n
    BY <2>1, PiecesType
  <2> HIDE DEF m
  <2>4. /\ Len(a) = cut /\ \A i \in 1 .. cut : a[i] = m[i]
        /\ Len(b) = n - cut /\ \A i \in 1 .. n - cut : b[i] = m[cut + i]
    <3>1. Len(a) = cut /\ \A i \in 1 .. cut : a[i] = m[i]
      BY <2>1, <2>3
    <3>2. Len(b) = n - cut /\ \A i \in 1 .. n - cut : b[i] = m[cut + i]
      BY <2>1, <2>3
    <3> QED BY <3>1, <3>2
  <2> HIDE DEF a, b
  <2>5. z \in Nat /\ bits \in Nat /\ Min(Fits(n)) = n + 1 + z + LenLen
    <3>1. n * ByteBits \in Nat
      BY <2>1, BlockFacts, Product
    <3> QED BY <3>1, <2>1, BlockFacts, Remainder, FewestZeros
  <2> HIDE DEF z, bits
  <2>6. w \in Seq(Int) /\ Len(w) = n + 1 + z + LenLen /\ \A i \in 1 .. n : w[i] = m[i]
    BY <2>3, <2>5, PaddedFacts
  <2>7. Len(w) \in Nat /\ n <= Len(w)
    BY <2>1, <2>5, <2>6, BlockFacts
  <2> HIDE DEF w
  <2>8. Holds(Fresh, w, 0)
    <3>1. /\ Fresh \in [blocks : Seq(Seq(Int)), buf : Seq(Int), bitlen : Nat]
          /\ Fresh.blocks = <<>> /\ Fresh.buf = <<>> /\ Fresh.bitlen = 0
          /\ Len(<<>>) = 0
      BY DEF Fresh
    <3>2. 0 * BlockLen + 0 = 0 /\ 0 * (BlockLen * ByteBits) = 0 /\ 0 % LenMod = 0
      <4>1. BlockLen * ByteBits \in Nat
        BY BlockFacts, Product
      <4> QED BY <4>1, BlockFacts
    <3>3. \A i \in 1 .. 0 : FALSE
      OBVIOUS
    <3>4. 0 \in 0 .. Len(w)
      BY <2>7
    <3> QED BY <3>1, <3>2, <3>3, <3>4, <2>6, BlockFacts DEF Holds
  <2>9. Holds(first, w, cut)
    <3>1. \A i \in 1 .. Len(a) : a[i] = w[0 + i]
      BY <2>1, <2>4, <2>6
    <3>2. Len(a) \in Nat /\ 0 + Len(a) <= Len(w) /\ 0 + Len(a) = cut
      BY <2>1, <2>4, <2>7
    <3> QED BY <2>8, <3>1, <3>2, UpdateTakes
  <2> HIDE DEF first
  <2>10. Holds(s, w, n)
    <3>1. \A i \in 1 .. Len(b) : b[i] = w[cut + i]
      BY <2>1, <2>4, <2>6
    <3>2. Len(b) \in Nat /\ cut + Len(b) <= Len(w) /\ cut + Len(b) = n
      BY <2>1, <2>4, <2>7
    <3> QED BY <2>1, <2>9, <3>1, <3>2, UpdateTakes
  <2> HIDE DEF s
  <2> DEFINE e == Finish(s)
  <2>11. Holds(e, w, Len(w)) /\ Len(e.buf) = 0
    BY <2>3, <2>10, FinishPads DEF w, z, bits
  <2> HIDE DEF e
  <2>12. e.buf = <<>>
    BY <2>11, EmptySeq DEF Holds
  <2>13. FlattenSeq(e.blocks) = w
    BY <2>11, BlocksAreWhole
  <2>14. \A y \in ToSet(e.blocks) : Len(y) = BlockLen
    <3>1. \A i \in 1 .. Len(e.blocks) : Len(e.blocks[i]) = BlockLen
      BY <2>11 DEF Holds
    <3>2. e.blocks \in Seq(Seq(Int))
      BY <2>11 DEF Holds
    <3>3. DOMAIN e.blocks = 1 .. Len(e.blocks)
      BY <3>2, LenProperties
    <3> QED BY <3>1, <3>3 DEF ToSet
  <2> DEFINE total == Min({k \in 1 .. n + 2 * BlockLen + 1 :
                              k % BlockLen = 0 /\ k >= n + 1 + LenLen})
  <2>15. total - n - 1 - LenLen = z
    <3>1. total = n + 1 + z + LenLen
      BY <2>5 DEF Fits
    <3> HIDE DEF total
    <3> QED BY <3>1, <2>1, <2>5, BlockFacts
  <2> HIDE DEF total
  <2>16. w = m \o <<2 ^^ (ByteBits - 1)>> \o Zeros(total - n - 1 - LenLen) \o LenBytes(bits)
    BY <2>15 DEF w, Padded
  <2> QED BY <2>2, <2>12, <2>13, <2>14, <2>16
       DEF PaddingExact, e, total, n, m, bits
<1> QED BY <1>1, ReturnedInvariant, PTL

-----------------------------------------------------------------------------
(* The division of the dataset.                                            *)

\* A slice of build_dataset_parallel, with its bounds in terms of per.
LEMMA SliceBounds ==
    ASSUME NEW total \in Nat, NEW n \in Nat, n > 0, NEW i \in 0 .. n - 1
    PROVE  LET per == total \div n
           IN  /\ per \in Nat
               /\ i # n - 1 => Slice(total, n, i) = i * per .. (i + 1) * per - 1
               /\ i = n - 1 => Slice(total, n, i) = i * per .. total - 1
               /\ n * per <= total
<1> DEFINE per == total \div n
<1>1. per \in Nat /\ per * n <= total
  BY Division
<1>2. per * n = n * per
  BY <1>1
<1>3. (i + 1) * per = i * per + per /\ i * per \in Nat
  BY <1>1
<1>4. ASSUME i # n - 1
      PROVE  Slice(total, n, i) = i * per .. (i + 1) * per - 1
  <2>1. Slice(total, n, i) = i * per .. i * per + per - 1
    BY <1>4 DEF Slice
  <2> QED BY <2>1, <1>3
<1>5. ASSUME i = n - 1
      PROVE  Slice(total, n, i) = i * per .. total - 1
  <2>1. Slice(total, n, i) = i * per .. i * per + (total - i * per) - 1
    BY <1>5 DEF Slice
  <2>2. i * per + (total - i * per) = total
    BY <1>3
  <2> QED BY <2>1, <2>2
<1> QED BY <1>1, <1>2, <1>4, <1>5

\* No thread of build_dataset_parallel reaches beyond the dataset.
LEMMA SlicesInside ==
    ASSUME NEW total \in Nat, NEW n \in Nat, n > 0, NEW i \in 0 .. n - 1
    PROVE  Slice(total, n, i) \subseteq 0 .. total - 1
<1> DEFINE per == total \div n
<1>1. per \in Nat /\ n * per <= total
  BY SliceBounds
<1>2. i * per \in Nat /\ (i + 1) * per \in Nat /\ n * per \in Nat
  BY <1>1
<1>3. CASE i = n - 1
  <2>1. Slice(total, n, i) = i * per .. total - 1
    BY <1>3, SliceBounds
  <2> HIDE DEF per
  <2> QED BY <2>1, <1>2
<1>4. CASE i # n - 1
  <2>1. Slice(total, n, i) = i * per .. (i + 1) * per - 1
    BY <1>4, SliceBounds
  <2>2. (i + 1) * per <= n * per
    <3>1. i + 1 \in Nat /\ i + 1 <= n
      OBVIOUS
    <3> QED BY <3>1, <1>1, MultiplesOrdered
  <2> HIDE DEF per
  <2> QED BY <2>1, <2>2, <1>1, <1>2
<1> QED BY <1>3, <1>4

\* Every item has its thread: the last one when the item lies beyond the
\* multiples of per the others end at, the quotient by per otherwise.
LEMMA SlicesCover ==
    ASSUME NEW total \in Nat, NEW n \in Nat, n > 0, NEW x \in 0 .. total - 1
    PROVE  \E i \in 0 .. n - 1 : x \in Slice(total, n, i)
<1> DEFINE per  == total \div n
           last == n - 1
<1>1. per \in Nat /\ last \in 0 .. n - 1 /\ last \in Nat
  BY Division
<1>2. last * per \in Nat
  BY <1>1
<1>3. CASE last * per <= x
  <2>1. Slice(total, n, last) = last * per .. total - 1
    BY <1>1, SliceBounds
  <2>2. x \in Slice(total, n, last)
    <3> HIDE DEF per, last
    <3> QED BY <2>1, <1>2, <1>3
  <2> QED BY <1>1, <2>2
<1>4. CASE x < last * per
  <2> DEFINE i == x \div per
  <2>1. per > 0
    <3>1. per # 0
      <4> SUFFICES ASSUME per = 0 PROVE FALSE
        OBVIOUS
      <4>1. last * per = 0
        BY <1>1
      <4> HIDE DEF per, last
      <4> QED BY <4>1, <1>4
    <3> HIDE DEF per
    <3> QED BY <3>1, <1>1
  <2>2. i \in Nat /\ i * per <= x /\ x < (i + 1) * per
    <3> HIDE DEF per
    <3> QED BY <2>1, <1>1, Division
  <2>3. i < last
    <3> SUFFICES ASSUME last <= i PROVE FALSE
      BY <1>1, <2>2
    <3>1. last * per <= i * per
      <4> HIDE DEF per, last, i
      <4> QED BY <1>1, <2>2, MultiplesOrdered
    <3>2. i * per \in Nat
      <4> HIDE DEF per, i
      <4> QED BY <1>1, <2>2
    <3> HIDE DEF per, last, i
    <3> QED BY <3>1, <3>2, <2>2, <1>2, <1>4
  <2>4. i \in 0 .. n - 1 /\ i # n - 1
    <3> HIDE DEF i, per
    <3> QED BY <2>2, <2>3
  <2>5. Slice(total, n, i) = i * per .. (i + 1) * per - 1
    <3> HIDE DEF i
    <3> QED BY <2>4, SliceBounds
  <2>6. i * per \in Nat /\ (i + 1) * per \in Nat
    <3> HIDE DEF i, per
    <3> QED BY <1>1, <2>2
  <2>7. x \in Slice(total, n, i)
    <3> HIDE DEF i, per
    <3> QED BY <2>2, <2>5, <2>6
  <2> HIDE DEF i
  <2> QED BY <2>4, <2>7
<1>5. x \in Nat
  OBVIOUS
<1> HIDE DEF per, last
<1> QED BY <1>2, <1>3, <1>4, <1>5

\* A thread ends before the next multiple of per, where a later one begins.
LEMMA SlicesApart ==
    ASSUME NEW total \in Nat, NEW n \in Nat, n > 0,
           NEW i \in 0 .. n - 1, NEW j \in 0 .. n - 1, i < j
    PROVE  Slice(total, n, i) \cap Slice(total, n, j) = {}
<1> DEFINE per == total \div n
<1>1. per \in Nat
  BY Division
<1>2. i # n - 1 /\ i + 1 \in Nat /\ i + 1 <= j /\ j \in Nat
  OBVIOUS
<1>3. (i + 1) * per <= j * per
  <2> HIDE DEF per
  <2> QED BY <1>1, <1>2, MultiplesOrdered
<1>4. Slice(total, n, i) = i * per .. (i + 1) * per - 1
  BY <1>2, SliceBounds
<1>5. \E end \in Int : Slice(total, n, j) = j * per .. end
  <2>1. CASE j = n - 1
    <3>1. Slice(total, n, j) = j * per .. total - 1
      BY <2>1, SliceBounds
    <3> QED BY <3>1
  <2>2. CASE j # n - 1
    <3>1. Slice(total, n, j) = j * per .. (j + 1) * per - 1
      BY <2>2, SliceBounds
    <3>2. (j + 1) * per - 1 \in Int
      BY <1>1
    <3> QED BY <3>1, <3>2
  <2> QED BY <2>1, <2>2
<1>6. i * per \in Nat /\ j * per \in Nat /\ (i + 1) * per \in Nat
  BY <1>1
<1> HIDE DEF per
<1> QED BY <1>3, <1>4, <1>5, <1>6

\* build_dataset_parallel initialises every item of the dataset, and each by one
\* thread only, for every number of items and of threads.
THEOREM DatasetIsDivided == Spec => []SlicesTile
<1>1. Returned => SlicesTile
  <2> SUFFICES ASSUME Returned, Done("dataset") PROVE SlicesTile
    BY DEF SlicesTile
  <2> DEFINE total == input.total
             n     == InitThreads(input.n)
  <2>1. total \in Nat /\ n \in Nat /\ n > 0
    <3>1. input \in Items
      BY InputTypes DEF Returned, Done
    <3>2. input.total \in Nat /\ input.n \in Nat
      BY <3>1, ArithmeticAssumption DEF Items
    <3> QED BY <3>2 DEF InitThreads
  <2>2. Result = [i \in 0 .. n - 1 |-> Slice(total, n, i)]
    BY DEF Returned
  <2> HIDE DEF total, n
  <2>3. DOMAIN Result = 0 .. n - 1 /\ \A i \in 0 .. n - 1 : Result[i] = Slice(total, n, i)
    BY <2>2
  <2>4. UNION {Result[i] : i \in DOMAIN Result} = 0 .. total - 1
    <3>1. ASSUME NEW x \in UNION {Result[i] : i \in DOMAIN Result}
          PROVE  x \in 0 .. total - 1
      <4>1. PICK i \in 0 .. n - 1 : x \in Slice(total, n, i)
        BY <2>3
      <4> QED BY <4>1, <2>1, SlicesInside
    <3>2. ASSUME NEW x \in 0 .. total - 1
          PROVE  x \in UNION {Result[i] : i \in DOMAIN Result}
      <4>1. PICK i \in 0 .. n - 1 : x \in Slice(total, n, i)
        BY <2>1, SlicesCover
      <4> QED BY <4>1, <2>3
    <3> QED BY <3>1, <3>2
  <2>5. \A i, j \in DOMAIN Result : i # j => Result[i] \cap Result[j] = {}
    <3> SUFFICES ASSUME NEW i \in 0 .. n - 1, NEW j \in 0 .. n - 1, i # j
                 PROVE  Slice(total, n, i) \cap Slice(total, n, j) = {}
      BY <2>3
    <3>1. i < j \/ j < i
      BY <2>1
    <3> QED BY <3>1, <2>1, SlicesApart
  <2> QED BY <2>4, <2>5 DEF SlicesTile, total
<1> QED BY <1>1, ReturnedInvariant, PTL

=============================================================================
