------------------------- MODULE Application_proofs -------------------------
(***************************************************************************)
(* Proofs about the conversions of values, at every width of the types,    *)
(* and about the requests that read and write a parameter.                 *)
(***************************************************************************)
EXTENDS Application, FiniteSets, SequenceTheorems, FiniteSetTheorems, WellFoundedInduction, TLAPS

-----------------------------------------------------------------------------
(* Positions and sequences *)

\* A non-empty set of naturals has a least element.
LEMMA LeastExists ==
  ASSUME NEW S \in SUBSET Nat, S # {}
  PROVE  \E m \in S : \A k \in S : m <= k
<1> DEFINE R == OpToRel(<, Nat)
<1>1. IsWellFoundedOn(R, Nat)
  BY NatLessThanWellFounded
<1>2. \A a, b \in Nat : a < b => <<a, b>> \in R
  BY DEF OpToRel
<1> HIDE DEF R
<1>3. PICK m \in S : \A k \in S : ~ (<<k, m>> \in R)
  BY <1>1, WFMin
<1>4. \A k \in S : m <= k
  <2>1. TAKE k \in S
  <2>2. k \in Nat /\ m \in Nat
    OBVIOUS
  <2>3. ~(k < m)
    BY <1>2, <1>3, <2>2
  <2>4. QED
    BY <2>2, <2>3
<1>5. QED
  BY <1>4

-----------------------------------------------------------------------------
(* Powers of two: there are as many as subsets *)

LEMMA PowerIsCardinality ==
  ASSUME NEW n \in Nat
  PROVE  2 ^ n \in Nat /\ IsFiniteSet(SUBSET (1..n)) /\ Cardinality(SUBSET (1..n)) = 2 ^ n
<1>1. IsFiniteSet(1..n) /\ Cardinality(1..n) = n
  <2>1. 1 \in Int /\ n \in Int /\ (1 > n => n = 0) /\ n - 1 + 1 = n
    OBVIOUS
  <2> QED
    BY <2>1, FS_Interval
<1>2. IsFiniteSet(SUBSET (1..n)) /\ Cardinality(SUBSET (1..n)) = 2 ^ n
  BY <1>1, FS_SUBSET
<1>3. 2 ^ n \in Nat
  BY <1>2, FS_CardinalityType
<1> QED
  BY <1>2, <1>3

LEMMA PowerOfNext ==
  ASSUME NEW n \in Nat
  PROVE  2 ^ (n + 1) = 2 * 2 ^ n
<1> DEFINE A == SUBSET (1..n)
           B == {s \union {n + 1} : s \in A}
           f == [s \in A |-> s \union {n + 1}]
<1>1. n + 1 \in Nat /\ n + 1 \notin 1..n /\ 1..(n + 1) = (1..n) \union {n + 1}
  OBVIOUS
<1>2. SUBSET (1..(n + 1)) = A \union B
  <2>1. ASSUME NEW s \in SUBSET (1..(n + 1)) PROVE s \in A \union B
    <3>1. CASE n + 1 \in s
      <4>1. s \ {n + 1} \in A /\ s = (s \ {n + 1}) \union {n + 1}
        BY <1>1, <3>1
      <4> QED
        BY <4>1
    <3>2. CASE n + 1 \notin s
      BY <1>1, <3>2
    <3> QED
      BY <3>1, <3>2
  <2>2. ASSUME NEW s \in A \union B PROVE s \in SUBSET (1..(n + 1))
    BY <1>1
  <2> QED
    BY <2>1, <2>2
<1>3. A \intersect B = {}
  BY <1>1
<1>4. f \in Bijection(A, B)
  <2>1. f \in Injection(A, B)
    <3>1. f \in [A -> B]
      OBVIOUS
    <3>2. ASSUME NEW s \in A, NEW t \in A, f[s] = f[t] PROVE s = t
      <4>1. n + 1 \notin s /\ n + 1 \notin t /\ s \union {n + 1} = t \union {n + 1}
        BY <1>1, <3>2
      <4> QED
        BY <4>1
    <3> HIDE DEF f, A, B
    <3> QED
      BY <3>1, <3>2 DEF Injection, IsInjective
  <2>2. f \in Surjection(A, B)
    <3>1. f \in [A -> B] /\ \A t \in B : \E s \in A : f[s] = t
      OBVIOUS
    <3> HIDE DEF f, A, B
    <3> QED
      BY <3>1 DEF Surjection
  <2> QED
    BY <2>1, <2>2 DEF Bijection
<1>5. /\ IsFiniteSet(A) /\ Cardinality(A) = 2 ^ n /\ 2 ^ n \in Nat
      /\ Cardinality(SUBSET (1..(n + 1))) = 2 ^ (n + 1)
  BY <1>1, PowerIsCardinality
<1> HIDE DEF f, A, B
<1>6. IsFiniteSet(B) /\ Cardinality(B) = Cardinality(A)
  BY <1>4, <1>5, FS_Bijection DEF ExistsBijection
<1>7. Cardinality(A \union B) = Cardinality(A) + Cardinality(B) - Cardinality(A \intersect B)
  BY <1>5, <1>6, FS_Union
<1>8. Cardinality({}) = 0
  BY FS_EmptySet
<1>9. 2 ^ (n + 1) = 2 ^ n + 2 ^ n - 0
  BY <1>2, <1>3, <1>5, <1>6, <1>7, <1>8
<1>10. \A m \in Nat : m + m - 0 = 2 * m
  OBVIOUS
<1> QED
  BY <1>5, <1>9, <1>10

LEMMA PowerOfZero == 2 ^ 0 = 1
OBVIOUS

\* Powers grow, and are beyond their exponents.
LEMMA PowerGrows ==
  ASSUME NEW n \in Nat
  PROVE  2 ^ n \in Nat /\ 2 ^ n > n /\ \A m \in 0..n : 2 ^ m <= 2 ^ n /\ 2 ^ m \in Nat
<1> DEFINE Holds(k) == 2 ^ k \in Nat /\ 2 ^ k > k /\ \A m \in 0..k : 2 ^ m <= 2 ^ k /\ 2 ^ m \in Nat
           Bad == {k \in Nat : ~Holds(k)}
<1>1. ASSUME Bad # {} PROVE FALSE
  <2>1. PICK k \in Bad : \A j \in Bad : k <= j
    BY <1>1, LeastExists
  <2>2. k \in Nat /\ ~Holds(k)
    OBVIOUS
  <2>3. CASE k = 0
    <3>1. Holds(0)
      BY PowerOfZero
    <3> QED
      BY <2>2, <2>3, <3>1
  <2>4. CASE k # 0
    <3> DEFINE j == k - 1
    <3>1. j \in Nat /\ j + 1 = k /\ ~(k <= j)
      BY <2>2, <2>4
    <3>2. Holds(j)
      BY <2>1, <3>1
    <3>3. 2 ^ k = 2 * 2 ^ j
      BY <3>1, PowerOfNext
    <3>4. 2 ^ k \in Nat /\ 2 ^ k >= 2 ^ j + 1 /\ 2 ^ k > k
      <4>1. 2 ^ j \in Nat /\ 2 ^ j > j
        BY <3>2
      <4>2. \A x \in Nat : x > j => 2 * x \in Nat /\ 2 * x >= x + 1 /\ 2 * x > k
        BY <3>1
      <4> QED
        BY <3>3, <4>1, <4>2
    <3>5. ASSUME NEW m \in 0..k PROVE 2 ^ m <= 2 ^ k /\ 2 ^ m \in Nat
      <4>1. CASE m = k
        BY <4>1, <3>4
      <4>2. CASE m # k
        <5>1. m \in 0..j
          BY <4>2, <3>1
        <5>2. 2 ^ m \in Nat /\ 2 ^ m <= 2 ^ j /\ 2 ^ j \in Nat
          BY <3>2, <5>1
        <5> QED
          BY <3>4, <5>2
      <4> QED
        BY <4>1, <4>2
    <3> HIDE DEF j
    <3>6. Holds(k)
      BY <3>4, <3>5
    <3> QED
      BY <2>2, <3>6
  <2> QED
    BY <2>3, <2>4
<1>2. Holds(n)
  BY <1>1
<1> QED
  BY <1>2

LEMMA PowerOfSum ==
  ASSUME NEW m \in Nat, NEW n \in Nat
  PROVE  2 ^ (m + n) = 2 ^ m * 2 ^ n
<1> DEFINE Bad == {k \in Nat : 2 ^ (m + k) # 2 ^ m * 2 ^ k}
<1>1. ASSUME Bad # {} PROVE FALSE
  <2>1. PICK k \in Bad : \A j \in Bad : k <= j
    BY <1>1, LeastExists
  <2>2. k \in Nat /\ 2 ^ (m + k) # 2 ^ m * 2 ^ k
    OBVIOUS
  <2>3. 2 ^ m \in Nat
    BY PowerGrows
  <2>4. CASE k = 0
    <3>1. m + 0 = m /\ 2 ^ m * 1 = 2 ^ m
      BY <2>3
    <3> QED
      BY <2>2, <2>4, <3>1, PowerOfZero
  <2>5. CASE k # 0
    <3> DEFINE j == k - 1
    <3>1. j \in Nat /\ j + 1 = k /\ ~(k <= j) /\ m + j \in Nat /\ (m + j) + 1 = m + k
      BY <2>2, <2>5
    <3>2. 2 ^ (m + j) = 2 ^ m * 2 ^ j
      BY <2>1, <3>1
    <3>3. 2 ^ k = 2 * 2 ^ j /\ 2 ^ (m + k) = 2 * 2 ^ (m + j)
      BY <3>1, PowerOfNext
    <3>4. 2 ^ j \in Nat
      BY <3>1, PowerGrows
    <3>5. \A x, y \in Nat : 2 * (x * y) = x * (2 * y)
      OBVIOUS
    <3> HIDE DEF j
    <3> QED
      BY <2>2, <2>3, <3>2, <3>3, <3>4, <3>5
  <2> QED
    BY <2>4, <2>5
<1> QED
  BY <1>1

-----------------------------------------------------------------------------
(* Division by a number that is not constant *)

LEMMA Quotients ==
  ASSUME NEW m \in Nat, NEW u \in Nat, u > 0
  PROVE  /\ m \div u \in Nat /\ m % u \in Nat /\ m % u < u
         /\ m = u * (m \div u) + (m % u)
OBVIOUS

\* What is divided without a rest.
LEMMA Multiples ==
  ASSUME NEW q \in Nat, NEW u \in Nat, u > 0, NEW m, m = u * q
  PROVE  m \div u = q /\ m % u = 0
<1>1. m \in Nat
  OBVIOUS
<1> DEFINE d == m \div u
           r == m % u
<1>2. d \in Nat /\ r \in Nat /\ r < u /\ u * q = u * d + r
  BY <1>1, Quotients
<1> HIDE DEF d, r
<1>3. \A a, b \in Nat : a < b => u * a + u <= u * b
  <2> TAKE a \in Nat, b \in Nat
  <2> HAVE a < b
  <2>1. PICK c \in Nat : b = a + 1 + c
    <3>1. b - a - 1 \in Nat /\ b = a + 1 + (b - a - 1)
      OBVIOUS
    <3> QED
      BY <3>1
  <2>2. u * b = u * a + u + u * c /\ u * c >= 0 /\ u * a \in Nat
    BY <2>1
  <2> QED
    BY <2>2
<1>4. u * q \in Nat /\ u * d \in Nat
  BY <1>2
<1>5. ~(q < d)
  <2> SUFFICES ASSUME q < d PROVE FALSE
    OBVIOUS
  <2>1. u * q + u <= u * d
    BY <1>2, <1>3
  <2> QED
    BY <2>1, <1>2, <1>4
<1>6. ~(d < q)
  <2> SUFFICES ASSUME d < q PROVE FALSE
    OBVIOUS
  <2>1. u * d + u <= u * q
    BY <1>2, <1>3
  <2> QED
    BY <2>1, <1>2, <1>4
<1>7. d = q
  BY <1>2, <1>5, <1>6
<1>8. r = 0
  BY <1>2, <1>4, <1>7
<1> QED
  BY <1>7, <1>8 DEF d, r

-----------------------------------------------------------------------------
(* Rounding *)

\* The binary places that are lost.
Lost(m, d) == CHOOSE k \in 0..m : m < 2 ^ (d + k) /\ \A j \in 0..(k - 1) : m >= 2 ^ (d + j)

\* How a magnitude is rounded.
RoundedUp(m, d) ==
  LET unit == 2 ^ Lost(m, d)
      rest == 2 * (m % unit)
  IN rest > unit \/ (rest = unit /\ (m \div unit) % 2 = 1)
RoundedMagnitude(m, d) ==
  LET unit == 2 ^ Lost(m, d)
  IN unit * (IF RoundedUp(m, d) THEN (m \div unit) + 1 ELSE m \div unit)

LEMMA RoundedIs ==
  ASSUME NEW n \in Int, NEW d \in Nat
  PROVE  Rounded(n, d) = IF n < 0 THEN -RoundedMagnitude(-n, d) ELSE RoundedMagnitude(n, d)
BY DEF Rounded, RoundedMagnitude, RoundedUp, Lost, Magnitude

LEMMA LostFacts ==
  ASSUME NEW m \in Nat, NEW d \in Nat
  PROVE  /\ Lost(m, d) \in Nat
         /\ m < 2 ^ (d + Lost(m, d))
         /\ \A k \in Nat : m < 2 ^ (d + k) => Lost(m, d) <= k
<1> DEFINE S == {k \in Nat : m < 2 ^ (d + k)}
           P(k) == m < 2 ^ (d + k) /\ \A j \in 0..(k - 1) : m >= 2 ^ (d + j)
<1>1. m \in S
  <2>1. 2 ^ (d + m) > d + m /\ 2 ^ (d + m) \in Nat
    BY PowerGrows
  <2> QED
    BY <2>1
<1>2. PICK k \in S : \A j \in S : k <= j
  BY <1>1, LeastExists
<1>3. k \in 0..m
  BY <1>1, <1>2
<1>4. P(k)
  <2>1. ASSUME NEW j \in 0..(k - 1) PROVE m >= 2 ^ (d + j)
    <3>1. j \in Nat /\ ~(k <= j) /\ 2 ^ (d + j) \in Nat
      BY <1>3, PowerGrows
    <3>2. ~(m < 2 ^ (d + j))
      BY <1>2, <3>1
    <3> QED
      BY <3>1, <3>2
  <2> QED
    BY <1>2, <2>1
<1> DEFINE e == CHOOSE i \in 0..m : P(i)
<1>5. e \in 0..m /\ P(e)
  BY <1>3, <1>4
<1>6. e = Lost(m, d)
  BY DEF Lost
<1>7. ASSUME NEW i \in Nat, m < 2 ^ (d + i) PROVE e <= i
  <2> SUFFICES ASSUME i < e PROVE FALSE
    BY <1>5
  <2> HIDE DEF e
  <2>1. i \in 0..(e - 1)
    BY <1>5
  <2>2. m >= 2 ^ (d + i) /\ 2 ^ (d + i) \in Nat
    BY <1>5, <2>1, PowerGrows
  <2> QED
    BY <1>7, <2>2
<1> HIDE DEF e
<1> QED
  BY <1>5, <1>6, <1>7

\* A multiple of 2 ^ i is kept if there are digits for it.
LEMMA KeepsMultiples ==
  ASSUME NEW m \in Nat, NEW d \in Nat, NEW i \in Nat, NEW h \in Nat, m = 2 ^ i * h,
         m < 2 ^ (d + i)
  PROVE  RoundedMagnitude(m, d) = m
<1> DEFINE e == Lost(m, d)
           u == 2 ^ e
           c == i - e
           q == 2 ^ c * h
<1>1. e \in Nat /\ e <= i
  BY LostFacts
<1> HIDE DEF e
<1>2. c \in Nat /\ e + c = i
  BY <1>1
<1> HIDE DEF c
<1>3. 2 ^ i = u * 2 ^ c /\ 2 ^ c \in Nat /\ u \in Nat /\ u > 0
  <2>1. u \in Nat /\ u > e /\ 2 ^ c \in Nat
    BY <1>1, <1>2, PowerGrows
  <2>2. 2 ^ (e + c) = 2 ^ e * 2 ^ c
    BY <1>1, <1>2, PowerOfSum
  <2>3. u > 0
    BY <1>1, <2>1
  <2> QED
    BY <1>2, <2>1, <2>2, <2>3
<1> HIDE DEF u
<1>4. q \in Nat /\ m = u * q
  <2>1. \A x, y, z \in Nat : (x * y) * z = x * (y * z) /\ y * z \in Nat
    OBVIOUS
  <2> QED
    BY <1>3, <2>1
<1> HIDE DEF q
<1>5. m \div u = q /\ m % u = 0
  BY <1>3, <1>4, Multiples
<1>6. ~RoundedUp(m, d)
  <2>1. ~(2 * 0 > u) /\ 2 * 0 # u
    BY <1>3
  <2> QED
    BY <1>5, <2>1 DEF RoundedUp, u, e
<1>7. RoundedMagnitude(m, d) = u * q
  BY <1>5, <1>6 DEF RoundedMagnitude, u, e
<1> QED
  BY <1>4, <1>7

\* Rounding does not pass a power of two.
LEMMA KeepsPowers ==
  ASSUME NEW m \in Nat, NEW d \in Nat, NEW k \in Nat, k >= d, m < 2 ^ k
  PROVE  RoundedMagnitude(m, d) \in Int /\ RoundedMagnitude(m, d) <= 2 ^ k
<1> DEFINE e == Lost(m, d)
           u == 2 ^ e
           q == m \div u
           t == 2 ^ d
<1>1. e \in Nat /\ m < 2 ^ (d + e) /\ e <= k - d
  <2>1. k - d \in Nat /\ d + (k - d) = k
    OBVIOUS
  <2> QED
    BY <2>1, LostFacts
<1> HIDE DEF e
<1>2. u \in Nat /\ u > 0 /\ t \in Nat /\ 2 ^ (d + e) = u * t
  <2>1. u > e /\ u \in Nat /\ t \in Nat
    BY <1>1, PowerGrows
  <2>2. 2 ^ (d + e) = t * u
    BY <1>1, PowerOfSum
  <2> QED
    BY <1>1, <2>1, <2>2
<1> HIDE DEF u, t
<1>3. q \in Nat /\ u * q <= m /\ u * q \in Nat
  <2>1. q \in Nat /\ m % u \in Nat /\ m = u * q + (m % u)
    BY <1>2, Quotients
  <2> HIDE DEF q
  <2>2. u * q \in Nat
    BY <1>2, <2>1
  <2> QED
    BY <2>1, <2>2
<1> HIDE DEF q
<1>4. q + 1 <= t
  <2> SUFFICES ASSUME t <= q PROVE FALSE
    BY <1>2, <1>3
  <2>1. u * t <= u * q
    <3>1. PICK c \in Nat : q = t + c
      <4>1. q - t \in Nat /\ q = t + (q - t)
        BY <1>2, <1>3
      <4> QED
        BY <4>1
    <3>2. u * q = u * t + u * c /\ u * c \in Nat /\ u * t \in Nat
      BY <1>2, <3>1
    <3> QED
      BY <3>2
  <2>2. u * t \in Nat
    BY <1>2
  <2> QED
    BY <1>1, <1>2, <1>3, <2>1, <2>2
<1>5. u * (q + 1) <= u * t /\ u * (q + 1) \in Nat /\ u * q <= u * (q + 1)
  <2>1. PICK c \in Nat : t = (q + 1) + c
    <3>1. t - (q + 1) \in Nat /\ t = (q + 1) + (t - (q + 1))
      BY <1>2, <1>3, <1>4
    <3> QED
      BY <3>1
  <2>2. u * t = u * (q + 1) + u * c /\ u * c \in Nat /\ u * (q + 1) \in Nat /\ u * (q + 1) = u * q + u
    BY <1>2, <1>3, <2>1
  <2> QED
    BY <1>2, <1>3, <2>2
<1>6. RoundedMagnitude(m, d) \in {u * q, u * (q + 1)}
  BY DEF RoundedMagnitude, u, q, e
<1>7. 2 ^ (d + e) <= 2 ^ k /\ 2 ^ k \in Nat
  <2>1. d + e \in 0..k
    BY <1>1
  <2> QED
    BY <2>1, PowerGrows
<1> QED
  BY <1>2, <1>3, <1>5, <1>6, <1>7

-----------------------------------------------------------------------------
(* Integral types *)

\* The bounds of an integral type after their conversion to real_t: the lower one
\* is exact, the upper one is too large by one at most, and only for the widest
\* types.
LEMMA Bounds ==
  ASSUME NEW T, IsElementType(T), T.kind = "integral"
  PROVE  /\ Lowest(T) \in Int /\ Highest(T) \in Int /\ Lowest(T) <= Highest(T)
         /\ Rounded(2 * Lowest(T), RealDigits) = 2 * Lowest(T)
         /\ Rounded(2 * Highest(T), RealDigits) \in Int
         /\ Rounded(2 * Highest(T), RealDigits) <= 2 * Highest(T) + 2
         /\ T.bits # IntegerBits => Rounded(2 * Highest(T), RealDigits) = 2 * Highest(T)
<1> DEFINE b == T.bits
           d == RealDigits
           k == IF T.signed THEN b - 1 ELSE b
           Q == 2 ^ k
           lo == Lowest(T)
           hi == Highest(T)
<1>1. /\ d \in Nat /\ d >= 1 /\ IntegerBits \in Nat /\ d < IntegerBits - 1
      /\ b \in Nat /\ b >= 1 /\ (b <= d \/ b = IntegerBits) /\ T.signed \in BOOLEAN
  BY WidthsAssumption DEF IsElementType
<1>2. hi = Q - 1
  BY DEF Highest
<1>3. lo = IF T.signed THEN -Q ELSE 0
  BY DEF Lowest
<1> HIDE DEF lo, hi, b, d
<1>4. k \in Nat /\ (T.signed => k + 1 = b) /\ (~T.signed => k = b)
  BY <1>1
<1> HIDE DEF k
<1>5. Q \in Nat /\ Q >= 1 /\ 2 ^ (k + 1) = 2 * Q
  <2>1. Q > k /\ Q \in Nat
    BY <1>4, PowerGrows
  <2>2. 2 ^ (k + 1) = 2 * Q
    BY <1>4, PowerOfNext
  <2> QED
    BY <1>4, <2>1, <2>2
<1>6. lo \in Int /\ hi \in Int /\ lo <= hi /\ 2 * hi = 2 * Q - 2 /\ ~(2 * hi < 0) /\ 2 * hi \in Nat
  <2> HIDE DEF Q
  <2> QED
    BY <1>2, <1>3, <1>5
<1>7. Rounded(2 * lo, d) = 2 * lo
  <2>1. CASE lo = 0
    <3>1. 0 < 2 ^ (d + 0)
      BY <1>1, PowerGrows
    <3>2. 2 ^ 0 * 0 = 0
      BY PowerOfZero
    <3>3. RoundedMagnitude(0, d) = 0
      BY <1>1, <3>1, <3>2, KeepsMultiples
    <3>4. 2 * lo = 0 /\ ~(0 < 0)
      BY <2>1
    <3> QED
      BY <1>1, <3>3, <3>4, RoundedIs
  <2>2. CASE lo = -Q
    <3>1. 2 ^ (k + 1) < 2 ^ (d + (k + 1))
      <4>1. 2 ^ ((k + 1) + 1) = 2 * 2 ^ (k + 1)
        BY <1>4, PowerOfNext
      <4>2. (k + 1) + 1 \in 0..(d + (k + 1)) /\ d + (k + 1) \in Nat
        BY <1>1, <1>4
      <4>3. 2 ^ ((k + 1) + 1) <= 2 ^ (d + (k + 1)) /\ 2 ^ (d + (k + 1)) \in Nat
        BY <4>2, PowerGrows
      <4> QED
        BY <1>5, <4>1, <4>3
    <3> DEFINE m == 2 * Q
    <3>2. m \in Nat /\ m = 2 ^ (k + 1) * 1 /\ m < 2 ^ (d + (k + 1)) /\ k + 1 \in Nat
      BY <1>4, <1>5, <3>1
    <3>3. 2 * lo = -m /\ -m < 0 /\ -(-m) = m /\ -m \in Int
      <4> HIDE DEF Q
      <4> QED
        BY <2>2, <1>5
    <3> HIDE DEF m
    <3>4. RoundedMagnitude(m, d) = m
      BY <1>1, <3>2, KeepsMultiples
    <3>5. Rounded(-m, d) = -RoundedMagnitude(m, d)
      BY <1>1, <3>3, RoundedIs
    <3> QED
      BY <3>3, <3>4, <3>5
  <2> QED
    BY <1>3, <2>1, <2>2
<1>8. Rounded(2 * hi, d) = RoundedMagnitude(2 * hi, d)
  BY <1>1, <1>6, RoundedIs
<1>9. b <= d => Rounded(2 * hi, d) = 2 * hi
  <2> SUFFICES ASSUME b <= d PROVE RoundedMagnitude(2 * hi, d) = 2 * hi
    BY <1>8
  <2>1. hi \in Nat /\ 2 * hi = 2 ^ 1 * hi
    <3>1. 2 ^ 1 = 2
      OBVIOUS
    <3> HIDE DEF Q
    <3> QED
      BY <1>2, <1>5, <3>1
  <2>2. 2 * hi < 2 ^ (d + 1)
    <3>1. k + 1 \in 0..(d + 1) /\ d + 1 \in Nat
      BY <1>1, <1>4
    <3>2. 2 ^ (k + 1) <= 2 ^ (d + 1) /\ 2 ^ (d + 1) \in Nat
      BY <3>1, PowerGrows
    <3> HIDE DEF Q
    <3> QED
      BY <1>5, <1>6, <3>2
  <2>3. 2 * hi \in Nat
    BY <1>6
  <2> QED
    BY <1>1, <2>1, <2>2, <2>3, KeepsMultiples
<1>10. b > d => Rounded(2 * hi, d) \in Int /\ Rounded(2 * hi, d) <= 2 * hi + 2
  <2> SUFFICES ASSUME b > d PROVE RoundedMagnitude(2 * hi, d) \in Int /\ RoundedMagnitude(2 * hi, d) <= 2 * hi + 2
    BY <1>8
  <2>1. k + 1 \in Nat /\ k + 1 >= d
    BY <1>1, <1>4
  <2>2. 2 * hi \in Nat /\ 2 * hi < 2 ^ (k + 1) /\ 2 ^ (k + 1) = 2 * hi + 2
    <3> HIDE DEF Q
    <3> QED
      BY <1>5, <1>6
  <2> QED
    BY <1>1, <2>1, <2>2, KeepsPowers
<1>11. b <= d \/ b > d
  BY <1>1
<1>12. /\ Rounded(2 * hi, d) \in Int /\ Rounded(2 * hi, d) <= 2 * hi + 2
       /\ b # IntegerBits => Rounded(2 * hi, d) = 2 * hi
  <2>1. CASE b <= d
    BY <2>1, <1>6, <1>9
  <2>2. CASE b > d
    BY <2>2, <1>1, <1>10
  <2> QED
    BY <2>1, <2>2, <1>11
<1> QED
  BY <1>6, <1>7, <1>12 DEF lo, hi, b, d

\* convert_lossless_to_integral is exact but for the least number beyond the
\* widest types.
LEMMA IntegralIsExact ==
  ASSUME NEW T, IsElementType(T), T.kind = "integral", NEW r \in Int \union {NaN},
         LosslessToIntegral(T, r).ok
  PROVE  \/ 2 * LosslessToIntegral(T, r).val = r
         \/ T.bits = IntegerBits /\ r = 2 * (Highest(T) + 1)
<1> DEFINE lo == Lowest(T)
           hi == Highest(T)
           top == Rounded(2 * hi, RealDigits)
<1>1. /\ lo \in Int /\ hi \in Int /\ lo <= hi /\ top \in Int /\ top <= 2 * hi + 2
      /\ Rounded(2 * lo, RealDigits) = 2 * lo
      /\ T.bits # IntegerBits => top = 2 * hi
  BY Bounds
<1>2. r # NaN /\ r % 2 = 0 /\ ~(r < 2 * lo) /\ ~(r > top)
  <2>1. ~invalid_value_error.ok
    BY DEF invalid_value_error, Failed
  <2>2. CASE r = NaN
    BY <2>1, <2>2 DEF LosslessToIntegral
  <2>3. CASE r # NaN /\ (r % 2 # 0 \/ r < 2 * lo \/ r > top)
    BY <2>1, <2>3, <1>1 DEF LosslessToIntegral
  <2> QED
    BY <2>2, <2>3
<1>3. r \in Int /\ r = 2 * (r \div 2) /\ r \div 2 \in Int
  BY <1>2
<1>4. CASE r \div 2 \in lo..hi
  <2>1. LosslessToIntegral(T, r) = Good(r \div 2)
    BY <1>1, <1>2, <1>4 DEF LosslessToIntegral
  <2> QED
    BY <2>1, <1>3 DEF Good
<1>5. CASE r \div 2 \notin lo..hi
  <2> DEFINE x == r \div 2
  <2>1. x \in Int /\ r = 2 * x
    BY <1>3
  <2> HIDE DEF lo, hi, top
  <2>2. x \notin lo..hi
    BY <1>5
  <2> HIDE DEF x
  <2>3. x >= hi + 1
    BY <1>1, <1>2, <2>1, <2>2
  <2>4. r >= 2 * hi + 2 /\ top >= 2 * hi + 2 /\ top # 2 * hi
    BY <1>1, <1>2, <1>3, <2>1, <2>3
  <2>5. r = 2 * (hi + 1)
    BY <1>1, <1>2, <1>3, <2>4
  <2> QED
    BY <1>1, <2>4, <2>5 DEF hi
<1> QED
  BY <1>4, <1>5

-----------------------------------------------------------------------------
(* Values in memory *)

\* Quotient and rest are determined by what they make up.
LEMMA QuotientIs ==
  ASSUME NEW u \in Nat, u > 0, NEW q \in Int, NEW r \in 0..(u - 1), NEW x, x = u * q + r
  PROVE  x \div u = q /\ x % u = r
<1> DEFINE d == x \div u
           e == x % u
<1>1. x \in Int /\ u * q \in Int
  OBVIOUS
<1>2. d \in Int /\ e \in Int /\ 0 <= e /\ e < u /\ x = u * d + e
  BY <1>1
<1> HIDE DEF d, e
<1>3. ASSUME NEW a \in Int, NEW b \in Int, a < b PROVE u * a + u <= u * b
  <2> DEFINE c == b - a - 1
  <2>1. c \in Nat /\ b = a + 1 + c
    BY <1>3
  <2> HIDE DEF c
  <2>2. u * b = u * a + u + u * c /\ u * c \in Nat /\ u * a \in Int
    BY <2>1
  <2> QED
    BY <2>2
<1>4. u * d \in Int
  BY <1>2
<1>5. ~(q < d)
  <2> SUFFICES ASSUME q < d PROVE FALSE
    OBVIOUS
  <2>1. u * q + u <= u * d
    BY <1>2, <1>3
  <2> QED
    BY <2>1, <1>1, <1>2, <1>4
<1>6. ~(d < q)
  <2> SUFFICES ASSUME d < q PROVE FALSE
    OBVIOUS
  <2>1. u * d + u <= u * q
    BY <1>2, <1>3
  <2> QED
    BY <2>1, <1>1, <1>2, <1>4
<1>7. d = q
  BY <1>2, <1>5, <1>6
<1>8. e = r
  BY <1>1, <1>2, <1>7
<1> QED
  BY <1>7, <1>8 DEF d, e

LEMMA DividedTwice ==
  ASSUME NEW x \in Nat, NEW a \in Nat, NEW b \in Nat, a > 0, b > 0
  PROVE  (x \div a) \div b = x \div (a * b)
<1> DEFINE q == x \div a
           r == x % a
           p == q \div b
           s == q % b
<1>1. q \in Nat /\ r \in Nat /\ r < a /\ x = a * q + r
  BY Quotients
<1>2. p \in Nat /\ s \in Nat /\ s < b /\ q = b * p + s
  BY <1>1, Quotients
<1> HIDE DEF q, r, p, s
<1> DEFINE u == a * b
           t == a * s + r
<1>3. u \in Nat /\ u > 0
  OBVIOUS
<1>4. x = u * p + t
  <2>1. a * (b * p + s) = (a * b) * p + a * s /\ (a * b) * p \in Nat /\ a * s \in Nat
    BY <1>2
  <2>2. a * q = (a * b) * p + a * s
    BY <1>2, <2>1
  <2> QED
    BY <1>1, <2>1, <2>2
<1>5. t \in 0..(u - 1)
  <2>1. PICK c \in Nat : b = s + 1 + c
    <3>1. b - s - 1 \in Nat /\ b = s + 1 + (b - s - 1)
      BY <1>2
    <3> QED
      BY <3>1
  <2>2. u = a * s + a + a * c /\ a * c \in Nat /\ a * s \in Nat
    BY <1>2, <2>1
  <2> QED
    BY <1>1, <2>2
<1> HIDE DEF u, t
<1>6. x \div u = p
  BY <1>2, <1>3, <1>4, <1>5, QuotientIs
<1> QED
  BY <1>6 DEF p, q, u

\* What the j-th octet counts.
Octet == 0..(2 ^ OctetBits - 1)
Place(j) == 2 ^ (OctetBits * (j - 1))

LEMMA PlaceFacts ==
  ASSUME NEW j \in Nat, j >= 1
  PROVE  /\ 2 ^ OctetBits \in Nat /\ 2 ^ OctetBits > 1
         /\ Place(1) = 1 /\ Place(j) \in Nat /\ Place(j) > 0
         /\ Place(j + 1) = Place(j) * 2 ^ OctetBits
<1> DEFINE o == OctetBits
           k == o * (j - 1)
<1>1. o \in Nat /\ o >= 1
  BY WidthsAssumption
<1>2. 2 ^ o \in Nat /\ 2 ^ o > o
  BY <1>1, PowerGrows
<1>3. k \in Nat /\ o * ((j + 1) - 1) = k + o
  <2>1. j - 1 \in Nat /\ (j + 1) - 1 = (j - 1) + 1
    OBVIOUS
  <2>2. o * ((j - 1) + 1) = o * (j - 1) + o /\ o * (j - 1) \in Nat
    BY <1>1, <2>1
  <2> QED
    BY <2>1, <2>2
<1> HIDE DEF k
<1>4. 2 ^ k \in Nat /\ 2 ^ k > k /\ 2 ^ (k + o) = 2 ^ k * 2 ^ o
  BY <1>1, <1>3, PowerGrows, PowerOfSum
<1>5. Place(j) = 2 ^ k
  BY DEF Place, k, o
<1>6. Place(j + 1) = 2 ^ (k + o)
  BY <1>3 DEF Place, o
<1>7. Place(1) = 1
  <2>1. o * (1 - 1) = 0
    BY <1>1
  <2> QED
    BY <2>1, PowerOfZero DEF Place, o
<1>8. 2 ^ o > 1 /\ 2 ^ k > 0
  BY <1>1, <1>2, <1>3, <1>4
<1> QED
  BY <1>2, <1>4, <1>5, <1>6, <1>7, <1>8 DEF o

\* The value of all octets, and of those from the j-th one on.
LEMMA UnsignedFacts ==
  ASSUME NEW s \in Seq(Octet), NEW n, n = Len(s)
  PROVE  /\ n \in Nat /\ DOMAIN s = 1..n /\ \A j \in 1..n : s[j] \in Octet
         /\ \E f : /\ f[1] = Unsigned(s) /\ f[n + 1] = 0
                   /\ \A j \in 1..n : f[j] = s[j] + 2 ^ OctetBits * f[j + 1]
<1> DEFINE B == 2 ^ OctetBits
           IsFrom(k, g) == g = [j \in k..(n + 1) |-> IF j = n + 1 THEN 0 ELSE s[j] + B * g[j + 1]]
           P(i) == \E g : IsFrom(n + 1 - i, g)
           bad == {i \in Nat : i <= n /\ ~P(i)}
<1>1. n \in Nat /\ DOMAIN s = 1..n /\ \A j \in 1..n : s[j] \in Octet
  BY LenProperties, ElementOfSeq
<1> HIDE DEF B
<1>2. P(0)
  <2> DEFINE g == [j \in (n + 1)..(n + 1) |-> 0]
  <2>1. IsFrom(n + 1, g)
    BY <1>1
  <2>2. n + 1 - 0 = n + 1
    BY <1>1
  <2> HIDE DEF IsFrom, g
  <2> QED
    BY <2>1, <2>2
<1>3. ASSUME NEW i \in Nat, i < n, P(i) PROVE P(i + 1)
  <2> DEFINE k == n + 1 - i
             l == n - i
  <2>1. k \in 2..(n + 1) /\ l \in 1..n /\ l + 1 = k /\ n + 1 - (i + 1) = l
    BY <1>1, <1>3
  <2>2. PICK g : IsFrom(k, g)
    BY <1>3
  <2> HIDE DEF k, l
  <2>3. \A j \in k..(n + 1) : g[j] = IF j = n + 1 THEN 0 ELSE s[j] + B * g[j + 1]
    BY <2>2
  <2> DEFINE v == s[l] + B * g[k]
             h == [j \in l..(n + 1) |-> IF j = l THEN v ELSE g[j]]
  <2>4. ASSUME NEW j \in l..(n + 1)
        PROVE  h[j] = IF j = n + 1 THEN 0 ELSE s[j] + B * h[j + 1]
    <3>1. CASE j = l
      <4>1. h[j] = v /\ j # n + 1 /\ j + 1 = k /\ h[k] = g[k]
        BY <1>1, <2>1, <3>1
      <4> QED
        BY <4>1, <3>1
    <3>2. CASE j \in k..(n + 1)
      <4>1. h[j] = g[j] /\ j # l
        BY <1>1, <2>1, <3>2
      <4>2. j # n + 1 => j + 1 \in k..(n + 1) /\ j + 1 # l /\ h[j + 1] = g[j + 1]
        BY <1>1, <2>1, <3>2
      <4> QED
        BY <4>1, <4>2, <2>3, <3>2
    <3> QED
      BY <1>1, <2>1, <3>1, <3>2
  <2>5. IsFrom(l, h)
    BY <2>4
  <2> HIDE DEF h, IsFrom
  <2> QED
    BY <2>1, <2>5
<1>4. bad = {}
  <2> SUFFICES ASSUME bad # {} PROVE FALSE
    OBVIOUS
  <2> HIDE DEF P
  <2>1. PICK m \in bad : \A k \in bad : m <= k
    BY LeastExists
  <2>2. m # 0 /\ m - 1 \in Nat /\ m - 1 < n /\ m - 1 <= n /\ ~(m <= m - 1) /\ (m - 1) + 1 = m
    BY <1>1, <1>2
  <2>3. P(m - 1)
    BY <2>1, <2>2
  <2> QED
    BY <1>3, <2>2, <2>3
<1>5. \E g : IsFrom(1, g)
  <2>1. P(n)
    BY <1>1, <1>4
  <2>2. n + 1 - n = 1
    BY <1>1
  <2> HIDE DEF IsFrom
  <2> QED
    BY <2>1, <2>2
<1> DEFINE w == CHOOSE g : IsFrom(1, g)
<1>6. IsFrom(1, w)
  BY <1>5
<1>7. Unsigned(s) = w[1]
  BY DEF Unsigned, B
<1> HIDE DEF w
<1>8. \A j \in 1..(n + 1) : w[j] = IF j = n + 1 THEN 0 ELSE s[j] + B * w[j + 1]
  BY <1>6
<1>9. w[n + 1] = 0 /\ \A j \in 1..n : w[j] = s[j] + B * w[j + 1]
  BY <1>1, <1>8
<1> QED
  BY <1>1, <1>7, <1>9 DEF B

\* Each octet is a digit of the value.
LEMMA UnsignedOctets ==
  ASSUME NEW s \in Seq(Octet), NEW n, n = Len(s)
  PROVE  /\ n \in Nat /\ Unsigned(s) \in Nat /\ Unsigned(s) < Place(n + 1)
         /\ \A j \in 1..n : (Unsigned(s) \div Place(j)) % 2 ^ OctetBits = s[j]
<1> DEFINE B == 2 ^ OctetBits
           x == Unsigned(s)
<1>1. n \in Nat /\ B \in Nat /\ B > 1 /\ \A j \in 1..n : s[j] \in 0..(B - 1)
  <2>1. n \in Nat /\ \A j \in 1..n : s[j] \in Octet
    BY UnsignedFacts
  <2>2. 1 \in Nat /\ 1 >= 1
    OBVIOUS
  <2>3. B \in Nat /\ B > 1
    BY <2>2, PlaceFacts
  <2> QED
    BY <2>1, <2>3 DEF Octet
<1>2. PICK f : f[1] = x /\ f[n + 1] = 0 /\ \A j \in 1..n : f[j] = s[j] + B * f[j + 1]
  BY UnsignedFacts
<1> HIDE DEF B, x
<1>3. \A j \in Nat : j >= 1 => Place(1) = 1 /\ Place(j) \in Nat /\ Place(j) > 0 /\ Place(j + 1) = Place(j) * B
  BY PlaceFacts DEF B
<1> DEFINE Small(i) == f[n + 1 - i] \in Nat /\ f[n + 1 - i] < Place(i + 1)
           large == {i \in Nat : i <= n /\ ~Small(i)}
<1>4. large = {}
  <2> SUFFICES ASSUME large # {} PROVE FALSE
    OBVIOUS
  <2>1. PICK i \in large : \A k \in large : i <= k
    BY LeastExists
  <2>2. i \in Nat /\ i <= n /\ ~Small(i)
    OBVIOUS
  <2>3. i # 0
    <3>1. n + 1 - 0 = n + 1 /\ 0 + 1 = 1 /\ 1 \in Nat /\ 1 >= 1
      BY <1>1
    <3>2. Place(1) = 1
      BY <1>3, <3>1
    <3>3. f[n + 1 - 0] = 0 /\ Place(0 + 1) = 1
      BY <1>2, <3>1, <3>2
    <3>4. Small(0)
      BY <3>3
    <3> QED
      BY <2>2, <3>4
  <2> DEFINE k == i - 1
             j == n + 1 - i
  <2>4. k \in Nat /\ k <= n /\ ~(i <= k) /\ k + 1 = i /\ j \in 1..n /\ n + 1 - k = j + 1
    BY <1>1, <2>2, <2>3
  <2>5. Small(k)
    BY <2>1, <2>4
  <2> DEFINE y == f[j + 1]
             p == Place(i)
  <2>6. y \in Nat /\ y < p
    BY <2>4, <2>5
  <2>7. p \in Nat /\ Place(i + 1) = p * B
    BY <1>3, <2>2, <2>3
  <2>8. f[j] = s[j] + B * y /\ s[j] \in 0..(B - 1)
    BY <1>1, <1>2, <2>4
  <2> HIDE DEF y, p
  <2>9. s[j] + B * y \in Nat /\ s[j] + B * y < p * B
    <3>1. PICK c \in Nat : p = y + 1 + c
      <4>1. p - y - 1 \in Nat /\ p = y + 1 + (p - y - 1)
        BY <2>6, <2>7
      <4> QED
        BY <4>1
    <3> DEFINE g == B * y
               h == B * c
    <3>2. p * B = g + B + h /\ h \in Nat /\ g \in Nat
      BY <1>1, <2>6, <3>1
    <3> HIDE DEF g, h
    <3>3. s[j] \in Nat /\ s[j] < B
      BY <1>1, <2>8
    <3>4. s[j] + g \in Nat /\ s[j] + g < p * B
      BY <1>1, <3>2, <3>3, SMTT(60)
    <3> QED
      BY <3>4 DEF g
  <2>10. Small(i)
    BY <2>7, <2>8, <2>9
  <2> QED
    BY <2>2, <2>10
<1>5. ASSUME NEW j \in 1..(n + 1) PROVE f[j] \in Nat
  <2> DEFINE i == n + 1 - j
  <2>1. i \in Nat /\ i <= n /\ n + 1 - i = j
    BY <1>1
  <2>2. Small(i)
    BY <1>4, <2>1
  <2> QED
    BY <2>1, <2>2
<1>6. x \in Nat /\ x < Place(n + 1)
  <2>1. n + 1 - n = 1 /\ n <= n
    BY <1>1
  <2>2. Small(n)
    BY <1>1, <1>4, <2>1
  <2> QED
    BY <1>2, <2>1, <2>2
<1>7. ASSUME NEW j \in 1..n PROVE f[j] \div B = f[j + 1] /\ f[j] % B = s[j]
  <2>1. f[j + 1] \in Nat
    <3>1. j + 1 \in 1..(n + 1)
      BY <1>1
    <3> QED
      BY <1>5, <3>1
  <2> DEFINE y == f[j + 1]
             z == f[j]
  <2>2. z = B * y + s[j] /\ s[j] \in 0..(B - 1)
    <3>1. z = s[j] + B * y /\ s[j] \in 0..(B - 1)
      BY <1>1, <1>2
    <3> HIDE DEF y, z
    <3>2. y \in Nat
      BY <2>1 DEF y
    <3> QED
      BY <1>1, <3>1, <3>2
  <2> HIDE DEF y, z
  <2>3. y \in Int /\ B > 0
    BY <1>1, <2>1 DEF y
  <2>4. z \div B = y /\ z % B = s[j]
    BY <1>1, <2>2, <2>3, QuotientIs
  <2> QED
    BY <2>4 DEF y, z
<1> DEFINE Behind(j) == x \div Place(j) = f[j]
           off == {j \in Nat : j >= 1 /\ j <= n + 1 /\ ~Behind(j)}
<1>8. off = {}
  <2> SUFFICES ASSUME off # {} PROVE FALSE
    OBVIOUS
  <2>1. PICK j \in off : \A k \in off : j <= k
    BY LeastExists
  <2>2. j \in Nat /\ j >= 1 /\ j <= n + 1 /\ ~Behind(j)
    OBVIOUS
  <2>3. j # 1
    <3>1. x \div 1 = x
      BY <1>6
    <3>2. Place(1) = 1
      BY <1>3, <2>2
    <3> QED
      BY <1>2, <2>2, <3>1, <3>2
  <2> DEFINE i == j - 1
  <2>4. i \in Nat /\ i >= 1 /\ i <= n + 1 /\ ~(j <= i) /\ i + 1 = j /\ i \in 1..n
    BY <1>1, <2>2, <2>3
  <2> HIDE DEF i
  <2>5. x \div Place(i) = f[i]
    BY <2>1, <2>4
  <2>6. Place(i) \in Nat /\ Place(i) > 0 /\ Place(j) = Place(i) * B
    BY <1>3, <2>4
  <2>7. (x \div Place(i)) \div B = x \div (Place(i) * B)
    <3> DEFINE p == Place(i)
    <3>1. p \in Nat /\ p > 0 /\ B > 0
      BY <1>1, <2>6
    <3> HIDE DEF p
    <3>2. (x \div p) \div B = x \div (p * B)
      BY <1>1, <1>6, <3>1, DividedTwice, SMTT(60)
    <3> QED
      BY <3>2 DEF p
  <2> QED
    BY <1>7, <2>2, <2>4, <2>5, <2>6, <2>7
<1>9. ASSUME NEW j \in 1..n PROVE (x \div Place(j)) % B = s[j]
  <2>1. j \in Nat /\ j >= 1 /\ j <= n + 1
    BY <1>1
  <2>2. x \div Place(j) = f[j]
    BY <1>8, <2>1
  <2> QED
    BY <1>7, <2>2
<1> QED
  BY <1>1, <1>6, <1>9 DEF x, B

\* A number that is less by the capacity of n octets has the same ones.
LEMMA SameOctets ==
  ASSUME NEW n \in Nat, NEW j \in 1..n, NEW x \in Nat
  PROVE  ((x - Place(n + 1)) \div Place(j)) % 2 ^ OctetBits = (x \div Place(j)) % 2 ^ OctetBits
<1> DEFINE B == 2 ^ OctetBits
           P == Place(j)
           c == Place(n - j + 1)
           W == Place(n + 1)
           q == x \div P
           r == x % P
<1>1. j \in Nat /\ j >= 1 /\ j <= n /\ n - j + 1 \in Nat /\ n - j + 1 >= 1
  OBVIOUS
<1>2. B \in Nat /\ B > 1 /\ P \in Nat /\ P > 0 /\ c \in Nat
  BY <1>1, PlaceFacts
<1>3. W = P * (B * c)
  <2> DEFINE o == OctetBits
             a == o * (j - 1)
             b == o * (n - j)
  <2>1. o \in Nat
    BY WidthsAssumption
  <2>2. a \in Nat /\ b \in Nat
    <3>1. j - 1 \in Nat /\ n - j \in Nat
      BY <1>1
    <3> QED
      BY <2>1, <3>1
  <2>3. o * ((n + 1) - 1) = a + (o + b)
    <3> DEFINE k == j - 1
               m == n - j
    <3>1. k \in Nat /\ m \in Nat /\ (n + 1) - 1 = k + (1 + m)
      BY <1>1
    <3> HIDE DEF k, m
    <3>2. o * (k + (1 + m)) = o * k + (o + o * m)
      BY <2>1, <3>1
    <3> QED
      BY <3>1, <3>2 DEF k, m
  <2>4. o * ((n - j + 1) - 1) = b
    <3>1. (n - j + 1) - 1 = n - j
      BY <1>1
    <3> QED
      BY <3>1
  <2> HIDE DEF a, b
  <2>5. 2 ^ (a + (o + b)) = 2 ^ a * 2 ^ (o + b) /\ 2 ^ (o + b) = 2 ^ o * 2 ^ b
    BY <2>1, <2>2, PowerOfSum
  <2>6. P = 2 ^ a
    BY DEF Place, a
  <2>7. c = 2 ^ b
    BY <2>4 DEF Place
  <2>8. W = 2 ^ (a + (o + b))
    BY <2>3 DEF Place
  <2> QED
    BY <2>5, <2>6, <2>7, <2>8
<1>4. q \in Nat /\ r \in 0..(P - 1) /\ x = P * q + r
  <2> HIDE DEF P
  <2> QED
    BY <1>2, Quotients
<1> HIDE DEF B, P, c, W, q, r
<1> DEFINE d == B * c
           e == q - d
<1>5. d \in Nat /\ e \in Int
  BY <1>2, <1>4
<1>6. x - W = P * e + r
  <2>1. P * e = P * q - P * d /\ P * q \in Nat /\ P * d \in Nat
    <3> HIDE DEF d
    <3> QED
      BY <1>2, <1>4, <1>5
  <2> HIDE DEF d, e
  <2>2. W = P * d
    BY <1>3 DEF d
  <2> QED
    BY <1>4, <2>1, <2>2
<1>7. (x - W) \div P = e
  <2> HIDE DEF e
  <2> QED
    BY <1>2, <1>4, <1>5, <1>6, QuotientIs
<1>8. e % B = q % B
  <2> DEFINE g == q \div B
             h == q % B
  <2>1. g \in Nat /\ h \in 0..(B - 1) /\ q = B * g + h
    BY <1>2, <1>4, Quotients
  <2> HIDE DEF g, h
  <2>2. e = B * (g - c) + h /\ g - c \in Int
    BY <1>2, <2>1
  <2>3. e % B = h
    <3> HIDE DEF e
    <3> QED
      BY <1>2, <2>1, <2>2, QuotientIs
  <2> QED
    BY <2>3 DEF h
<1> QED
  BY <1>7, <1>8 DEF B, P, W, q

LEMMA SizeFacts ==
  ASSUME NEW T, IsMemoryType(T)
  PROVE  SizeOf(T) \in Nat /\ SizeOf(T) > 0 /\ Place(SizeOf(T) + 1) = 2 ^ T.bits
<1> DEFINE o == OctetBits
           b == T.bits
           m == b \div o
<1>1. o \in Nat /\ o >= 1 /\ b \in Nat /\ b >= 1 /\ b % o = 0
  BY WidthsAssumption DEF IsMemoryType, IsElementType
<1> HIDE DEF o, b
<1>2. m \in Nat /\ b = o * m
  BY <1>1, Quotients
<1> HIDE DEF m
<1>3. (b + o - 1) \div o = m
  <2>1. b + o - 1 = o * m + (o - 1) /\ o - 1 \in 0..(o - 1)
    BY <1>1, <1>2
  <2> QED
    BY <1>1, <1>2, <2>1, QuotientIs
<1>4. SizeOf(T) = m
  BY <1>3 DEF SizeOf, o, b
<1>5. m > 0
  BY <1>1, <1>2
<1>6. Place(m + 1) = 2 ^ b
  <2>1. (m + 1) - 1 = m
    BY <1>2
  <2> QED
    BY <1>2, <2>1 DEF Place, o
<1> QED
  BY <1>2, <1>4, <1>5, <1>6 DEF b

\* Octets in memory stand for a number that is kept as these octets.
LEMMA OctetsOfValue ==
  ASSUME NEW T, IsMemoryType(T), NEW s \in Seq(Octet), Len(s) = SizeOf(T)
  PROVE  \A j \in 1..Len(s) : Octets(ValueOf(T, s), SizeOf(T))[j] = s[j]
<1> DEFINE n == SizeOf(T)
           x == Unsigned(s)
           W == 2 ^ T.bits
           v == ValueOf(T, s)
<1>1. n \in Nat /\ W = Place(n + 1)
  BY SizeFacts
<1> HIDE DEF n
<1>2. x \in Nat /\ x < W /\ \A j \in 1..n : (x \div Place(j)) % 2 ^ OctetBits = s[j]
  BY <1>1, UnsignedOctets DEF n
<1>3. W \in Nat /\ x % W = x
  <2>1. W \in Nat
    <3>1. n + 1 \in Nat /\ n + 1 >= 1
      BY <1>1
    <3> QED
      BY <1>1, <3>1, PlaceFacts
  <2> HIDE DEF W, x
  <2>2. x = W * 0 + x /\ 0 \in Int /\ x \in 0..(W - 1) /\ W > 0
    BY <1>2, <2>1
  <2>3. \A q \in Int, e \in 0..(W - 1) : x = W * q + e => x % W = e
    BY <2>1, <2>2, QuotientIs, ZenonT(60)
  <2>4. x % W = x
    BY <2>2, <2>3
  <2> QED
    BY <2>1, <2>4
<1>4. v = x \/ v = x - W
  BY <1>3 DEF ValueOf
<1> HIDE DEF x, W, v
<1>5. ASSUME NEW j \in 1..n PROVE Octets(v, n)[j] = s[j]
  <2>1. Octets(v, n)[j] = (v \div Place(j)) % 2 ^ OctetBits
    BY DEF Octets, Place
  <2>2. CASE v = x
    BY <1>2, <2>1, <2>2
  <2>3. CASE v = x - W
    <3>1. ((x - Place(n + 1)) \div Place(j)) % 2 ^ OctetBits = (x \div Place(j)) % 2 ^ OctetBits
      BY <1>1, <1>2, SameOctets
    <3> QED
      BY <1>1, <1>2, <2>1, <2>3, <3>1
  <2> QED
    BY <1>4, <2>2, <2>3
<1> QED
  BY <1>5 DEF n, v

\* Whole elements that are read from memory are kept as what has been read.
LEMMA MemoryOfElements ==
  ASSUME NEW T, IsMemoryType(T), NEW s \in Seq(Octet), Len(s) % SizeOf(T) = 0
  PROVE  Memory(T, ElementsOf(T, s)) = s
<1> DEFINE n == Len(s)
           z == SizeOf(T)
           m == n \div z
           e == ElementsOf(T, s)
<1>1. n \in Nat /\ DOMAIN s = 1..n /\ z \in Nat /\ z > 0
  BY SizeFacts, LenProperties
<1>2. m \in Nat /\ n = m * z
  <2> HIDE DEF n, z
  <2>1. m \in Nat /\ n = z * m + (n % z)
    BY <1>1, Quotients
  <2>2. n % z = 0
    BY DEF n, z
  <2> HIDE DEF m
  <2> QED
    BY <1>1, <2>1, <2>2
<1>3. Len(e) = m /\ \A k \in 1..m : e[k] = ValueOf(T, SubSeq(s, (k - 1) * z + 1, k * z))
  <2>1. e = [k \in 1..m |-> ValueOf(T, SubSeq(s, (k - 1) * z + 1, k * z))]
    BY DEF ElementsOf
  <2> HIDE DEF m, e
  <2> DEFINE S == {ValueOf(T, SubSeq(s, (k - 1) * z + 1, k * z)) : k \in 1..m}
  <2>2. e \in [1..m -> S]
    BY <2>1
  <2> HIDE DEF S
  <2>3. Len(e) = m
    BY <1>2, <2>2
  <2> QED
    BY <2>1, <2>3
<1> HIDE DEF n, z, m, e
<1>4. Memory(T, e) = [j \in 1..n |-> Octets(e[((j - 1) \div z) + 1], z)[((j - 1) % z) + 1]]
  BY <1>2, <1>3 DEF Memory, z
<1>5. ASSUME NEW j \in 1..n
      PROVE  Octets(e[((j - 1) \div z) + 1], z)[((j - 1) % z) + 1] = s[j]
  <2> DEFINE q == (j - 1) \div z
             r == (j - 1) % z
             k == q + 1
             a == q * z + 1
             b == (q + 1) * z
             w == SubSeq(s, (k - 1) * z + 1, k * z)
  <2>1. q \in Nat /\ r \in Nat /\ r < z /\ j - 1 = z * q + r
    <3>1. j - 1 \in Nat
      BY <1>1
    <3> QED
      BY <1>1, <3>1, Quotients
  <2> HIDE DEF q, r
  <2>2. q < m
    <3> SUFFICES ASSUME m <= q PROVE FALSE
      BY <1>2, <2>1
    <3>1. PICK c \in Nat : q = m + c
      <4>1. q - m \in Nat /\ q = m + (q - m)
        BY <1>2, <2>1
      <4> QED
        BY <4>1
    <3>2. z * q = m * z + z * c /\ z * c \in Nat /\ m * z \in Nat
      BY <1>1, <1>2, <3>1
    <3> QED
      BY <1>1, <1>2, <2>1, <3>2
  <2>3. a \in Nat /\ b \in Nat /\ a >= 1 /\ b = a + z - 1 /\ b <= n /\ a + r = j
    <3>1. PICK c \in Nat : m = q + 1 + c
      <4>1. m - q - 1 \in Nat /\ m = q + 1 + (m - q - 1)
        BY <1>2, <2>1, <2>2
      <4> QED
        BY <4>1
    <3>2. m * z = (q + 1) * z + c * z /\ c * z \in Nat /\ (q + 1) * z = q * z + z /\ q * z \in Nat /\ z * q = q * z
      BY <1>1, <2>1, <3>1
    <3> QED
      BY <1>1, <1>2, <2>1, <3>2
  <2>4. w = SubSeq(s, a, b)
    <3>1. k - 1 = q /\ k = q + 1
      BY <2>1
    <3> QED
      BY <3>1
  <2> HIDE DEF a, b, w
  <2>5. w \in Seq(Octet) /\ Len(w) = z /\ w[r + 1] = s[j]
    <3>1. \A i \in a..b : s[i] \in Octet
      BY <1>1, <2>3, ElementOfSeq DEF n
    <3>2. /\ w \in Seq(Octet)
          /\ Len(w) = IF a <= b THEN b - a + 1 ELSE 0
          /\ \A i \in 1..(b - a + 1) : w[i] = s[a + i - 1]
      BY <1>1, <2>3, <2>4, <3>1, SubSeqProperties
    <3>3. a <= b /\ b - a + 1 = z /\ r + 1 \in 1..(b - a + 1) /\ a + (r + 1) - 1 = j
      BY <1>1, <2>1, <2>3
    <3> QED
      BY <3>2, <3>3
  <2>6. e[q + 1] = ValueOf(T, w)
    <3>1. k \in 1..m
      BY <1>2, <2>1, <2>2
    <3> HIDE DEF k
    <3>2. e[k] = ValueOf(T, w)
      BY <1>3, <3>1 DEF w
    <3> QED
      BY <3>2 DEF k
  <2>7. r + 1 \in 1..z
    BY <1>1, <2>1
  <2>8. Octets(ValueOf(T, w), z)[r + 1] = w[r + 1]
    BY <2>5, <2>7, OctetsOfValue DEF z
  <2> QED
    BY <2>5, <2>6, <2>8 DEF q, r
<1>6. Memory(T, e) = [j \in 1..n |-> s[j]]
  BY <1>4, <1>5
<1>7. s = [j \in 1..n |-> s[j]]
  BY <1>1 DEF n
<1> QED
  BY <1>6, <1>7 DEF e

-----------------------------------------------------------------------------
(* Values *)

LEMMA Failures ==
  /\ ~invalid_value_error.ok /\ ~wrong_type_error.ok
  /\ \A v : Good(v).ok /\ Good(v).val = v
BY DEF invalid_value_error, wrong_type_error, Failed, Good

LEMMA ScalarIsExact ==
  ASSUME NEW T, IsElementType(T), NEW s, IsScalar(s), FromScalar(T, s).ok
  PROVE  IsScalarOf(T, FromScalar(T, s).val, s)
<1> DEFINE v == FromScalar(T, s).val
<1>1. CASE T.kind = "integral"
  <2>1. FromScalar(T, s) = IntegralFromScalar(T, s)
    BY <1>1 DEF FromScalar
  <2>2. CASE s.tag = "real"
    <3>1. FromScalar(T, s) = LosslessToIntegral(T, s.val)
      BY <2>1, <2>2 DEF IntegralFromScalar
    <3>2. s.val \in Int \union {NaN}
      BY <2>2 DEF IsScalar
    <3>3. 2 * v = s.val \/ (T.bits = IntegerBits /\ s.val = 2 * (Highest(T) + 1))
      BY <1>1, <3>1, <3>2, IntegralIsExact
    <3> HIDE DEF v
    <3>4. IsScalarOf(T, v, s)
      BY <1>1, <2>2, <3>3 DEF IsScalarOf
    <3> QED
      BY <3>4 DEF v
  <2>3. CASE s.tag = "integer"
    <3>1. FromScalar(T, s) = LosslessInteger(T, s.val)
      BY <2>1, <2>3 DEF IntegralFromScalar
    <3>2. v = s.val
      BY <3>1, Failures DEF LosslessInteger
    <3> HIDE DEF v
    <3>3. IsScalarOf(T, v, s)
      BY <1>1, <2>3, <3>2 DEF IsScalarOf
    <3> QED
      BY <3>3 DEF v
  <2>4. CASE s.tag \notin {"real", "integer"}
    BY <2>1, <2>4, Failures DEF IntegralFromScalar
  <2> QED
    BY <2>2, <2>3, <2>4
<1>2. CASE T.kind = "floating"
  <2>1. FromScalar(T, s) = FloatingFromScalar(T, s)
    BY <1>2 DEF FromScalar
  <2>2. CASE s.tag = "integer"
    <3>1. FromScalar(T, s) = LosslessToFloatingPoint(T, s.val)
      BY <2>1, <2>2 DEF FloatingFromScalar
    <3>2. v = 2 * s.val
      BY <3>1, Failures DEF LosslessToFloatingPoint
    <3> HIDE DEF v
    <3>3. IsScalarOf(T, v, s)
      BY <1>2, <2>2, <3>2 DEF IsScalarOf
    <3> QED
      BY <3>3 DEF v
  <2>3. CASE s.tag = "real"
    <3>1. FromScalar(T, s) = WithRangeChecking(T, s.val)
      BY <2>1, <2>3 DEF FloatingFromScalar
    <3>2. v = s.val \/ v = Rounded(s.val, T.digits)
      BY <3>1, Failures DEF WithRangeChecking
    <3> HIDE DEF v
    <3>3. IsScalarOf(T, v, s)
      BY <1>2, <2>3, <3>2 DEF IsScalarOf
    <3> QED
      BY <3>3 DEF v
  <2>4. CASE s.tag \notin {"real", "integer"}
    BY <2>1, <2>4, Failures DEF FloatingFromScalar
  <2> QED
    BY <2>2, <2>3, <2>4
<1>3. CASE T.kind \in {"bool", "string"}
  <2>1. v = s.val
    BY <1>3, Failures DEF FromScalar, StringFromScalar
  <2> HIDE DEF v
  <2>2. IsScalarOf(T, v, s)
    BY <1>3, <2>1 DEF IsScalarOf
  <2> QED
    BY <2>2 DEF v
<1> QED
  BY <1>1, <1>2, <1>3 DEF IsElementType

\* All elements have been converted, or the result is the error of one of them.
LEMMA AllGoodFacts ==
  ASSUME NEW n \in Nat, NEW r, DOMAIN r = 1..n, AllGood(r).ok
  PROVE  (\A j \in 1..n : r[j].ok) /\ AllGood(r).val = [j \in 1..n |-> r[j].val]
<1> DEFINE bad == {j \in DOMAIN r : ~r[j].ok}
           c == CHOOSE j \in bad : \A k \in bad : j <= k
<1>1. AllGood(r) = IF bad = {} THEN Good([j \in DOMAIN r |-> r[j].val]) ELSE r[c]
  BY DEF AllGood
<1>2. bad = {}
  <2> SUFFICES ASSUME bad # {} PROVE FALSE
    OBVIOUS
  <2>1. bad \in SUBSET Nat
    OBVIOUS
  <2>2. \E j \in bad : \A k \in bad : j <= k
    <3> HIDE DEF bad
    <3> QED
      BY <2>1, LeastExists
  <2>3. c \in bad
    BY <2>2
  <2>4. AllGood(r) = r[c]
    BY <1>1
  <2> HIDE DEF c
  <2> QED
    BY <2>3, <2>4
<1> QED
  BY <1>1, <1>2, Failures

\* The binary types, whose values are kept as octets in memory.
InMemory(T) == T.kind \in {"array", "container"} /\ T.binary

LEMMA MemoryIsExact ==
  ASSUME NEW T, InMemory(T), IsMemoryType(T.of), T.kind = "array" => T.size \in Nat, NEW g, IsScalar(g), FromScalar(T, g).ok
  PROVE  IsScalarOf(T, FromScalar(T, g).val, g)
<1> DEFINE v == FromScalar(T, g).val
<1>1. FromScalar(T, g) = IF T.kind = "array" THEN ArrayFromScalar(T, g) ELSE ContainerFromScalar(T, g)
  BY DEF InMemory, FromScalar
<1>2. g.tag = "binary"
  BY <1>1, Failures DEF ArrayFromScalar, ContainerFromScalar
<1>3. g.val \in Seq(Octet)
  BY <1>2 DEF IsScalar, Octet
<1>4. T.kind = "array" => Len(g.val) = T.size * SizeOf(T.of)
  BY <1>1, <1>2, Failures DEF ArrayFromScalar
<1>5. v = ElementsOf(T.of, g.val)
  BY <1>1, <1>2, <1>4, Failures DEF ArrayFromScalar, ContainerFromScalar
<1>6. Len(g.val) % SizeOf(T.of) = 0
  <2>1. CASE T.kind = "array"
    <3> DEFINE n == Len(g.val)
               z == SizeOf(T.of)
               m == T.size
    <3>1. n \in Nat /\ z \in Nat /\ z > 0 /\ n = m * z
      BY <1>3, <1>4, <2>1, SizeFacts, LenProperties DEF InMemory
    <3>2. m \in Nat
      BY <2>1
    <3> HIDE DEF n, z, m
    <3>3. n = z * m
      BY <3>1, <3>2
    <3>4. n % z = 0
      BY <3>1, <3>2, <3>3, Multiples
    <3> QED
      BY <3>4 DEF n, z
  <2>2. CASE T.kind # "array"
    BY <1>1, <1>2, <2>2, Failures DEF ContainerFromScalar
  <2> QED
    BY <2>1, <2>2
<1>7. Memory(T.of, v) = g.val
  BY <1>3, <1>5, <1>6, MemoryOfElements
<1> HIDE DEF v
<1>8. IsScalarOf(T, v, g)
  BY <1>7 DEF InMemory, IsScalarOf
<1> QED
  BY <1>8 DEF v

LEMMA GenericIsExact ==
  ASSUME NEW T, IsType(T), T.kind # "chars", NEW g, IsGeneric(g),
         T.kind = "tuple" /\ g.tag = "tuple" => Len(g.val) >= Len(T.of),
         FromGeneric(T, g).ok
  PROVE  Denotes(T, FromGeneric(T, g).val, g)
<1> DEFINE v == FromGeneric(T, g).val
<1>1. CASE IsSequence(T)
  <2>1. FromGeneric(T, g) = SequenceFromGeneric(T, g)
    BY <1>1 DEF FromGeneric, IsSequence
  <2>2. g.tag = "sequence"
    BY <2>1, Failures DEF SequenceFromGeneric
  <2> DEFINE r == [j \in DOMAIN g.val |-> FromScalar(T.of, g.val[j])]
             n == Len(g.val)
  <2>3. FromGeneric(T, g) = AllGood(r)
    BY <2>1, <2>2, Failures DEF SequenceFromGeneric
  <2>4. n \in Nat /\ DOMAIN g.val = 1..n /\ \A j \in 1..n : IsScalar(g.val[j])
    BY <2>2 DEF IsGeneric, IsScalar, Scalars
  <2> HIDE DEF n
  <2>5. DOMAIN r = 1..n /\ \A j \in 1..n : r[j] = FromScalar(T.of, g.val[j])
    BY <2>4
  <2> HIDE DEF r
  <2>6. (\A j \in 1..n : r[j].ok) /\ v = [j \in 1..n |-> r[j].val]
    BY <2>3, <2>4, <2>5, AllGoodFacts
  <2>7. IsElementType(T.of)
    BY <1>1 DEF IsSequence, IsType, IsElementType
  <2>8. ASSUME NEW j \in 1..n PROVE IsScalarOf(T.of, r[j].val, g.val[j])
    BY <2>4, <2>5, <2>6, <2>7, ScalarIsExact
  <2>9. Len(v) = n
    <3> DEFINE w == [j \in 1..n |-> r[j].val]
               S == {r[j].val : j \in 1..n}
    <3>1. w \in [1..n -> S]
      OBVIOUS
    <3> HIDE DEF S
    <3>2. Len(w) = n
      BY <2>4, <3>1
    <3> QED
      BY <2>6, <3>2
  <2> HIDE DEF v
  <2>10. DOMAIN v = 1..n /\ \A j \in 1..n : v[j] = r[j].val
    BY <2>6
  <2>11. \A j \in DOMAIN v : IsScalarOf(T.of, v[j], g.val[j])
    BY <2>8, <2>10
  <2>12. Denotes(T, v, g)
    BY <1>1, <2>9, <2>11 DEF Denotes, IsSequence, n
  <2> QED
    BY <2>12 DEF v
<1>2. CASE T.kind = "tuple"
  <2>1. ~IsSequence(T)
    BY <1>2 DEF IsSequence
  <2>2. FromGeneric(T, g) = TupleFromGeneric(T, g)
    BY <1>2, <2>1 DEF FromGeneric
  <2>3. g.tag = "tuple"
    BY <2>2, Failures DEF TupleFromGeneric
  <2> DEFINE r == [j \in DOMAIN T.of |-> FromScalar(T.of[j], g.val[j])]
             n == Len(T.of)
  <2>4. FromGeneric(T, g) = AllGood(r)
    BY <2>2, <2>3 DEF TupleFromGeneric
  <2>5. n \in Nat /\ DOMAIN T.of = 1..n /\ \A j \in 1..n : IsElementType(T.of[j])
    BY <1>2 DEF IsType, IsElementType
  <2>6. \A j \in 1..n : IsScalar(g.val[j])
    <3>1. Len(g.val) \in Nat /\ DOMAIN g.val = 1..Len(g.val) /\ \A j \in DOMAIN g.val : IsScalar(g.val[j])
      BY <2>3 DEF IsGeneric, IsScalar, Scalars
    <3>2. n <= Len(g.val)
      BY <1>2, <2>3, <2>5, <3>1
    <3> QED
      BY <2>5, <3>1, <3>2
  <2> HIDE DEF n
  <2>7. DOMAIN r = 1..n /\ \A j \in 1..n : r[j] = FromScalar(T.of[j], g.val[j])
    BY <2>5
  <2> HIDE DEF r
  <2>8. (\A j \in 1..n : r[j].ok) /\ v = [j \in 1..n |-> r[j].val]
    BY <2>4, <2>5, <2>7, AllGoodFacts
  <2>9. ASSUME NEW j \in 1..n PROVE IsScalarOf(T.of[j], r[j].val, g.val[j])
    BY <2>5, <2>6, <2>7, <2>8, ScalarIsExact
  <2> HIDE DEF v
  <2>10. DOMAIN v = 1..n /\ \A j \in 1..n : v[j] = r[j].val
    BY <2>8
  <2>11. \A j \in DOMAIN v : IsScalarOf(T.of[j], v[j], g.val[j])
    BY <2>9, <2>10
  <2>12. Denotes(T, v, g)
    BY <1>2, <2>1, <2>11 DEF Denotes
  <2> QED
    BY <2>12 DEF v
<1>3. CASE ~IsSequence(T) /\ T.kind # "tuple"
  <2>1. IsElementType(T) \/ (InMemory(T) /\ IsMemoryType(T.of) /\ (T.kind = "array" => T.size \in Nat))
    BY <1>3 DEF IsType, InMemory, IsSequence
  <2>2. g.tag \in Scalars /\ FromGeneric(T, g) = FromScalar(T, g)
    BY <1>3, Failures DEF FromGeneric
  <2>3. IsScalar(g)
    BY <2>2 DEF IsGeneric, Scalars
  <2>4. IsScalarOf(T, v, g)
    BY <2>1, <2>2, <2>3, ScalarIsExact, MemoryIsExact
  <2> HIDE DEF v
  <2>5. Denotes(T, v, g)
    BY <1>3, <2>4 DEF Denotes
  <2> QED
    BY <2>5 DEF v
<1> QED
  BY <1>1, <1>2, <1>3

-----------------------------------------------------------------------------
(* Requests *)

\* "if conversion is not lossless" (conversion.h): whatever the widths of the
\* types, a value that is accepted is the one that was sent, but for the
\* rounding of reals and the one number that a cast is let through for.
THEOREM ConversionsAreExact == Spec => []AcceptedIsExact
<1> DEFINE Typed == type \in Types
<1>1. Init => Typed
  BY DEF Init, AccessInit
<1>2. Typed /\ [Next]_vars => Typed'
  <2>1. Next \/ UNCHANGED vars => type' = type
    BY DEF Next, AccessNext, Set, Put, Get, vars, accessVars
  <2> QED
    BY <2>1
<1>3. Typed => AcceptedIsExact
  <2> SUFFICES ASSUME type \in Types, NEW g \in Inputs, MayBeSet(g), FromGeneric(type, g).ok
               PROVE  Denotes(type, FromGeneric(type, g).val, g)
    BY DEF AcceptedIsExact
  <2>1. IsType(type) /\ IsGeneric(g)
    BY TypesAssumption, InputsAssumption
  <2>2. type.kind # "chars" /\ (type.kind = "tuple" /\ g.tag = "tuple" => Len(g.val) >= Len(type.of))
    BY DEF MayBeSet
  <2> QED
    BY <2>1, <2>2, GenericIsExact
<1> QED
  BY <1>1, <1>2, <1>3, PTL DEF Spec

LEMMA AssignIsHarmless ==
  ASSUME NEW g, Assign(g), reply' # "ok"
  PROVE  value' = value \/ ~ToGeneric(type, value').ok
BY DEF Assign

\* A request that is answered with an error leaves value_ alone, unless the
\* error is that of emit(), which cannot convert the new value back: whatever the
\* types, the values and the bodies.
THEOREM RefusalsAreHarmless == Spec => RefusedChangesNothing
<1>1. ASSUME [Next]_vars, reply' # "ok", accessVars' # accessVars
      PROVE  value' = value \/ ~ToGeneric(type, value').ok
  <2>1. AccessNext
    BY <1>1 DEF Next, vars
  <2>2. CASE \E g \in Inputs : Set(g)
    BY <1>1, <2>2, AssignIsHarmless DEF Set
  <2>3. CASE \E decoded \in Decoded : Put(decoded)
    BY <1>1, <2>3, AssignIsHarmless DEF Put
  <2>4. CASE Get
    BY <2>4 DEF Get
  <2> QED
    BY <2>1, <2>2, <2>3, <2>4 DEF AccessNext
<1>2. [Next]_vars => [reply' # "ok" => value' = value \/ ~ToGeneric(type, value').ok]_accessVars
  BY <1>1
<1> QED
  BY <1>2, PTL DEF Spec, RefusedChangesNothing
=============================================================================
