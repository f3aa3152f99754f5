------------------------- MODULE ScgiContext_proofs -------------------------
(***************************************************************************)
(* Proofs about ScgiContext, for every stream of bytes and every way to    *)
(* cut it into chunks.                                                     *)
(***************************************************************************)
EXTENDS ScgiContext, FiniteSets, SequenceTheorems, FiniteSetTheorems, WellFoundedInduction, TLAPS

-----------------------------------------------------------------------------
(* Positions and sequences *)

\* A non-empty set of naturals has a least element.
LEMMA LeastExists ==
  ASSUME NEW S \in SUBSET Nat, S # {}
  PROVE  \E m \in S : \A k \in S : m <= k
<1> DEFINE R == OpToRel(<, Nat)
<1>1. IsWellFoundedOn(R, Nat)
  BY NatLessThanWellFounded
<1>2. \A a, b \in Nat : a < b => <<a, b>> \in R
  BY DEF OpToRel
<1> HIDE DEF R
<1>3. PICK m \in S : \A k \in S : ~ (<<k, m>> \in R)
  BY <1>1, WFMin
<1>4. \A k \in S : m <= k
  <2>1. TAKE k \in S
  <2>2. k \in Nat /\ m \in Nat
    OBVIOUS
  <2>3. ~(k < m)
    BY <1>2, <1>3, <2>2
  <2>4. QED
    BY <2>2, <2>3
<1>5. QED
  BY <1>4

\* A non-empty set of positions has a last one.
LEMMA GreatestExists ==
  ASSUME NEW n \in Nat, NEW S \in SUBSET (1..n), S # {}
  PROVE  \E m \in S : \A k \in S : k <= m
<1> DEFINE T == {n - k : k \in S}
<1>1. T \in SUBSET Nat /\ T # {}
  <2>1. \A k \in S : n - k \in Nat
    OBVIOUS
  <2>2. T \in SUBSET Nat
    BY <2>1
  <2>3. T # {}
    BY S # {}
  <2>4. QED
    BY <2>2, <2>3
<1>2. PICK m \in T : \A k \in T : m <= k
  <2> HIDE DEF T
  <2> QED BY <1>1, LeastExists
<1>3. PICK j \in S : m = n - j
  BY <1>2
<1>4. \A k \in S : n - k \in T
  OBVIOUS
<1>5. \A k \in S : n - j <= n - k
  BY <1>2, <1>3, <1>4
<1>6. QED
  BY <1>3, <1>5

-----------------------------------------------------------------------------
(* Parts of a sequence *)

LEMMA SliceFacts ==
  ASSUME NEW T, NEW s \in Seq(T), NEW a \in 1..(Len(s) + 1), NEW b \in (a - 1)..Len(s)
  PROVE  /\ SubSeq(s, a, b) \in Seq(T)
         /\ Len(SubSeq(s, a, b)) = b - a + 1
         /\ DOMAIN SubSeq(s, a, b) = 1..(b - a + 1)
         /\ \A i \in 1..(b - a + 1) : SubSeq(s, a, b)[i] = s[a + i - 1]
<1> DEFINE r == SubSeq(s, a, b)
<1>1. Len(s) \in Nat /\ DOMAIN s = 1..Len(s) /\ a \in Int /\ b \in Int /\ 1 <= a /\ a - 1 <= b /\ b <= Len(s)
  BY LenProperties
<1>2. \A i \in a..b : s[i] \in T
  BY <1>1, ElementOfSeq
<1>3. /\ r \in Seq(T)
      /\ Len(r) = IF a <= b THEN b - a + 1 ELSE 0
      /\ \A i \in 1..(b - a + 1) : r[i] = s[a + i - 1]
  BY <1>1, <1>2, SubSeqProperties
<1> HIDE DEF r
<1>4. Len(r) = b - a + 1
  BY <1>1, <1>3
<1>5. DOMAIN r = 1..(b - a + 1)
  BY <1>3, <1>4, LenProperties
<1> QED
  BY <1>3, <1>4, <1>5 DEF r

\* One element more.
LEMMA SliceAppend ==
  ASSUME NEW T, NEW s \in Seq(T), NEW b \in Nat, b < Len(s), NEW a \in 1..(b + 1)
  PROVE  SubSeq(s, a, b + 1) = Append(SubSeq(s, a, b), s[b + 1]) /\ s[b + 1] \in T
<1> DEFINE r == SubSeq(s, a, b)
           q == SubSeq(s, a, b + 1)
           t == Append(r, s[b + 1])
           n == b - a + 1
<1>1. Len(s) \in Nat /\ a \in 1..(Len(s) + 1) /\ b \in (a - 1)..Len(s) /\ b + 1 \in (a - 1)..Len(s)
  BY LenProperties
<1>2. r \in Seq(T) /\ Len(r) = n /\ \A i \in 1..n : r[i] = s[a + i - 1]
  BY <1>1, SliceFacts
<1>3. q \in Seq(T) /\ Len(q) = b + 1 - a + 1 /\ \A i \in 1..(b + 1 - a + 1) : q[i] = s[a + i - 1]
  BY <1>1, SliceFacts
<1>4. b + 1 - a + 1 = n + 1 /\ n \in Nat /\ a + (n + 1) - 1 = b + 1
  BY <1>1
<1>5. s[b + 1] \in T
  BY <1>1, ElementOfSeq
<1> HIDE DEF r, q, n
<1>6. /\ t \in Seq(T) /\ Len(t) = n + 1 /\ t[n + 1] = s[b + 1]
      /\ \A i \in 1..n : t[i] = r[i]
  BY <1>2, <1>5, AppendProperties
<1> HIDE DEF t
<1>7. \A i \in 1..(n + 1) : q[i] = t[i]
  <2> TAKE i \in 1..(n + 1)
  <2>1. CASE i \in 1..n
    BY <2>1, <1>2, <1>3, <1>4, <1>6
  <2>2. CASE i = n + 1
    BY <2>2, <1>3, <1>4, <1>6
  <2> QED
    BY <2>1, <2>2, <1>4
<1>8. q = t
  BY <1>3, <1>4, <1>6, <1>7, SeqEqual
<1> QED
  BY <1>5, <1>8 DEF q, t, r

\* A part of a beginning.
LEMMA SliceOfSlice ==
  ASSUME NEW T, NEW s \in Seq(T), NEW n \in 0..Len(s),
         NEW a \in 1..(n + 1), NEW b \in (a - 1)..n
  PROVE  SubSeq(SubSeq(s, 1, n), a, b) = SubSeq(s, a, b)
<1> DEFINE r == SubSeq(s, 1, n)
           q == SubSeq(r, a, b)
           t == SubSeq(s, a, b)
<1>1. Len(s) \in Nat /\ n - 1 + 1 = n /\ 1 \in 1..(Len(s) + 1) /\ n \in (1 - 1)..Len(s)
      /\ a \in 1..(Len(s) + 1) /\ b \in (a - 1)..Len(s)
  BY LenProperties
<1>2. r \in Seq(T) /\ Len(r) = n /\ \A i \in 1..n : r[i] = s[i]
  <2>1. r \in Seq(T) /\ Len(r) = n - 1 + 1 /\ \A i \in 1..(n - 1 + 1) : r[i] = s[1 + i - 1]
    BY <1>1, SliceFacts
  <2> HIDE DEF r
  <2>2. \A i \in 1..n : 1 + i - 1 = i
    BY <1>1
  <2> QED
    BY <2>1, <2>2, <1>1
<1>3. t \in Seq(T) /\ Len(t) = b - a + 1 /\ \A i \in 1..(b - a + 1) : t[i] = s[a + i - 1]
  BY <1>1, SliceFacts
<1> HIDE DEF r, t
<1>4. q \in Seq(T) /\ Len(q) = b - a + 1 /\ \A i \in 1..(b - a + 1) : q[i] = r[a + i - 1]
  <2>1. a \in 1..(Len(r) + 1) /\ b \in (a - 1)..Len(r)
    BY <1>2
  <2> QED
    BY <1>2, <2>1, SliceFacts
<1> HIDE DEF q
<1>5. \A i \in 1..(b - a + 1) : a + i - 1 \in 1..n
  BY <1>1
<1>6. q = t
  BY <1>2, <1>3, <1>4, <1>5, SeqEqual, SMTT(30)
<1> QED
  BY <1>6 DEF q, t, r

LEMMA SliceEmpty ==
  ASSUME NEW T, NEW s \in Seq(T), NEW a \in 1..(Len(s) + 1)
  PROVE  SubSeq(s, a, a - 1) = <<>>
<1> DEFINE q == SubSeq(s, a, a - 1)
<1>1. a - 1 \in (a - 1)..Len(s) /\ (a - 1) - a + 1 = 0
  BY LenProperties
<1>2. q \in Seq(T) /\ Len(q) = 0
  BY <1>1, SliceFacts
<1> HIDE DEF q
<1>3. q = <<>>
  BY <1>2, EmptySeq
<1> QED
  BY <1>3 DEF q

-----------------------------------------------------------------------------
(* Numbers *)

\* Recursion over a sequence is defined: a function for n elements is one for
\* n + 1 elements with one more value.
LEMMA NumberIsNat ==
  ASSUME NEW s \in Seq(Digit)
  PROVE  Number(s) \in Nat
<1> DEFINE IsValue(n, g) == g = [i \in 0..n |-> IF i = 0 THEN 0 ELSE 10 * g[i - 1] + s[i]]
           P(n) == \E g : IsValue(n, g)
           bad == {n \in Nat : n <= Len(s) /\ ~P(n)}
<1>1. Len(s) \in Nat /\ \A i \in 1..Len(s) : s[i] \in Nat
  BY LenProperties, ElementOfSeq DEF Digit
<1>2. P(0)
  <2> DEFINE g == [i \in 0..0 |-> 0]
  <2>1. IsValue(0, g)
    OBVIOUS
  <2> QED
    BY <2>1
<1>3. ASSUME NEW n \in Nat, n < Len(s), P(n) PROVE P(n + 1)
  <2>1. PICK g : IsValue(n, g)
    BY <1>3
  <2> DEFINE v == 10 * g[n] + s[n + 1]
             h == [i \in 0..(n + 1) |-> IF i = n + 1 THEN v ELSE g[i]]
  <2>2. ASSUME NEW i \in 0..(n + 1)
        PROVE  h[i] = IF i = 0 THEN 0 ELSE 10 * h[i - 1] + s[i]
    <3>1. \A j \in 0..n : g[j] = IF j = 0 THEN 0 ELSE 10 * g[j - 1] + s[j]
      BY <2>1
    <3>2. CASE i = n + 1
      <4>1. h[i] = v /\ i # 0 /\ i - 1 = n /\ h[n] = g[n]
        BY <3>2
      <4> QED
        BY <4>1, <3>2
    <3>3. CASE i \in 0..n
      <4>1. h[i] = g[i] /\ i # n + 1
        BY <3>3
      <4>2. i # 0 => i - 1 \in 0..n /\ i - 1 # n + 1 /\ h[i - 1] = g[i - 1]
        BY <3>3
      <4> QED
        BY <4>1, <4>2, <3>1, <3>3
    <3> QED
      BY <3>2, <3>3
  <2>3. IsValue(n + 1, h)
    BY <2>2
  <2> QED
    BY <2>3
<1>4. bad = {}
  <2> SUFFICES ASSUME bad # {} PROVE FALSE
    OBVIOUS
  <2> HIDE DEF P
  <2>1. PICK m \in bad : \A k \in bad : m <= k
    BY LeastExists
  <2>2. m # 0 /\ m - 1 \in Nat /\ m - 1 < Len(s) /\ (m - 1) + 1 = m
    BY <1>1, <1>2
  <2>3. P(m - 1)
    BY <2>1, <2>2
  <2> QED
    BY <1>3, <2>2, <2>3
<1>5. PICK g : IsValue(Len(s), g)
  BY <1>1, <1>4
<1> DEFINE w == CHOOSE f : IsValue(Len(s), f)
<1>6. IsValue(Len(s), w) /\ Number(s) = w[Len(s)]
  BY <1>5 DEF Number
<1> HIDE DEF w
<1>7. \A i \in 0..Len(s) : w[i] = IF i = 0 THEN 0 ELSE 10 * w[i - 1] + s[i]
  BY <1>6
<1> DEFINE odd == {n \in Nat : n <= Len(s) /\ w[n] \notin Nat}
<1>8. odd = {}
  <2> SUFFICES ASSUME odd # {} PROVE FALSE
    OBVIOUS
  <2>1. PICK m \in odd : \A k \in odd : m <= k
    BY LeastExists
  <2>2. m # 0 /\ m - 1 \in Nat /\ m - 1 <= Len(s) /\ m \in 1..Len(s)
    BY <1>1, <1>7
  <2>3. w[m - 1] \in Nat
    BY <2>1, <2>2
  <2>4. w[m] = 10 * w[m - 1] + s[m]
    BY <1>1, <1>7, <2>2
  <2> QED
    BY <1>1, <2>2, <2>3, <2>4
<1>9. w[Len(s)] \in Nat
  BY <1>1, <1>8
<1> QED
  BY <1>6, <1>9

-----------------------------------------------------------------------------
(* The fields of a header block *)

\* What is behind the last field.
Rest(c) ==
  SubSeq(c, IF Nuls(c) = {} THEN 1 ELSE Ends(c)[Cardinality(Nuls(c))] + 1, Len(c))

\* The place of an end among the ends.
Rank(c, i) == Cardinality({j \in Nuls(c) : j <= i})

LEMMA NulsFacts ==
  ASSUME NEW c \in Seq(Byte)
  PROVE  /\ Len(c) \in Nat /\ DOMAIN c = 1..Len(c) /\ Nuls(c) \subseteq 1..Len(c)
         /\ IsFiniteSet(Nuls(c)) /\ Cardinality(Nuls(c)) \in Nat
         /\ Cardinality(Nuls(c)) = 0 <=> Nuls(c) = {}
         /\ \A i \in Nat : Rank(c, i) \in Nat /\ IsFiniteSet({j \in Nuls(c) : j <= i})
<1>1. Len(c) \in Nat /\ DOMAIN c = 1..Len(c)
  BY LenProperties
<1>2. Nuls(c) \subseteq 1..Len(c)
  BY <1>1 DEF Nuls
<1>3. IsFiniteSet(Nuls(c))
  <2>1. IsFiniteSet(1..Len(c))
    BY <1>1, FS_Interval
  <2> QED
    BY <1>2, <2>1, FS_Subset
<1>4. \A i \in Nat : IsFiniteSet({j \in Nuls(c) : j <= i})
  BY <1>3, FS_Subset
<1>5. Cardinality(Nuls(c)) \in Nat /\ (Cardinality(Nuls(c)) = 0 <=> Nuls(c) = {})
  BY <1>3, FS_CardinalityType, FS_EmptySet
<1>6. \A i \in Nat : Rank(c, i) \in Nat
  BY <1>4, FS_CardinalityType DEF Rank
<1> QED
  BY <1>1, <1>2, <1>3, <1>4, <1>5, <1>6

LEMMA RankAscends ==
  ASSUME NEW c \in Seq(Byte), NEW i \in Nuls(c), NEW j \in Nuls(c)
  PROVE  /\ Rank(c, i) \in 1..Cardinality(Nuls(c))
         /\ Rank(c, i) < Rank(c, j) <=> i < j
         /\ Rank(c, i) = Rank(c, j) => i = j
<1> DEFINE upTo(x) == {k \in Nuls(c) : k <= x}
<1>1. \A x \in Nuls(c) : /\ x \in Nat /\ IsFiniteSet(upTo(x)) /\ x \in upTo(x)
                          /\ Rank(c, x) = Cardinality(upTo(x)) /\ Rank(c, x) \in Nat
  <2> TAKE x \in Nuls(c)
  <2>1. x \in Nat
    BY NulsFacts
  <2> QED
    BY <2>1, NulsFacts DEF Rank
<1>2. ASSUME NEW x \in Nuls(c), NEW y \in Nuls(c), x < y PROVE Rank(c, x) < Rank(c, y)
  <2>0. x \in Nat /\ y \in Nat /\ \A k \in Nuls(c) : k \in Nat
    BY <1>1
  <2>1. ASSUME NEW k \in upTo(x) PROVE k \in upTo(y)
    <3>1. k \in Nuls(c) /\ k \in Nat /\ k <= x
      BY <2>0
    <3>2. k <= y
      BY <1>2, <2>0, <3>1
    <3> QED
      BY <3>1, <3>2
  <2>2. y \in upTo(y) /\ y \notin upTo(x)
    BY <1>2, <2>0
  <2> HIDE DEF upTo
  <2>3. Cardinality(upTo(x)) <= Cardinality(upTo(y)) /\ Cardinality(upTo(x)) # Cardinality(upTo(y))
    BY <1>1, <2>1, <2>2, FS_Subset
  <2> QED
    BY <1>1, <2>3
<1>3. Rank(c, i) \in 1..Cardinality(Nuls(c))
  <2>1. upTo(i) \subseteq Nuls(c) /\ upTo(i) # {}
    BY <1>1
  <2> HIDE DEF upTo
  <2>2. Cardinality(upTo(i)) <= Cardinality(Nuls(c))
    BY <2>1, NulsFacts, FS_Subset
  <2>3. Cardinality(upTo(i)) # 0
    BY <1>1, <2>1, FS_EmptySet
  <2>4. Cardinality(Nuls(c)) \in Nat
    BY NulsFacts
  <2> QED
    BY <1>1, <2>2, <2>3, <2>4
<1>4. Rank(c, i) \in Nat /\ Rank(c, j) \in Nat /\ i \in Nat /\ j \in Nat
  BY <1>1, NulsFacts
<1>5. (i < j => Rank(c, i) < Rank(c, j)) /\ (j < i => Rank(c, j) < Rank(c, i))
  BY <1>2
<1> QED
  BY <1>3, <1>4, <1>5

\* One byte more.
LEMMA NulsAppend ==
  ASSUME NEW c \in Seq(Byte), NEW b \in Byte
  PROVE  /\ Append(c, b) \in Seq(Byte) /\ Len(Append(c, b)) = Len(c) + 1
         /\ Nuls(Append(c, b)) = IF b = Nul THEN Nuls(c) \union {Len(c) + 1} ELSE Nuls(c)
         /\ \A i \in Nuls(c) : Rank(Append(c, b), i) = Rank(c, i)
         /\ b = Nul => /\ Cardinality(Nuls(Append(c, b))) = Cardinality(Nuls(c)) + 1
                        /\ Rank(Append(c, b), Len(c) + 1) = Cardinality(Nuls(c)) + 1
<1> DEFINE d == Append(c, b)
           n == Len(c)
<1>1. n \in Nat /\ DOMAIN c = 1..n /\ Nuls(c) \subseteq 1..n /\ IsFiniteSet(Nuls(c))
  BY NulsFacts
<1>2. /\ d \in Seq(Byte) /\ Len(d) = n + 1 /\ d[n + 1] = b
      /\ \A i \in 1..n : d[i] = c[i]
  BY AppendProperties
<1>3. DOMAIN d = 1..(n + 1)
  BY <1>2, LenProperties
<1> HIDE DEF d, n
<1>4. Nuls(d) = IF b = Nul THEN Nuls(c) \union {n + 1} ELSE Nuls(c)
  <2>1. ASSUME NEW i PROVE i \in Nuls(d) <=> i \in Nuls(c) \/ (b = Nul /\ i = n + 1)
    <3>1. CASE i \in 1..n
      BY <3>1, <1>1, <1>2, <1>3 DEF Nuls
    <3>2. CASE i = n + 1
      BY <3>2, <1>1, <1>2, <1>3 DEF Nuls
    <3>3. CASE i \notin 1..(n + 1)
      BY <3>3, <1>1, <1>3 DEF Nuls
    <3> QED
      BY <3>1, <3>2, <3>3, <1>1
  <2> QED
    BY <2>1
<1>5. ASSUME NEW i \in Nuls(c) PROVE Rank(d, i) = Rank(c, i)
  <2>1. {j \in Nuls(d) : j <= i} = {j \in Nuls(c) : j <= i}
    BY <1>1, <1>4
  <2> QED
    BY <2>1 DEF Rank
<1>6. ASSUME b = Nul
      PROVE  /\ Cardinality(Nuls(d)) = Cardinality(Nuls(c)) + 1
             /\ Rank(d, n + 1) = Cardinality(Nuls(c)) + 1
  <2>1. Nuls(d) = Nuls(c) \union {n + 1} /\ n + 1 \notin Nuls(c)
    BY <1>1, <1>4, <1>6
  <2>2. Cardinality(Nuls(d)) = Cardinality(Nuls(c)) + 1
    BY <1>1, <2>1, FS_AddElement
  <2>3. {j \in Nuls(d) : j <= n + 1} = Nuls(d)
    BY <1>1, <2>1
  <2> QED
    BY <2>2, <2>3 DEF Rank
<1> QED
  BY <1>2, <1>4, <1>5, <1>6 DEF d, n

\* Every place among the ends is taken.
LEMMA AllRanked ==
  ASSUME NEW c \in Seq(Byte), NEW k \in 1..Cardinality(Nuls(c))
  PROVE  \E i \in Nuls(c) : Rank(c, i) = k
<1> DEFINE Ranked(d) == \A j \in 1..Cardinality(Nuls(d)) : \E i \in Nuls(d) : Rank(d, i) = j
           bad == {n \in Nat : n <= Len(c) /\ ~Ranked(SubSeq(c, 1, n))}
<1>1. Len(c) \in Nat /\ 1 - 1 = 0
  BY LenProperties
<1>2. Ranked(SubSeq(c, 1, 0))
  <2>1. SubSeq(c, 1, 0) = <<>>
    BY <1>1, SliceEmpty
  <2>2. Nuls(<<>>) = {}
    BY DEF Nuls
  <2>3. 1..Cardinality({}) = {}
    BY FS_EmptySet
  <2> QED
    BY <2>1, <2>2, <2>3
<1>3. ASSUME NEW n \in Nat, n < Len(c), Ranked(SubSeq(c, 1, n)) PROVE Ranked(SubSeq(c, 1, n + 1))
  <2> DEFINE d == SubSeq(c, 1, n)
             b == c[n + 1]
  <2>1. SubSeq(c, 1, n + 1) = Append(d, b) /\ b \in Byte
    <3>1. 1 \in 1..(n + 1)
      OBVIOUS
    <3> QED
      BY <1>3, <3>1, SliceAppend
  <2>2. d \in Seq(Byte)
    <3>1. 1 \in 1..(Len(c) + 1) /\ n \in (1 - 1)..Len(c)
      BY <1>1, <1>3
    <3> QED
      BY <3>1, SliceFacts
  <2>3. Ranked(d)
    BY <1>3
  <2> HIDE DEF d, b
  <2>4. /\ Nuls(Append(d, b)) = IF b = Nul THEN Nuls(d) \union {Len(d) + 1} ELSE Nuls(d)
        /\ \A i \in Nuls(d) : Rank(Append(d, b), i) = Rank(d, i)
        /\ b = Nul => /\ Cardinality(Nuls(Append(d, b))) = Cardinality(Nuls(d)) + 1
                      /\ Rank(Append(d, b), Len(d) + 1) = Cardinality(Nuls(d)) + 1
        /\ Cardinality(Nuls(d)) \in Nat
    BY <2>1, <2>2, NulsAppend, NulsFacts
  <2>5. ASSUME NEW j \in 1..Cardinality(Nuls(Append(d, b)))
        PROVE  \E i \in Nuls(Append(d, b)) : Rank(Append(d, b), i) = j
    <3>1. CASE b = Nul /\ j = Cardinality(Nuls(d)) + 1
      BY <2>4, <3>1
    <3>2. CASE ~(b = Nul /\ j = Cardinality(Nuls(d)) + 1)
      <4>1. j \in 1..Cardinality(Nuls(d))
        BY <2>4, <3>2
      <4>2. PICK i \in Nuls(d) : Rank(d, i) = j
        BY <2>3, <4>1
      <4> QED
        BY <2>4, <4>2
    <3> QED
      BY <3>1, <3>2
  <2> QED
    BY <2>1, <2>5
<1>4. bad = {}
  <2> SUFFICES ASSUME bad # {} PROVE FALSE
    OBVIOUS
  <2> HIDE DEF Ranked
  <2>1. PICK m \in bad : \A n \in bad : m <= n
    BY LeastExists
  <2>2. m # 0 /\ m - 1 \in Nat /\ m - 1 < Len(c) /\ (m - 1) + 1 = m
    BY <1>1, <1>2
  <2>3. Ranked(SubSeq(c, 1, m - 1))
    BY <1>1, <2>1, <2>2
  <2> QED
    BY <1>3, <2>2, <2>3
<1>5. SubSeq(c, 1, Len(c)) = c
  BY SubSeqFull
<1>6. Ranked(c)
  <2> HIDE DEF Ranked
  <2>1. Ranked(SubSeq(c, 1, Len(c)))
    BY <1>1, <1>4
  <2> QED
    BY <1>5, <2>1, Zenon
<1> QED
  BY <1>6

LEMMA EndsFacts ==
  ASSUME NEW c \in Seq(Byte)
  PROVE  /\ DOMAIN Ends(c) = 1..Cardinality(Nuls(c))
         /\ \A k \in 1..Cardinality(Nuls(c)) : Ends(c)[k] \in Nuls(c) /\ Rank(c, Ends(c)[k]) = k
         /\ \A k \in 1..Cardinality(Nuls(c)) : \A i \in Nuls(c) : Rank(c, i) = k => Ends(c)[k] = i
<1>1. DOMAIN Ends(c) = 1..Cardinality(Nuls(c))
  BY DEF Ends
<1>2. ASSUME NEW k \in 1..Cardinality(Nuls(c))
      PROVE  Ends(c)[k] \in Nuls(c) /\ Rank(c, Ends(c)[k]) = k
  <2> DEFINE e == CHOOSE i \in Nuls(c) : Rank(c, i) = k
  <2>1. Ends(c)[k] = e
    BY DEF Ends, Rank
  <2>2. e \in Nuls(c) /\ Rank(c, e) = k
    BY AllRanked
  <2> QED
    BY <2>1, <2>2
<1>3. ASSUME NEW k \in 1..Cardinality(Nuls(c)), NEW i \in Nuls(c), Rank(c, i) = k PROVE Ends(c)[k] = i
  BY <1>2, <1>3, RankAscends
<1> QED
  BY <1>1, <1>2, <1>3

LEMMA EndsAppend ==
  ASSUME NEW c \in Seq(Byte), NEW b \in Byte
  PROVE  /\ \A k \in 1..Cardinality(Nuls(c)) : Ends(Append(c, b))[k] = Ends(c)[k]
         /\ b = Nul => Ends(Append(c, b))[Cardinality(Nuls(c)) + 1] = Len(c) + 1
<1> DEFINE d == Append(c, b)
<1>1. /\ d \in Seq(Byte)
      /\ Nuls(d) = IF b = Nul THEN Nuls(c) \union {Len(c) + 1} ELSE Nuls(c)
      /\ \A i \in Nuls(c) : Rank(d, i) = Rank(c, i)
      /\ b = Nul => /\ Cardinality(Nuls(d)) = Cardinality(Nuls(c)) + 1
                    /\ Rank(d, Len(c) + 1) = Cardinality(Nuls(c)) + 1
      /\ Cardinality(Nuls(c)) \in Nat
  BY NulsAppend, NulsFacts
<1> HIDE DEF d
<1>2. ASSUME NEW k \in 1..Cardinality(Nuls(c)) PROVE Ends(d)[k] = Ends(c)[k]
  <2>1. Ends(c)[k] \in Nuls(c) /\ Rank(c, Ends(c)[k]) = k
    BY EndsFacts
  <2>2. Ends(c)[k] \in Nuls(d) /\ Rank(d, Ends(c)[k]) = k /\ k \in 1..Cardinality(Nuls(d))
    BY <1>1, <2>1
  <2> QED
    BY <1>1, <2>2, EndsFacts
<1>3. ASSUME b = Nul PROVE Ends(d)[Cardinality(Nuls(c)) + 1] = Len(c) + 1
  <2>1. Len(c) + 1 \in Nuls(d) /\ Cardinality(Nuls(c)) + 1 \in 1..Cardinality(Nuls(d))
    BY <1>1, <1>3
  <2> QED
    BY <1>1, <1>3, <2>1, EndsFacts
<1> QED
  BY <1>2, <1>3 DEF d

\* Where the part behind the last field begins, and each field.
Start(c, k) == IF k = 1 THEN 1 ELSE Ends(c)[k - 1] + 1

LEMMA StartFacts ==
  ASSUME NEW c \in Seq(Byte)
  PROVE  /\ \A k \in 1..(Cardinality(Nuls(c)) + 1) : Start(c, k) \in 1..(Len(c) + 1)
         /\ \A k \in 1..Cardinality(Nuls(c)) : Ends(c)[k] - 1 \in (Start(c, k) - 1)..Len(c)
         /\ Rest(c) = SubSeq(c, Start(c, Cardinality(Nuls(c)) + 1), Len(c))
<1> DEFINE m == Cardinality(Nuls(c))
<1>1. Len(c) \in Nat /\ m \in Nat /\ (m = 0 <=> Nuls(c) = {}) /\ Nuls(c) \subseteq 1..Len(c)
  BY NulsFacts
<1>2. \A k \in 1..m : Ends(c)[k] \in Nuls(c) /\ Ends(c)[k] \in 1..Len(c) /\ Rank(c, Ends(c)[k]) = k
  BY <1>1, EndsFacts
<1> HIDE DEF m
<1>3. ASSUME NEW k \in 1..(m + 1) PROVE Start(c, k) \in 1..(Len(c) + 1)
  <2>1. CASE k = 1
    BY <1>1, <2>1 DEF Start
  <2>2. CASE k # 1
    <3>1. k - 1 \in 1..m
      BY <1>1, <2>2
    <3> QED
      BY <1>1, <1>2, <2>2, <3>1 DEF Start
  <2> QED
    BY <2>1, <2>2
<1>4. ASSUME NEW k \in 1..m PROVE Ends(c)[k] - 1 \in (Start(c, k) - 1)..Len(c)
  <2>1. CASE k = 1
    BY <1>1, <1>2, <2>1 DEF Start
  <2>2. CASE k # 1
    <3>1. k - 1 \in 1..m /\ k - 1 < k
      BY <1>1, <2>2
    <3>2. Ends(c)[k - 1] < Ends(c)[k]
      BY <1>2, <3>1, RankAscends
    <3>3. Start(c, k) = Ends(c)[k - 1] + 1
      BY <2>2 DEF Start
    <3> QED
      BY <1>1, <1>2, <3>1, <3>2, <3>3
  <2> QED
    BY <2>1, <2>2
<1>5. Rest(c) = SubSeq(c, Start(c, m + 1), Len(c))
  <2>1. (m + 1 = 1 <=> Nuls(c) = {}) /\ (m + 1) - 1 = m
    BY <1>1
  <2> QED
    BY <2>1 DEF Rest, Start, m
<1> QED
  BY <1>3, <1>4, <1>5 DEF m

LEMMA FieldsFacts ==
  ASSUME NEW c \in Seq(Byte)
  PROVE  /\ Fields(c) \in Seq(Seq(Byte)) /\ Len(Fields(c)) = Cardinality(Nuls(c))
         /\ Rest(c) \in Seq(Byte)
         /\ \A k \in 1..Len(Fields(c)) : Fields(c)[k] = SubSeq(c, Start(c, k), Ends(c)[k] - 1)
<1> DEFINE m == Cardinality(Nuls(c))
           field(k) == SubSeq(c, Start(c, k), Ends(c)[k] - 1)
<1>1. m \in Nat /\ Len(c) \in Nat /\ DOMAIN Ends(c) = 1..m
  BY NulsFacts, EndsFacts
<1>2. Fields(c) = [k \in 1..m |-> field(k)]
  BY <1>1 DEF Fields, Start
<1>3. \A k \in 1..m : field(k) \in Seq(Byte)
  <2> TAKE k \in 1..m
  <2>1. Start(c, k) \in 1..(Len(c) + 1) /\ Ends(c)[k] - 1 \in (Start(c, k) - 1)..Len(c)
    BY <1>1, StartFacts
  <2> QED
    BY <2>1, SliceFacts
<1> HIDE DEF m, field
<1>4. [k \in 1..m |-> field(k)] \in Seq(Seq(Byte)) /\ Len([k \in 1..m |-> field(k)]) = m
  BY <1>1, <1>3, IsASeq
<1>5. Rest(c) \in Seq(Byte)
  <2>1. /\ Start(c, m + 1) \in 1..(Len(c) + 1) /\ Rest(c) = SubSeq(c, Start(c, m + 1), Len(c))
    BY <1>1, StartFacts DEF m
  <2>2. Len(c) \in (Start(c, m + 1) - 1)..Len(c)
    BY <1>1, <2>1
  <2> QED
    BY <2>1, <2>2, SliceFacts
<1> QED
  BY <1>2, <1>4, <1>5 DEF m, field

\* A NUL ends a field, and any other byte goes to the part behind the last one.
LEMMA FieldsAppend ==
  ASSUME NEW c \in Seq(Byte), NEW b \in Byte
  PROVE  /\ Fields(Append(c, b)) = IF b = Nul THEN Append(Fields(c), Rest(c)) ELSE Fields(c)
         /\ Rest(Append(c, b)) = IF b = Nul THEN <<>> ELSE Append(Rest(c), b)
<1> DEFINE d == Append(c, b)
           m == Cardinality(Nuls(c))
           n == Len(c)
<1>1. /\ d \in Seq(Byte) /\ Len(d) = n + 1
      /\ Nuls(d) = IF b = Nul THEN Nuls(c) \union {n + 1} ELSE Nuls(c)
      /\ b = Nul => Cardinality(Nuls(d)) = m + 1
      /\ m \in Nat /\ n \in Nat
  BY NulsAppend, NulsFacts
<1>2. /\ \A k \in 1..m : Ends(d)[k] = Ends(c)[k]
      /\ b = Nul => Ends(d)[m + 1] = n + 1
  BY EndsAppend
<1>3. c = SubSeq(d, 1, n) /\ d[n + 1] = b
  <2>1. d[n + 1] = b /\ \A i \in 1..n : d[i] = c[i]
    BY AppendProperties
  <2> DEFINE r == SubSeq(d, 1, n)
  <2> HIDE DEF d, n
  <2>2. 1 \in 1..(Len(d) + 1) /\ n \in (1 - 1)..Len(d) /\ n - 1 + 1 = n /\ \A i \in 1..n : 1 + i - 1 = i
    BY <1>1
  <2>3. r \in Seq(Byte) /\ Len(r) = n - 1 + 1 /\ \A i \in 1..(n - 1 + 1) : r[i] = d[1 + i - 1]
    BY <1>1, <2>2, SliceFacts
  <2> HIDE DEF r
  <2>4. Len(r) = Len(c) /\ \A i \in 1..Len(c) : r[i] = c[i]
    BY <2>1, <2>2, <2>3 DEF n
  <2>5. r = c
    BY <2>3, <2>4, SeqEqual
  <2> QED
    BY <2>1, <2>5 DEF r
<1> HIDE DEF d, m, n
<1>4. \A k \in 1..(m + 1) : Start(d, k) = Start(c, k)
  <2> TAKE k \in 1..(m + 1)
  <2>1. k # 1 => k - 1 \in 1..m
    BY <1>1
  <2> QED
    BY <1>2, <2>1 DEF Start
<1>5. /\ \A k \in 1..(m + 1) : Start(c, k) \in 1..(n + 1)
      /\ \A k \in 1..m : Ends(c)[k] - 1 \in (Start(c, k) - 1)..n
      /\ Rest(c) = SubSeq(c, Start(c, m + 1), n)
  BY StartFacts DEF m, n
<1>6. n \in 0..Len(d) /\ n < Len(d)
  BY <1>1
<1>7. \A k \in 1..m : SubSeq(d, Start(c, k), Ends(c)[k] - 1) = SubSeq(c, Start(c, k), Ends(c)[k] - 1)
  <2> TAKE k \in 1..m
  <2>1. Start(c, k) \in 1..(n + 1) /\ Ends(c)[k] - 1 \in (Start(c, k) - 1)..n
    BY <1>1, <1>5
  <2> QED
    BY <1>1, <1>3, <1>6, <2>1, SliceOfSlice
<1>8. Rest(c) = SubSeq(d, Start(c, m + 1), n) /\ Start(c, m + 1) \in 1..(n + 1)
  <2>1. Start(c, m + 1) \in 1..(n + 1) /\ n \in (Start(c, m + 1) - 1)..n
    BY <1>1, <1>5
  <2>2. SubSeq(SubSeq(d, 1, n), Start(c, m + 1), n) = SubSeq(d, Start(c, m + 1), n)
    BY <1>1, <1>6, <2>1, SliceOfSlice
  <2> QED
    BY <1>3, <1>5, <2>1, <2>2
<1>9. /\ Fields(c) \in Seq(Seq(Byte)) /\ Len(Fields(c)) = m /\ Rest(c) \in Seq(Byte)
      /\ \A k \in 1..m : Fields(c)[k] = SubSeq(c, Start(c, k), Ends(c)[k] - 1)
      /\ Fields(d) \in Seq(Seq(Byte)) /\ Len(Fields(d)) = Cardinality(Nuls(d))
      /\ \A k \in 1..Len(Fields(d)) : Fields(d)[k] = SubSeq(d, Start(d, k), Ends(d)[k] - 1)
      /\ Rest(d) = SubSeq(d, Start(d, Cardinality(Nuls(d)) + 1), n + 1)
  BY <1>1, FieldsFacts, StartFacts DEF m
<1>10. CASE b # Nul
  <2>1. Len(Fields(d)) = m /\ Nuls(d) = Nuls(c)
    BY <1>1, <1>9, <1>10 DEF m
  <2>2. \A k \in 1..m : Fields(d)[k] = Fields(c)[k]
    <3> TAKE k \in 1..m
    <3>1. k \in 1..(m + 1) /\ k \in 1..Len(Fields(d))
      BY <1>1, <2>1
    <3> QED
      BY <1>2, <1>4, <1>7, <1>9, <3>1
  <2>3. Fields(d) = Fields(c)
    BY <1>9, <2>1, <2>2, SeqEqual
  <2>4. Rest(d) = SubSeq(d, Start(c, m + 1), n + 1)
    <3>1. m + 1 \in 1..(m + 1)
      BY <1>1
    <3>2. Cardinality(Nuls(d)) = m
      BY <1>9, <2>1
    <3> QED
      BY <1>4, <1>9, <3>1, <3>2
  <2>5. SubSeq(d, Start(c, m + 1), n + 1) = Append(SubSeq(d, Start(c, m + 1), n), d[n + 1])
    BY <1>1, <1>6, <1>8, SliceAppend
  <2>6. Rest(d) = Append(Rest(c), b)
    BY <1>3, <1>8, <2>4, <2>5
  <2> QED
    BY <1>10, <2>3, <2>6 DEF d
<1>11. CASE b = Nul
  <2> DEFINE t == Append(Fields(c), Rest(c))
  <2>1. t \in Seq(Seq(Byte)) /\ Len(t) = m + 1 /\ t[m + 1] = Rest(c) /\ \A k \in 1..m : t[k] = Fields(c)[k]
    BY <1>9, AppendProperties
  <2> HIDE DEF t
  <2>2. Len(Fields(d)) = m + 1
    BY <1>1, <1>9, <1>11
  <2>3. \A k \in 1..(m + 1) : Fields(d)[k] = t[k]
    <3> TAKE k \in 1..(m + 1)
    <3>1. Fields(d)[k] = SubSeq(d, Start(c, k), Ends(d)[k] - 1)
      BY <1>4, <1>9, <2>2
    <3>2. CASE k \in 1..m
      BY <1>2, <1>7, <1>9, <2>1, <3>1, <3>2
    <3>3. CASE k = m + 1
      <4>1. Ends(d)[k] - 1 = n
        BY <1>1, <1>2, <1>11, <3>3
      <4> QED
        BY <1>8, <2>1, <3>1, <3>3, <4>1
    <3> QED
      BY <1>1, <3>2, <3>3
  <2>4. Fields(d) = t
    BY <1>9, <2>1, <2>2, <2>3, SeqEqual, SMTT(30)
  <2>5. Rest(d) = <<>>
    <3>1. Start(d, (m + 1) + 1) = (n + 1) + 1
      <4>1. (m + 1) + 1 # 1 /\ ((m + 1) + 1) - 1 = m + 1
        BY <1>1
      <4> QED
        BY <1>2, <1>11, <4>1 DEF Start
    <3>2. Rest(d) = SubSeq(d, (n + 1) + 1, n + 1)
      BY <1>1, <1>9, <1>11, <3>1
    <3>3. (n + 1) + 1 \in 1..(Len(d) + 1) /\ ((n + 1) + 1) - 1 = n + 1
      BY <1>1
    <3> QED
      BY <1>1, <3>2, <3>3, SliceEmpty
  <2> QED
    BY <1>11, <2>4, <2>5 DEF d, t
<1> QED
  BY <1>10, <1>11

LEMMA FieldsOfNothing == Fields(<<>>) = <<>> /\ Rest(<<>>) = <<>>
<1>1. <<>> \in Seq(Byte) /\ Len(<<>>) = 0
  BY EmptySeq
<1>2. Nuls(<<>>) = {} /\ Cardinality({}) = 0
  BY FS_EmptySet DEF Nuls
<1>3. Fields(<<>>) = <<>>
  <2>1. Fields(<<>>) \in Seq(Seq(Byte)) /\ Len(Fields(<<>>)) = 0
    BY <1>1, <1>2, FieldsFacts
  <2> QED
    BY <2>1, EmptySeq
<1>4. Rest(<<>>) = SubSeq(<<>>, 1, 0)
  BY <1>1, <1>2 DEF Rest
<1>5. SubSeq(<<>>, 1, 0) = <<>>
  <2>1. 1 \in 1..(Len(<<>>) + 1) /\ 1 - 1 = 0
    BY <1>1
  <2> QED
    BY <1>1, <2>1, SliceEmpty
<1> QED
  BY <1>3, <1>4, <1>5

-----------------------------------------------------------------------------
(* A block that grows *)

LEMMA AppendToSet ==
  ASSUME NEW T, NEW s \in Seq(T), NEW x \in T
  PROVE  ToSet(Append(s, x)) = ToSet(s) \union {x}
<1> DEFINE t == Append(s, x)
           n == Len(s)
<1>1. t \in Seq(T) /\ Len(t) = n + 1 /\ t[n + 1] = x /\ \A i \in 1..n : t[i] = s[i]
  BY AppendProperties
<1>2. n \in Nat /\ DOMAIN s = 1..n /\ DOMAIN t = 1..(n + 1)
  BY <1>1, LenProperties
<1> HIDE DEF t, n
<1>3. ASSUME NEW y \in ToSet(t) PROVE y \in ToSet(s) \union {x}
  <2>1. PICK i \in 1..(n + 1) : y = t[i]
    BY <1>2 DEF ToSet
  <2>2. CASE i \in 1..n
    BY <1>1, <1>2, <2>1, <2>2 DEF ToSet
  <2>3. CASE i = n + 1
    BY <1>1, <2>1, <2>3
  <2> QED
    BY <1>2, <2>2, <2>3
<1>4. ASSUME NEW y \in ToSet(s) PROVE y \in ToSet(t)
  <2>1. PICK i \in 1..n : y = s[i]
    BY <1>2 DEF ToSet
  <2>2. i \in 1..(n + 1) /\ t[i] = y
    BY <1>1, <1>2, <2>1
  <2> QED
    BY <1>2, <2>2 DEF ToSet
<1>5. x \in ToSet(t)
  <2>1. n + 1 \in 1..(n + 1)
    BY <1>2
  <2> QED
    BY <1>1, <1>2, <2>1 DEF ToSet
<1> QED
  BY <1>3, <1>4, <1>5 DEF t

\* Behind the fields of p, q has nothing but more fields; what p has behind its
\* last field is in the field that q has there.
Grown(p, q) ==
  /\ Len(Fields(p)) <= Len(Fields(q))
  /\ \A k \in 1..Len(Fields(p)) : Fields(q)[k] = Fields(p)[k]
  /\ Len(Fields(p)) = Len(Fields(q)) => ToSet(Rest(p)) \subseteq ToSet(Rest(q))
  /\ Len(Fields(p)) < Len(Fields(q)) => ToSet(Rest(p)) \subseteq ToSet(Fields(q)[Len(Fields(p)) + 1])

LEMMA GrownStep ==
  ASSUME NEW p \in Seq(Byte), NEW q \in Seq(Byte), NEW b \in Byte, Grown(p, q)
  PROVE  Grown(p, Append(q, b))
<1> DEFINE f == Fields(p)
           g == Fields(q)
           r == Rest(p)
           t == Rest(q)
           e == Append(q, b)
           u == Append(g, t)
<1>1. /\ f \in Seq(Seq(Byte)) /\ g \in Seq(Seq(Byte)) /\ r \in Seq(Byte) /\ t \in Seq(Byte)
      /\ Len(f) \in Nat /\ Len(g) \in Nat
  <2>1. /\ f \in Seq(Seq(Byte)) /\ g \in Seq(Seq(Byte)) /\ r \in Seq(Byte) /\ t \in Seq(Byte)
    BY FieldsFacts
  <2> HIDE DEF f, g
  <2> QED
    BY <2>1, LenProperties
<1>2. /\ Fields(e) = IF b = Nul THEN u ELSE g
      /\ Rest(e) = IF b = Nul THEN <<>> ELSE Append(t, b)
  BY FieldsAppend
<1>3. /\ Len(f) <= Len(g) /\ \A k \in 1..Len(f) : g[k] = f[k]
      /\ Len(f) = Len(g) => ToSet(r) \subseteq ToSet(t)
      /\ Len(f) < Len(g) => ToSet(r) \subseteq ToSet(g[Len(f) + 1])
  BY DEF Grown
<1>4. ToSet(t) \subseteq ToSet(Append(t, b))
  BY <1>1, AppendToSet
<1>5. Len(u) = Len(g) + 1 /\ u[Len(g) + 1] = t /\ \A k \in 1..Len(g) : u[k] = g[k]
  BY <1>1, AppendProperties
<1> SUFFICES /\ Len(f) <= Len(Fields(e))
             /\ \A k \in 1..Len(f) : Fields(e)[k] = f[k]
             /\ Len(f) = Len(Fields(e)) => ToSet(r) \subseteq ToSet(Rest(e))
             /\ Len(f) < Len(Fields(e)) => ToSet(r) \subseteq ToSet(Fields(e)[Len(f) + 1])
  BY DEF Grown
<1> HIDE DEF f, g, r, t, e, u
<1>6. CASE b # Nul
  BY <1>2, <1>3, <1>4, <1>6
<1>7. CASE b = Nul
  <2>1. Fields(e) = u /\ Len(u) = Len(g) + 1
    BY <1>2, <1>5, <1>7
  <2>2. \A k \in 1..Len(f) : u[k] = f[k]
    <3> TAKE k \in 1..Len(f)
    <3>1. k \in 1..Len(g)
      BY <1>1, <1>3
    <3> QED
      BY <1>3, <1>5, <3>1
  <2>3. CASE Len(f) = Len(g)
    <3>1. u[Len(f) + 1] = t /\ ToSet(r) \subseteq ToSet(t)
      BY <1>3, <1>5, <2>3
    <3>2. Len(f) <= Len(u) /\ Len(f) # Len(u)
      BY <1>1, <2>1, <2>3
    <3> QED
      BY <2>1, <2>2, <3>1, <3>2
  <2>4. CASE Len(f) # Len(g)
    <3>1. Len(f) < Len(g) /\ Len(f) + 1 \in 1..Len(g)
      BY <1>1, <1>3, <2>4
    <3>2. u[Len(f) + 1] = g[Len(f) + 1] /\ ToSet(r) \subseteq ToSet(g[Len(f) + 1])
      BY <1>3, <1>5, <3>1
    <3>3. Len(f) <= Len(u) /\ Len(f) # Len(u)
      BY <1>1, <2>1, <3>1
    <3> QED
      BY <2>1, <2>2, <3>2, <3>3
  <2> QED
    BY <2>3, <2>4
<1> QED
  BY <1>6, <1>7

LEMMA BeginningFacts ==
  ASSUME NEW c \in Seq(Byte), NEW n \in 0..Len(c)
  PROVE  /\ SubSeq(c, 1, n) \in Seq(Byte) /\ Len(SubSeq(c, 1, n)) = n
         /\ \A i \in 1..n : SubSeq(c, 1, n)[i] = c[i]
         /\ n < Len(c) => SubSeq(c, 1, n + 1) = Append(SubSeq(c, 1, n), c[n + 1]) /\ c[n + 1] \in Byte
<1> DEFINE r == SubSeq(c, 1, n)
<1>1. Len(c) \in Nat /\ n \in Nat /\ 1 \in 1..(Len(c) + 1) /\ n \in (1 - 1)..Len(c) /\ 1 \in 1..(n + 1)
  BY LenProperties
<1>2. r \in Seq(Byte) /\ Len(r) = n - 1 + 1 /\ \A i \in 1..(n - 1 + 1) : r[i] = c[1 + i - 1]
  BY <1>1, SliceFacts
<1>3. n < Len(c) => SubSeq(c, 1, n + 1) = Append(r, c[n + 1]) /\ c[n + 1] \in Byte
  BY <1>1, SliceAppend
<1> HIDE DEF r
<1>4. n - 1 + 1 = n /\ \A i \in 1..n : 1 + i - 1 = i
  BY <1>1
<1>5. Len(r) = n /\ \A i \in 1..n : r[i] = c[i]
  BY <1>2, <1>4
<1> QED
  BY <1>2, <1>3, <1>5 DEF r

LEMMA FieldsGrow ==
  ASSUME NEW c \in Seq(Byte), NEW m \in 0..Len(c)
  PROVE  Grown(SubSeq(c, 1, m), c)
<1> DEFINE part(n) == SubSeq(c, 1, n)
           bad == {n \in Nat : m <= n /\ n <= Len(c) /\ ~Grown(part(m), part(n))}
<1>1. Len(c) \in Nat /\ m \in Nat /\ m <= Len(c)
  BY LenProperties
<1>2. Grown(part(m), part(m))
  <2>1. part(m) \in Seq(Byte)
    BY BeginningFacts
  <2>2. Len(Fields(part(m))) \in Nat
    <3>1. Fields(part(m)) \in Seq(Seq(Byte))
      BY <2>1, FieldsFacts
    <3> QED
      BY <3>1, LenProperties
  <2> HIDE DEF part
  <2> QED
    BY <2>2 DEF Grown
<1>3. ASSUME NEW n \in Nat, m <= n, n < Len(c), Grown(part(m), part(n)) PROVE Grown(part(m), part(n + 1))
  <2>1. n \in 0..Len(c)
    BY <1>1, <1>3
  <2>2. part(n + 1) = Append(part(n), c[n + 1]) /\ c[n + 1] \in Byte /\ part(n) \in Seq(Byte) /\ part(m) \in Seq(Byte)
    BY <1>3, <2>1, BeginningFacts
  <2> HIDE DEF part
  <2> QED
    BY <1>3, <2>2, GrownStep
<1>4. bad = {}
  <2> SUFFICES ASSUME bad # {} PROVE FALSE
    OBVIOUS
  <2> HIDE DEF part
  <2>1. PICK n \in bad : \A k \in bad : n <= k
    BY LeastExists
  <2>2. n # m /\ n - 1 \in Nat /\ m <= n - 1 /\ n - 1 < Len(c) /\ (n - 1) + 1 = n
    BY <1>1, <1>2
  <2>3. Grown(part(m), part(n - 1))
    BY <1>1, <2>1, <2>2
  <2> QED
    BY <1>3, <2>2, <2>3
<1>5. Grown(part(m), part(Len(c)))
  <2> HIDE DEF part
  <2> QED
    BY <1>1, <1>4
<1>6. part(Len(c)) = c
  BY SubSeqFull
<1> QED
  BY <1>5, <1>6

\* A block that ends with a NUL has nothing behind its last field.
LEMMA RestOfBlock ==
  ASSUME NEW c \in Seq(Byte)
  PROVE  Rest(c) = <<>> <=> (c # <<>> => Last(c) = Nul)
<1>1. CASE c = <<>>
  BY <1>1, FieldsOfNothing
<1>2. CASE c # <<>>
  <2> DEFINE n == Len(c) - 1
             p == SubSeq(c, 1, n)
  <2>1. Len(c) \in Nat /\ Len(c) # 0
    BY <1>2, LenProperties, EmptySeq
  <2>2. n \in 0..Len(c) /\ n < Len(c) /\ n + 1 = Len(c)
    BY <2>1
  <2>3. p \in Seq(Byte) /\ SubSeq(c, 1, n + 1) = Append(p, c[n + 1]) /\ c[n + 1] \in Byte
    BY <2>2, BeginningFacts
  <2>4. SubSeq(c, 1, Len(c)) = c
    BY SubSeqFull
  <2> HIDE DEF p, n
  <2>5. c = Append(p, c[Len(c)]) /\ c[Len(c)] \in Byte
    BY <2>2, <2>3, <2>4
  <2>6. Rest(c) = IF c[Len(c)] = Nul THEN <<>> ELSE Append(Rest(p), c[Len(c)])
    BY <2>3, <2>5, FieldsAppend
  <2>7. Append(Rest(p), c[Len(c)]) # <<>>
    <3>1. Rest(p) \in Seq(Byte)
      BY <2>3, FieldsFacts
    <3> QED
      BY <2>5, <3>1, AppendProperties
  <2> QED
    BY <1>2, <2>6, <2>7 DEF Last
<1> QED
  BY <1>1, <1>2

-----------------------------------------------------------------------------
(* The headers of a block *)

Headers == [name : Seq(Byte), value : Seq(Byte)]

LEMMA HeadersFacts ==
  ASSUME NEW f \in Seq(Seq(Byte)), NEW n \in Nat, Len(f) = 2 * n \/ Len(f) = 2 * n + 1
  PROVE  /\ HeadersOf(f) \in Seq(Headers) /\ Len(HeadersOf(f)) = n /\ DOMAIN HeadersOf(f) = 1..n
         /\ \A i \in 1..n : /\ 2 * i - 1 \in 1..Len(f) /\ 2 * i \in 1..Len(f)
                            /\ HeadersOf(f)[i] = [name |-> f[2 * i - 1], value |-> f[2 * i]]
<1> DEFINE header(i) == [name |-> f[2 * i - 1], value |-> f[2 * i]]
<1>1. Len(f) \in Nat /\ \A i \in 1..Len(f) : f[i] \in Seq(Byte)
  BY LenProperties, ElementOfSeq
<1>2. (Len(f) \div 2) = n
  BY <1>1, SMTT(30)
<1>3. HeadersOf(f) = [i \in 1..n |-> header(i)]
  BY <1>2 DEF HeadersOf
<1>4. \A i \in 1..n : 2 * i - 1 \in 1..Len(f) /\ 2 * i \in 1..Len(f)
  BY <1>1
<1>5. \A i \in 1..n : header(i) \in Headers
  BY <1>1, <1>4 DEF Headers
<1> HIDE DEF header
<1>6. /\ [i \in 1..n |-> header(i)] \in Seq(Headers)
      /\ Len([i \in 1..n |-> header(i)]) = n
  BY <1>5, IsASeq
<1>7. DOMAIN HeadersOf(f) = 1..n /\ \A i \in 1..n : HeadersOf(f)[i] = header(i)
  BY <1>3
<1> QED
  BY <1>3, <1>4, <1>6, <1>7 DEF header

\* A field completes a header if it is the second of a pair.
LEMMA HeadersAppend ==
  ASSUME NEW f \in Seq(Seq(Byte)), NEW r \in Seq(Byte), NEW n \in Nat
  PROVE  /\ Append(f, r) \in Seq(Seq(Byte)) /\ Len(Append(f, r)) = Len(f) + 1
         /\ Len(f) = 2 * n => HeadersOf(Append(f, r)) = HeadersOf(f)
         /\ Len(f) = 2 * n + 1 =>
              HeadersOf(Append(f, r)) = Append(HeadersOf(f), [name |-> f[Len(f)], value |-> r])
<1> DEFINE g == Append(f, r)
<1>1. g \in Seq(Seq(Byte)) /\ Len(g) = Len(f) + 1 /\ g[Len(f) + 1] = r /\ \A i \in 1..Len(f) : g[i] = f[i]
  BY AppendProperties
<1>2. Len(f) \in Nat
  BY LenProperties
<1> HIDE DEF g
<1>3. ASSUME Len(f) = 2 * n PROVE HeadersOf(g) = HeadersOf(f)
  <2>1. Len(g) = 2 * n + 1
    BY <1>1, <1>3
  <2>2. /\ HeadersOf(f) \in Seq(Headers) /\ Len(HeadersOf(f)) = n
        /\ \A i \in 1..n : /\ 2 * i - 1 \in 1..Len(f) /\ 2 * i \in 1..Len(f)
                           /\ HeadersOf(f)[i] = [name |-> f[2 * i - 1], value |-> f[2 * i]]
    BY <1>3, HeadersFacts
  <2>3. /\ HeadersOf(g) \in Seq(Headers) /\ Len(HeadersOf(g)) = n
        /\ \A i \in 1..n : HeadersOf(g)[i] = [name |-> g[2 * i - 1], value |-> g[2 * i]]
    BY <1>1, <2>1, HeadersFacts
  <2>4. \A i \in 1..n : HeadersOf(g)[i] = HeadersOf(f)[i]
    BY <1>1, <2>2, <2>3
  <2> QED
    BY <2>2, <2>3, <2>4, SeqEqual
<1>4. ASSUME Len(f) = 2 * n + 1
      PROVE  HeadersOf(g) = Append(HeadersOf(f), [name |-> f[Len(f)], value |-> r])
  <2> DEFINE x == [name |-> f[Len(f)], value |-> r]
             t == Append(HeadersOf(f), x)
  <2>1. Len(g) = 2 * (n + 1) /\ n + 1 \in Nat
    BY <1>1, <1>4, SMTT(30)
  <2>2. /\ HeadersOf(f) \in Seq(Headers) /\ Len(HeadersOf(f)) = n
        /\ \A i \in 1..n : /\ 2 * i - 1 \in 1..Len(f) /\ 2 * i \in 1..Len(f)
                           /\ HeadersOf(f)[i] = [name |-> f[2 * i - 1], value |-> f[2 * i]]
    BY <1>4, HeadersFacts
  <2>3. /\ HeadersOf(g) \in Seq(Headers) /\ Len(HeadersOf(g)) = n + 1
        /\ \A i \in 1..(n + 1) : HeadersOf(g)[i] = [name |-> g[2 * i - 1], value |-> g[2 * i]]
    BY <1>1, <2>1, HeadersFacts
  <2>4. x \in Headers
    <3>1. Len(f) \in 1..Len(f)
      BY <1>2, <1>4
    <3>2. f[Len(f)] \in Seq(Byte)
      BY <3>1, ElementOfSeq
    <3> QED
      BY <3>2 DEF Headers
  <2>5. t \in Seq(Headers) /\ Len(t) = n + 1 /\ t[n + 1] = x /\ \A i \in 1..n : t[i] = HeadersOf(f)[i]
    BY <2>2, <2>4, AppendProperties
  <2>6. HeadersOf(g)[n + 1] = x
    <3>1. 2 * (n + 1) - 1 = Len(f) /\ 2 * (n + 1) = Len(f) + 1 /\ n + 1 \in 1..(n + 1) /\ Len(f) \in 1..Len(f)
      BY <1>2, <1>4
    <3> QED
      BY <1>1, <2>3, <3>1
  <2> HIDE DEF t, x
  <2>7. \A i \in 1..n : HeadersOf(g)[i] = t[i]
    <3> TAKE i \in 1..n
    <3>1. i \in 1..(n + 1)
      OBVIOUS
    <3> QED
      BY <1>1, <2>2, <2>3, <2>5, <3>1, ZenonT(30)
  <2>8. \A i \in 1..(n + 1) : HeadersOf(g)[i] = t[i]
    BY <2>5, <2>6, <2>7
  <2>9. HeadersOf(g) = t
    BY <2>3, <2>5, <2>8, SeqEqual
  <2> QED
    BY <2>9 DEF t, x
<1> QED
  BY <1>1, <1>3, <1>4 DEF g

\* What the parser remembers of the headers h.
Reads(p, h) ==
  /\ p.headers = {h[i].name : i \in DOMAIN h} /\ IsFiniteSet(p.headers)
  /\ p.contentLength = BodySize(h)
  /\ p.uri = UriOf(h)
  /\ p.method = MethodOf(h)

\* The last position is the greatest.
LEMMA MaxFacts ==
  ASSUME NEW n \in Nat, NEW at \in SUBSET (1..n)
  PROVE  Max(at \union {n + 1}) = n + 1 /\ (at # {} => Max(at) \in at)
<1>1. \E x \in at \union {n + 1} : \A y \in at \union {n + 1} : x >= y
  OBVIOUS
<1>2. Max(at \union {n + 1}) \in at \union {n + 1} /\ \A y \in at \union {n + 1} : Max(at \union {n + 1}) >= y
  BY <1>1 DEF Max
<1>3. Max(at \union {n + 1}) = n + 1
  <2> DEFINE m == Max(at \union {n + 1})
  <2>1. m >= n + 1 /\ (m \in 1..n \/ m = n + 1)
    BY <1>2
  <2> HIDE DEF m
  <2>2. m = n + 1
    BY <2>1
  <2> QED
    BY <2>2 DEF m
<1>4. ASSUME at # {} PROVE Max(at) \in at
  <2>1. PICK m \in at : \A k \in at : k <= m
    BY <1>4, GreatestExists
  <2>2. \A k \in at : m >= k
    BY <2>1
  <2> QED
    BY <2>2 DEF Max
<1> QED
  BY <1>3, <1>4

\* One header more.
LEMMA ReadsAppend ==
  ASSUME NEW h \in Seq(Headers), NEW x \in Headers
  PROVE  LET g == Append(h, x) IN
         /\ {g[i].name : i \in DOMAIN g} = {h[i].name : i \in DOMAIN h} \union {x.name}
         /\ BodySize(g) = IF h = <<>> THEN Size(x.value) ELSE BodySize(h)
         /\ UriOf(g) = IF x.name = <<RequestUri>> THEN x.value ELSE UriOf(h)
         /\ MethodOf(g) = IF x.name = <<RequestMethod>> /\ KnownMethod(x.value)
                            THEN Method[x.value[1]] ELSE MethodOf(h)
<1> DEFINE g == Append(h, x)
           n == Len(h)
<1>1. g \in Seq(Headers) /\ Len(g) = n + 1 /\ g[n + 1] = x /\ \A i \in 1..n : g[i] = h[i]
  BY AppendProperties
<1>2. n \in Nat /\ DOMAIN h = 1..n /\ DOMAIN g = 1..(n + 1) /\ (h = <<>> <=> n = 0) /\ g # <<>>
  BY <1>1, LenProperties, EmptySeq
<1> HIDE DEF g, n
<1>3. {g[i].name : i \in DOMAIN g} = {h[i].name : i \in DOMAIN h} \union {x.name}
  <2>1. ASSUME NEW i \in 1..(n + 1) PROVE g[i].name \in {h[j].name : j \in DOMAIN h} \union {x.name}
    <3>1. CASE i \in 1..n
      BY <1>1, <1>2, <3>1
    <3>2. CASE i = n + 1
      BY <1>1, <3>2
    <3> QED
      BY <1>2, <3>1, <3>2
  <2>2. ASSUME NEW i \in 1..n PROVE h[i].name \in {g[j].name : j \in DOMAIN g}
    <3>1. i \in 1..(n + 1) /\ g[i] = h[i]
      BY <1>1, <1>2
    <3> QED
      BY <1>2, <3>1
  <2>3. x.name \in {g[j].name : j \in DOMAIN g}
    <3>1. n + 1 \in 1..(n + 1)
      BY <1>2
    <3> QED
      BY <1>1, <1>2, <3>1
  <2> QED
    BY <1>2, <2>1, <2>2, <2>3
<1>4. BodySize(g) = IF h = <<>> THEN Size(x.value) ELSE BodySize(h)
  <2>1. CASE n = 0
    BY <1>1, <1>2, <2>1 DEF BodySize
  <2>2. CASE n # 0
    <3>1. 1 \in 1..n
      BY <1>2, <2>2
    <3> QED
      BY <1>1, <1>2, <2>2, <3>1 DEF BodySize
  <2> QED
    BY <2>1, <2>2
<1>5. UriOf(g) = IF x.name = <<RequestUri>> THEN x.value ELSE UriOf(h)
  <2> DEFINE old == {i \in DOMAIN h : h[i].name = <<RequestUri>>}
             new == {i \in DOMAIN g : g[i].name = <<RequestUri>>}
  <2>1. old \in SUBSET (1..n)
    BY <1>2
  <2>2. new = IF x.name = <<RequestUri>> THEN old \union {n + 1} ELSE old
    BY <1>1, <1>2
  <2>3. UriOf(h) = IF old = {} THEN <<>> ELSE h[Max(old)].value
    BY DEF UriOf
  <2>4. UriOf(g) = IF new = {} THEN <<>> ELSE g[Max(new)].value
    BY DEF UriOf
  <2> HIDE DEF old, new
  <2>5. Max(old \union {n + 1}) = n + 1 /\ (old # {} => Max(old) \in 1..n)
    BY <1>2, <2>1, MaxFacts
  <2> QED
    BY <1>1, <2>2, <2>3, <2>4, <2>5
<1>6. MethodOf(g) = IF x.name = <<RequestMethod>> /\ KnownMethod(x.value)
                      THEN Method[x.value[1]] ELSE MethodOf(h)
  <2> DEFINE old == {i \in DOMAIN h : h[i].name = <<RequestMethod>> /\ KnownMethod(h[i].value)}
             new == {i \in DOMAIN g : g[i].name = <<RequestMethod>> /\ KnownMethod(g[i].value)}
  <2>1. old \in SUBSET (1..n)
    BY <1>2
  <2>2. new = IF x.name = <<RequestMethod>> /\ KnownMethod(x.value) THEN old \union {n + 1} ELSE old
    BY <1>1, <1>2
  <2>3. MethodOf(h) = IF old = {} THEN "undefined" ELSE Method[h[Max(old)].value[1]]
    BY DEF MethodOf
  <2>4. MethodOf(g) = IF new = {} THEN "undefined" ELSE Method[g[Max(new)].value[1]]
    BY DEF MethodOf
  <2> HIDE DEF old, new
  <2>5. Max(old \union {n + 1}) = n + 1 /\ (old # {} => Max(old) \in 1..n)
    BY <1>2, <2>1, MaxFacts
  <2> QED
    BY <1>1, <2>2, <2>3, <2>4, <2>5
<1> QED
  BY <1>3, <1>4, <1>5, <1>6 DEF g

-----------------------------------------------------------------------------
(* One byte *)

Parser ==
  [state : {"netstring_length", "header_start", "header_value", "body_range"},
   lengthString : Seq(Digit), length : Nat, count : Nat,
   header : Seq(Byte), value : Seq(Byte), headers : SUBSET Seq(Byte),
   method : {"undefined", "get", "put", "post"}, uri : Seq(Byte),
   contentLength : Nat, body : Seq(Byte), result : {"good", "bad", "indeterminate"}]

\* The parser before it looks at the next byte.
Moved(p) == [p EXCEPT !.count = @ + 1, !.result = "indeterminate"]

LEMMA MovedFacts ==
  ASSUME NEW p \in Parser
  PROVE  /\ Moved(p) \in Parser
         /\ Moved(p).state = p.state /\ Moved(p).lengthString = p.lengthString
         /\ Moved(p).length = p.length /\ Moved(p).count = p.count + 1
         /\ Moved(p).header = p.header /\ Moved(p).value = p.value
         /\ Moved(p).headers = p.headers /\ Moved(p).method = p.method
         /\ Moved(p).uri = p.uri /\ Moved(p).contentLength = p.contentLength
         /\ Moved(p).body = p.body /\ Moved(p).result = "indeterminate"
<1>1. p.count + 1 \in Nat
  BY DEF Parser
<1>2. Moved(p) \in Parser
  BY <1>1 DEF Moved, Parser
<1> QED
  BY <1>2 DEF Moved, Parser

LEMMA ConsumeByState ==
  ASSUME NEW p \in Parser, NEW b
  PROVE  /\ p.state = "netstring_length" => Consume(p, b) = ConsumeLength(Moved(p), b)
         /\ p.state = "header_start" => Consume(p, b) = ConsumeName(Moved(p), b)
         /\ p.state = "header_value" => Consume(p, b) = ConsumeValue(Moved(p), b)
         /\ p.state = "body_range" => Consume(p, b) = ConsumeBody(Moved(p), b)
<1>1. Moved(p).state = p.state
  BY MovedFacts
<1>2. Consume(p, b) =
        CASE Moved(p).state = "netstring_length" -> ConsumeLength(Moved(p), b)
          [] Moved(p).state = "header_start" -> ConsumeName(Moved(p), b)
          [] Moved(p).state = "header_value" -> ConsumeValue(Moved(p), b)
          [] Moved(p).state = "body_range" -> ConsumeBody(Moved(p), b)
  BY DEF Consume, Moved
<1> QED
  BY <1>1, <1>2

LEMMA DigitsAreNumber ==
  ASSUME NEW s \in Seq(Byte), ToSet(s) \subseteq Digit
  PROVE  s \in Seq(Digit) /\ Number(s) \in Nat
<1>1. Len(s) \in Nat /\ DOMAIN s = 1..Len(s) /\ s = [i \in 1..Len(s) |-> s[i]]
  BY LenProperties
<1>2. \A i \in 1..Len(s) : s[i] \in Digit
  BY <1>1 DEF ToSet
<1>3. [i \in 1..Len(s) |-> s[i]] \in Seq(Digit)
  BY <1>1, <1>2, IsASeq
<1>4. s \in Seq(Digit)
  BY <1>1, <1>3
<1> QED
  BY <1>4, NumberIsNat

\* A size is a natural number; with a minus it has wrapped around.
LEMMA SizeIsNat ==
  ASSUME NEW v \in Seq(Byte), IsSize(v)
  PROVE  Size(v) \in Nat
<1> DEFINE u == Unsigned(v)
<1>1. u \in Seq(Byte)
  <2>1. CASE v = <<>>
    BY <2>1 DEF Unsigned
  <2>2. CASE v # <<>>
    <3>1. Tail(v) \in Seq(Byte)
      BY <2>2, HeadTailProperties
    <3> QED
      BY <3>1 DEF Unsigned
  <2> QED
    BY <2>1, <2>2
<1>2. ToSet(u) \subseteq Digit /\ Number(u) <= SizeMax
  BY DEF IsSize, IsLength, IsNumber
<1> HIDE DEF u
<1>3. Number(u) \in Nat
  BY <1>1, <1>2, DigitsAreNumber
<1>4. SizeMax \in Nat
  BY SizeAssumption
<1>5. SizeMax + 1 - Number(u) \in Nat
  BY <1>2, <1>3, <1>4
<1> QED
  BY <1>3, <1>5 DEF Size, u

LEMMA BadFacts ==
  ASSUME NEW m \in Parser
  PROVE  Bad(m) \in Parser /\ Bad(m).result = "bad"
BY DEF Bad, Parser

\* The parser behind the end of a header.
HeaderEnded(m) ==
  [m EXCEPT
    !.contentLength = IF m.headers = {} THEN Size(m.value) ELSE @,
    !.method = IF m.header = <<RequestMethod>> /\ KnownMethod(m.value) THEN Method[m.value[1]] ELSE @,
    !.uri = IF m.header = <<RequestUri>> THEN m.value ELSE @,
    !.headers = @ \union {m.header},
    !.header = <<>>, !.value = <<>>, !.state = "header_start"]

\* The conditions under which it is not.
HeaderRefused(m) ==
  \/ m.headers = {} /\ (m.header # <<ContentLength>> \/ ~IsSize(m.value))
  \/ Cardinality(m.headers) = 1 /\ (m.header # <<Scgi>> \/ m.value # <<1>>)

LEMMA MethodType ==
  ASSUME NEW v, KnownMethod(v)
  PROVE  Method[v[1]] \in {"get", "put", "post"}
<1>1. v[1] \in DOMAIN Method
  BY DEF KnownMethod
<1> QED
  BY <1>1 DEF Method

LEMMA HeaderEndedFacts ==
  ASSUME NEW m \in Parser, ~HeaderRefused(m)
  PROVE  /\ HeaderEnded(m) \in Parser
         /\ HeaderEnded(m).contentLength = (IF m.headers = {} THEN Size(m.value) ELSE m.contentLength)
         /\ HeaderEnded(m).method =
              (IF m.header = <<RequestMethod>> /\ KnownMethod(m.value) THEN Method[m.value[1]] ELSE m.method)
         /\ HeaderEnded(m).uri = (IF m.header = <<RequestUri>> THEN m.value ELSE m.uri)
         /\ HeaderEnded(m).headers = m.headers \union {m.header}
         /\ HeaderEnded(m).header = <<>> /\ HeaderEnded(m).value = <<>>
         /\ HeaderEnded(m).state = "header_start"
         /\ HeaderEnded(m).lengthString = m.lengthString /\ HeaderEnded(m).length = m.length
         /\ HeaderEnded(m).count = m.count /\ HeaderEnded(m).body = m.body /\ HeaderEnded(m).result = m.result
<1> DEFINE size == IF m.headers = {} THEN Size(m.value) ELSE m.contentLength
           method == IF m.header = <<RequestMethod>> /\ KnownMethod(m.value) THEN Method[m.value[1]] ELSE m.method
           uri == IF m.header = <<RequestUri>> THEN m.value ELSE m.uri
<1>1. size \in Nat
  <2>1. CASE m.headers = {}
    <3>1. IsSize(m.value) /\ m.value \in Seq(Byte)
      BY <2>1 DEF HeaderRefused, Parser
    <3> QED
      BY <2>1, <3>1, SizeIsNat
  <2>2. CASE m.headers # {}
    BY <2>2 DEF Parser
  <2> QED
    BY <2>1, <2>2
<1>2. method \in {"undefined", "get", "put", "post"}
  <2>1. m.method \in {"undefined", "get", "put", "post"}
    BY DEF Parser
  <2> QED
    BY <2>1, MethodType
<1>3. uri \in Seq(Byte)
  BY DEF Parser
<1>4. HeaderEnded(m) =
        [m EXCEPT !.contentLength = size, !.method = method, !.uri = uri,
                  !.headers = @ \union {m.header},
                  !.header = <<>>, !.value = <<>>, !.state = "header_start"]
  BY DEF HeaderEnded, Parser
<1>5. <<>> \in Seq(Byte)
  BY EmptySeq
<1> HIDE DEF size, method, uri
<1>6. HeaderEnded(m) \in Parser
  <2>1. m.headers \union {m.header} \in SUBSET Seq(Byte)
    BY DEF Parser
  <2> QED
    BY <1>1, <1>2, <1>3, <1>4, <1>5, <2>1, ZenonT(60) DEF Parser
<1>7. /\ HeaderEnded(m).contentLength = size /\ HeaderEnded(m).method = method /\ HeaderEnded(m).uri = uri
      /\ HeaderEnded(m).headers = m.headers \union {m.header}
      /\ HeaderEnded(m).header = <<>> /\ HeaderEnded(m).value = <<>>
      /\ HeaderEnded(m).state = "header_start"
      /\ HeaderEnded(m).lengthString = m.lengthString /\ HeaderEnded(m).length = m.length
      /\ HeaderEnded(m).count = m.count /\ HeaderEnded(m).body = m.body /\ HeaderEnded(m).result = m.result
  BY <1>4 DEF Parser
<1> QED
  BY <1>6, <1>7 DEF size, method, uri

LEMMA EndHeaderFacts ==
  ASSUME NEW m \in Parser
  PROVE  EndHeader(m) = IF HeaderRefused(m) THEN Bad(m) ELSE HeaderEnded(m)
BY DEF EndHeader, HeaderRefused, HeaderEnded

\* A digit of the length.
LEMMA DigitTaken ==
  ASSUME NEW m \in Parser, NEW b \in Digit, NEW q, q = [m EXCEPT !.lengthString = Append(@, b)]
  PROVE  /\ q \in Parser /\ q.lengthString = Append(m.lengthString, b)
         /\ q.state = m.state /\ q.length = m.length /\ q.count = m.count /\ q.header = m.header
         /\ q.value = m.value /\ q.headers = m.headers /\ q.method = m.method /\ q.uri = m.uri
         /\ q.contentLength = m.contentLength /\ q.body = m.body /\ q.result = m.result
<1>1. Append(m.lengthString, b) \in Seq(Digit)
  BY AppendProperties DEF Parser
<1> QED
  BY <1>1 DEF Parser

\* The colon behind it.
LEMMA LengthTaken ==
  ASSUME NEW m \in Parser, NEW q, q = [m EXCEPT !.length = Number(m.lengthString), !.count = 0, !.state = "header_start"]
  PROVE  /\ q \in Parser /\ q.length = Number(m.lengthString) /\ q.count = 0 /\ q.state = "header_start"
         /\ q.lengthString = m.lengthString /\ q.header = m.header /\ q.value = m.value /\ q.headers = m.headers
         /\ q.method = m.method /\ q.uri = m.uri /\ q.contentLength = m.contentLength /\ q.body = m.body
         /\ q.result = m.result
<1>1. Number(m.lengthString) \in Nat
  BY NumberIsNat DEF Parser
<1> QED
  BY <1>1 DEF Parser

\* A byte of a name.
LEMMA NameTaken ==
  ASSUME NEW m \in Parser, NEW b \in Byte, NEW q, q = [m EXCEPT !.header = Append(@, b)]
  PROVE  /\ q \in Parser /\ q.header = Append(m.header, b)
         /\ q.state = m.state /\ q.lengthString = m.lengthString /\ q.length = m.length /\ q.count = m.count
         /\ q.value = m.value /\ q.headers = m.headers /\ q.method = m.method /\ q.uri = m.uri
         /\ q.contentLength = m.contentLength /\ q.body = m.body /\ q.result = m.result
<1>1. Append(m.header, b) \in Seq(Byte)
  BY AppendProperties DEF Parser
<1> QED
  BY <1>1 DEF Parser

\* A byte of a value.
LEMMA ValueTaken ==
  ASSUME NEW m \in Parser, NEW b \in Byte, NEW q, q = [m EXCEPT !.value = Append(@, b)]
  PROVE  /\ q \in Parser /\ q.value = Append(m.value, b)
         /\ q.state = m.state /\ q.lengthString = m.lengthString /\ q.length = m.length /\ q.count = m.count
         /\ q.header = m.header /\ q.headers = m.headers /\ q.method = m.method /\ q.uri = m.uri
         /\ q.contentLength = m.contentLength /\ q.body = m.body /\ q.result = m.result
<1>1. Append(m.value, b) \in Seq(Byte)
  BY AppendProperties DEF Parser
<1> QED
  BY <1>1 DEF Parser

\* The end of a name, and the comma in front of a body.
LEMMA StateEntered ==
  ASSUME NEW m \in Parser, NEW t \in {"header_value", "body_range"}, NEW q, q = [m EXCEPT !.state = t]
  PROVE  /\ q \in Parser /\ q.state = t
         /\ q.lengthString = m.lengthString /\ q.length = m.length /\ q.count = m.count /\ q.header = m.header
         /\ q.value = m.value /\ q.headers = m.headers /\ q.method = m.method /\ q.uri = m.uri
         /\ q.contentLength = m.contentLength /\ q.body = m.body /\ q.result = m.result
BY DEF Parser

\* The comma behind the headers of a request without a body.
LEMMA RequestEnded ==
  ASSUME NEW m \in Parser, NEW q, q = [m EXCEPT !.result = "good"]
  PROVE  /\ q \in Parser /\ q.result = "good"
         /\ q.state = m.state /\ q.lengthString = m.lengthString /\ q.length = m.length /\ q.count = m.count
         /\ q.header = m.header /\ q.value = m.value /\ q.headers = m.headers /\ q.method = m.method
         /\ q.uri = m.uri /\ q.contentLength = m.contentLength /\ q.body = m.body
BY DEF Parser

-----------------------------------------------------------------------------
(* Where the parser is *)

\* The parser has counted from the colon at k.
Behind(s, k, n, p) ==
  /\ k \in 1..n /\ p.count = n - k /\ s[k] = Colon
  /\ IsLength(SubSeq(s, 1, k - 1)) /\ p.length = Number(SubSeq(s, 1, k - 1))

InLength(s, n, p) ==
  /\ p.state = "netstring_length" /\ p.lengthString = SubSeq(s, 1, n)
  /\ p.header = <<>> /\ p.value = <<>> /\ p.body = <<>>
  /\ Reads(p, <<>>)

InName(c, p) ==
  /\ p.state = "header_start" /\ Len(Fields(c)) = 2 * Len(HeadersOf(Fields(c)))
  /\ p.header = Rest(c) /\ p.value = <<>>
  /\ p.header # <<>> => p.count < p.length

InValue(c, p) ==
  /\ p.state = "header_value" /\ Len(Fields(c)) = 2 * Len(HeadersOf(Fields(c))) + 1
  /\ p.header = Fields(c)[Len(Fields(c))] /\ p.header # <<>>
  /\ p.value = Rest(c)

InHeaders(s, k, n, p) ==
  LET c == SubSeq(s, k + 1, n)
      h == HeadersOf(Fields(c)) IN
  /\ Behind(s, k, n, p) /\ p.count <= p.length /\ p.body = <<>>
  /\ HeadersAllowed(h) /\ Reads(p, h) /\ Comma \notin ToSet(p.header)
  /\ InName(c, p) \/ InValue(c, p)

\* Behind the comma of the netstring.
InBody(s, k, n, p) ==
  LET j == k + p.length + 1
      c == SubSeq(s, k + 1, j - 1) IN
  /\ Behind(s, k, n, p) /\ j <= n /\ s[j] = Comma
  /\ IsHeaderBlock(c) /\ Reads(p, HeadersOf(Fields(c)))
  /\ p.body = SubSeq(s, j + 1, n)

\* The request goes on.
Expected(s, n, p) ==
  \/ InLength(s, n, p)
  \/ InHeaders(s, n - p.count, n, p)
  \/ InBody(s, n - p.count, n, p) /\ p.state = "body_range" /\ Len(p.body) < p.contentLength

\* No request is complete from here on.
Over(p) ==
  \/ p.state = "header_start" /\ p.count > p.length
  \/ p.state = "body_range" /\ Len(p.body) >= p.contentLength

Complete(s, n, p) == InBody(s, n - p.count, n, p) /\ Len(p.body) = p.contentLength /\ Over(p)

\* The parser behind n bytes of s.
ParserInv(s, n, p) ==
  /\ p \in Parser
  /\ p.result = "indeterminate" => Expected(s, n, p) \/ Over(p)
  /\ p.result = "good" => Complete(s, n, p)

LEMMA AllowedAppend ==
  ASSUME NEW h \in Seq(Headers), NEW x \in Headers, HeadersAllowed(h),
         x.name # <<>>, Comma \notin ToSet(x.name),
         Len(h) = 0 => x.name = <<ContentLength>> /\ IsSize(x.value),
         Len(h) = 1 => x.name = <<Scgi>> /\ x.value = << 1 >>
  PROVE  HeadersAllowed(Append(h, x))
<1> DEFINE g == Append(h, x)
           n == Len(h)
<1>1. g \in Seq(Headers) /\ Len(g) = n + 1 /\ g[n + 1] = x /\ \A i \in 1..n : g[i] = h[i]
  BY AppendProperties
<1>2. n \in Nat /\ DOMAIN h = 1..n /\ DOMAIN g = 1..(n + 1) /\ (h = <<>> <=> n = 0)
  BY <1>1, LenProperties, EmptySeq
<1> HIDE DEF g, n
<1>3. \A i \in DOMAIN g : g[i].name # <<>> /\ Comma \notin ToSet(g[i].name)
  <2> TAKE i \in DOMAIN g
  <2>1. CASE i \in 1..n
    BY <1>1, <1>2, <2>1 DEF HeadersAllowed
  <2>2. CASE i = n + 1
    BY <1>1, <2>2
  <2> QED
    BY <1>2, <2>1, <2>2
<1>4. g[1].name = <<ContentLength>> /\ IsSize(g[1].value)
  <2>1. CASE n = 0
    BY <1>1, <2>1 DEF n
  <2>2. CASE n # 0
    <3>1. g[1] = h[1] /\ h # <<>>
      BY <1>1, <1>2, <2>2
    <3> QED
      BY <3>1 DEF HeadersAllowed
  <2> QED
    BY <2>1, <2>2
<1>5. Len(g) > 1 => g[2] = [name |-> <<Scgi>>, value |-> <<1>>]
  <2>1. CASE n = 0
    BY <1>1, <2>1
  <2>2. CASE n = 1
    <3>1. g[2] = x /\ x.name = <<Scgi>> /\ x.value = <<1>>
      BY <1>1, <2>2 DEF n
    <3> QED
      BY <3>1 DEF Headers
  <2>3. CASE n > 1
    <3>1. g[2] = h[2]
      BY <1>1, <1>2, <2>3
    <3>2. Len(h) > 1
      BY <2>3 DEF n
    <3> QED
      BY <3>1, <3>2 DEF HeadersAllowed
  <2> QED
    BY <1>2, <2>1, <2>2, <2>3
<1>6. HeadersAllowed(g)
  BY <1>3, <1>4, <1>5 DEF HeadersAllowed
<1> QED
  BY <1>6 DEF g

\* The number of names tells whether a header is the first or the second.
LEMMA NamesFacts ==
  ASSUME NEW h \in Seq(Headers), NEW p, HeadersAllowed(h), Reads(p, h)
  PROVE  (p.headers = {} <=> Len(h) = 0) /\ (Cardinality(p.headers) = 1 <=> Len(h) = 1)
<1>1. Len(h) \in Nat /\ DOMAIN h = 1..Len(h) /\ (h = <<>> <=> Len(h) = 0)
  BY LenProperties, EmptySeq
<1>2. p.headers = {h[i].name : i \in 1..Len(h)} /\ IsFiniteSet(p.headers)
  BY <1>1 DEF Reads
<1>3. CASE Len(h) = 0
  <2>1. p.headers = {}
    BY <1>2, <1>3
  <2>2. Cardinality(p.headers) = 0
    BY <2>1, FS_EmptySet
  <2> QED
    BY <1>3, <2>1, <2>2
<1>4. CASE Len(h) = 1
  <2>1. p.headers = {h[1].name}
    BY <1>2, <1>4
  <2>2. Cardinality(p.headers) = 1
    BY <2>1, FS_Singleton
  <2> QED
    BY <1>4, <2>1, <2>2, SMTT(30)
<1>5. CASE Len(h) > 1
  <2>1. h[1].name = <<ContentLength>> /\ h[2].name = <<Scgi>>
    BY <1>1, <1>5 DEF HeadersAllowed
  <2>2. <<ContentLength>> \in p.headers /\ <<Scgi>> \in p.headers
    BY <1>1, <1>2, <1>5, <2>1
  <2>3. <<ContentLength>> # <<Scgi>>
    BY DEF ContentLength, Scgi
  <2>4. Cardinality(p.headers) # 1
    <3> SUFFICES ASSUME Cardinality(p.headers) = 1 PROVE FALSE
      OBVIOUS
    <3>1. PICK x : p.headers = {x}
      BY <1>2, FS_Singleton
    <3> QED
      BY <2>2, <2>3, <3>1
  <2> QED
    <3>1. p.headers # {}
      BY <2>2
    <3>2. Len(h) # 0 /\ Len(h) # 1
      BY <1>1, <1>5
    <3> QED
      BY <2>4, <3>1, <3>2
<1> QED
  BY <1>1, <1>3, <1>4, <1>5

LEMMA NothingFacts ==
  /\ Fields(<<>>) = <<>> /\ Rest(<<>>) = <<>> /\ HeadersOf(<<>>) = <<>>
  /\ HeadersAllowed(<<>>) /\ Len(<<>>) = 0 /\ Comma \notin ToSet(<<>>)
<1>1. <<>> \in Seq(Seq(Byte)) /\ Len(<<>>) = 0 /\ DOMAIN <<>> = {}
  <2>1. <<>> \in Seq(Seq(Byte)) /\ Len(<<>>) = 0
    BY EmptySeq
  <2> QED
    BY <2>1
<1>2. HeadersOf(<<>>) = <<>>
  <2>1. 0 \in Nat /\ Len(<<>>) = 2 * 0
    BY <1>1
  <2>2. HeadersOf(<<>>) \in Seq(Headers) /\ Len(HeadersOf(<<>>)) = 0
    BY <1>1, <2>1, HeadersFacts
  <2> QED
    BY <2>2, EmptySeq
<1>3. HeadersAllowed(<<>>)
  BY <1>1 DEF HeadersAllowed
<1>4. Comma \notin ToSet(<<>>)
  BY <1>1 DEF ToSet
<1> QED
  BY <1>1, <1>2, <1>3, <1>4, FieldsOfNothing

LEMMA ReadsSame ==
  ASSUME NEW h, NEW p, NEW q, Reads(p, h), q.headers = p.headers,
         q.contentLength = p.contentLength, q.uri = p.uri, q.method = p.method
  PROVE  Reads(q, h)
BY DEF Reads

LEMMA DigitsOf ==
  ASSUME NEW s \in Seq(Digit)
  PROVE  ToSet(s) \subseteq Digit
<1>1. DOMAIN s = 1..Len(s)
  BY LenProperties
<1> QED
  BY <1>1, ElementOfSeq DEF ToSet

LEMMA LengthStep ==
  ASSUME NEW s \in Seq(Byte), NEW n \in Nat, n < Len(s), NEW p \in Parser, InLength(s, n, p),
         NEW q, q = Consume(p, s[n + 1])
  PROVE  IF s[n + 1] \in Digit THEN q.result = "indeterminate" /\ InLength(s, n + 1, q)
         ELSE IF s[n + 1] = Colon /\ p.lengthString # <<>> /\ Number(p.lengthString) <= SizeMax
           THEN q.result = "indeterminate" /\ InHeaders(s, n + 1, n + 1, q)
         ELSE q.result = "bad"
<1> DEFINE b == s[n + 1]
           m == Moved(p)
<1>1. Len(s) \in Nat /\ n \in 0..Len(s)
  BY LenProperties
<1>2. SubSeq(s, 1, n + 1) = Append(SubSeq(s, 1, n), b) /\ b \in Byte
  BY <1>1, BeginningFacts
<1>3. p.state = "netstring_length" /\ p.lengthString = SubSeq(s, 1, n) /\ p.header = <<>> /\ p.value = <<>>
      /\ p.body = <<>> /\ Reads(p, <<>>)
  BY DEF InLength
<1>4. q = ConsumeLength(m, b)
  BY <1>3, ConsumeByState
<1>5. /\ m \in Parser /\ m.state = p.state /\ m.lengthString = p.lengthString
      /\ m.header = p.header /\ m.value = p.value /\ m.headers = p.headers /\ m.method = p.method
      /\ m.uri = p.uri /\ m.contentLength = p.contentLength /\ m.body = p.body
      /\ m.result = "indeterminate"
  BY MovedFacts
<1> HIDE DEF m, b
<1>6. CASE b \in Digit
  <2>1. q = [m EXCEPT !.lengthString = Append(@, b)]
    BY <1>4, <1>6 DEF ConsumeLength
  <2>2. /\ q.lengthString = Append(m.lengthString, b) /\ q.state = m.state
        /\ q.header = m.header /\ q.value = m.value /\ q.headers = m.headers /\ q.method = m.method
        /\ q.uri = m.uri /\ q.contentLength = m.contentLength /\ q.body = m.body /\ q.result = m.result
    BY <1>5, <1>6, <2>1, DigitTaken
  <2>3. Reads(q, <<>>)
    BY <1>3, <1>5, <2>2, ReadsSame
  <2>4. InLength(s, n + 1, q)
    BY <1>2, <1>3, <1>5, <2>2, <2>3 DEF InLength
  <2> QED
    BY <1>5, <1>6, <2>2, <2>4 DEF b
<1>7. CASE b \notin Digit /\ b = Colon /\ m.lengthString # <<>> /\ Number(m.lengthString) <= SizeMax
  <2>1. q = [m EXCEPT !.length = Number(m.lengthString), !.count = 0, !.state = "header_start"]
    BY <1>4, <1>7 DEF ConsumeLength
  <2>2. /\ q.length = Number(m.lengthString) /\ q.count = 0 /\ q.state = "header_start" /\ q \in Parser
        /\ q.header = m.header /\ q.value = m.value /\ q.headers = m.headers /\ q.method = m.method
        /\ q.uri = m.uri /\ q.contentLength = m.contentLength /\ q.body = m.body /\ q.result = m.result
    <3>1. m \in Parser
      BY <1>5
    <3>2. q \in Parser /\ q.length = Number(m.lengthString) /\ q.count = 0 /\ q.state = "header_start"
      BY <3>1, <2>1, LengthTaken, ZenonT(30)
    <3>3. /\ q.header = m.header /\ q.value = m.value /\ q.headers = m.headers /\ q.method = m.method
          /\ q.uri = m.uri /\ q.contentLength = m.contentLength /\ q.body = m.body /\ q.result = m.result
      BY <3>1, <2>1, LengthTaken, ZenonT(30)
    <3> QED
      BY <3>2, <3>3
  <2>3. Reads(q, <<>>)
    BY <1>3, <1>5, <2>2, ReadsSame
  <2>4. IsLength(SubSeq(s, 1, n))
    <3>1. p.lengthString \in Seq(Digit)
      BY DEF Parser
    <3>2. ToSet(p.lengthString) \subseteq Digit
      BY <3>1, DigitsOf
    <3> QED
      BY <1>3, <1>5, <1>7, <3>2 DEF IsLength, IsNumber
  <2>5. Behind(s, n + 1, n + 1, q)
    <3>1. n + 1 \in 1..(n + 1) /\ (n + 1) - (n + 1) = 0 /\ (n + 1) - 1 = n
      OBVIOUS
    <3> QED
      BY <1>3, <1>5, <1>7, <2>2, <2>4, <3>1 DEF Behind, b
  <2>6. SubSeq(s, (n + 1) + 1, n + 1) = <<>>
    <3>1. (n + 1) + 1 \in 1..(Len(s) + 1) /\ ((n + 1) + 1) - 1 = n + 1
      BY <1>1
    <3> QED
      BY <3>1, SliceEmpty
  <2>7. q.count <= q.length
    BY <2>2 DEF Parser
  <2>8. InName(<<>>, q)
    <3>1. Len(Fields(<<>>)) = 2 * Len(HeadersOf(Fields(<<>>)))
      BY NothingFacts
    <3> QED
      BY <1>3, <1>5, <2>2, <3>1, NothingFacts DEF InName
  <2>9. InHeaders(s, n + 1, n + 1, q)
    BY <1>3, <1>5, <2>2, <2>3, <2>5, <2>6, <2>7, <2>8, NothingFacts, ZenonT(30) DEF InHeaders
  <2> QED
    BY <1>5, <1>7, <2>2, <2>9 DEF b
<1>8. CASE b \notin Digit /\ ~(b = Colon /\ m.lengthString # <<>> /\ Number(m.lengthString) <= SizeMax)
  <2>1. q = Bad(m)
    BY <1>4, <1>8 DEF ConsumeLength
  <2> QED
    BY <1>5, <1>8, <2>1, BadFacts DEF b
<1> QED
  BY <1>6, <1>7, <1>8

\* A comma ends the netstring, if it is where the length says.
LEMMA CommaStep ==
  ASSUME NEW s \in Seq(Byte), NEW n \in Nat, n < Len(s), NEW k, NEW p \in Parser,
         InHeaders(s, k, n, p), p.state = "header_start", s[n + 1] = Comma,
         NEW q, q = Consume(p, s[n + 1])
  PROVE  IF p.length # p.count THEN q.result = "bad"
         ELSE /\ q.state = IF p.contentLength > 0 THEN "body_range" ELSE "header_start"
              /\ q.result = IF p.contentLength > 0 THEN "indeterminate" ELSE "good"
              /\ q.count = p.count + 1 /\ q.length = p.length /\ q.contentLength = p.contentLength
              /\ Len(q.body) = 0 /\ InBody(s, k, n + 1, q)
<1> DEFINE m == Moved(p)
           c == SubSeq(s, k + 1, n)
           h == HeadersOf(Fields(c))
<1>1. /\ Behind(s, k, n, p) /\ p.count <= p.length /\ p.body = <<>>
      /\ HeadersAllowed(h) /\ Reads(p, h) /\ InName(c, p)
  BY DEF InHeaders, InName, InValue
<1>2. q = ConsumeName(m, Comma)
  BY ConsumeByState
<1>3. /\ m \in Parser /\ m.state = p.state /\ m.length = p.length /\ m.count = p.count + 1
      /\ m.header = p.header /\ m.value = p.value /\ m.headers = p.headers /\ m.method = p.method
      /\ m.uri = p.uri /\ m.contentLength = p.contentLength /\ m.body = p.body
      /\ m.result = "indeterminate"
  BY MovedFacts
<1>4. p.count \in Nat /\ p.length \in Nat /\ p.contentLength \in Nat /\ Len(s) \in Nat
  BY LenProperties DEF Parser
<1>5. m.count - 1 = p.count
  BY <1>3, <1>4
<1> HIDE DEF m
<1>6. CASE p.length # p.count
  <2>1. q = Bad(m)
    BY <1>2, <1>3, <1>5, <1>6 DEF ConsumeName
  <2> QED
    BY <1>3, <1>6, <2>1, BadFacts
<1>7. CASE p.length = p.count
  <2>1. q = IF m.contentLength > 0 THEN [m EXCEPT !.state = "body_range"] ELSE [m EXCEPT !.result = "good"]
    BY <1>2, <1>3, <1>5, <1>7 DEF ConsumeName
  <2>2. /\ q.state = IF p.contentLength > 0 THEN "body_range" ELSE "header_start"
        /\ q.result = IF p.contentLength > 0 THEN "indeterminate" ELSE "good"
        /\ q.length = m.length /\ q.count = m.count /\ q.headers = m.headers /\ q.method = m.method
        /\ q.uri = m.uri /\ q.contentLength = m.contentLength /\ q.body = m.body
    <3>1. CASE m.contentLength > 0
      <4>1. q = [m EXCEPT !.state = "body_range"]
        BY <2>1, <3>1
      <4> QED
        BY <1>3, <3>1, <4>1, StateEntered
    <3>2. CASE ~(m.contentLength > 0)
      <4>1. q = [m EXCEPT !.result = "good"]
        BY <2>1, <3>2
      <4> QED
        BY <1>3, <3>2, <4>1, RequestEnded
    <3> QED
      BY <3>1, <3>2
  <2>3. Reads(q, h)
    BY <1>1, <1>3, <2>2, ReadsSame
  <2>4. Behind(s, k, n + 1, q) /\ k \in 1..n /\ k = n - p.count
    <3>1. Behind(s, k, n, p) /\ q.count = p.count + 1 /\ q.length = p.length
      BY <1>1, <1>3, <2>2
    <3>2. k \in 1..n /\ p.count = n - k
      BY <3>1 DEF Behind
    <3>3. p.count + 1 = (n + 1) - k /\ k \in 1..(n + 1) /\ k = n - p.count
      BY <3>2
    <3> QED
      BY <3>1, <3>2, <3>3 DEF Behind
  <2>5. k + q.length + 1 = n + 1 /\ (k + q.length + 1) - 1 = n
    BY <1>3, <1>4, <1>7, <2>2, <2>4, SMTT(30)
  <2>6. p.header = <<>>
    <3>1. p.header # <<>> => p.count < p.length
      BY <1>1 DEF InName
    <3> QED
      BY <1>4, <1>7, <3>1
  <2>7. IsHeaderBlock(c)
    <3>1. c \in Seq(Byte)
      <4>1. k + 1 \in 1..(Len(s) + 1) /\ n \in ((k + 1) - 1)..Len(s)
        BY <1>4, <2>4, SMTT(30)
      <4> QED
        BY <4>1, SliceFacts
    <3>2. c # <<>> => Last(c) = Nul
      BY <1>1, <2>6, <3>1, RestOfBlock DEF InName
    <3>3. Len(Fields(c)) = 2 * Len(h) /\ Len(h) \in Nat
      <4>1. Fields(c) \in Seq(Seq(Byte)) /\ Len(Fields(c)) = 2 * Len(h)
        BY <1>1, <3>1, FieldsFacts DEF InName
      <4>2. Len(h) \in Nat
        BY <1>1 DEF HeadersAllowed, HeadersOf
      <4> QED
        BY <4>1, <4>2
    <3>4. (Len(Fields(c)) % 2) = 0
      BY <3>3
    <3> QED
      BY <1>1, <3>2, <3>4 DEF IsHeaderBlock
  <2>8. SubSeq(s, (n + 1) + 1, n + 1) = <<>>
    <3>1. (n + 1) + 1 \in 1..(Len(s) + 1) /\ ((n + 1) + 1) - 1 = n + 1
      BY <1>4
    <3> QED
      BY <3>1, SliceEmpty
  <2>9. InBody(s, k, n + 1, q)
    BY <1>1, <1>3, <2>2, <2>3, <2>4, <2>5, <2>7, <2>8 DEF InBody
  <2>10. Len(q.body) = 0
    BY <1>1, <1>3, <2>2, NothingFacts
  <2> QED
    BY <1>3, <1>7, <2>2, <2>9, <2>10
<1> QED
  BY <1>6, <1>7

\* The block of headers with one byte more.
LEMMA BlockStep ==
  ASSUME NEW s \in Seq(Byte), NEW n \in Nat, n < Len(s), NEW k \in 1..n
  PROVE  /\ SubSeq(s, k + 1, n) \in Seq(Byte) /\ s[n + 1] \in Byte
         /\ SubSeq(s, k + 1, n + 1) = Append(SubSeq(s, k + 1, n), s[n + 1])
<1>1. Len(s) \in Nat
  BY LenProperties
<1>2. k + 1 \in 1..(Len(s) + 1) /\ n \in ((k + 1) - 1)..Len(s) /\ k + 1 \in 1..(n + 1)
  BY <1>1
<1>3. SubSeq(s, k + 1, n) \in Seq(Byte)
  BY <1>2, SliceFacts
<1>4. SubSeq(s, k + 1, n + 1) = Append(SubSeq(s, k + 1, n), s[n + 1]) /\ s[n + 1] \in Byte
  BY <1>2, SliceAppend
<1> QED
  BY <1>3, <1>4

\* The number of headers and of fields.
LEMMA CountFacts ==
  ASSUME NEW c \in Seq(Byte), NEW r \in Seq(Byte)
  PROVE  LET f == Fields(c)
             h == HeadersOf(f)
             g == Append(f, r) IN
         /\ f \in Seq(Seq(Byte)) /\ h \in Seq(Headers) /\ Len(f) \in Nat /\ Len(h) \in Nat
         /\ Len(f) = 2 * Len(h) \/ Len(f) = 2 * Len(h) + 1
         /\ Len(g) = Len(f) + 1 /\ g[Len(f) + 1] = r
         /\ Len(f) = 2 * Len(h) => HeadersOf(g) = h
         /\ Len(f) = 2 * Len(h) + 1 => /\ HeadersOf(g) = Append(h, [name |-> f[Len(f)], value |-> r])
                                       /\ f[Len(f)] \in Seq(Byte)
<1> DEFINE f == Fields(c)
           h == HeadersOf(f)
           g == Append(f, r)
<1>1. f \in Seq(Seq(Byte))
  BY FieldsFacts
<1> HIDE DEF f
<1>2. Len(f) \in Nat
  BY <1>1, LenProperties
<1>3. \E n \in Nat : Len(f) = 2 * n \/ Len(f) = 2 * n + 1
  <2>1. (Len(f) \div 2) \in Nat /\ (Len(f) = 2 * (Len(f) \div 2) \/ Len(f) = 2 * (Len(f) \div 2) + 1)
    BY <1>2
  <2> QED
    BY <2>1
<1>4. PICK n \in Nat : Len(f) = 2 * n \/ Len(f) = 2 * n + 1
  BY <1>3
<1>5. h \in Seq(Headers) /\ Len(h) = n
  BY <1>1, <1>4, HeadersFacts
<1>6. Len(g) = Len(f) + 1 /\ g[Len(f) + 1] = r
  BY <1>1, AppendProperties
<1>7. /\ Len(f) = 2 * n => HeadersOf(g) = h
      /\ Len(f) = 2 * n + 1 => HeadersOf(g) = Append(h, [name |-> f[Len(f)], value |-> r])
  BY <1>1, HeadersAppend
<1>8. Len(f) = 2 * n + 1 => f[Len(f)] \in Seq(Byte)
  <2>1. Len(f) = 2 * n + 1 => Len(f) \in 1..Len(f)
    BY <1>2, <1>4
  <2> QED
    BY <1>1, <2>1, ElementOfSeq
<1> HIDE DEF h, g
<1>9. /\ f \in Seq(Seq(Byte)) /\ h \in Seq(Headers) /\ Len(f) \in Nat /\ Len(h) \in Nat
      /\ Len(f) = 2 * Len(h) \/ Len(f) = 2 * Len(h) + 1
      /\ Len(g) = Len(f) + 1 /\ g[Len(f) + 1] = r
      /\ Len(f) = 2 * Len(h) => HeadersOf(g) = h
      /\ Len(f) = 2 * Len(h) + 1 => /\ HeadersOf(g) = Append(h, [name |-> f[Len(f)], value |-> r])
                                    /\ f[Len(f)] \in Seq(Byte)
  BY <1>1, <1>2, <1>4, <1>5, <1>6, <1>7, <1>8
<1> QED
  BY <1>9 DEF f, g, h

\* A byte of a name, or the end of one.
LEMMA NameStep ==
  ASSUME NEW s \in Seq(Byte), NEW n \in Nat, n < Len(s), NEW k, NEW p \in Parser,
         InHeaders(s, k, n, p), p.state = "header_start", s[n + 1] # Comma,
         NEW q, q = Consume(p, s[n + 1])
  PROVE  IF p.count + 1 >= p.length \/ (s[n + 1] = Nul /\ p.header = <<>>) THEN q.result = "bad"
         ELSE /\ q.result = "indeterminate" /\ q.count = p.count + 1 /\ InHeaders(s, k, n + 1, q)
<1> DEFINE b == s[n + 1]
           m == Moved(p)
           c == SubSeq(s, k + 1, n)
           d == SubSeq(s, k + 1, n + 1)
           f == Fields(c)
           h == HeadersOf(f)
           g == Append(f, Rest(c))
<1>1. /\ Behind(s, k, n, p) /\ p.count <= p.length /\ p.body = <<>>
      /\ HeadersAllowed(h) /\ Reads(p, h) /\ Comma \notin ToSet(p.header)
      /\ Len(f) = 2 * Len(h) /\ p.header = Rest(c) /\ p.value = <<>>
  BY DEF InHeaders, InName, InValue
<1>2. q = ConsumeName(m, b)
  BY ConsumeByState
<1>3. /\ m \in Parser /\ m.state = p.state /\ m.length = p.length /\ m.count = p.count + 1
      /\ m.header = p.header /\ m.value = p.value /\ m.headers = p.headers /\ m.method = p.method
      /\ m.uri = p.uri /\ m.contentLength = p.contentLength /\ m.body = p.body
      /\ m.result = "indeterminate"
  BY MovedFacts
<1>4. p.count \in Nat /\ p.length \in Nat /\ Len(s) \in Nat
  BY LenProperties DEF Parser
<1>5. k \in 1..n /\ p.count = n - k
  BY <1>1 DEF Behind
<1>6. p.count + 1 = (n + 1) - k /\ k \in 1..(n + 1)
  BY <1>5
<1>7. c \in Seq(Byte) /\ b \in Byte /\ d = Append(c, b)
  BY <1>5, BlockStep
<1>8. Rest(c) \in Seq(Byte)
  BY <1>7, FieldsFacts
<1>9. /\ Len(g) = Len(f) + 1 /\ g[Len(f) + 1] = Rest(c) /\ HeadersOf(g) = h
      /\ Len(f) \in Nat /\ Len(h) \in Nat
  BY <1>1, <1>7, <1>8, CountFacts
<1>10. /\ Fields(d) = IF b = Nul THEN g ELSE f
       /\ Rest(d) = IF b = Nul THEN <<>> ELSE Append(Rest(c), b)
  <2> HIDE DEF b, c, d
  <2>1. c \in Seq(Byte) /\ b \in Byte /\ d = Append(c, b)
    BY <1>7
  <2>2. Fields(d) = IF b = Nul THEN Append(Fields(c), Rest(c)) ELSE Fields(c)
    BY <2>1, FieldsAppend
  <2>3. Rest(d) = IF b = Nul THEN <<>> ELSE Append(Rest(c), b)
    BY <2>1, FieldsAppend
  <2> QED
    BY <2>2, <2>3 DEF f, g
<1>11. b # Comma
  OBVIOUS
<1> HIDE DEF b, m, c, d, f, h, g
<1>12. CASE m.count >= m.length \/ (b = Nul /\ m.header = <<>>)
  <2>1. q = Bad(m)
    BY <1>2, <1>11, <1>12 DEF ConsumeName
  <2> QED
    BY <1>3, <1>12, <2>1, BadFacts DEF b
<1>13. CASE ~(m.count >= m.length \/ (b = Nul /\ m.header = <<>>)) /\ b = Nul
  <2>1. q = [m EXCEPT !.state = "header_value"]
    BY <1>2, <1>11, <1>13 DEF ConsumeName
  <2>2. /\ q.state = "header_value" /\ q.length = m.length /\ q.count = m.count /\ q.header = m.header
        /\ q.value = m.value /\ q.headers = m.headers /\ q.method = m.method
        /\ q.uri = m.uri /\ q.contentLength = m.contentLength /\ q.body = m.body /\ q.result = m.result
    BY <1>3, <2>1, StateEntered
  <2>3. Reads(q, h)
    BY <1>1, <1>3, <2>2, ReadsSame
  <2>4. Behind(s, k, n + 1, q) /\ q.count <= q.length
    BY <1>1, <1>3, <1>4, <1>6, <1>13, <2>2 DEF Behind
  <2>5. Fields(d) = g /\ Rest(d) = <<>> /\ HeadersOf(Fields(d)) = h
    BY <1>9, <1>10, <1>13
  <2>6. InValue(d, q)
    <3>1. Len(Fields(d)) = Len(f) + 1 /\ Fields(d)[Len(f) + 1] = Rest(c)
      BY <1>9, <2>5
    <3>2. q.header = Rest(c) /\ q.header # <<>> /\ q.value = <<>>
      BY <1>1, <1>3, <1>13, <2>2
    <3> QED
      BY <1>1, <2>2, <2>5, <3>1, <3>2 DEF InValue
  <2>7. InHeaders(s, k, n + 1, q)
    BY <1>1, <1>3, <2>2, <2>3, <2>4, <2>5, <2>6 DEF InHeaders, d
  <2> QED
    BY <1>3, <1>13, <2>2, <2>7 DEF b
<1>14. CASE ~(m.count >= m.length \/ (b = Nul /\ m.header = <<>>)) /\ b # Nul
  <2>1. q = [m EXCEPT !.header = Append(@, b)]
    BY <1>2, <1>11, <1>14 DEF ConsumeName
  <2>2. /\ q.header = Append(m.header, b) /\ q.state = m.state /\ q.length = m.length /\ q.count = m.count
        /\ q.value = m.value /\ q.headers = m.headers /\ q.method = m.method
        /\ q.uri = m.uri /\ q.contentLength = m.contentLength /\ q.body = m.body /\ q.result = m.result
    BY <1>3, <1>7, <2>1, NameTaken
  <2>3. Reads(q, h)
    BY <1>1, <1>3, <2>2, ReadsSame
  <2>4. Behind(s, k, n + 1, q) /\ q.count <= q.length /\ q.count < q.length
    BY <1>1, <1>3, <1>4, <1>6, <1>14, <2>2, SMTT(30) DEF Behind
  <2>5. Fields(d) = f /\ Rest(d) = Append(Rest(c), b) /\ HeadersOf(Fields(d)) = h
    BY <1>10, <1>14 DEF h
  <2>6. InName(d, q)
    BY <1>1, <1>3, <2>2, <2>4, <2>5 DEF InName
  <2>7. Comma \notin ToSet(q.header)
    <3>1. ToSet(q.header) = ToSet(p.header) \union {b}
      BY <1>1, <1>3, <1>7, <1>8, <2>2, AppendToSet
    <3> QED
      BY <1>1, <1>11, <3>1
  <2>8. InHeaders(s, k, n + 1, q)
    BY <1>1, <1>3, <2>2, <2>3, <2>4, <2>5, <2>6, <2>7 DEF InHeaders, d
  <2> QED
    BY <1>3, <1>14, <2>2, <2>8 DEF b
<1> QED
  BY <1>12, <1>13, <1>14

\* A byte of a value, or the end of a header.
LEMMA ValueStep ==
  ASSUME NEW s \in Seq(Byte), NEW n \in Nat, n < Len(s), NEW k, NEW p \in Parser,
         InHeaders(s, k, n, p), p.state = "header_value",
         NEW q, q = Consume(p, s[n + 1])
  PROVE  IF p.count + 1 > p.length \/ (s[n + 1] = Nul /\ HeaderRefused(p)) THEN q.result = "bad"
         ELSE /\ q.result = "indeterminate" /\ q.count = p.count + 1 /\ InHeaders(s, k, n + 1, q)
<1> DEFINE b == s[n + 1]
           m == Moved(p)
           c == SubSeq(s, k + 1, n)
           d == SubSeq(s, k + 1, n + 1)
           f == Fields(c)
           h == HeadersOf(f)
           g == Append(f, Rest(c))
           x == [name |-> f[Len(f)], value |-> Rest(c)]
<1>1. /\ Behind(s, k, n, p) /\ p.count <= p.length /\ p.body = <<>>
      /\ HeadersAllowed(h) /\ Reads(p, h) /\ Comma \notin ToSet(p.header)
      /\ Len(f) = 2 * Len(h) + 1 /\ p.header = f[Len(f)] /\ p.header # <<>> /\ p.value = Rest(c)
  BY DEF InHeaders, InName, InValue
<1>2. q = ConsumeValue(m, b)
  BY ConsumeByState
<1>3. /\ m \in Parser /\ m.state = p.state /\ m.length = p.length /\ m.count = p.count + 1
      /\ m.header = p.header /\ m.value = p.value /\ m.headers = p.headers /\ m.method = p.method
      /\ m.uri = p.uri /\ m.contentLength = p.contentLength /\ m.body = p.body
      /\ m.result = "indeterminate"
  BY MovedFacts
<1>4. p.count \in Nat /\ p.length \in Nat /\ Len(s) \in Nat
  BY LenProperties DEF Parser
<1>5. k \in 1..n /\ p.count = n - k
  BY <1>1 DEF Behind
<1>6. p.count + 1 = (n + 1) - k /\ k \in 1..(n + 1)
  BY <1>5
<1>7. c \in Seq(Byte) /\ b \in Byte /\ d = Append(c, b)
  BY <1>5, BlockStep
<1>8. Rest(c) \in Seq(Byte)
  BY <1>7, FieldsFacts
<1>9. /\ Len(g) = Len(f) + 1 /\ HeadersOf(g) = Append(h, x) /\ f[Len(f)] \in Seq(Byte)
      /\ Len(f) \in Nat /\ Len(h) \in Nat /\ h \in Seq(Headers)
  BY <1>1, <1>7, <1>8, CountFacts
<1>10. /\ Fields(d) = IF b = Nul THEN g ELSE f
       /\ Rest(d) = IF b = Nul THEN <<>> ELSE Append(Rest(c), b)
  <2> HIDE DEF b, c, d
  <2>1. c \in Seq(Byte) /\ b \in Byte /\ d = Append(c, b)
    BY <1>7
  <2>2. Fields(d) = IF b = Nul THEN Append(Fields(c), Rest(c)) ELSE Fields(c)
    BY <2>1, FieldsAppend
  <2>3. Rest(d) = IF b = Nul THEN <<>> ELSE Append(Rest(c), b)
    BY <2>1, FieldsAppend
  <2> QED
    BY <2>2, <2>3 DEF f, g
<1>11. x \in Headers /\ x.name = p.header /\ x.value = p.value
  BY <1>1, <1>8, <1>9 DEF Headers
<1>12. HeaderRefused(m) <=> HeaderRefused(p)
  BY <1>3 DEF HeaderRefused
<1> HIDE DEF b, m, c, d, f, h, g, x
<1>13. CASE m.count > m.length
  <2>1. q = Bad(m)
    BY <1>2, <1>13 DEF ConsumeValue
  <2> QED
    BY <1>3, <1>13, <2>1, BadFacts DEF b
<1>14. CASE ~(m.count > m.length) /\ b = Nul /\ HeaderRefused(m)
  <2>1. q = Bad(m)
    BY <1>2, <1>3, <1>14, EndHeaderFacts DEF ConsumeValue
  <2> QED
    BY <1>3, <1>12, <1>14, <2>1, BadFacts DEF b
<1>15. CASE ~(m.count > m.length) /\ b = Nul /\ ~HeaderRefused(m)
  <2>1. q = HeaderEnded(m)
    BY <1>2, <1>3, <1>15, EndHeaderFacts DEF ConsumeValue
  <2>2. /\ q.contentLength = (IF m.headers = {} THEN Size(m.value) ELSE m.contentLength)
        /\ q.method = (IF m.header = <<RequestMethod>> /\ KnownMethod(m.value) THEN Method[m.value[1]] ELSE m.method)
        /\ q.uri = (IF m.header = <<RequestUri>> THEN m.value ELSE m.uri)
        /\ q.headers = m.headers \union {m.header}
        /\ q.header = <<>> /\ q.value = <<>> /\ q.state = "header_start"
        /\ q.length = m.length /\ q.count = m.count /\ q.body = m.body /\ q.result = m.result
    BY <1>3, <1>15, <2>1, HeaderEndedFacts
  <2>3. (p.headers = {} <=> Len(h) = 0) /\ (Cardinality(p.headers) = 1 <=> Len(h) = 1)
    BY <1>1, <1>9, NamesFacts
  <2>4. HeadersAllowed(Append(h, x))
    <3>1. Len(h) = 0 => x.name = <<ContentLength>> /\ IsSize(x.value)
      BY <1>11, <1>12, <1>15, <2>3 DEF HeaderRefused
    <3>2. Len(h) = 1 => x.name = <<Scgi>> /\ x.value = <<1>>
      BY <1>11, <1>12, <1>15, <2>3 DEF HeaderRefused
    <3> QED
      BY <1>1, <1>9, <1>11, <3>1, <3>2, AllowedAppend
  <2>5. Reads(q, Append(h, x))
    <3> DEFINE e == Append(h, x)
    <3>1. /\ {e[i].name : i \in DOMAIN e} = {h[i].name : i \in DOMAIN h} \union {x.name}
          /\ BodySize(e) = IF h = <<>> THEN Size(x.value) ELSE BodySize(h)
          /\ UriOf(e) = IF x.name = <<RequestUri>> THEN x.value ELSE UriOf(h)
          /\ MethodOf(e) = IF x.name = <<RequestMethod>> /\ KnownMethod(x.value)
                             THEN Method[x.value[1]] ELSE MethodOf(h)
      BY <1>9, <1>11, ReadsAppend
    <3>2. h = <<>> <=> p.headers = {}
      BY <1>9, <2>3, EmptySeq
    <3> HIDE DEF e
    <3>3. p.headers = {h[i].name : i \in DOMAIN h} /\ IsFiniteSet(p.headers) /\ p.contentLength = BodySize(h)
          /\ p.uri = UriOf(h) /\ p.method = MethodOf(h)
      BY <1>1 DEF Reads
    <3>4. IsFiniteSet(q.headers)
      BY <1>3, <2>2, <3>3, FS_AddElement
    <3>5. q.headers = {e[i].name : i \in DOMAIN e}
      BY <1>3, <1>11, <2>2, <3>1, <3>3
    <3>6. q.contentLength = BodySize(e) /\ q.uri = UriOf(e) /\ q.method = MethodOf(e)
      <4>1. /\ m.headers = p.headers /\ m.contentLength = p.contentLength /\ m.method = p.method
            /\ m.uri = p.uri /\ x.name = m.header /\ x.value = m.value
        BY <1>3, <1>11
      <4>2. q.contentLength = IF m.headers = {} THEN Size(m.value) ELSE m.contentLength
        BY <2>2
      <4>3. q.contentLength = BodySize(e)
        BY <4>1, <4>2, <3>1, <3>2, <3>3
      <4>4. q.uri = IF m.header = <<RequestUri>> THEN m.value ELSE m.uri
        BY <2>2
      <4>5. q.uri = UriOf(e)
        BY <4>1, <4>4, <3>1, <3>3
      <4>6. q.method = IF m.header = <<RequestMethod>> /\ KnownMethod(m.value)
                         THEN Method[m.value[1]] ELSE m.method
        BY <2>2
      <4>7. q.method = MethodOf(e)
        BY <4>1, <4>6, <3>1, <3>3
      <4> QED
        BY <4>3, <4>5, <4>7
    <3>7. Reads(q, e)
      BY <3>4, <3>5, <3>6 DEF Reads
    <3> QED
      BY <3>7 DEF e
  <2>6. Behind(s, k, n + 1, q) /\ q.count <= q.length
    BY <1>1, <1>3, <1>4, <1>6, <1>15, <2>2 DEF Behind
  <2>7. Fields(d) = g /\ Rest(d) = <<>> /\ HeadersOf(Fields(d)) = Append(h, x)
    BY <1>9, <1>10, <1>15
  <2>8. InName(d, q)
    <3>1. Len(Append(h, x)) = Len(h) + 1
      BY <1>9, <1>11, AppendProperties
    <3>2. Len(Fields(d)) = 2 * Len(HeadersOf(Fields(d)))
      <4>1. Len(g) = 2 * (Len(h) + 1)
        BY <1>1, <1>9
      <4> QED
        BY <2>7, <3>1, <4>1
    <3> QED
      BY <2>2, <2>7, <3>2 DEF InName
  <2>9. InHeaders(s, k, n + 1, q)
    BY <1>1, <1>3, <2>2, <2>4, <2>5, <2>6, <2>7, <2>8, NothingFacts DEF InHeaders, d
  <2> QED
    BY <1>3, <1>12, <1>15, <2>2, <2>9 DEF b
<1>16. CASE ~(m.count > m.length) /\ b # Nul
  <2>1. q = [m EXCEPT !.value = Append(@, b)]
    BY <1>2, <1>16 DEF ConsumeValue
  <2>2. /\ q.value = Append(m.value, b) /\ q.state = m.state /\ q.length = m.length /\ q.count = m.count
        /\ q.header = m.header /\ q.headers = m.headers /\ q.method = m.method
        /\ q.uri = m.uri /\ q.contentLength = m.contentLength /\ q.body = m.body /\ q.result = m.result
    BY <1>3, <1>7, <2>1, ValueTaken
  <2>3. Reads(q, h)
    BY <1>1, <1>3, <2>2, ReadsSame
  <2>4. Behind(s, k, n + 1, q) /\ q.count <= q.length
    BY <1>1, <1>3, <1>4, <1>6, <1>16, <2>2 DEF Behind
  <2>5. Fields(d) = f /\ Rest(d) = Append(Rest(c), b) /\ HeadersOf(Fields(d)) = h
    BY <1>10, <1>16 DEF h
  <2>6. InValue(d, q)
    BY <1>1, <1>3, <2>2, <2>5, ZenonT(30) DEF InValue
  <2>7. InHeaders(s, k, n + 1, q)
    BY <1>1, <1>3, <2>2, <2>3, <2>4, <2>5, <2>6 DEF InHeaders, d
  <2> QED
    BY <1>3, <1>16, <2>2, <2>7 DEF b
<1> QED
  BY <1>13, <1>14, <1>15, <1>16

\* A byte of the body.
LEMMA BodyStep ==
  ASSUME NEW s \in Seq(Byte), NEW n \in Nat, n < Len(s), NEW k, NEW p \in Parser,
         InBody(s, k, n, p), p.state = "body_range", Len(p.body) < p.contentLength,
         NEW q, q = Consume(p, s[n + 1])
  PROVE  /\ q.result = IF Len(p.body) + 1 = p.contentLength THEN "good" ELSE "indeterminate"
         /\ q.count = p.count + 1 /\ q.state = "body_range" /\ InBody(s, k, n + 1, q)
         /\ Len(q.body) = Len(p.body) + 1 /\ q.contentLength = p.contentLength
<1> DEFINE b == s[n + 1]
           m == Moved(p)
           j == k + p.length + 1
           c == SubSeq(s, k + 1, j - 1)
           h == HeadersOf(Fields(c))
           r == IF Len(p.body) + 1 = p.contentLength THEN "good" ELSE "indeterminate"
<1>1. /\ Behind(s, k, n, p) /\ j <= n /\ s[j] = Comma /\ IsHeaderBlock(c) /\ Reads(p, h)
      /\ p.body = SubSeq(s, j + 1, n)
  BY DEF InBody
<1>2. q = ConsumeBody(m, b)
  BY ConsumeByState
<1>3. /\ m \in Parser /\ m.state = p.state /\ m.length = p.length /\ m.count = p.count + 1
      /\ m.header = p.header /\ m.value = p.value /\ m.headers = p.headers /\ m.method = p.method
      /\ m.uri = p.uri /\ m.contentLength = p.contentLength /\ m.body = p.body
      /\ m.result = "indeterminate"
  BY MovedFacts
<1>4. /\ p.count \in Nat /\ p.length \in Nat /\ Len(s) \in Nat /\ p.contentLength \in Nat
      /\ p.body \in Seq(Byte) /\ Len(p.body) \in Nat
  BY LenProperties DEF Parser
<1>5. k \in 1..n /\ p.count = n - k
  BY <1>1 DEF Behind
<1>6. p.count + 1 = (n + 1) - k /\ k \in 1..(n + 1) /\ j \in Nat /\ j <= n + 1
  <2>1. p.count + 1 = (n + 1) - k /\ k \in 1..(n + 1)
    BY <1>5
  <2>2. j \in Nat
    BY <1>4, <1>5, SMTT(30)
  <2>3. j <= n
    BY <1>1
  <2> HIDE DEF j
  <2> QED
    BY <2>1, <2>2, <2>3
<1>7. SubSeq(s, j + 1, n + 1) = Append(SubSeq(s, j + 1, n), b) /\ b \in Byte
  <2>1. j + 1 \in 1..(n + 1)
    BY <1>1, <1>6, SMTT(30)
  <2> QED
    BY <2>1, SliceAppend
<1>8. r \in {"good", "indeterminate"}
  OBVIOUS
<1> HIDE DEF b, m, c, h
<1>9. q = [m EXCEPT !.body = Append(@, b), !.result = r]
  BY <1>2, <1>3, <1>4 DEF ConsumeBody
<1> HIDE DEF r
<1>10. /\ q.body = Append(p.body, b) /\ q.result = r /\ q.state = "body_range" /\ q.length = p.length
       /\ q.count = p.count + 1 /\ q.headers = p.headers /\ q.method = p.method
       /\ q.uri = p.uri /\ q.contentLength = p.contentLength
  <2>1. Append(m.body, b) \in Seq(Byte)
    BY <1>3, <1>4, <1>7, AppendProperties
  <2> QED
    BY <1>3, <1>8, <1>9, <2>1 DEF Parser
<1>11. Reads(q, h)
  BY <1>1, <1>10, ReadsSame
<1>12. Behind(s, k, n + 1, q)
  BY <1>1, <1>6, <1>10 DEF Behind
<1>13. Len(q.body) = Len(p.body) + 1
  BY <1>4, <1>7, <1>10, AppendProperties
<1>14. InBody(s, k, n + 1, q)
  BY <1>1, <1>6, <1>7, <1>10, <1>11, <1>12 DEF InBody, c, h
<1> QED
  BY <1>10, <1>13, <1>14 DEF r

\* No request is complete any more.
LEMMA OverStep ==
  ASSUME NEW p \in Parser, Over(p), NEW b \in Byte, NEW q, q = Consume(p, b)
  PROVE  q.result # "good" /\ (q.result = "indeterminate" => Over(q))
<1> DEFINE m == Moved(p)
<1>1. /\ m \in Parser /\ m.state = p.state /\ m.length = p.length /\ m.count = p.count + 1
      /\ m.contentLength = p.contentLength /\ m.body = p.body /\ m.result = "indeterminate"
  BY MovedFacts
<1>2. /\ p.count \in Nat /\ p.length \in Nat /\ p.contentLength \in Nat
      /\ p.body \in Seq(Byte) /\ Len(p.body) \in Nat
  BY LenProperties DEF Parser
<1>3. CASE p.state = "header_start" /\ p.count > p.length
  <2>1. q = ConsumeName(m, b)
    BY <1>3, ConsumeByState
  <2> HIDE DEF m
  <2>2. m.length # m.count - 1 /\ m.count >= m.length
    BY <1>1, <1>2, <1>3
  <2>3. q = Bad(m)
    BY <2>1, <2>2 DEF ConsumeName
  <2> QED
    BY <1>1, <2>3, BadFacts
<1>4. CASE p.state = "body_range" /\ Len(p.body) >= p.contentLength
  <2>1. q = ConsumeBody(m, b)
    BY <1>4, ConsumeByState
  <2> HIDE DEF m
  <2>2. CASE Len(m.body) > m.contentLength
    <3>1. q = Bad(m)
      BY <2>1, <2>2 DEF ConsumeBody
    <3> QED
      BY <1>1, <3>1, BadFacts
  <2>3. CASE ~(Len(m.body) > m.contentLength)
    <3>1. Len(m.body) + 1 # m.contentLength
      BY <1>1, <1>2, <1>4
    <3>2. q = [m EXCEPT !.body = Append(@, b), !.result = "indeterminate"]
      BY <1>1, <2>1, <2>3, <3>1 DEF ConsumeBody
    <3>3. q.body = Append(m.body, b) /\ q.result = "indeterminate" /\ q.state = m.state
          /\ q.contentLength = m.contentLength
      <4>1. Append(m.body, b) \in Seq(Byte)
        BY <1>1, <1>2, AppendProperties
      <4> QED
        BY <1>1, <3>2, <4>1 DEF Parser
    <3>4. Len(q.body) = Len(p.body) + 1
      BY <1>1, <1>2, <3>3, AppendProperties
    <3> QED
      BY <1>1, <1>2, <1>4, <3>3, <3>4 DEF Over
  <2> QED
    BY <2>2, <2>3
<1> QED
  BY <1>3, <1>4 DEF Over

LEMMA ConsumeType ==
  ASSUME NEW p \in Parser, NEW b \in Byte
  PROVE  Consume(p, b) \in Parser
<1> DEFINE q == Consume(p, b)
           m == Moved(p)
<1>1. m \in Parser
  BY MovedFacts
<1>2. /\ p.state = "netstring_length" => q = ConsumeLength(m, b)
      /\ p.state = "header_start" => q = ConsumeName(m, b)
      /\ p.state = "header_value" => q = ConsumeValue(m, b)
      /\ p.state = "body_range" => q = ConsumeBody(m, b)
  BY ConsumeByState
<1>3. p.state \in {"netstring_length", "header_start", "header_value", "body_range"}
  BY DEF Parser
<1> HIDE DEF m, q
<1>4. Bad(m) \in Parser
  BY <1>1, BadFacts
<1>5. ConsumeLength(m, b) \in Parser
  <2>1. CASE b \in Digit
    BY <1>1, <2>1, DigitTaken DEF ConsumeLength
  <2>2. [m EXCEPT !.length = Number(m.lengthString), !.count = 0, !.state = "header_start"] \in Parser
    BY <1>1, LengthTaken
  <2> QED
    BY <1>4, <2>1, <2>2 DEF ConsumeLength
<1>6. ConsumeName(m, b) \in Parser
  <2>1. [m EXCEPT !.state = "body_range"] \in Parser /\ [m EXCEPT !.state = "header_value"] \in Parser
    BY <1>1, StateEntered
  <2>2. [m EXCEPT !.result = "good"] \in Parser
    BY <1>1, RequestEnded
  <2>3. [m EXCEPT !.header = Append(@, b)] \in Parser
    BY <1>1, NameTaken
  <2> QED
    BY <1>4, <2>1, <2>2, <2>3 DEF ConsumeName
<1>7. ConsumeValue(m, b) \in Parser
  <2>1. EndHeader(m) \in Parser
    BY <1>1, <1>4, EndHeaderFacts, HeaderEndedFacts
  <2>2. [m EXCEPT !.value = Append(@, b)] \in Parser
    BY <1>1, ValueTaken
  <2> QED
    BY <1>4, <2>1, <2>2 DEF ConsumeValue
<1>8. ConsumeBody(m, b) \in Parser
  <2> DEFINE r == IF Len(m.body) + 1 = m.contentLength THEN "good" ELSE m.result
  <2>1. r \in {"good", "bad", "indeterminate"} /\ Append(m.body, b) \in Seq(Byte)
    BY <1>1, AppendProperties DEF Parser
  <2>2. ConsumeBody(m, b) = IF Len(m.body) > m.contentLength THEN Bad(m)
                            ELSE [m EXCEPT !.body = Append(@, b), !.result = r]
    BY DEF ConsumeBody
  <2> HIDE DEF r
  <2>3. [m EXCEPT !.body = Append(@, b), !.result = r] \in Parser
    BY <1>1, <2>1 DEF Parser
  <2> QED
    BY <1>4, <2>2, <2>3
<1> QED
  BY <1>2, <1>3, <1>5, <1>6, <1>7, <1>8 DEF q

LEMMA CountedFromColon ==
  ASSUME NEW s, NEW n \in Nat, NEW k, NEW p, Behind(s, k, n, p)
  PROVE  n - p.count = k
<1>1. k \in 1..n /\ p.count = n - k
  BY DEF Behind
<1>2. n - (n - k) = k
  BY <1>1
<1> QED
  BY <1>1, <1>2

\* Every step keeps the parser where it should be.
LEMMA ExpectedStep ==
  ASSUME NEW s \in Seq(Byte), NEW n \in Nat, n < Len(s), NEW p \in Parser, Expected(s, n, p),
         NEW q, q = Consume(p, s[n + 1])
  PROVE  /\ q.result = "indeterminate" => Expected(s, n + 1, q)
         /\ q.result = "good" => Complete(s, n + 1, q)
<1>1. n + 1 \in Nat
  OBVIOUS
<1>2. p.count \in Nat /\ p.length \in Nat /\ p.contentLength \in Nat
  BY <1>1 DEF Parser
<1>3. CASE InLength(s, n, p)
  <2>1. \/ q.result = "bad"
        \/ /\ q.result = "indeterminate"
           /\ InLength(s, n + 1, q) \/ InHeaders(s, n + 1, n + 1, q)
    BY <1>1, <1>3, LengthStep
  <2>2. InHeaders(s, n + 1, n + 1, q) => Expected(s, n + 1, q)
    <3>1. InHeaders(s, n + 1, n + 1, q) => (n + 1) - q.count = n + 1
      BY <1>1, CountedFromColon DEF InHeaders
    <3> QED
      BY <3>1 DEF Expected
  <2>3. InLength(s, n + 1, q) => Expected(s, n + 1, q)
    BY DEF Expected
  <2> QED
    BY <2>1, <2>2, <2>3
<1>4. ASSUME NEW k, InHeaders(s, k, n, p)
      PROVE  /\ q.result = "indeterminate" => Expected(s, n + 1, q)
             /\ q.result = "good" => Complete(s, n + 1, q)
  <2>1. InHeaders(s, k, n + 1, q) => Expected(s, n + 1, q)
    <3>1. InHeaders(s, k, n + 1, q) => (n + 1) - q.count = k
      BY <1>1, CountedFromColon DEF InHeaders
    <3> QED
      BY <3>1 DEF Expected
  <2>2. CASE p.state = "header_start" /\ s[n + 1] = Comma /\ p.length # p.count
    <3>1. q.result = "bad"
      BY <1>1, <1>4, <2>2, CommaStep
    <3> QED
      BY <3>1
  <2>3. CASE p.state = "header_start" /\ s[n + 1] = Comma /\ p.length = p.count
    <3>1. /\ q.state = IF p.contentLength > 0 THEN "body_range" ELSE "header_start"
          /\ q.result = IF p.contentLength > 0 THEN "indeterminate" ELSE "good"
          /\ q.count = p.count + 1 /\ q.length = p.length /\ q.contentLength = p.contentLength
          /\ Len(q.body) = 0 /\ InBody(s, k, n + 1, q)
      BY <1>1, <1>4, <2>3, CommaStep
    <3>2. (n + 1) - q.count = k
      BY <1>1, <3>1, CountedFromColon DEF InBody
    <3>3. CASE p.contentLength > 0
      BY <1>2, <3>1, <3>2, <3>3 DEF Expected
    <3>4. CASE ~(p.contentLength > 0)
      <4>1. q.state = "header_start" /\ q.count > q.length /\ Len(q.body) = q.contentLength /\ q.result = "good"
        BY <1>2, <2>3, <3>1, <3>4
      <4> QED
        BY <3>1, <3>2, <4>1 DEF Complete, Over
    <3> QED
      BY <3>3, <3>4
  <2>4. CASE p.state = "header_start" /\ s[n + 1] # Comma
    <3>1. q.result = "bad" \/ (q.result = "indeterminate" /\ InHeaders(s, k, n + 1, q))
      BY <1>1, <1>4, <2>4, NameStep
    <3> QED
      BY <2>1, <3>1
  <2>5. CASE p.state = "header_value"
    <3>1. q.result = "bad" \/ (q.result = "indeterminate" /\ InHeaders(s, k, n + 1, q))
      BY <1>1, <1>4, <2>5, ValueStep
    <3> QED
      BY <2>1, <3>1
  <2>6. p.state = "header_start" \/ p.state = "header_value"
    BY <1>4 DEF InHeaders, InName, InValue
  <2> QED
    BY <2>2, <2>3, <2>4, <2>5, <2>6
<1>5. ASSUME NEW k, InBody(s, k, n, p), p.state = "body_range", Len(p.body) < p.contentLength
      PROVE  /\ q.result = "indeterminate" => Expected(s, n + 1, q)
             /\ q.result = "good" => Complete(s, n + 1, q)
  <2>1. /\ q.result = IF Len(p.body) + 1 = p.contentLength THEN "good" ELSE "indeterminate"
        /\ q.count = p.count + 1 /\ q.state = "body_range" /\ InBody(s, k, n + 1, q)
        /\ Len(q.body) = Len(p.body) + 1 /\ q.contentLength = p.contentLength
    BY <1>1, <1>5, BodyStep
  <2>2. (n + 1) - q.count = k
    BY <1>1, <2>1, CountedFromColon DEF InBody
  <2>3. Len(p.body) \in Nat
    BY <1>1, LenProperties DEF Parser
  <2>4. CASE Len(p.body) + 1 = p.contentLength
    <3>1. Len(q.body) = q.contentLength /\ Len(q.body) >= q.contentLength /\ q.result = "good"
      BY <1>2, <2>1, <2>3, <2>4
    <3> QED
      BY <2>1, <2>2, <3>1 DEF Complete, Over
  <2>5. CASE Len(p.body) + 1 # p.contentLength
    <3>1. Len(q.body) < q.contentLength /\ q.result = "indeterminate"
      BY <1>2, <1>5, <2>1, <2>3, <2>5
    <3> QED
      BY <2>1, <2>2, <3>1 DEF Expected
  <2> QED
    BY <2>4, <2>5
<1> QED
  BY <1>3, <1>4, <1>5 DEF Expected

LEMMA ParserStep ==
  ASSUME NEW s \in Seq(Byte), NEW n \in Nat, n < Len(s), NEW p, ParserInv(s, n, p), p.result # "bad",
         NEW q, q = Consume(p, s[n + 1])
  PROVE  ParserInv(s, n + 1, q)
<1>1. p \in Parser
  BY DEF ParserInv
<1>2. s[n + 1] \in Byte
  <2>1. n \in 0..Len(s)
    BY LenProperties
  <2> QED
    BY <2>1, BeginningFacts
<1>3. q \in Parser
  BY <1>1, <1>2, ConsumeType
<1>4. CASE Over(p)
  BY <1>1, <1>2, <1>3, <1>4, OverStep DEF ParserInv
<1>5. CASE Expected(s, n, p)
  BY <1>1, <1>3, <1>5, ExpectedStep DEF ParserInv
<1>6. p.result \in {"good", "indeterminate"}
  BY <1>1 DEF Parser
<1> QED
  BY <1>4, <1>5, <1>6 DEF ParserInv, Complete

-----------------------------------------------------------------------------
(* Many bytes *)

After(p, b) == IF p.result = "bad" THEN p ELSE Consume(p, b)

\* The recursion over a chunk is defined.
LEMMA ParsedFacts ==
  ASSUME NEW p, NEW c \in Seq(Byte)
  PROVE  /\ Parsed(p, c)[0] = p
         /\ \A i \in 1..Len(c) : Parsed(p, c)[i] = After(Parsed(p, c)[i - 1], c[i])
<1> DEFINE IsRun(n, g) == g = [i \in 0..n |-> IF i = 0 THEN p
                                              ELSE LET q == g[i - 1] IN
                                                   IF q.result = "bad" THEN q ELSE Consume(q, c[i])]
           P(n) == \E g : IsRun(n, g)
           bad == {n \in Nat : n <= Len(c) /\ ~P(n)}
<1>1. Len(c) \in Nat
  BY LenProperties
<1>2. P(0)
  <2> DEFINE g == [i \in 0..0 |-> p]
  <2>1. IsRun(0, g)
    OBVIOUS
  <2> QED
    BY <2>1
<1>3. ASSUME NEW n \in Nat, n < Len(c), P(n) PROVE P(n + 1)
  <2>1. PICK g : IsRun(n, g)
    BY <1>3
  <2> DEFINE v == After(g[n], c[n + 1])
             h == [i \in 0..(n + 1) |-> IF i = n + 1 THEN v ELSE g[i]]
  <2>2. ASSUME NEW i \in 0..(n + 1)
        PROVE  h[i] = IF i = 0 THEN p ELSE After(h[i - 1], c[i])
    <3>1. \A j \in 0..n : g[j] = IF j = 0 THEN p ELSE After(g[j - 1], c[j])
      BY <2>1 DEF After
    <3>2. CASE i = n + 1
      <4>1. h[i] = v /\ i # 0 /\ i - 1 = n /\ h[n] = g[n]
        BY <3>2
      <4> QED
        BY <4>1, <3>2
    <3>3. CASE i \in 0..n
      <4>1. h[i] = g[i] /\ i # n + 1
        BY <3>3
      <4>2. i # 0 => i - 1 \in 0..n /\ i - 1 # n + 1 /\ h[i - 1] = g[i - 1]
        BY <3>3
      <4> QED
        BY <4>1, <4>2, <3>1, <3>3
    <3> QED
      BY <3>2, <3>3
  <2>3. h = [i \in 0..(n + 1) |-> IF i = 0 THEN p ELSE After(h[i - 1], c[i])]
    BY <2>2
  <2> HIDE DEF h
  <2>4. IsRun(n + 1, h)
    BY <2>3 DEF After
  <2> QED
    BY <2>4
<1>4. bad = {}
  <2> SUFFICES ASSUME bad # {} PROVE FALSE
    OBVIOUS
  <2> HIDE DEF P
  <2>1. PICK m \in bad : \A k \in bad : m <= k
    BY LeastExists
  <2>2. m # 0 /\ m - 1 \in Nat /\ m - 1 < Len(c) /\ (m - 1) + 1 = m
    BY <1>1, <1>2
  <2>3. P(m - 1)
    BY <2>1, <2>2
  <2> QED
    BY <1>3, <2>2, <2>3
<1>5. PICK g : IsRun(Len(c), g)
  BY <1>1, <1>4
<1> DEFINE w == CHOOSE f : IsRun(Len(c), f)
<1>6. IsRun(Len(c), w) /\ Parsed(p, c) = w
  BY <1>5 DEF Parsed
<1> HIDE DEF w
<1>7. w = [i \in 0..Len(c) |-> IF i = 0 THEN p ELSE After(w[i - 1], c[i])]
  BY <1>6 DEF After
<1>8. w[0] = p /\ \A i \in 1..Len(c) : w[i] = After(w[i - 1], c[i])
  BY <1>1, <1>7
<1> QED
  BY <1>6, <1>8

\* The parser behind the first n bytes of s, if it is not disturbed.
Run(s, n) == Parsed(ResetParser, s)[n]

LEMMA ResetFacts ==
  ASSUME NEW s \in Seq(Byte)
  PROVE  ParserInv(s, 0, ResetParser) /\ InLength(s, 0, ResetParser) /\ ResetParser.result = "indeterminate"
         /\ ResetParser.body = <<>> /\ ResetParser \in Parser
<1>1. /\ ResetParser.state = "netstring_length" /\ ResetParser.lengthString = <<>>
      /\ ResetParser.header = <<>> /\ ResetParser.value = <<>> /\ ResetParser.body = <<>>
      /\ ResetParser.headers = {} /\ ResetParser.contentLength = 0 /\ ResetParser.uri = <<>>
      /\ ResetParser.method = "undefined" /\ ResetParser.result = "indeterminate"
  BY DEF ResetParser
<1>2. ResetParser \in Parser
  <2>1. <<>> \in Seq(Byte) /\ <<>> \in Seq(Digit)
    BY EmptySeq
  <2> QED
    BY <2>1 DEF ResetParser, Parser
<1>3. SubSeq(s, 1, 0) = <<>>
  <2>1. 1 \in 1..(Len(s) + 1) /\ 1 - 1 = 0
    BY LenProperties
  <2> QED
    BY <2>1, SliceEmpty
<1>4. Reads(ResetParser, <<>>)
  <2>1. DOMAIN <<>> = {} /\ IsFiniteSet({})
    BY FS_EmptySet
  <2>2. BodySize(<<>>) = 0 /\ UriOf(<<>>) = <<>> /\ MethodOf(<<>>) = "undefined"
    BY <2>1 DEF BodySize, UriOf, MethodOf
  <2>3. {<<>>[i].name : i \in DOMAIN <<>>} = {}
    BY <2>1
  <2> QED
    BY <1>1, <2>1, <2>2, <2>3 DEF Reads
<1>5. InLength(s, 0, ResetParser)
  BY <1>1, <1>3, <1>4 DEF InLength
<1> QED
  BY <1>1, <1>2, <1>5 DEF ParserInv, Expected

LEMMA RunStep ==
  ASSUME NEW s \in Seq(Byte)
  PROVE  /\ Run(s, 0) = ResetParser
         /\ \A n \in Nat : n < Len(s) => Run(s, n + 1) = After(Run(s, n), s[n + 1])
<1>1. Run(s, 0) = ResetParser /\ Len(s) \in Nat
  BY ParsedFacts, LenProperties DEF Run
<1>2. ASSUME NEW n \in Nat, n < Len(s) PROVE Run(s, n + 1) = After(Run(s, n), s[n + 1])
  <2>1. n + 1 \in 1..Len(s) /\ (n + 1) - 1 = n
    BY <1>1, <1>2
  <2>2. Parsed(ResetParser, s)[n + 1] = After(Parsed(ResetParser, s)[(n + 1) - 1], s[n + 1])
    BY <2>1, ParsedFacts
  <2> QED
    BY <2>1, <2>2 DEF Run
<1> QED
  BY <1>1, <1>2

LEMMA RunInv ==
  ASSUME NEW s \in Seq(Byte), NEW n \in 0..Len(s)
  PROVE  ParserInv(s, n, Run(s, n))
<1> DEFINE bad == {i \in Nat : i <= Len(s) /\ ~ParserInv(s, i, Run(s, i))}
<1>1. Len(s) \in Nat
  BY LenProperties
<1>2. ParserInv(s, 0, Run(s, 0))
  BY ResetFacts, RunStep
<1>3. ASSUME NEW i \in Nat, i < Len(s), ParserInv(s, i, Run(s, i))
      PROVE  ParserInv(s, i + 1, Run(s, i + 1))
  <2>1. Run(s, i + 1) = After(Run(s, i), s[i + 1])
    BY <1>3, RunStep
  <2>2. CASE Run(s, i).result = "bad"
    <3>1. Run(s, i + 1) = Run(s, i)
      BY <2>1, <2>2 DEF After
    <3> QED
      BY <1>3, <2>2, <3>1 DEF ParserInv
  <2>3. CASE Run(s, i).result # "bad"
    <3>1. Run(s, i + 1) = Consume(Run(s, i), s[i + 1])
      BY <2>1, <2>3 DEF After
    <3> QED
      BY <1>3, <2>3, <3>1, ParserStep
  <2> QED
    BY <2>2, <2>3
<1>4. bad = {}
  <2> SUFFICES ASSUME bad # {} PROVE FALSE
    OBVIOUS
  <2>1. PICK m \in bad : \A k \in bad : m <= k
    BY LeastExists
  <2>2. m # 0 /\ m - 1 \in Nat /\ m - 1 < Len(s) /\ (m - 1) + 1 = m
    BY <1>1, <1>2
  <2>3. ParserInv(s, m - 1, Run(s, m - 1))
    BY <1>1, <2>1, <2>2
  <2> QED
    BY <1>3, <2>2, <2>3
<1> QED
  BY <1>1, <1>4

\* A chunk continues where the one before ended.
LEMMA ChunkFacts ==
  ASSUME NEW s \in Seq(Byte), NEW t \in Nat, NEW n \in Nat, t + n <= Len(s),
         Run(s, t).result = "indeterminate"
  PROVE  Parse(Run(s, t), SubSeq(s, t + 1, t + n)) = Run(s, t + n)
<1> DEFINE c == SubSeq(s, t + 1, t + n)
           p == Run(s, t)
           bad == {i \in Nat : i <= n /\ Parsed(p, c)[i] # Run(s, t + i)}
<1>1. Len(s) \in Nat /\ t \in 0..Len(s) /\ t + 0 = t
  BY LenProperties
<1>2. c \in Seq(Byte) /\ Len(c) = n /\ \A i \in 1..n : c[i] = s[t + i]
  <2>1. t + 1 \in 1..(Len(s) + 1) /\ t + n \in ((t + 1) - 1)..Len(s) /\ (t + n) - (t + 1) + 1 = n
        /\ \A i \in 1..n : (t + 1) + i - 1 = t + i
    BY <1>1
  <2>2. c \in Seq(Byte) /\ Len(c) = (t + n) - (t + 1) + 1 /\ \A i \in 1..((t + n) - (t + 1) + 1) : c[i] = s[(t + 1) + i - 1]
    BY <2>1, SliceFacts
  <2> HIDE DEF c
  <2> QED
    BY <2>1, <2>2
<1>3. p \in Parser
  BY <1>1, RunInv DEF ParserInv
<1>4. [p EXCEPT !.result = "indeterminate"] = p
  BY <1>3 DEF Parser
<1> HIDE DEF c
<1>5. Parsed(p, c)[0] = p /\ \A i \in 1..n : Parsed(p, c)[i] = After(Parsed(p, c)[i - 1], c[i])
  BY <1>2, ParsedFacts
<1>6. ASSUME NEW i \in Nat, i < n, Parsed(p, c)[i] = Run(s, t + i)
      PROVE  Parsed(p, c)[i + 1] = Run(s, t + (i + 1))
  <2>1. i + 1 \in 1..n /\ (i + 1) - 1 = i /\ t + i \in Nat /\ t + i < Len(s) /\ t + (i + 1) = (t + i) + 1
    BY <1>1, <1>6
  <2>2. Run(s, (t + i) + 1) = After(Run(s, t + i), s[(t + i) + 1])
    BY <2>1, RunStep
  <2>3. Parsed(p, c)[i + 1] = After(Parsed(p, c)[i], c[i + 1])
    BY <1>5, <2>1
  <2>4. c[i + 1] = s[(t + i) + 1]
    BY <1>2, <2>1
  <2> QED
    BY <1>6, <2>1, <2>2, <2>3, <2>4
<1>7. bad = {}
  <2> SUFFICES ASSUME bad # {} PROVE FALSE
    OBVIOUS
  <2>1. PICK m \in bad : \A k \in bad : m <= k
    BY LeastExists
  <2>2. m # 0 /\ m - 1 \in Nat /\ m - 1 < n /\ (m - 1) + 1 = m
    BY <1>1, <1>5
  <2>3. Parsed(p, c)[m - 1] = Run(s, t + (m - 1))
    BY <2>1, <2>2
  <2> QED
    BY <1>6, <2>2, <2>3
<1>8. Parsed(p, c)[n] = Run(s, t + n)
  BY <1>7
<1>9. Parse(p, c) = Parsed(p, c)[n]
  BY <1>2, <1>4 DEF Parse
<1> QED
  BY <1>8, <1>9 DEF c

-----------------------------------------------------------------------------
(* Complete requests *)

\* The netstring in front of s ends at j, and e is not before.
Frame(s, k, j, e) ==
  /\ k \in 1..e /\ s[k] = Colon /\ IsLength(SubSeq(s, 1, k - 1))
  /\ j = k + Number(SubSeq(s, 1, k - 1)) + 1 /\ j \in 1..e /\ s[j] = Comma

\* The first e bytes of s are one request.
Whole(s, k, j, e) ==
  LET c == SubSeq(s, k + 1, j - 1) IN
  Frame(s, k, j, e) /\ IsHeaderBlock(c) /\ e - j = BodySize(HeadersOf(Fields(c)))

LEMMA DigitsBefore ==
  ASSUME NEW s \in Seq(Byte), NEW k \in 1..Len(s), IsLength(SubSeq(s, 1, k - 1))
  PROVE  /\ \A i \in 1..(k - 1) : s[i] \in Digit
         /\ Number(SubSeq(s, 1, k - 1)) \in Nat /\ k - 1 \in Nat /\ k - 1 # 0
<1> DEFINE t == SubSeq(s, 1, k - 1)
<1>1. k - 1 \in 0..Len(s)
  BY LenProperties
<1>2. t \in Seq(Byte) /\ Len(t) = k - 1 /\ \A i \in 1..(k - 1) : t[i] = s[i]
  BY <1>1, BeginningFacts
<1>3. t # <<>> /\ ToSet(t) \subseteq Digit
  BY DEF IsLength, IsNumber
<1>4. Number(t) \in Nat
  BY <1>2, <1>3, DigitsAreNumber
<1> HIDE DEF t
<1>5. DOMAIN t = 1..(k - 1)
  BY <1>2, LenProperties
<1>6. \A i \in 1..(k - 1) : s[i] \in Digit
  BY <1>2, <1>3, <1>5 DEF ToSet
<1>7. k - 1 # 0
  BY <1>2, <1>3, EmptySeq
<1> QED
  BY <1>1, <1>4, <1>6, <1>7 DEF t

\* Only digits are in front of the colon.
LEMMA ColonUnique ==
  ASSUME NEW s \in Seq(Byte), NEW k \in 1..Len(s), NEW l \in 1..Len(s), s[k] = Colon, s[l] = Colon,
         IsLength(SubSeq(s, 1, k - 1)), IsLength(SubSeq(s, 1, l - 1))
  PROVE  k = l
<1>1. k \in Nat /\ l \in Nat /\ 1 <= k /\ 1 <= l
  BY LenProperties
<1>2. Colon \notin Digit
  BY DEF Colon, Digit
<1>3. ~(k < l)
  <2> SUFFICES ASSUME k < l PROVE FALSE
    OBVIOUS
  <2>1. k \in 1..(l - 1)
    BY <1>1
  <2>2. s[k] \in Digit
    BY <2>1, DigitsBefore
  <2> QED
    BY <1>2, <2>2
<1>4. ~(l < k)
  <2> SUFFICES ASSUME l < k PROVE FALSE
    OBVIOUS
  <2>1. l \in 1..(k - 1)
    BY <1>1
  <2>2. s[l] \in Digit
    BY <2>1, DigitsBefore
  <2> QED
    BY <1>2, <2>2
<1> QED
  BY <1>1, <1>3, <1>4

LEMMA FrameUnique ==
  ASSUME NEW s \in Seq(Byte), NEW e \in 0..Len(s), NEW k, NEW j, NEW l, NEW i,
         Frame(s, k, j, e), Frame(s, l, i, e)
  PROVE  k = l /\ j = i
<1>1. k \in 1..Len(s) /\ l \in 1..Len(s)
  BY LenProperties DEF Frame
<1>2. k = l
  BY <1>1, ColonUnique DEF Frame
<1> QED
  BY <1>2 DEF Frame

LEMMA FrameFacts ==
  ASSUME NEW s \in Seq(Byte), NEW e \in 0..Len(s), NEW k, NEW j, Frame(s, k, j, e)
  PROVE  /\ k \in 1..Len(s) /\ j \in 1..Len(s) /\ k < j /\ j <= e
         /\ SubSeq(s, k + 1, j - 1) \in Seq(Byte)
         /\ SubSeq(s, j + 1, e) \in Seq(Byte) /\ Len(SubSeq(s, j + 1, e)) = e - j
<1>1. Len(s) \in Nat /\ k \in 1..Len(s) /\ j \in 1..Len(s) /\ j <= e
  BY LenProperties DEF Frame
<1>2. Number(SubSeq(s, 1, k - 1)) \in Nat
  BY <1>1, DigitsBefore DEF Frame
<1>3. k < j
  BY <1>1, <1>2 DEF Frame
<1>4. SubSeq(s, k + 1, j - 1) \in Seq(Byte)
  <2>1. k + 1 \in 1..(Len(s) + 1) /\ j - 1 \in ((k + 1) - 1)..Len(s)
    BY <1>1, <1>3
  <2> QED
    BY <2>1, SliceFacts
<1>5. SubSeq(s, j + 1, e) \in Seq(Byte) /\ Len(SubSeq(s, j + 1, e)) = e - j
  <2>1. j + 1 \in 1..(Len(s) + 1) /\ e \in ((j + 1) - 1)..Len(s) /\ e - (j + 1) + 1 = e - j
    BY <1>1
  <2>2. SubSeq(s, j + 1, e) \in Seq(Byte) /\ Len(SubSeq(s, j + 1, e)) = e - (j + 1) + 1
    BY <2>1, SliceFacts
  <2> QED
    BY <2>1, <2>2
<1> QED
  BY <1>1, <1>3, <1>4, <1>5

\* The netstring of a beginning.
LEMMA NetstringsFacts ==
  ASSUME NEW s \in Seq(Byte), NEW e \in 0..Len(s)
  PROVE  /\ \A k, j : Frame(s, k, j, e) =>
              <<SubSeq(s, k + 1, j - 1), SubSeq(s, j + 1, e)>> \in Netstrings(SubSeq(s, 1, e))
         /\ \A x \in Netstrings(SubSeq(s, 1, e)) : \E k, j :
              Frame(s, k, j, e) /\ x = <<SubSeq(s, k + 1, j - 1), SubSeq(s, j + 1, e)>>
<1> DEFINE t == SubSeq(s, 1, e)
           comma(i) == i + Number(SubSeq(t, 1, i - 1)) + 1
           at == {i \in DOMAIN t : /\ t[i] = Colon /\ IsLength(SubSeq(t, 1, i - 1))
                                   /\ comma(i) \in DOMAIN t /\ t[comma(i)] = Comma}
<1>1. t \in Seq(Byte) /\ Len(t) = e /\ \A i \in 1..e : t[i] = s[i]
  BY BeginningFacts
<1>2. DOMAIN t = 1..e /\ e \in Nat /\ Len(s) \in Nat
  <2>1. DOMAIN t = 1..Len(t) /\ Len(s) \in Nat
    BY <1>1, LenProperties
  <2> QED
    BY <1>1, <2>1
<1>3. Netstrings(t) = {<<SubSeq(t, i + 1, comma(i) - 1), SubSeq(t, comma(i) + 1, Len(t))>> : i \in at}
  BY DEF Netstrings
<1>4. ASSUME NEW i \in 1..e PROVE SubSeq(t, 1, i - 1) = SubSeq(s, 1, i - 1)
  <2>1. 1 \in 1..(e + 1) /\ i - 1 \in (1 - 1)..e
    BY <1>2
  <2> QED
    BY <2>1, SliceOfSlice
<1>5. ASSUME NEW i \in 1..e, NEW j, Frame(s, i, j, e)
      PROVE  SubSeq(t, i + 1, j - 1) = SubSeq(s, i + 1, j - 1) /\ SubSeq(t, j + 1, e) = SubSeq(s, j + 1, e)
  <2>1. i < j /\ j \in 1..Len(s) /\ j <= e
    BY <1>5, FrameFacts
  <2>2. /\ i + 1 \in 1..(e + 1) /\ j - 1 \in ((i + 1) - 1)..e
        /\ j + 1 \in 1..(e + 1) /\ e \in ((j + 1) - 1)..e
    BY <1>2, <2>1
  <2> QED
    BY <2>2, SliceOfSlice
<1> HIDE DEF t
<1>6. ASSUME NEW k, NEW j, Frame(s, k, j, e)
      PROVE  <<SubSeq(s, k + 1, j - 1), SubSeq(s, j + 1, e)>> \in Netstrings(t)
  <2>1. k \in 1..e /\ j \in 1..e
    BY <1>6 DEF Frame
  <2>2. comma(k) = j
    BY <1>4, <1>6, <2>1 DEF Frame
  <2>3. k \in at
    BY <1>1, <1>2, <1>4, <1>6, <2>1, <2>2 DEF Frame
  <2>4. <<SubSeq(t, k + 1, j - 1), SubSeq(t, j + 1, e)>> \in Netstrings(t)
    BY <1>1, <1>3, <2>2, <2>3
  <2> QED
    BY <1>5, <1>6, <2>1, <2>4
<1>7. ASSUME NEW x \in Netstrings(t)
      PROVE  \E k, j : Frame(s, k, j, e) /\ x = <<SubSeq(s, k + 1, j - 1), SubSeq(s, j + 1, e)>>
  <2>1. PICK k \in at : x = <<SubSeq(t, k + 1, comma(k) - 1), SubSeq(t, comma(k) + 1, Len(t))>>
    BY <1>3
  <2>2. k \in 1..e /\ comma(k) \in 1..e
    BY <1>2
  <2>3. Frame(s, k, comma(k), e)
    BY <1>1, <1>4, <2>2 DEF Frame
  <2> DEFINE l == comma(k)
  <2>4. SubSeq(t, k + 1, l - 1) = SubSeq(s, k + 1, l - 1) /\ SubSeq(t, l + 1, e) = SubSeq(s, l + 1, e)
    BY <1>5, <2>2, <2>3
  <2>5. x = <<SubSeq(t, k + 1, l - 1), SubSeq(t, l + 1, e)>>
    BY <1>1, <2>1
  <2> HIDE DEF l
  <2>6. x = <<SubSeq(s, k + 1, l - 1), SubSeq(s, l + 1, e)>>
    BY <2>4, <2>5
  <2>7. Frame(s, k, l, e)
    BY <2>3 DEF l
  <2> QED
    BY <2>6, <2>7
<1> QED
  BY <1>6, <1>7 DEF t

LEMMA WellFormedFacts ==
  ASSUME NEW s \in Seq(Byte), NEW e \in 0..Len(s)
  PROVE  /\ WellFormed(SubSeq(s, 1, e)) <=> \E k, j : Whole(s, k, j, e)
         /\ \A k, j : Whole(s, k, j, e) =>
              LET h == HeadersOf(Fields(SubSeq(s, k + 1, j - 1))) IN
              RequestOf(SubSeq(s, 1, e)) =
                [method |-> MethodOf(h), uri |-> UriOf(h), body |-> SubSeq(s, j + 1, e),
                 remote |-> \E i \in DOMAIN h : h[i].name = <<Remote>>]
<1> DEFINE t == SubSeq(s, 1, e)
           pair(k, j) == <<SubSeq(s, k + 1, j - 1), SubSeq(s, j + 1, e)>>
<1>1. \A k, j : Frame(s, k, j, e) => pair(k, j) \in Netstrings(t)
  BY NetstringsFacts
<1>2. \A x \in Netstrings(t) : \E k, j : Frame(s, k, j, e) /\ x = pair(k, j)
  BY NetstringsFacts
<1>3. \A k, j : Frame(s, k, j, e) => Len(pair(k, j)[2]) = e - j
  BY FrameFacts
<1>4. ASSUME NEW k, NEW j, Whole(s, k, j, e) PROVE WellFormed(t)
  <2>1. pair(k, j) \in Netstrings(t) /\ Len(pair(k, j)[2]) = e - j
    BY <1>1, <1>3, <1>4 DEF Whole
  <2>2. IsHeaderBlock(pair(k, j)[1]) /\ Len(pair(k, j)[2]) = BodySize(HeadersOf(Fields(pair(k, j)[1])))
    BY <1>4, <2>1 DEF Whole
  <2> QED
    BY <2>1, <2>2 DEF WellFormed
<1>5. ASSUME WellFormed(t) PROVE \E k, j : Whole(s, k, j, e)
  <2>1. PICK x \in Netstrings(t) : IsHeaderBlock(x[1]) /\ Len(x[2]) = BodySize(HeadersOf(Fields(x[1])))
    BY <1>5 DEF WellFormed
  <2>2. PICK k, j : Frame(s, k, j, e) /\ x = pair(k, j)
    BY <1>2
  <2>3. Len(x[2]) = e - j /\ x[1] = SubSeq(s, k + 1, j - 1)
    BY <1>3, <2>2
  <2>4. Whole(s, k, j, e)
    BY <2>1, <2>2, <2>3 DEF Whole
  <2> QED
    BY <2>4
<1>6. ASSUME NEW k, NEW j, Whole(s, k, j, e)
      PROVE  LET h == HeadersOf(Fields(SubSeq(s, k + 1, j - 1))) IN
             RequestOf(t) =
               [method |-> MethodOf(h), uri |-> UriOf(h), body |-> SubSeq(s, j + 1, e),
                remote |-> \E i \in DOMAIN h : h[i].name = <<Remote>>]
  <2> DEFINE x == CHOOSE x \in Netstrings(t) : TRUE
  <2>1. Frame(s, k, j, e) /\ pair(k, j) \in Netstrings(t)
    BY <1>1, <1>6 DEF Whole
  <2>2. x \in Netstrings(t)
    BY <2>1
  <2> HIDE DEF x
  <2>3. PICK l, i : Frame(s, l, i, e) /\ x = pair(l, i)
    BY <1>2, <2>2
  <2>4. l = k /\ i = j
    BY <2>1, <2>3, FrameUnique
  <2>5. x[1] = SubSeq(s, k + 1, j - 1) /\ x[2] = SubSeq(s, j + 1, e)
    BY <2>3, <2>4
  <2>6. RequestOf(t) =
          LET h == HeadersOf(Fields(x[1])) IN
          [method |-> MethodOf(h), uri |-> UriOf(h), body |-> x[2],
           remote |-> \E a \in DOMAIN h : h[a].name = <<Remote>>]
    BY DEF RequestOf, x
  <2> QED
    BY <2>5, <2>6
<1> QED
  BY <1>4, <1>5, <1>6

\* What the parser calls a complete request is one.
LEMMA GoodIsWellFormed ==
  ASSUME NEW s \in Seq(Byte), NEW e \in 0..Len(s), NEW p, ParserInv(s, e, p), p.result = "good"
  PROVE  /\ WellFormed(SubSeq(s, 1, e))
         /\ RequestOf(SubSeq(s, 1, e)).method = p.method
         /\ RequestOf(SubSeq(s, 1, e)).uri = p.uri
         /\ RequestOf(SubSeq(s, 1, e)).body = p.body
         /\ RequestOf(SubSeq(s, 1, e)).remote <=> <<Remote>> \in p.headers
<1> DEFINE k == e - p.count
           j == k + p.length + 1
           h == HeadersOf(Fields(SubSeq(s, k + 1, j - 1)))
<1>1. p \in Parser /\ InBody(s, k, e, p) /\ Len(p.body) = p.contentLength
  BY DEF ParserInv, Complete
<1>2. /\ Behind(s, k, e, p) /\ j <= e /\ s[j] = Comma
      /\ IsHeaderBlock(SubSeq(s, k + 1, j - 1)) /\ Reads(p, h) /\ p.body = SubSeq(s, j + 1, e)
  BY <1>1 DEF InBody
<1>3. k \in 1..e /\ s[k] = Colon /\ IsLength(SubSeq(s, 1, k - 1)) /\ p.length = Number(SubSeq(s, 1, k - 1))
  BY <1>2 DEF Behind
<1>4. p.length \in Nat /\ e \in Nat
  BY <1>1, LenProperties DEF Parser
<1> HIDE DEF k
<1>5. j \in 1..e
  <2>1. j \in Nat /\ 1 <= j
    BY <1>3, <1>4
  <2>2. j <= e
    BY <1>2
  <2> HIDE DEF j
  <2> QED
    BY <1>4, <2>1, <2>2
<1>6. Frame(s, k, j, e)
  BY <1>2, <1>3, <1>5 DEF Frame
<1>7. Len(SubSeq(s, j + 1, e)) = e - j
  BY <1>6, FrameFacts
<1> HIDE DEF j
<1>8. Whole(s, k, j, e)
  BY <1>1, <1>2, <1>6, <1>7 DEF Whole, Reads, h
<1>9. WellFormed(SubSeq(s, 1, e))
  BY <1>8, WellFormedFacts
<1>10. RequestOf(SubSeq(s, 1, e)) =
         [method |-> MethodOf(h), uri |-> UriOf(h), body |-> SubSeq(s, j + 1, e),
          remote |-> \E i \in DOMAIN h : h[i].name = <<Remote>>]
  BY <1>8, WellFormedFacts, ZenonT(30) DEF h
<1>11. (\E i \in DOMAIN h : h[i].name = <<Remote>>) <=> <<Remote>> \in p.headers
  <2>1. p.headers = {h[i].name : i \in DOMAIN h}
    BY <1>2 DEF Reads
  <2> HIDE DEF h
  <2> QED
    BY <2>1
<1>12. p.method = MethodOf(h) /\ p.uri = UriOf(h) /\ p.body = SubSeq(s, j + 1, e)
  BY <1>2 DEF Reads
<1> DEFINE r == RequestOf(SubSeq(s, 1, e))
<1> HIDE DEF h, r
<1>13. r.method = p.method /\ r.uri = p.uri /\ r.body = p.body
  BY <1>10, <1>12 DEF r
<1>14. r.remote <=> <<Remote>> \in p.headers
  BY <1>10, <1>11 DEF r
<1> QED
  BY <1>9, <1>13, <1>14 DEF r

LEMMA SliceOfPart ==
  ASSUME NEW T, NEW s \in Seq(T), NEW a \in 1..(Len(s) + 1), NEW b \in (a - 1)..Len(s), NEW n \in (a - 1)..b
  PROVE  SubSeq(SubSeq(s, a, b), 1, n - a + 1) = SubSeq(s, a, n)
<1> DEFINE r == SubSeq(s, a, b)
           q == SubSeq(r, 1, n - a + 1)
           t == SubSeq(s, a, n)
           l == n - a + 1
<1>1. /\ Len(s) \in Nat /\ a \in Nat /\ n \in (a - 1)..Len(s) /\ l \in 0..(b - a + 1)
      /\ l - 1 + 1 = l /\ \A i \in 1..l : 1 + i - 1 = i /\ i \in 1..(b - a + 1)
  BY LenProperties
<1>2. r \in Seq(T) /\ Len(r) = b - a + 1 /\ \A i \in 1..(b - a + 1) : r[i] = s[a + i - 1]
  BY SliceFacts, SMTT(30)
<1>3. t \in Seq(T) /\ Len(t) = l /\ \A i \in 1..l : t[i] = s[a + i - 1]
  BY <1>1, SliceFacts
<1> HIDE DEF r, t
<1>4. q \in Seq(T) /\ Len(q) = l - 1 + 1 /\ \A i \in 1..(l - 1 + 1) : q[i] = r[1 + i - 1]
  <2>1. 1 \in 1..(Len(r) + 1) /\ l \in (1 - 1)..Len(r)
    BY <1>1, <1>2
  <2> QED
    BY <1>2, <2>1, SliceFacts
<1> HIDE DEF q, l
<1>5. Len(q) = l /\ \A i \in 1..l : q[i] = t[i]
  <2>1. Len(q) = l
    BY <1>1, <1>4
  <2>2. ASSUME NEW i \in 1..l PROVE q[i] = t[i]
    <3>1. l - 1 + 1 = l /\ 1 + i - 1 = i /\ i \in 1..(b - a + 1)
      BY <1>1
    <3>2. q[i] = r[i]
      BY <1>4, <3>1
    <3>3. r[i] = s[a + i - 1]
      BY <1>2, <3>1
    <3>4. t[i] = s[a + i - 1]
      BY <1>3
    <3> QED
      BY <3>2, <3>3, <3>4
  <2> QED
    BY <2>1, <2>2
<1>6. q = t
  BY <1>3, <1>4, <1>5, SeqEqual
<1> QED
  BY <1>6 DEF q, t, r

\* The fields of a complete block: names and values in turn, and nothing else.
LEMMA HeaderBlockFacts ==
  ASSUME NEW c \in Seq(Byte), IsHeaderBlock(c)
  PROVE  LET f == Fields(c)
             h == HeadersOf(f) IN
         /\ Rest(c) = <<>> /\ Len(f) = 2 * Len(h) /\ Len(h) \in Nat /\ HeadersAllowed(h)
         /\ \A i \in 1..Len(h) : /\ h[i] = [name |-> f[2 * i - 1], value |-> f[2 * i]]
                                 /\ f[2 * i - 1] # <<>> /\ Comma \notin ToSet(f[2 * i - 1])
<1> DEFINE f == Fields(c)
           h == HeadersOf(f)
<1>1. f \in Seq(Seq(Byte)) /\ h \in Seq(Headers) /\ Len(f) \in Nat /\ Len(h) \in Nat
      /\ (Len(f) = 2 * Len(h) \/ Len(f) = 2 * Len(h) + 1)
  <2>1. <<>> \in Seq(Byte)
    BY EmptySeq
  <2> QED
    BY <2>1, CountFacts
<1>2. (Len(f) % 2) = 0 /\ HeadersAllowed(h) /\ Rest(c) = <<>>
  BY RestOfBlock DEF IsHeaderBlock
<1> HIDE DEF f
<1>3. Len(f) = 2 * Len(h)
  <2> DEFINE m == Len(f)
             n == Len(h)
  <2>1. m \in Nat /\ n \in Nat /\ (m % 2) = 0 /\ (m = 2 * n \/ m = 2 * n + 1)
    BY <1>1, <1>2
  <2> HIDE DEF m, n
  <2>2. m = 2 * n
    BY <2>1
  <2> QED
    BY <2>2 DEF m, n
<1>4. \A i \in 1..Len(h) : h[i] = [name |-> f[2 * i - 1], value |-> f[2 * i]]
  BY <1>1, <1>3, HeadersFacts
<1>5. DOMAIN h = 1..Len(h)
  BY <1>1, LenProperties
<1> HIDE DEF h
<1>6. \A i \in 1..Len(h) : f[2 * i - 1] # <<>> /\ Comma \notin ToSet(f[2 * i - 1])
  <2> TAKE i \in 1..Len(h)
  <2>1. h[i].name # <<>> /\ Comma \notin ToSet(h[i].name)
    BY <1>2, <1>5 DEF HeadersAllowed
  <2>2. h[i].name = f[2 * i - 1]
    <3>1. h[i] = [name |-> f[2 * i - 1], value |-> f[2 * i]]
      BY <1>4
    <3> QED
      BY <3>1
  <2> QED
    BY <2>1, <2>2
<1> QED
  BY <1>1, <1>2, <1>3, <1>4, <1>6 DEF f, h

LEMMA WholeFacts ==
  ASSUME NEW s \in Seq(Byte), NEW e \in 0..Len(s), NEW k, NEW j, Whole(s, k, j, e)
  PROVE  /\ k \in 1..Len(s) /\ j \in 1..Len(s) /\ k < j /\ j <= e /\ Len(s) \in Nat /\ e \in Nat
         /\ s[k] = Colon /\ s[j] = Comma /\ IsLength(SubSeq(s, 1, k - 1))
         /\ j = k + Number(SubSeq(s, 1, k - 1)) + 1
         /\ SubSeq(s, k + 1, j - 1) \in Seq(Byte) /\ IsHeaderBlock(SubSeq(s, k + 1, j - 1))
         /\ e - j = BodySize(HeadersOf(Fields(SubSeq(s, k + 1, j - 1))))
<1>1. Frame(s, k, j, e) /\ IsHeaderBlock(SubSeq(s, k + 1, j - 1))
      /\ e - j = BodySize(HeadersOf(Fields(SubSeq(s, k + 1, j - 1))))
  BY DEF Whole
<1>2. /\ k \in 1..Len(s) /\ j \in 1..Len(s) /\ k < j /\ j <= e
      /\ SubSeq(s, k + 1, j - 1) \in Seq(Byte)
  BY <1>1, FrameFacts
<1>3. /\ s[k] = Colon /\ s[j] = Comma /\ IsLength(SubSeq(s, 1, k - 1))
      /\ j = k + Number(SubSeq(s, 1, k - 1)) + 1
  BY <1>1 DEF Frame
<1>4. Len(s) \in Nat /\ e \in Nat
  BY LenProperties
<1> QED
  BY <1>1, <1>2, <1>3, <1>4

\* The block of headers of a complete request, from n bytes on.
LEMMA BlockGrows ==
  ASSUME NEW s \in Seq(Byte), NEW e \in 0..Len(s), NEW k, NEW j, Whole(s, k, j, e),
         NEW n \in k..(j - 1)
  PROVE  Grown(SubSeq(s, k + 1, n), SubSeq(s, k + 1, j - 1))
<1> DEFINE c == SubSeq(s, k + 1, j - 1)
<1>1. k \in 1..Len(s) /\ j \in 1..Len(s) /\ k < j /\ c \in Seq(Byte) /\ Len(s) \in Nat
  BY FrameFacts, LenProperties DEF Whole
<1>2. k + 1 \in 1..(Len(s) + 1) /\ j - 1 \in ((k + 1) - 1)..Len(s) /\ n \in ((k + 1) - 1)..(j - 1)
      /\ n - (k + 1) + 1 \in 0..((j - 1) - (k + 1) + 1)
  BY <1>1
<1>3. SubSeq(c, 1, n - (k + 1) + 1) = SubSeq(s, k + 1, n) /\ Len(c) = (j - 1) - (k + 1) + 1
  BY <1>2, SliceOfPart, SliceFacts, ZenonT(30)
<1> HIDE DEF c
<1>4. Grown(SubSeq(c, 1, n - (k + 1) + 1), c)
  BY <1>1, <1>2, <1>3, FieldsGrow
<1> QED
  BY <1>3, <1>4 DEF c

\* The length of a complete request is read.
LEMMA LengthGoesOn ==
  ASSUME NEW s \in Seq(Byte), NEW e \in 0..Len(s), NEW k, NEW j, Whole(s, k, j, e),
         NEW n \in Nat, n < e, NEW p \in Parser, InLength(s, n, p), NEW q, q = Consume(p, s[n + 1])
  PROVE  q.result = "indeterminate" /\ n + 1 < e
<1>1. /\ k \in 1..Len(s) /\ j \in 1..Len(s) /\ k < j /\ j <= e /\ Len(s) \in Nat /\ e \in Nat
      /\ s[k] = Colon /\ IsLength(SubSeq(s, 1, k - 1))
  BY WholeFacts
<1>2. p.lengthString = SubSeq(s, 1, n) /\ p.lengthString \in Seq(Digit)
  BY DEF InLength, Parser
<1>3. n \in 0..Len(s) /\ n < Len(s)
  BY <1>1
<1>4. Len(p.lengthString) = n /\ \A i \in 1..n : p.lengthString[i] = s[i]
  BY <1>2, <1>3, BeginningFacts
<1>5. n < k
  <2> SUFFICES ASSUME k <= n PROVE FALSE
    BY <1>1
  <2>1. k \in 1..n
    BY <1>1
  <2>2. s[k] \in Digit
    BY <1>2, <1>4, <2>1, ElementOfSeq
  <2> QED
    BY <1>1, <2>2 DEF Colon, Digit
<1>6. IF s[n + 1] \in Digit THEN q.result = "indeterminate" /\ InLength(s, n + 1, q)
      ELSE IF s[n + 1] = Colon /\ p.lengthString # <<>> /\ Number(p.lengthString) <= SizeMax
        THEN q.result = "indeterminate" /\ InHeaders(s, n + 1, n + 1, q)
      ELSE q.result = "bad"
  BY <1>3, LengthStep
<1>7. \A i \in 1..(k - 1) : s[i] \in Digit
  BY <1>1, DigitsBefore
<1>8. k - 1 # 0
  BY <1>1, DigitsBefore
<1>9. CASE n + 1 = k
  <2>1. p.lengthString # <<>>
    BY <1>1, <1>4, <1>8, <1>9, EmptySeq
  <2>2. s[n + 1] \notin Digit
    BY <1>1, <1>9, SMTT(30) DEF Colon, Digit
  <2>3. Number(p.lengthString) <= SizeMax
    <3>1. n = k - 1 /\ p.lengthString = SubSeq(s, 1, n)
      BY <1>1, <1>3, <1>9 DEF InLength
    <3>2. Number(SubSeq(s, 1, k - 1)) <= SizeMax
      BY <1>1 DEF IsLength
    <3> QED
      BY <3>1, <3>2
  <2> QED
    BY <1>1, <1>6, <1>9, <2>1, <2>2, <2>3
<1>10. CASE n + 1 # k
  <2>1. n + 1 \in 1..(k - 1)
    BY <1>1, <1>5, <1>10
  <2> QED
    BY <1>1, <1>6, <1>7, <2>1
<1> QED
  BY <1>9, <1>10

\* The headers of a complete request are not refused.
LEMMA HeadersGoOn ==
  ASSUME NEW s \in Seq(Byte), NEW e \in 0..Len(s), NEW k, NEW j, Whole(s, k, j, e),
         NEW n \in Nat, n + 1 < j, NEW p \in Parser, InHeaders(s, k, n, p), NEW q, q = Consume(p, s[n + 1])
  PROVE  q.result = "indeterminate" /\ n + 1 < e
<1> DEFINE b == s[n + 1]
           c == SubSeq(s, k + 1, n)
           d == SubSeq(s, k + 1, n + 1)
           o == SubSeq(s, k + 1, j - 1)
           f == Fields(c)
           g == Fields(d)
           u == Fields(o)
           h == HeadersOf(f)
           w == HeadersOf(u)
<1>1. /\ k \in 1..Len(s) /\ j \in 1..Len(s) /\ k < j /\ j <= e /\ Len(s) \in Nat /\ e \in Nat
      /\ o \in Seq(Byte) /\ IsHeaderBlock(o) /\ j = k + Number(SubSeq(s, 1, k - 1)) + 1
  BY WholeFacts
<1>2. /\ Behind(s, k, n, p) /\ HeadersAllowed(h) /\ Reads(p, h)
      /\ InName(c, p) \/ InValue(c, p)
  BY DEF InHeaders
<1>3. k \in 1..n /\ p.count = n - k /\ p.length = Number(SubSeq(s, 1, k - 1))
  BY <1>2 DEF Behind
<1>4. p.length \in Nat /\ p.length = j - k - 1 /\ n < Len(s) /\ n + 1 \in k..(j - 1) /\ n + 1 < e
  <2>1. p.length \in Nat
    BY DEF Parser
  <2> QED
    BY <1>1, <1>3, <2>1, SMTT(30)
<1>5. c \in Seq(Byte) /\ b \in Byte /\ d = Append(c, b)
  BY <1>3, <1>4, BlockStep
<1>6. d \in Seq(Byte) /\ Rest(c) \in Seq(Byte)
  <2> HIDE DEF b, c, d
  <2>1. c \in Seq(Byte) /\ b \in Byte /\ d = Append(c, b)
    BY <1>5
  <2>2. d \in Seq(Byte)
    BY <2>1, AppendProperties
  <2>3. Rest(c) \in Seq(Byte)
    BY <2>1, FieldsFacts
  <2> QED
    BY <2>2, <2>3
<1>7. /\ g = IF b = Nul THEN Append(f, Rest(c)) ELSE f
      /\ Rest(d) = IF b = Nul THEN <<>> ELSE Append(Rest(c), b)
  <2> HIDE DEF b, c, d
  <2>1. c \in Seq(Byte) /\ b \in Byte /\ d = Append(c, b)
    BY <1>5
  <2>2. Fields(d) = IF b = Nul THEN Append(Fields(c), Rest(c)) ELSE Fields(c)
    BY <2>1, FieldsAppend
  <2>3. Rest(d) = IF b = Nul THEN <<>> ELSE Append(Rest(c), b)
    BY <2>1, FieldsAppend
  <2> QED
    BY <2>2, <2>3 DEF f, g
<1>8. /\ Rest(o) = <<>> /\ Len(u) = 2 * Len(w) /\ Len(w) \in Nat /\ HeadersAllowed(w)
      /\ \A i \in 1..Len(w) : /\ w[i] = [name |-> u[2 * i - 1], value |-> u[2 * i]]
                              /\ u[2 * i - 1] # <<>> /\ Comma \notin ToSet(u[2 * i - 1])
  BY <1>1, HeaderBlockFacts
<1>9. Grown(d, o)
  BY <1>4, BlockGrows
<1>10. /\ Len(g) <= Len(u) /\ \A i \in 1..Len(g) : u[i] = g[i]
       /\ Len(g) = Len(u) => ToSet(Rest(d)) \subseteq ToSet(Rest(o))
       /\ Len(g) < Len(u) => ToSet(Rest(d)) \subseteq ToSet(u[Len(g) + 1])
  BY <1>9 DEF Grown
<1>11. /\ f \in Seq(Seq(Byte)) /\ h \in Seq(Headers) /\ Len(f) \in Nat /\ Len(h) \in Nat
       /\ b = Nul => Len(g) = Len(f) + 1 /\ g[Len(f) + 1] = Rest(c)
       /\ b # Nul => g = f
  <2>1. /\ f \in Seq(Seq(Byte)) /\ h \in Seq(Headers) /\ Len(f) \in Nat /\ Len(h) \in Nat
        /\ Len(Append(f, Rest(c))) = Len(f) + 1 /\ Append(f, Rest(c))[Len(f) + 1] = Rest(c)
    BY <1>5, <1>6, CountFacts
  <2> HIDE DEF b, c, f, g, h
  <2> QED
    BY <1>7, <2>1
<1>12. n - k + 1 = p.length => d = o
  <2>1. n - k + 1 = p.length => n + 1 = j - 1
    BY <1>1, <1>3, <1>4, SMTT(30)
  <2> QED
    BY <2>1
<1>13. ToSet(<<>>) = {}
  BY DEF ToSet
<1> HIDE DEF b, c, d, o, f, g, u, h, w
<1>14. CASE p.state = "header_start"
  <2>1. Len(f) = 2 * Len(h) /\ p.header = Rest(c)
    BY <1>2, <1>14 DEF InName, InValue, f, h
  <2>2. b # Comma
    <3> SUFFICES ASSUME b = Comma PROVE FALSE
      OBVIOUS
    <3>1. b # Nul
      BY DEF Comma, Nul
    <3>2. g = f /\ Comma \in ToSet(Rest(d))
      <4>1. ToSet(Append(Rest(c), b)) = ToSet(Rest(c)) \union {b}
        BY <1>5, <1>6, AppendToSet
      <4> QED
        BY <1>7, <3>1, <4>1
    <3>3. Len(f) < Len(u) /\ Comma \in ToSet(u[Len(f) + 1])
      <4>1. Len(f) # Len(u)
        BY <1>8, <1>10, <1>13, <3>2
      <4>2. Len(f) < Len(u)
        BY <1>8, <1>10, <1>11, <3>2, <4>1
      <4> QED
        BY <1>10, <3>2, <4>2
    <3>4. Len(h) + 1 \in 1..Len(w) /\ 2 * (Len(h) + 1) - 1 = Len(f) + 1
      BY <1>8, <1>11, <2>1, <3>3, SMTT(30)
    <3> QED
      BY <1>8, <3>3, <3>4
  <2>3. ~(b = Nul /\ p.header = <<>>)
    <3> SUFFICES ASSUME b = Nul, p.header = <<>> PROVE FALSE
      OBVIOUS
    <3>1. Len(f) + 1 \in 1..Len(g) /\ Len(f) + 1 <= Len(u) /\ u[Len(f) + 1] = <<>>
      BY <1>10, <1>11, <2>1, SMTT(30)
    <3>2. Len(h) + 1 \in 1..Len(w) /\ 2 * (Len(h) + 1) - 1 = Len(f) + 1
      BY <1>8, <1>11, <2>1, <3>1, SMTT(30)
    <3> QED
      BY <1>8, <3>1, <3>2
  <2>4. ~(p.count + 1 >= p.length)
    <3> SUFFICES ASSUME p.count + 1 >= p.length PROVE FALSE
      OBVIOUS
    <3>1. n - k + 1 = p.length
      <4>1. k \in Nat /\ p.count = n - k /\ p.length \in Nat
        BY <1>1, <1>3, <1>4
      <4>2. p.length = j - k - 1 /\ n + 1 < j /\ j \in Nat
        BY <1>1, <1>4
      <4> DEFINE l == p.length
                 a == p.count
      <4>3. a + 1 >= l
        OBVIOUS
      <4> HIDE DEF l, a
      <4>4. /\ k \in Nat /\ j \in Nat /\ a = n - k /\ l \in Nat /\ l = j - k - 1 /\ n + 1 < j
        BY <4>1, <4>2 DEF l, a
      <4>5. n - k + 1 = l
        BY <4>3, <4>4
      <4> QED
        BY <4>5 DEF l
    <3>2. Rest(d) = <<>> /\ g = u
      BY <1>8, <1>12, <3>1 DEF g, u
    <3>3. b = Nul
      <4>1. Append(Rest(c), b) # <<>>
        BY <1>5, <1>6, AppendProperties, SMTT(30)
      <4> QED
        BY <1>7, <3>2, <4>1
    <3> QED
      BY <1>8, <1>11, <2>1, <3>2, <3>3
  <2>5. q.result = "indeterminate"
    <3>1. s[n + 1] # Comma /\ ~(s[n + 1] = Nul /\ p.header = <<>>)
      BY <2>2, <2>3 DEF b
    <3>2. IF p.count + 1 >= p.length \/ (s[n + 1] = Nul /\ p.header = <<>>) THEN q.result = "bad"
          ELSE /\ q.result = "indeterminate" /\ q.count = p.count + 1 /\ InHeaders(s, k, n + 1, q)
      BY <1>4, <1>14, <3>1, NameStep
    <3> QED
      BY <2>4, <3>1, <3>2
  <2> QED
    BY <1>4, <2>5
<1>15. CASE p.state = "header_value"
  <2>1. Len(f) = 2 * Len(h) + 1 /\ p.header = f[Len(f)] /\ p.value = Rest(c)
    BY <1>2, <1>15 DEF InName, InValue, f, h
  <2>2. ~(p.count + 1 > p.length)
    BY <1>1, <1>3, <1>4, SMTT(30)
  <2>3. ~(b = Nul /\ HeaderRefused(p))
    <3> SUFFICES ASSUME b = Nul PROVE ~HeaderRefused(p)
      OBVIOUS
    <3> DEFINE i == Len(h) + 1
    <3>1. i \in 1..Len(w) /\ 2 * i - 1 = Len(f) /\ 2 * i = Len(f) + 1
      BY <1>8, <1>10, <1>11, <2>1, SMTT(30)
    <3>2. u[Len(f)] = f[Len(f)] /\ u[Len(f) + 1] = Rest(c)
      <4>1. g = Append(f, Rest(c)) /\ Len(f) \in 1..Len(f) /\ Len(f) \in 1..Len(g) /\ Len(f) + 1 \in 1..Len(g)
        BY <1>7, <1>11, <2>1, SMTT(30)
      <4>2. g[Len(f)] = f[Len(f)]
        <5>1. \A x \in 1..Len(f) : Append(f, Rest(c))[x] = f[x]
          BY <1>6, <1>11, AppendProperties
        <5> QED
          BY <4>1, <5>1
      <4> QED
        BY <1>10, <1>11, <4>1, <4>2
    <3>3. w[i] = [name |-> p.header, value |-> p.value]
      <4>1. w[i] = [name |-> u[2 * i - 1], value |-> u[2 * i]]
        BY <1>8, <3>1
      <4> QED
        BY <2>1, <3>1, <3>2, <4>1
    <3>4. (p.headers = {} <=> Len(h) = 0) /\ (Cardinality(p.headers) = 1 <=> Len(h) = 1)
      BY <1>2, <1>11, NamesFacts
    <3>5. w # <<>> /\ (Len(h) = 1 => Len(w) > 1)
      BY <1>8, <1>11, <3>1, NothingFacts, SMTT(30)
    <3>6. Len(h) = 0 => p.header = <<ContentLength>> /\ IsSize(p.value)
      <4>1. Len(h) = 0 => i = 1
        OBVIOUS
      <4>2. w[1].name = <<ContentLength>> /\ IsSize(w[1].value)
        BY <1>8, <3>5 DEF HeadersAllowed
      <4> HIDE DEF i
      <4> QED
        BY <3>3, <4>1, <4>2
    <3>7. Len(h) = 1 => p.header = <<Scgi>> /\ p.value = <<1>>
      <4>1. Len(h) = 1 => i = 2
        OBVIOUS
      <4>2. Len(h) = 1 => w[2] = [name |-> <<Scgi>>, value |-> <<1>>]
        BY <1>8, <3>5 DEF HeadersAllowed
      <4> HIDE DEF i
      <4> QED
        BY <3>3, <4>1, <4>2
    <3> QED
      BY <3>4, <3>6, <3>7 DEF HeaderRefused
  <2>4. q.result = "indeterminate"
    <3>1. IF p.count + 1 > p.length \/ (s[n + 1] = Nul /\ HeaderRefused(p)) THEN q.result = "bad"
          ELSE /\ q.result = "indeterminate" /\ q.count = p.count + 1 /\ InHeaders(s, k, n + 1, q)
      BY <1>4, <1>15, ValueStep
    <3> QED
      BY <2>2, <2>3, <3>1 DEF b
  <2> QED
    BY <1>4, <2>4
<1> QED
  BY <1>2, <1>14, <1>15 DEF InName, InValue

\* The comma of a complete request is accepted.
LEMMA CommaGoesOn ==
  ASSUME NEW s \in Seq(Byte), NEW e \in 0..Len(s), NEW k, NEW j, Whole(s, k, j, e),
         NEW n \in Nat, n + 1 = j, NEW p \in Parser, InHeaders(s, k, n, p), NEW q, q = Consume(p, s[n + 1])
  PROVE  q.result = IF n + 1 = e THEN "good" ELSE "indeterminate"
<1> DEFINE c == SubSeq(s, k + 1, n)
           h == HeadersOf(Fields(c))
<1>1. /\ k \in 1..Len(s) /\ j \in 1..Len(s) /\ k < j /\ j <= e /\ Len(s) \in Nat /\ e \in Nat
      /\ s[j] = Comma /\ j = k + Number(SubSeq(s, 1, k - 1)) + 1
  BY WholeFacts
<1>2. j - 1 = n /\ n < Len(s) /\ s[n + 1] = Comma
  BY <1>1
<1>3. c \in Seq(Byte) /\ IsHeaderBlock(c) /\ e - j = BodySize(h)
  <2>1. LET o == SubSeq(s, k + 1, j - 1) IN
        o \in Seq(Byte) /\ IsHeaderBlock(o) /\ e - j = BodySize(HeadersOf(Fields(o)))
    BY WholeFacts
  <2> QED
    BY <1>2, <2>1
<1>4. Behind(s, k, n, p) /\ Reads(p, h) /\ (InName(c, p) \/ InValue(c, p))
  BY DEF InHeaders
<1>5. Len(Fields(c)) = 2 * Len(h) /\ Len(h) \in Nat
  BY <1>3, HeaderBlockFacts
<1>6. p.state = "header_start"
  <2>1. ~InValue(c, p)
    <3>1. 2 * Len(h) # 2 * Len(h) + 1
      BY <1>5
    <3> QED
      BY <1>5, <3>1 DEF InValue
  <2> QED
    BY <1>4, <2>1 DEF InName
<1>7. p.length = p.count /\ p.contentLength = e - j
  <2>1. p.count = n - k /\ p.length = Number(SubSeq(s, 1, k - 1))
    BY <1>4 DEF Behind
  <2>2. p.length \in Nat
    BY DEF Parser
  <2>3. p.contentLength = BodySize(h)
    BY <1>4 DEF Reads
  <2> HIDE DEF h
  <2> QED
    BY <1>1, <1>2, <1>3, <2>1, <2>2, <2>3, SMTT(60)
<1>8. q.result = IF p.contentLength > 0 THEN "indeterminate" ELSE "good"
  BY <1>2, <1>6, <1>7, CommaStep
<1> QED
  BY <1>1, <1>7, <1>8

\* The body of a complete request is accepted.
LEMMA BodyGoesOn ==
  ASSUME NEW s \in Seq(Byte), NEW e \in 0..Len(s), NEW k, NEW j, Whole(s, k, j, e),
         NEW n \in Nat, n < e, NEW p \in Parser, InBody(s, k, n, p), p.state = "body_range",
         Len(p.body) < p.contentLength, NEW q, q = Consume(p, s[n + 1])
  PROVE  q.result = IF n + 1 = e THEN "good" ELSE "indeterminate"
<1> DEFINE i == k + p.length + 1
           h == HeadersOf(Fields(SubSeq(s, k + 1, i - 1)))
<1>1. /\ k \in 1..Len(s) /\ j \in 1..Len(s) /\ k < j /\ j <= e /\ Len(s) \in Nat /\ e \in Nat
      /\ j = k + Number(SubSeq(s, 1, k - 1)) + 1
      /\ e - j = BodySize(HeadersOf(Fields(SubSeq(s, k + 1, j - 1))))
  BY WholeFacts
<1>2. Behind(s, k, n, p) /\ i <= n /\ Reads(p, h) /\ p.body = SubSeq(s, i + 1, n)
  BY DEF InBody
<1>3. i = j
  BY <1>1, <1>2 DEF Behind
<1>4. p.contentLength = e - j
  BY <1>1, <1>2, <1>3 DEF Reads
<1>5. Len(p.body) = n - j
  <2>1. j + 1 \in 1..(Len(s) + 1) /\ n \in ((j + 1) - 1)..Len(s) /\ n - (j + 1) + 1 = n - j
    <3>1. j <= n
      BY <1>2, <1>3
    <3> HIDE DEF i
    <3>2. j \in Nat /\ n \in Nat /\ Len(s) \in Nat /\ e \in Nat /\ j <= n /\ n <= Len(s)
      BY <1>1, <3>1, SMTT(30)
    <3> QED
      BY <3>2
  <2>2. Len(SubSeq(s, j + 1, n)) = n - (j + 1) + 1
    BY <2>1, SliceFacts
  <2> QED
    BY <1>2, <1>3, <2>1, <2>2
<1>6. n < Len(s)
  BY <1>1
<1>7. q.result = IF Len(p.body) + 1 = p.contentLength THEN "good" ELSE "indeterminate"
  BY <1>6, BodyStep
<1> QED
  BY <1>1, <1>4, <1>5, <1>7, SMTT(30)

\* Every byte of a complete request is accepted, and only its last one ends it.
LEMMA GoesOn ==
  ASSUME NEW s \in Seq(Byte), NEW e \in 0..Len(s), NEW k, NEW j, Whole(s, k, j, e),
         NEW n \in Nat, n < e, NEW p \in Parser, Expected(s, n, p), NEW q, q = Consume(p, s[n + 1])
  PROVE  q.result = IF n + 1 = e THEN "good" ELSE "indeterminate"
<1>1. /\ k \in 1..Len(s) /\ j \in 1..Len(s) /\ k < j /\ j <= e /\ Len(s) \in Nat /\ e \in Nat
      /\ s[k] = Colon /\ IsLength(SubSeq(s, 1, k - 1)) /\ j = k + Number(SubSeq(s, 1, k - 1)) + 1
  BY WholeFacts
<1> DEFINE l == n - p.count
<1>2. Behind(s, l, n, p) => l = k
  <2> HIDE DEF l
  <2> SUFFICES ASSUME Behind(s, l, n, p) PROVE l = k
    OBVIOUS
  <2>1. l \in 1..n /\ s[l] = Colon /\ IsLength(SubSeq(s, 1, l - 1))
    BY DEF Behind
  <2>2. l \in 1..Len(s)
    BY <1>1, <2>1
  <2> QED
    BY <1>1, <2>1, <2>2, ColonUnique
<1>3. CASE InLength(s, n, p)
  <2>1. q.result = "indeterminate" /\ n + 1 < e
    BY <1>3, LengthGoesOn
  <2> QED
    BY <1>1, <2>1
<1>4. CASE InHeaders(s, l, n, p)
  <2>1. InHeaders(s, k, n, p)
    BY <1>2, <1>4 DEF InHeaders
  <2>2. Behind(s, k, n, p) /\ p.count <= p.length
    BY <2>1 DEF InHeaders
  <2>3. n + 1 <= j
    <3>1. p.count = n - k /\ p.length = Number(SubSeq(s, 1, k - 1)) /\ p.length \in Nat
      BY <2>2 DEF Behind, Parser
    <3> QED
      BY <1>1, <2>2, <3>1
  <2>4. CASE n + 1 < j
    <3>1. q.result = "indeterminate" /\ n + 1 < e
      BY <2>1, <2>4, HeadersGoOn
    <3> QED
      BY <1>1, <3>1
  <2>5. CASE n + 1 = j
    BY <2>1, <2>5, CommaGoesOn
  <2> QED
    BY <1>1, <2>3, <2>4, <2>5
<1>5. CASE InBody(s, l, n, p) /\ p.state = "body_range" /\ Len(p.body) < p.contentLength
  <2>1. InBody(s, k, n, p)
    BY <1>2, <1>5 DEF InBody
  <2> QED
    BY <1>5, <2>1, BodyGoesOn
<1> QED
  BY <1>3, <1>4, <1>5 DEF Expected

\* Completeness: what the reference calls a request is one for the parser, and
\* before its last byte the parser waits for more.
LEMMA WellFormedIsGood ==
  ASSUME NEW s \in Seq(Byte), NEW e \in 0..Len(s), WellFormed(SubSeq(s, 1, e))
  PROVE  /\ Run(s, e).result = "good"
         /\ \A m \in 0..(e - 1) : Run(s, m).result = "indeterminate"
<1>1. PICK k, j : Whole(s, k, j, e)
  BY WellFormedFacts
<1>2. k \in 1..Len(s) /\ j \in 1..Len(s) /\ k < j /\ j <= e /\ Len(s) \in Nat /\ e \in Nat
  BY <1>1, WholeFacts
<1> DEFINE Waits(m) == Run(s, m).result = "indeterminate" /\ Expected(s, m, Run(s, m))
<1>3. Waits(0)
  <2>1. Run(s, 0) = ResetParser /\ ResetParser.result = "indeterminate" /\ InLength(s, 0, ResetParser)
    BY RunStep, ResetFacts
  <2> QED
    BY <2>1 DEF Expected
<1>4. ASSUME NEW m \in Nat, m < e, Waits(m)
      PROVE  /\ Run(s, m + 1).result = IF m + 1 = e THEN "good" ELSE "indeterminate"
             /\ m + 1 < e => Waits(m + 1)
  <2> DEFINE p == Run(s, m)
             q == Run(s, m + 1)
  <2>1. m < Len(s) /\ m \in 0..Len(s)
    BY <1>2, <1>4
  <2>2. p \in Parser
    BY <2>1, RunInv DEF ParserInv
  <2>3. q = Consume(p, s[m + 1])
    <3>1. q = After(p, s[m + 1])
      BY <2>1, RunStep
    <3> QED
      BY <1>4, <3>1 DEF After
  <2>4. Expected(s, m, p)
    BY <1>4
  <2> HIDE DEF p, q
  <2>5. q.result = IF m + 1 = e THEN "good" ELSE "indeterminate"
    BY <1>1, <1>4, <2>2, <2>3, <2>4, GoesOn
  <2>6. q.result = "indeterminate" => Expected(s, m + 1, q)
    BY <2>1, <2>2, <2>3, <2>4, ExpectedStep
  <2> QED
    BY <1>2, <2>5, <2>6 DEF q
<1> HIDE DEF Waits
<1>5. \A m \in 0..(e - 1) : Waits(m)
  <2> SUFFICES ASSUME ~(\A m \in 0..(e - 1) : Waits(m)) PROVE FALSE
    OBVIOUS
  <2> DEFINE S == {m \in 0..(e - 1) : ~Waits(m)}
  <2>1. S \in SUBSET Nat /\ S # {}
    BY <1>2
  <2> HIDE DEF S
  <2>2. PICK m \in S : \A i \in S : m <= i
    BY <2>1, LeastExists
  <2> USE DEF S
  <2>3. m \in 1..(e - 1) /\ ~Waits(m)
    BY <1>2, <1>3, <2>2
  <2>4. m - 1 \in Nat /\ m - 1 < e /\ m - 1 \in 0..(e - 1) /\ (m - 1) + 1 = m /\ m < e /\ ~(m <= m - 1)
    BY <1>2, <2>3
  <2>5. Waits(m - 1)
    BY <2>2, <2>4
  <2>6. Waits((m - 1) + 1)
    BY <1>4, <2>4, <2>5
  <2> QED
    BY <2>3, <2>4, <2>6
<1>6. Run(s, e).result = "good"
  <2>1. e - 1 \in Nat /\ e - 1 < e /\ e - 1 \in 0..(e - 1) /\ (e - 1) + 1 = e
    BY <1>2
  <2>2. Waits(e - 1)
    BY <1>5, <2>1
  <2> QED
    BY <1>4, <2>1, <2>2
<1> QED
  BY <1>5, <1>6 DEF Waits

-----------------------------------------------------------------------------
(* Type correctness: the parser of a connection, whatever it has been given *)

\* The guard of ConsumeBody lets one byte more than the body pass.
Typed(p) ==
  p \in Parser /\ (p.state # "body_range" => p.body = <<>>) /\ Len(p.body) <= p.contentLength + 1

LEMMA ConsumeTyped ==
  ASSUME NEW p, Typed(p), NEW b \in Byte
  PROVE  Typed(Consume(p, b))
<1> DEFINE q == Consume(p, b)
           m == Moved(p)
<1>1. p \in Parser /\ (p.state # "body_range" => p.body = <<>>) /\ Len(p.body) <= p.contentLength + 1
  BY DEF Typed
<1>2. /\ m \in Parser /\ m.state = p.state /\ m.contentLength = p.contentLength /\ m.body = p.body
      /\ q \in Parser
  BY <1>1, MovedFacts, ConsumeType
<1>3. /\ p.state = "netstring_length" => q = ConsumeLength(m, b)
      /\ p.state = "header_start" => q = ConsumeName(m, b)
      /\ p.state = "header_value" => q = ConsumeValue(m, b)
      /\ p.state = "body_range" => q = ConsumeBody(m, b)
  BY <1>1, ConsumeByState
<1>4. /\ p.state \in {"netstring_length", "header_start", "header_value", "body_range"}
      /\ m.contentLength \in Nat /\ m.body \in Seq(Byte) /\ Len(m.body) \in Nat
  BY <1>1, <1>2, LenProperties DEF Parser
<1> HIDE DEF m, q
<1> SUFFICES Typed(q)
  BY DEF q
<1>5. Bad(m) \in Parser /\ Bad(m).body = m.body
  BY <1>2, BadFacts DEF Bad, Parser
<1>6. ASSUME q.body = <<>> PROVE Typed(q)
  <2>1. q.contentLength \in Nat /\ Len(q.body) = 0
    BY <1>2, <1>6, EmptySeq DEF Parser
  <2>2. Len(q.body) <= q.contentLength + 1
    BY <2>1
  <2> QED
    BY <1>2, <1>6, <2>2 DEF Typed
<1>7. CASE p.state = "netstring_length"
  <2>1. \/ q = Bad(m)
        \/ b \in Digit /\ q = [m EXCEPT !.lengthString = Append(@, b)]
        \/ q = [m EXCEPT !.length = Number(m.lengthString), !.count = 0, !.state = "header_start"]
    BY <1>3, <1>7 DEF ConsumeLength
  <2>2. q.body = m.body
    <3>1. b \in Digit /\ q = [m EXCEPT !.lengthString = Append(@, b)] => q.body = m.body
      BY <1>2, DigitTaken
    <3>2. q = [m EXCEPT !.length = Number(m.lengthString), !.count = 0, !.state = "header_start"]
            => q.body = m.body
      BY <1>2 DEF Parser
    <3> QED
      BY <1>5, <2>1, <3>1, <3>2
  <2> QED
    BY <1>1, <1>2, <1>6, <1>7, <2>2
<1>8. CASE p.state = "header_start"
  <2>1. \/ q = Bad(m)
        \/ q = [m EXCEPT !.state = "body_range"] \/ q = [m EXCEPT !.state = "header_value"]
        \/ q = [m EXCEPT !.result = "good"]
        \/ q = [m EXCEPT !.header = Append(@, b)]
    BY <1>3, <1>8 DEF ConsumeName
  <2>2. q.body = m.body
    BY <1>2, <1>5, <2>1, StateEntered, RequestEnded, NameTaken
  <2> QED
    BY <1>1, <1>2, <1>6, <1>8, <2>2
<1>9. CASE p.state = "header_value"
  <2>1. \/ q = Bad(m)
        \/ q = [m EXCEPT !.value = Append(@, b)]
        \/ q = HeaderEnded(m) /\ ~HeaderRefused(m)
    BY <1>2, <1>3, <1>9, EndHeaderFacts DEF ConsumeValue
  <2>2. q.body = m.body
    BY <1>2, <1>5, <2>1, HeaderEndedFacts, ValueTaken
  <2> QED
    BY <1>1, <1>2, <1>6, <1>9, <2>2
<1>10. CASE p.state = "body_range"
  <2>1. CASE Len(m.body) > m.contentLength
    <3>1. q = Bad(m)
      BY <1>3, <1>10, <2>1 DEF ConsumeBody
    <3>2. q.state = "body_range" /\ q.body = p.body /\ q.contentLength = p.contentLength
      BY <1>2, <1>10, <3>1 DEF Bad, Parser
    <3> QED
      BY <1>1, <1>2, <3>2 DEF Typed
  <2>2. CASE ~(Len(m.body) > m.contentLength)
    <3> DEFINE r == IF Len(m.body) + 1 = m.contentLength THEN "good" ELSE m.result
    <3>1. q = [m EXCEPT !.body = Append(@, b), !.result = r]
      BY <1>3, <1>10, <2>2 DEF ConsumeBody
    <3> HIDE DEF r
    <3>2. q.state = "body_range" /\ q.body = Append(m.body, b) /\ q.contentLength = m.contentLength
      BY <1>2, <1>10, <3>1 DEF Parser
    <3>3. Len(q.body) = Len(m.body) + 1
      BY <1>4, <3>2, AppendProperties
    <3>4. Len(q.body) <= q.contentLength + 1
      BY <1>4, <2>2, <3>2, <3>3
    <3> QED
      BY <1>2, <3>2, <3>4 DEF Typed
  <2> QED
    BY <2>1, <2>2
<1> QED
  BY <1>4, <1>7, <1>8, <1>9, <1>10

LEMMA ParseTyped ==
  ASSUME NEW parsing, Typed(parsing), NEW c \in Seq(Byte)
  PROVE  Typed(Parse(parsing, c))
<1> DEFINE p == [parsing EXCEPT !.result = "indeterminate"]
           late == {i \in Nat : i <= Len(c) /\ ~Typed(Parsed(p, c)[i])}
<1>1. Typed(p)
  BY DEF Typed, Parser
<1>2. Len(c) \in Nat /\ \A i \in 1..Len(c) : c[i] \in Byte
  BY LenProperties, ElementOfSeq
<1> HIDE DEF p
<1>3. Parsed(p, c)[0] = p /\ \A i \in 1..Len(c) : Parsed(p, c)[i] = After(Parsed(p, c)[i - 1], c[i])
  BY ParsedFacts
<1>4. late = {}
  <2> SUFFICES ASSUME late # {} PROVE FALSE
    OBVIOUS
  <2>1. PICK m \in late : \A k \in late : m <= k
    BY LeastExists
  <2>2. m \in 1..Len(c) /\ m - 1 \in Nat /\ m - 1 <= Len(c) /\ ~(m <= m - 1)
    BY <1>1, <1>2, <1>3
  <2>3. Typed(Parsed(p, c)[m - 1])
    BY <2>1, <2>2
  <2>4. Parsed(p, c)[m] = After(Parsed(p, c)[m - 1], c[m])
    BY <1>3, <2>2
  <2>5. Typed(Parsed(p, c)[m])
    BY <1>2, <2>2, <2>3, <2>4, ConsumeTyped DEF After
  <2> QED
    BY <2>5
<1>5. Typed(Parsed(p, c)[Len(c)])
  BY <1>2, <1>4
<1> QED
  BY <1>5 DEF Parse, p

LEMMA TrimFacts ==
  ASSUME NEW s \in Seq(Byte)
  PROVE  Trim(s) \in Seq(Byte) /\ Len(Trim(s)) <= Len(s)
<1> DEFINE kept == {i \in DOMAIN s : s[i] # Space}
<1>1. Len(s) \in Nat /\ DOMAIN s = 1..Len(s)
  BY LenProperties
<1>2. CASE kept = {}
  <2>1. Trim(s) = <<>>
    BY <1>2 DEF Trim
  <2>2. <<>> \in Seq(Byte) /\ Len(<<>>) = 0
    BY EmptySeq
  <2> QED
    BY <1>1, <2>1, <2>2
<1>3. CASE kept # {}
  <2>1. kept \in SUBSET (1..Len(s)) /\ kept \in SUBSET Nat
    BY <1>1
  <2>2. Trim(s) = SubSeq(s, Min(kept), Max(kept))
    BY <1>3 DEF Trim
  <2> HIDE DEF kept
  <2>3. Max(kept) \in kept
    BY <1>1, <1>3, <2>1, MaxFacts
  <2>4. Min(kept) \in kept /\ \A k \in kept : Min(kept) <= k
    <3>1. PICK m \in kept : \A k \in kept : m <= k
      BY <1>3, <2>1, LeastExists
    <3> QED
      BY <3>1 DEF Min
  <2>5. Min(kept) \in 1..(Len(s) + 1) /\ Max(kept) \in (Min(kept) - 1)..Len(s)
        /\ Max(kept) - Min(kept) + 1 <= Len(s)
    <3> DEFINE a == Min(kept)
               b == Max(kept)
    <3>1. a \in 1..Len(s) /\ b \in 1..Len(s) /\ a <= b
      BY <2>1, <2>3, <2>4
    <3> HIDE DEF a, b
    <3>2. a \in 1..(Len(s) + 1) /\ b \in (a - 1)..Len(s) /\ b - a + 1 <= Len(s)
      BY <1>1, <3>1
    <3> QED
      BY <3>2 DEF a, b
  <2>6. Trim(s) \in Seq(Byte) /\ Len(Trim(s)) = Max(kept) - Min(kept) + 1
    BY <2>2, <2>5, SliceFacts
  <2> QED
    BY <2>5, <2>6
<1> QED
  BY <1>2, <1>3

-----------------------------------------------------------------------------
(* The connection *)

Replied == {Status[e] : e \in Outcome}

\* What is called on the object dictionary for the request that the parser p
\* has read.
Call(p) ==
  [method |-> p.method, uri |-> p.uri, body |-> IF p.method = "put" THEN Trim(p.body) ELSE <<>>]

Calls == [method : {"get", "put", "post"}, uri : Seq(Byte), body : Seq(Byte)]

Types ==
  /\ stream \in Streams /\ stream \in Seq(Byte) /\ taken \in 0..Len(stream)
  /\ Typed(parser)
  /\ operation \in {"read", "write", "none"} /\ peer \in BOOLEAN
  /\ open \in BOOLEAN /\ (open <=> operation # "none")
  /\ served \in Seq(Calls) /\ replies \in Seq(Replied)

\* A request that is complete, or malformed, gets one response and at most one
\* call.
Responded(p) ==
  /\ Typed(parser') /\ operation' = "write"
  /\ \E x \in Replied : replies' = Append(replies, x)
  /\ \/ UNCHANGED served
     \/ served' = Append(served, Call(p)) /\ Call(p) \in Calls /\ p.result = "good"
  /\ p.result = "good" /\ <<Remote>> \in p.headers /\ p.method \in {"get", "post"} =>
       served' = Append(served, Call(p))

LEMMA Response ==
  ASSUME NEW p, Typed(p), p.result \in {"good", "bad"},
         IF p.result = "good" THEN HandleRequest(p) ELSE Refuse /\ parser' = p
  PROVE  Responded(p)
<1>1. /\ p \in Parser /\ (p.state # "body_range" => p.body = <<>>) /\ Len(p.body) <= p.contentLength + 1
      /\ p.body \in Seq(Byte) /\ p.uri \in Seq(Byte) /\ <<>> \in Seq(Byte)
      /\ p.method \in {"undefined", "get", "put", "post"}
  BY EmptySeq DEF Typed, Parser
<1>2. \A e \in Outcome : Status[e] \in Replied
  BY DEF Replied
<1>3. "bad_request" \in Replied
  <2>1. "runtime" \in Outcome /\ Status["runtime"] = "bad_request"
    BY DEF Outcome, Status
  <2> QED
    BY <1>2, <2>1
<1>4. Trim(p.body) \in Seq(Byte) /\ Len(Trim(p.body)) <= Len(p.body)
  BY <1>1, TrimFacts
<1>5. ASSUME NEW b \in {Trim(p.body), <<>>}
      PROVE  Typed([p EXCEPT !.body = b])
  <2> DEFINE q == [p EXCEPT !.body = b]
  <2>1. b \in Seq(Byte) /\ Len(b) <= Len(p.body) /\ Len(b) \in Nat /\ Len(p.body) \in Nat
    <3>1. Len(p.body) \in Nat /\ Len(Trim(p.body)) \in Nat /\ Len(<<>>) = 0
      BY <1>1, <1>4, LenProperties, EmptySeq
    <3>2. Len(<<>>) \in Nat /\ Len(<<>>) <= Len(p.body)
      BY <3>1
    <3>3. CASE b = Trim(p.body)
      BY <1>4, <3>1, <3>3
    <3>4. CASE b = <<>>
      BY <1>1, <3>1, <3>2, <3>4
    <3> QED
      BY <3>3, <3>4
  <2>2. q \in Parser /\ q.state = p.state /\ q.contentLength = p.contentLength /\ q.body = b
    BY <1>1, <2>1 DEF Parser
  <2> HIDE DEF q
  <2>3. p.contentLength \in Nat
    BY <1>1 DEF Parser
  <2>4. Len(q.body) <= q.contentLength + 1
    BY <1>1, <2>1, <2>2, <2>3
  <2>5. p.body = <<>> => b = <<>>
    <3>1. p.body = <<>> => Len(b) = 0
      BY <2>1, EmptySeq
    <3> QED
      BY <2>1, <3>1, EmptySeq
  <2>6. Typed(q)
    BY <1>1, <2>2, <2>4, <2>5 DEF Typed
  <2> QED
    BY <2>6 DEF q
<1>6. ASSUME p.method # "undefined"
      PROVE  Call(p) \in Calls
  BY <1>1, <1>4, <1>6 DEF Call, Calls
<1>7. ASSUME Refuse, Typed(parser'), ~(p.result = "good" /\ <<Remote>> \in p.headers /\ p.method \in {"get", "post"})
      PROVE  Responded(p)
  BY <1>3, <1>7 DEF Refuse, SendResponse, Responded
<1>8. ASSUME NEW e \in Outcome, Serve(p, Call(p).body, e), Typed(parser'), p.result = "good", p.method # "undefined"
      PROVE  Responded(p)
  <2>1. served' = Append(served, Call(p))
    <3>1. [method |-> p.method, uri |-> p.uri, body |-> Call(p).body] = Call(p)
      BY DEF Call
    <3> QED
      BY <1>8, <3>1 DEF Serve
  <2>2. operation' = "write" /\ replies' = Append(replies, Status[e])
    BY <1>8 DEF Serve, SendResponse
  <2> QED
    BY <1>2, <1>6, <1>8, <2>1, <2>2 DEF Responded
<1>9. CASE p.result = "bad"
  BY <1>7, <1>9
<1>10. CASE p.result = "good" /\ <<Remote>> \notin p.headers
  <2>1. Refuse /\ parser' = p
    BY <1>10 DEF HandleRequest
  <2> QED
    BY <1>7, <1>10, <2>1
<1>11. CASE p.result = "good" /\ <<Remote>> \in p.headers /\ p.method \in {"get", "post"}
  <2>1. HandleGetOrPost(p)
    BY <1>11 DEF HandleRequest
  <2>2. PICK e \in Outcome : Serve(p, <<>>, e) /\ parser' = p
    BY <2>1 DEF HandleGetOrPost
  <2>3. Call(p).body = <<>>
    BY <1>11 DEF Call
  <2> QED
    BY <1>8, <1>11, <2>2, <2>3
<1>12. CASE p.result = "good" /\ <<Remote>> \in p.headers /\ p.method = "put"
  <2>1. HandlePut(p)
    BY <1>12 DEF HandleRequest
  <2>2. Call(p).body = Trim(p.body)
    BY <1>12 DEF Call
  <2>3. CASE Refuse /\ parser' = [p EXCEPT !.body = Trim(p.body)]
    <3>1. Typed(parser')
      BY <1>5, <2>3
    <3> QED
      BY <1>7, <1>12, <2>3, <3>1
  <2>4. CASE \E e \in Outcome, kept \in {Trim(p.body), <<>>} :
               Serve(p, Trim(p.body), e) /\ parser' = [p EXCEPT !.body = kept]
    <3>1. PICK e \in Outcome, kept \in {Trim(p.body), <<>>} :
            Serve(p, Trim(p.body), e) /\ parser' = [p EXCEPT !.body = kept]
      BY <2>4
    <3>2. Typed(parser')
      BY <1>5, <3>1
    <3> QED
      BY <1>8, <1>12, <2>2, <3>1, <3>2
  <2> QED
    BY <2>1, <2>3, <2>4 DEF HandlePut
<1>13. CASE p.result = "good" /\ <<Remote>> \in p.headers /\ p.method = "undefined"
  <2>1. Refuse /\ parser' = p
    BY <1>13 DEF HandleRequest
  <2> QED
    BY <1>7, <1>13, <2>1
<1> QED
  BY <1>1, <1>9, <1>10, <1>11, <1>12, <1>13

\* A read takes n bytes, and either waits for more or ends with a response.
LEMMA ReadFacts ==
  ASSUME Types, NEW n \in 1..InbufSize, ReadHandlerOk(n), NEW q, q = Parse(parser, SubSeq(stream, taken + 1, taken + n))
  PROVE  /\ taken \in Nat /\ n \in Nat /\ n >= 1 /\ taken + n <= Len(stream) /\ Len(stream) \in Nat
         /\ taken' = taken + n /\ taken' \in 0..Len(stream)
         /\ operation = "read" /\ open /\ stream' = stream /\ open' = open /\ peer' = peer
         /\ Typed(q)
         /\ q.result = "indeterminate" => parser' = q /\ UNCHANGED <<operation, served, replies>>
         /\ q.result # "indeterminate" => q.result \in {"good", "bad"} /\ Responded(q)
<1>1. /\ taken \in Nat /\ n \in Nat /\ n >= 1 /\ taken + n <= Len(stream) /\ Len(stream) \in Nat
      /\ taken' = taken + n /\ stream \in Seq(Byte)
  BY StreamAssumption, LenProperties DEF Types, ReadHandlerOk
<1>2. operation = "read" /\ open /\ stream' = stream /\ open' = open /\ peer' = peer
  BY DEF ReadHandlerOk
<1>3. SubSeq(stream, taken + 1, taken + n) \in Seq(Byte)
  <2>1. taken + 1 \in 1..(Len(stream) + 1) /\ taken + n \in ((taken + 1) - 1)..Len(stream)
    BY <1>1
  <2> QED
    BY <1>1, <2>1, SliceFacts
<1>4. Typed(q)
  BY <1>3, ParseTyped DEF Types
<1>5. q.result \in {"good", "bad", "indeterminate"}
  BY <1>4 DEF Typed, Parser
<1>6. q.result = "indeterminate" => parser' = q /\ UNCHANGED <<operation, served, replies>>
  BY DEF ReadHandlerOk
<1>7. q.result \in {"good", "bad"} => IF q.result = "good" THEN HandleRequest(q) ELSE Refuse /\ parser' = q
  BY DEF ReadHandlerOk
<1>8. q.result \in {"good", "bad"} => Responded(q)
  BY <1>4, <1>7, Response
<1>9. taken' \in 0..Len(stream)
  BY <1>1
<1> QED
  BY <1>1, <1>2, <1>4, <1>5, <1>6, <1>8, <1>9

LEMMA TypesInit == Init => Types
<1> SUFFICES ASSUME Init PROVE Types
  OBVIOUS
<1>1. stream \in Streams /\ stream \in Seq(Byte) /\ taken = 0 /\ parser = ResetParser
      /\ served = <<>> /\ replies = <<>> /\ operation = "read" /\ open = TRUE /\ peer = TRUE
  BY StreamAssumption DEF Init
<1>2. 0 \in 0..Len(stream)
  BY <1>1, LenProperties
<1>3. Typed(ResetParser)
  <2>1. ResetParser \in Parser /\ ResetParser.body = <<>> /\ Len(<<>>) = 0
    BY <1>1, ResetFacts, EmptySeq
  <2>2. ResetParser.contentLength = 0
    BY DEF ResetParser
  <2> QED
    BY <2>1, <2>2 DEF Typed
<1>4. <<>> \in Seq(Calls) /\ <<>> \in Seq(Replied)
  BY EmptySeq
<1> QED
  BY <1>1, <1>2, <1>3, <1>4 DEF Types

LEMMA TypesStep == Types /\ [Next]_vars => Types'
<1> SUFFICES ASSUME Types, [Next]_vars PROVE Types'
  OBVIOUS
<1>1. ASSUME NEW n \in 1..InbufSize, ReadHandlerOk(n) PROVE Types'
  <2> DEFINE q == Parse(parser, SubSeq(stream, taken + 1, taken + n))
  <2>1. /\ taken' \in 0..Len(stream) /\ operation = "read" /\ open
        /\ stream' = stream /\ open' = open /\ peer' = peer /\ Typed(q)
        /\ q.result = "indeterminate" => parser' = q /\ UNCHANGED <<operation, served, replies>>
        /\ q.result # "indeterminate" => Responded(q)
    BY <1>1, ReadFacts
  <2> HIDE DEF q
  <2>2. CASE q.result = "indeterminate"
    BY <2>1, <2>2 DEF Types
  <2>3. CASE q.result # "indeterminate"
    <3>1. Typed(parser') /\ operation' = "write"
      BY <2>1, <2>3 DEF Responded
    <3>2. replies' \in Seq(Replied)
      <4>1. PICK x \in Replied : replies' = Append(replies, x)
        BY <2>1, <2>3 DEF Responded
      <4> QED
        BY <4>1, AppendProperties DEF Types
    <3>3. served' \in Seq(Calls)
      <4>1. served' = served \/ (served' = Append(served, Call(q)) /\ Call(q) \in Calls)
        BY <2>1, <2>3 DEF Responded
      <4>2. served \in Seq(Calls)
        BY DEF Types
      <4> QED
        BY <4>1, <4>2, AppendProperties
    <3> QED
      BY <2>1, <3>1, <3>2, <3>3 DEF Types
  <2> QED
    BY <2>2, <2>3
<1>2. CASE WriteHandlerOk
  BY <1>2 DEF WriteHandlerOk, Types
<1>3. CASE HandlerError
  BY <1>3 DEF HandlerError, Types
<1>4. CASE PeerGoes
  BY <1>4 DEF PeerGoes, Types
<1>5. CASE UNCHANGED vars
  BY <1>5 DEF vars, Types
<1> QED
  BY <1>1, <1>2, <1>3, <1>4, <1>5 DEF Next, ReadAny

\* Before the first response the parser stands where one that reads the stream
\* byte by byte stands; the first response is given where that one stops to
\* wait.
Answered(r, calls) ==
  /\ r.result \in {"good", "bad"}
  /\ calls # <<>> => r.result = "good" /\ calls = <<Call(r)>>
  /\ r.result = "good" /\ <<Remote>> \in r.headers /\ r.method \in {"get", "post"} => calls # <<>>

FirstRequest ==
  /\ replies = <<>> => parser = Run(stream, taken) /\ parser.result = "indeterminate" /\ served = <<>>
  /\ Len(replies) = 1 => \E t \in 1..taken : /\ Answered(Run(stream, t), served)
                                             /\ operation = "write" => t = taken

LEMMA FirstRequestInit == Init => FirstRequest
<1> SUFFICES ASSUME Init PROVE FirstRequest
  OBVIOUS
<1>1. stream \in Seq(Byte) /\ taken = 0 /\ parser = ResetParser /\ served = <<>> /\ replies = <<>>
  BY StreamAssumption DEF Init
<1>2. Run(stream, 0) = ResetParser /\ ResetParser.result = "indeterminate"
  BY <1>1, RunStep, ResetFacts
<1>3. Len(<<>>) # 1
  BY EmptySeq
<1> QED
  BY <1>1, <1>2, <1>3 DEF FirstRequest

\* The first response is one to the bytes taken so far.
LEMMA FirstRead ==
  ASSUME Types, FirstRequest, replies = <<>>, NEW n \in 1..InbufSize, ReadHandlerOk(n)
  PROVE  FirstRequest'
<1> DEFINE q == Parse(parser, SubSeq(stream, taken + 1, taken + n))
<1>1. /\ taken \in Nat /\ n \in Nat /\ n >= 1 /\ taken + n <= Len(stream) /\ taken' = taken + n
      /\ stream' = stream
      /\ q.result = "indeterminate" => parser' = q /\ UNCHANGED <<operation, served, replies>>
      /\ q.result # "indeterminate" => q.result \in {"good", "bad"} /\ Responded(q)
  BY ReadFacts
<1>2. stream \in Seq(Byte) /\ parser = Run(stream, taken) /\ parser.result = "indeterminate" /\ served = <<>>
  BY DEF FirstRequest, Types
<1>3. q = Run(stream, taken + n)
  BY <1>1, <1>2, ChunkFacts
<1>4. q = Run(stream', taken')
  BY <1>1, <1>3
<1> HIDE DEF q
<1>5. CASE q.result = "indeterminate"
  <2>1. parser' = q /\ served' = <<>> /\ replies' = <<>>
    BY <1>1, <1>2, <1>5
  <2>2. Len(replies') # 1
    BY <2>1, EmptySeq
  <2> QED
    BY <1>4, <1>5, <2>1, <2>2 DEF FirstRequest
<1>6. CASE q.result # "indeterminate"
  <2>1. Responded(q) /\ q.result \in {"good", "bad"}
    BY <1>1, <1>6
  <2>2. replies' # <<>>
    <3>1. PICK x \in Replied : replies' = Append(replies, x)
      BY <2>1 DEF Responded
    <3> QED
      BY <3>1, AppendProperties DEF Types
  <2>3. Append(<<>>, Call(q)) = <<Call(q)>> /\ <<Call(q)>> # <<>>
    OBVIOUS
  <2>4. Answered(q, served')
    <3>1. served' = <<>> \/ (served' = <<Call(q)>> /\ q.result = "good")
      BY <1>2, <2>1, <2>3 DEF Responded
    <3>2. q.result = "good" /\ <<Remote>> \in q.headers /\ q.method \in {"get", "post"} => served' = <<Call(q)>>
      BY <1>2, <2>1, <2>3 DEF Responded
    <3> QED
      BY <2>1, <2>3, <3>1, <3>2 DEF Answered
  <2>5. taken' \in 1..taken'
    BY <1>1
  <2> QED
    BY <1>4, <2>2, <2>4, <2>5 DEF FirstRequest
<1> QED
  BY <1>5, <1>6

\* A later read leaves the first answer alone, or is followed by another one.
LEMMA LaterRead ==
  ASSUME Types, FirstRequest, replies # <<>>, NEW n \in 1..InbufSize, ReadHandlerOk(n)
  PROVE  FirstRequest'
<1> DEFINE q == Parse(parser, SubSeq(stream, taken + 1, taken + n))
<1>1. /\ taken \in Nat /\ n \in Nat /\ taken' = taken + n /\ stream' = stream /\ operation = "read"
      /\ q.result = "indeterminate" => UNCHANGED <<operation, served, replies>>
      /\ q.result # "indeterminate" => Responded(q)
  BY ReadFacts
<1>2. replies \in Seq(Replied) /\ Len(replies) \in Nat /\ Len(replies) # 0
  <2>1. replies \in Seq(Replied)
    BY DEF Types
  <2> QED
    BY <2>1, LenProperties, EmptySeq
<1> HIDE DEF q
<1>3. CASE q.result = "indeterminate"
  <2>1. operation' = "read" /\ served' = served /\ replies' = replies
    BY <1>1, <1>3
  <2>2. ASSUME Len(replies) = 1
        PROVE  \E t \in 1..taken' : Answered(Run(stream', t), served')
    <3>1. PICK t \in 1..taken : Answered(Run(stream, t), served)
      BY <2>2 DEF FirstRequest
    <3>2. t \in 1..taken'
      BY <1>1
    <3> QED
      BY <1>1, <2>1, <3>1, <3>2
  <2> QED
    BY <2>1, <2>2 DEF FirstRequest
<1>4. CASE q.result # "indeterminate"
  <2>1. PICK x \in Replied : replies' = Append(replies, x)
    BY <1>1, <1>4 DEF Responded
  <2>2. Len(replies') = Len(replies) + 1 /\ replies' # <<>>
    BY <1>2, <2>1, AppendProperties
  <2>3. Len(replies') # 1
    BY <1>2, <2>2
  <2> QED
    BY <2>2, <2>3 DEF FirstRequest
<1> QED
  BY <1>3, <1>4

IInv == Types /\ FirstRequest

LEMMA Invariance == Spec => []IInv
<1>1. Init => IInv
  BY TypesInit, FirstRequestInit DEF IInv
<1>2. IInv /\ [Next]_vars => IInv'
  <2> SUFFICES ASSUME Types, FirstRequest, [Next]_vars PROVE FirstRequest'
    BY TypesStep DEF IInv
  <2>1. ASSUME NEW n \in 1..InbufSize, ReadHandlerOk(n) PROVE FirstRequest'
    BY <2>1, FirstRead, LaterRead
  <2>2. CASE WriteHandlerOk
    BY <2>2 DEF WriteHandlerOk, FirstRequest
  <2>3. CASE HandlerError
    BY <2>3 DEF HandlerError, FirstRequest
  <2>4. CASE PeerGoes
    BY <2>4 DEF PeerGoes, FirstRequest
  <2>5. CASE UNCHANGED vars
    BY <2>5 DEF vars, FirstRequest
  <2> QED
    BY <2>1, <2>2, <2>3, <2>4, <2>5 DEF Next, ReadAny
<1> QED
  BY <1>1, <1>2, PTL DEF Spec

-----------------------------------------------------------------------------
(* Theorems *)

\* The connection and its parser are well typed whatever has been sent, and the
\* body in the parser never grows by more than one byte over the announced size.
THEOREM TypeCorrect == Spec => []TypeOK
<1>1. ASSUME IInv PROVE TypeOK
  <2>1. Types
    BY <1>1 DEF IInv
  <2>2. /\ parser.state \in {"netstring_length", "header_start", "header_value", "body_range"}
        /\ parser.result \in {"good", "bad", "indeterminate"}
        /\ Len(parser.body) <= parser.contentLength + 1
    BY <2>1 DEF Types, Typed, Parser
  <2>3. \A s \in ToSet(served) : s.method \in {"get", "put", "post"}
    <3>1. \A i \in DOMAIN served : served[i] \in Calls
      BY <2>1, ElementOfSeq, LenProperties DEF Types
    <3> QED
      BY <3>1 DEF ToSet, Calls
  <2>4. ToSet(replies) \subseteq {Status[e] : e \in Outcome}
    <3>1. \A i \in DOMAIN replies : replies[i] \in Replied
      BY <2>1, ElementOfSeq, LenProperties DEF Types
    <3> QED
      BY <3>1 DEF ToSet, Replied
  <2>5. open = (operation # "none")
    <3>1. open \in BOOLEAN /\ (open <=> operation # "none")
      BY <2>1 DEF Types
    <3> QED
      BY <3>1, Zenon
  <2> QED
    BY <2>1, <2>2, <2>3, <2>4, <2>5 DEF Types, TypeOK
<1> QED
  BY <1>1, Invariance, PTL

\* Soundness: what a connection first calls on the object dictionary is what the
\* reference reads from the bytes taken, which are one complete request, for every
\* stream of bytes and every way in which it is cut into chunks.
THEOREM FirstCallIsRequested == Spec => []FirstServedIsSent
<1>1. ASSUME IInv PROVE FirstServedIsSent
  <2> SUFFICES ASSUME Len(served) = 1, Len(replies) = 1, operation = "write"
               PROVE  /\ WellFormed(Taken)
                      /\ served[1] = [method |-> RequestOf(Taken).method,
                                      uri |-> RequestOf(Taken).uri,
                                      body |-> IF RequestOf(Taken).method = "put"
                                               THEN Trim(RequestOf(Taken).body) ELSE <<>>]
    BY DEF FirstServedIsSent
  <2> DEFINE r == Run(stream, taken)
  <2>1. stream \in Seq(Byte) /\ taken \in 0..Len(stream)
    BY <1>1 DEF IInv, Types
  <2>2. Answered(r, served)
    BY <1>1 DEF IInv, FirstRequest
  <2>3. ParserInv(stream, taken, r)
    BY <2>1, RunInv
  <2> HIDE DEF r
  <2>4. served # <<>>
    BY EmptySeq
  <2>5. r.result = "good" /\ served[1] = Call(r)
    BY <2>2, <2>4 DEF Answered
  <2>6. /\ WellFormed(Taken)
        /\ RequestOf(Taken).method = r.method /\ RequestOf(Taken).uri = r.uri /\ RequestOf(Taken).body = r.body
    BY <2>1, <2>3, <2>5, GoodIsWellFormed DEF Taken
  <2> QED
    BY <2>5, <2>6 DEF Call
<1> QED
  BY <1>1, Invariance, PTL

\* Completeness: once the bytes taken are one complete request, it has been
\* answered, and unless it is a PUT, or one that lacks a method or the address of
\* the client, it has been called on the object dictionary.
THEOREM CompleteIsAnswered == Spec => []CompleteIsServed
<1>1. ASSUME IInv PROVE CompleteIsServed
  <2> SUFFICES ASSUME Len(replies) <= 1, taken > 0, WellFormed(Taken)
               PROVE  /\ replies # <<>>
                      /\ RequestOf(Taken).remote /\ RequestOf(Taken).method \in {"get", "post"} => served # <<>>
    BY DEF CompleteIsServed
  <2>1. stream \in Seq(Byte) /\ taken \in 0..Len(stream) /\ replies \in Seq(Replied)
    BY <1>1 DEF IInv, Types
  <2>2. /\ Run(stream, taken).result = "good"
        /\ \A m \in 0..(taken - 1) : Run(stream, m).result = "indeterminate"
    BY <2>1, WellFormedIsGood DEF Taken
  <2>3. replies # <<>>
    BY <1>1, <2>2 DEF IInv, FirstRequest
  <2>4. Len(replies) = 1
    <3> DEFINE l == Len(replies)
    <3>1. l \in Nat /\ l # 0 /\ l <= 1
      BY <2>1, <2>3, LenProperties, EmptySeq
    <3> HIDE DEF l
    <3>2. l = 1
      BY <3>1
    <3> QED
      BY <3>2 DEF l
  <2>5. PICK t \in 1..taken : Answered(Run(stream, t), served)
    BY <1>1, <2>4 DEF IInv, FirstRequest
  <2>6. t = taken
    <3>1. Run(stream, t).result # "indeterminate"
      BY <2>5 DEF Answered
    <3>2. t \notin 0..(taken - 1)
      BY <2>2, <3>1
    <3>3. taken \in Nat
      BY <2>1, LenProperties
    <3> QED
      BY <2>5, <3>2, <3>3
  <2> DEFINE r == Run(stream, taken)
  <2>7. ParserInv(stream, taken, r) /\ r.result = "good" /\ Answered(r, served)
    BY <2>1, <2>2, <2>5, <2>6, RunInv
  <2> HIDE DEF r
  <2>8. /\ RequestOf(Taken).method = r.method
        /\ RequestOf(Taken).remote <=> <<Remote>> \in r.headers
    BY <2>1, <2>7, GoodIsWellFormed DEF Taken
  <2> QED
    BY <2>3, <2>7, <2>8 DEF Answered
<1> QED
  BY <1>1, Invariance, PTL
=============================================================================
