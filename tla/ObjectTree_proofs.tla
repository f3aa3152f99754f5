------------------------- MODULE ObjectTree_proofs -------------------------
(***************************************************************************)
(* The links of the object tree agree in every reachable state, for every  *)
(* set of objects.  Each operation on the links is a lemma of its own: it  *)
(* takes links that are in order to links that are in order.  On top of    *)
(* that, lookup by URI and the two descriptions of the tree are right in   *)
(* every tree, of any depth.                                               *)
(***************************************************************************)
EXTENDS ObjectLookup, FiniteSets, SequenceTheorems, FiniteSetTheorems, WellFoundedInduction, TLAPS

-----------------------------------------------------------------------------
(* Numbers and parts of a sequence *)

\* A non-empty set of naturals has a least element.
LEMMA LeastExists ==
  ASSUME NEW S \in SUBSET Nat, S # {}
  PROVE  \E m \in S : \A k \in S : m <= k
<1> DEFINE R == OpToRel(<, Nat)
<1>1. IsWellFoundedOn(R, Nat)
  BY NatLessThanWellFounded
<1>2. \A a, b \in Nat : a < b => <<a, b>> \in R
  BY DEF OpToRel
<1> HIDE DEF R
<1>3. PICK m \in S : \A k \in S : ~ (<<k, m>> \in R)
  BY <1>1, WFMin
<1>4. \A k \in S : m <= k
  <2>1. TAKE k \in S
  <2>2. k \in Nat /\ m \in Nat
    OBVIOUS
  <2>3. ~(k < m)
    BY <1>2, <1>3, <2>2
  <2>4. QED
    BY <2>2, <2>3
<1>5. QED
  BY <1>4

LEMMA SliceFacts ==
  ASSUME NEW T, NEW s \in Seq(T), NEW a \in 1..(Len(s) + 1), NEW b \in (a - 1)..Len(s)
  PROVE  /\ SubSeq(s, a, b) \in Seq(T)
         /\ Len(SubSeq(s, a, b)) = b - a + 1
         /\ DOMAIN SubSeq(s, a, b) = 1..(b - a + 1)
         /\ \A i \in 1..(b - a + 1) : SubSeq(s, a, b)[i] = s[a + i - 1]
<1> DEFINE r == SubSeq(s, a, b)
<1>1. Len(s) \in Nat /\ DOMAIN s = 1..Len(s) /\ a \in Int /\ b \in Int /\ 1 <= a /\ a - 1 <= b /\ b <= Len(s)
  BY LenProperties
<1>2. \A i \in a..b : s[i] \in T
  BY <1>1, ElementOfSeq
<1>3. /\ r \in Seq(T)
      /\ Len(r) = IF a <= b THEN b - a + 1 ELSE 0
      /\ \A i \in 1..(b - a + 1) : r[i] = s[a + i - 1]
  BY <1>1, <1>2, SubSeqProperties
<1> HIDE DEF r
<1>4. Len(r) = b - a + 1
  BY <1>1, <1>3
<1>5. DOMAIN r = 1..(b - a + 1)
  BY <1>3, <1>4, LenProperties
<1> QED
  BY <1>3, <1>4, <1>5 DEF r

\* One element more.
LEMMA SliceAppend ==
  ASSUME NEW T, NEW s \in Seq(T), NEW b \in Nat, b < Len(s), NEW a \in 1..(b + 1)
  PROVE  SubSeq(s, a, b + 1) = Append(SubSeq(s, a, b), s[b + 1]) /\ s[b + 1] \in T
<1> DEFINE r == SubSeq(s, a, b)
           q == SubSeq(s, a, b + 1)
           t == Append(r, s[b + 1])
           n == b - a + 1
<1>1. Len(s) \in Nat /\ a \in 1..(Len(s) + 1) /\ b \in (a - 1)..Len(s) /\ b + 1 \in (a - 1)..Len(s)
  BY LenProperties
<1>2. r \in Seq(T) /\ Len(r) = n /\ \A i \in 1..n : r[i] = s[a + i - 1]
  BY <1>1, SliceFacts
<1>3. q \in Seq(T) /\ Len(q) = b + 1 - a + 1 /\ \A i \in 1..(b + 1 - a + 1) : q[i] = s[a + i - 1]
  BY <1>1, SliceFacts
<1>4. b + 1 - a + 1 = n + 1 /\ n \in Nat /\ a + (n + 1) - 1 = b + 1
  BY <1>1
<1>5. s[b + 1] \in T
  BY <1>1, ElementOfSeq
<1> HIDE DEF r, q, n
<1>6. /\ t \in Seq(T) /\ Len(t) = n + 1 /\ t[n + 1] = s[b + 1]
      /\ \A i \in 1..n : t[i] = r[i]
  BY <1>2, <1>5, AppendProperties
<1> HIDE DEF t
<1>7. \A i \in 1..(n + 1) : q[i] = t[i]
  <2> TAKE i \in 1..(n + 1)
  <2>1. CASE i \in 1..n
    BY <2>1, <1>2, <1>3, <1>4, <1>6
  <2>2. CASE i = n + 1
    BY <2>2, <1>3, <1>4, <1>6
  <2> QED
    BY <2>1, <2>2, <1>4
<1>8. q = t
  BY <1>3, <1>4, <1>6, <1>7, SeqEqual
<1> QED
  BY <1>5, <1>8 DEF q, t, r

-----------------------------------------------------------------------------
(* Lists *)

Injective(s) == \A i, j \in DOMAIN s : s[i] = s[j] => i = j

\* push_back of an object that is not listed.
LEMMA AppendMembers ==
  ASSUME NEW S, NEW s \in Seq(S), NEW o \in S, Injective(s), o \notin Members(s)
  PROVE  /\ Append(s, o) \in Seq(S)
         /\ Members(Append(s, o)) = Members(s) \union {o}
         /\ Injective(Append(s, o))
<1> DEFINE a == Append(s, o)
           n == Len(s)
<1>1. /\ a \in Seq(S) /\ Len(a) = n + 1 /\ a[n + 1] = o
      /\ \A i \in 1..n : a[i] = s[i]
  BY AppendProperties
<1>2. /\ n \in Nat /\ DOMAIN s = 1..n /\ DOMAIN a = 1..(n + 1)
  BY <1>1, LenProperties
<1>3. \A i \in DOMAIN s : s[i] # o
  BY DEF Members
<1> HIDE DEF a, n
<1>4. Members(a) = Members(s) \union {o}
  <2>1. ASSUME NEW x \in Members(a) PROVE x \in Members(s) \union {o}
    <3>1. PICK i \in 1..(n + 1) : x = a[i]
      BY <1>2 DEF Members
    <3>2. CASE i \in 1..n
      BY <3>1, <3>2, <1>1, <1>2 DEF Members
    <3>3. CASE i = n + 1
      BY <3>1, <3>3, <1>1
    <3> QED
      BY <3>2, <3>3, <1>2
  <2>2. ASSUME NEW x \in Members(s) PROVE x \in Members(a)
    <3>1. PICK i \in 1..n : x = s[i]
      BY <1>2 DEF Members
    <3>2. a[i] = x /\ i \in 1..(n + 1)
      BY <3>1, <1>1, <1>2
    <3> QED
      BY <3>2, <1>2 DEF Members
  <2>3. o \in Members(a)
    <3>1. n + 1 \in 1..(n + 1)
      BY <1>2
    <3> QED
      BY <3>1, <1>1, <1>2 DEF Members
  <2> QED
    BY <2>1, <2>2, <2>3
<1>5. Injective(a)
  <2> SUFFICES ASSUME NEW i \in 1..(n + 1), NEW j \in 1..(n + 1), a[i] = a[j] PROVE i = j
    BY <1>2 DEF Injective
  <2>1. CASE i \in 1..n /\ j \in 1..n
    BY <2>1, <1>1, <1>2 DEF Injective
  <2>2. CASE i = n + 1 /\ j \in 1..n
    BY <2>2, <1>1, <1>2, <1>3
  <2>3. CASE i \in 1..n /\ j = n + 1
    BY <2>3, <1>1, <1>2, <1>3
  <2> QED
    BY <2>1, <2>2, <2>3, <1>2
<1> QED
  BY <1>1, <1>4, <1>5 DEF a

\* A sequence without its i-th element.
Dropped(s, i) == SubSeq(s, 1, i - 1) \o SubSeq(s, i + 1, Len(s))

\* The list without the object at i, position by position.
LEMMA DropOne ==
  ASSUME NEW S, NEW s \in Seq(S), NEW i \in 1..Len(s)
  PROVE  /\ Dropped(s, i) \in Seq(S)
         /\ Len(Dropped(s, i)) = Len(s) - 1
         /\ \A j \in 1..(Len(s) - 1) : Dropped(s, i)[j] = IF j < i THEN s[j] ELSE s[j + 1]
<1> DEFINE n == Len(s)
           p == SubSeq(s, 1, i - 1)
           q == SubSeq(s, i + 1, n)
           w == Dropped(s, i)
<1>1. n \in Nat /\ i \in 1..n /\ DOMAIN s = 1..n
  BY LenProperties
<1>2. /\ p \in Seq(S)
      /\ Len(p) = i - 1
      /\ \A j \in 1..(i - 1) : p[j] = s[j]
  <2>1. \A k \in 1..(i - 1) : s[k] \in S
    BY <1>1, ElementOfSeq
  <2>2. i - 1 \in Int /\ 1 \in Int
    BY <1>1
  <2>3. /\ p \in Seq(S)
        /\ Len(p) = IF 1 <= i - 1 THEN (i - 1) - 1 + 1 ELSE 0
        /\ \A j \in 1..((i - 1) - 1 + 1) : p[j] = s[1 + j - 1]
    BY <2>1, <2>2, SubSeqProperties
  <2> HIDE DEF p
  <2>4. /\ (IF 1 <= i - 1 THEN (i - 1) - 1 + 1 ELSE 0) = i - 1
        /\ (i - 1) - 1 + 1 = i - 1
        /\ \A j \in 1..(i - 1) : 1 + j - 1 = j
    BY <1>1
  <2> QED
    BY <2>3, <2>4
<1>3. /\ q \in Seq(S)
      /\ Len(q) = n - i
      /\ \A j \in 1..(n - i) : q[j] = s[i + j]
  <2>1. \A k \in (i + 1)..n : s[k] \in S
    BY <1>1, ElementOfSeq
  <2>2. i + 1 \in Int /\ n \in Int
    BY <1>1
  <2>3. /\ q \in Seq(S)
        /\ Len(q) = IF i + 1 <= n THEN n - (i + 1) + 1 ELSE 0
        /\ \A j \in 1..(n - (i + 1) + 1) : q[j] = s[(i + 1) + j - 1]
    BY <2>1, <2>2, SubSeqProperties
  <2> HIDE DEF q, n
  <2>4. /\ (IF i + 1 <= n THEN n - (i + 1) + 1 ELSE 0) = n - i
        /\ n - (i + 1) + 1 = n - i
        /\ \A j \in 1..(n - i) : (i + 1) + j - 1 = i + j
    BY <1>1
  <2> QED
    BY <2>3, <2>4
<1>4. w = p \o q
  BY DEF Dropped
<1> HIDE DEF n, p, q, w
<1>5. /\ w \in Seq(S) /\ Len(w) = (i - 1) + (n - i)
      /\ \A j \in 1..((i - 1) + (n - i)) : w[j] = IF j <= i - 1 THEN p[j] ELSE q[j - (i - 1)]
  <2>1. /\ p \o q \in Seq(S) /\ Len(p \o q) = Len(p) + Len(q)
        /\ \A j \in 1..(Len(p) + Len(q)) : (p \o q)[j] = IF j <= Len(p) THEN p[j] ELSE q[j - Len(p)]
    BY <1>2, <1>3, ConcatProperties
  <2> QED
    BY <2>1, <1>2, <1>3, <1>4
<1>6. (i - 1) + (n - i) = n - 1
  BY <1>1
<1>7. ASSUME NEW j \in 1..(n - 1) PROVE w[j] = IF j < i THEN s[j] ELSE s[j + 1]
  <2>1. CASE j < i
    <3>1. j \in 1..(i - 1) /\ j <= i - 1
      BY <2>1, <1>1
    <3>2. w[j] = p[j]
      BY <3>1, <1>5, <1>6
    <3> QED
      BY <3>1, <3>2, <1>2, <2>1
  <2>2. CASE ~(j < i)
    <3>1. j - (i - 1) \in 1..(n - i) /\ i + (j - (i - 1)) = j + 1 /\ ~(j <= i - 1)
      BY <2>2, <1>1
    <3>2. w[j] = q[j - (i - 1)]
      BY <3>1, <1>5, <1>6
    <3> QED
      BY <3>1, <3>2, <1>3, <2>2
  <2> QED
    BY <2>1, <2>2
<1> QED
  BY <1>5, <1>6, <1>7 DEF n, w

\* remove_if of an object that is listed at most once.
LEMMA WithoutMembers ==
  ASSUME NEW S, NEW s \in Seq(S), NEW o, Injective(s)
  PROVE  /\ Without(s, o) \in Seq(S)
         /\ Members(Without(s, o)) = Members(s) \ {o}
         /\ Injective(Without(s, o))
<1>1. CASE o \notin Members(s)
  BY <1>1 DEF Without
<1>2. CASE o \in Members(s)
  <2> DEFINE n == Len(s)
             i == CHOOSE i \in DOMAIN s : s[i] = o
             w == SubSeq(s, 1, i - 1) \o SubSeq(s, i + 1, n)
  <2>1. n \in Nat /\ DOMAIN s = 1..n
    BY LenProperties
  <2>2. i \in 1..n /\ s[i] = o
    BY <1>2, <2>1 DEF Members
  <2>3. Without(s, o) = w
    BY <1>2 DEF Without
  <2> HIDE DEF i
  <2>4. /\ w \in Seq(S) /\ Len(w) = n - 1
        /\ \A j \in 1..(n - 1) : w[j] = IF j < i THEN s[j] ELSE s[j + 1]
    <3>1. w = Dropped(s, i)
      BY DEF Dropped
    <3> HIDE DEF w
    <3> QED
      BY <2>2, <3>1, DropOne
  <2>5. DOMAIN w = 1..(n - 1)
    BY <2>4, LenProperties
  <2> HIDE DEF w, n
  <2>6. Members(w) = Members(s) \ {o}
    <3>1. ASSUME NEW x \in Members(w) PROVE x \in Members(s) \ {o}
      <4>1. PICK j \in 1..(n - 1) : x = w[j]
        BY <2>5 DEF Members
      <4>2. PICK k \in 1..n : x = s[k] /\ k # i
        <5>1. CASE j < i
          BY <5>1, <4>1, <2>1, <2>2, <2>4
        <5>2. CASE ~(j < i)
          BY <5>2, <4>1, <2>1, <2>2, <2>4
        <5> QED
          BY <5>1, <5>2
      <4>3. x # o
        BY <4>2, <2>1, <2>2 DEF Injective
      <4> QED
        BY <4>2, <4>3, <2>1 DEF Members
    <3>2. ASSUME NEW x \in Members(s) \ {o} PROVE x \in Members(w)
      <4>1. PICK k \in 1..n : x = s[k]
        BY <2>1 DEF Members
      <4>2. k # i
        BY <4>1, <2>2
      <4>3. PICK j \in 1..(n - 1) : w[j] = s[k]
        <5>1. CASE k < i
          <6>1. k \in 1..(n - 1)
            BY <5>1, <2>1, <2>2
          <6> QED
            BY <6>1, <5>1, <2>4
        <5>2. CASE i < k
          <6>1. k - 1 \in 1..(n - 1) /\ ~(k - 1 < i) /\ (k - 1) + 1 = k
            BY <5>2, <2>1, <2>2
          <6> QED
            BY <6>1, <2>4
        <5> QED
          BY <5>1, <5>2, <4>2, <2>1, <2>2
      <4> QED
        BY <4>1, <4>3, <2>5 DEF Members
    <3> QED
      BY <3>1, <3>2
  <2>7. Injective(w)
    <3> SUFFICES ASSUME NEW j \in 1..(n - 1), NEW k \in 1..(n - 1), w[j] = w[k] PROVE j = k
      BY <2>5 DEF Injective
    <3> DEFINE at(x) == IF x < i THEN x ELSE x + 1
    <3>1. at(j) \in 1..n /\ at(k) \in 1..n
      BY <2>1, <2>2
    <3>2. s[at(j)] = s[at(k)]
      BY <2>4
    <3>3. at(j) = at(k)
      BY <3>1, <3>2, <2>1 DEF Injective
    <3> QED
      BY <3>3, <2>1, <2>2
  <2> QED
    BY <2>3, <2>4, <2>6, <2>7
<1> QED
  BY <1>1, <1>2

-----------------------------------------------------------------------------

\* n lists the objects whose parent it is, once.
Lists(t, n) ==
  /\ \A o \in Objects : o \in Members(t.children[n]) <=> t.parent[o] = n
  /\ Injective(t.children[n])

\* The links t are in order when the objects A exist.
LinksOK(t, A) ==
  /\ A \in SUBSET Objects
  /\ t.parent \in [Objects -> (A \intersect Nodes) \union {NoObject}]
  /\ t.children \in [Nodes -> Seq(A)]
  /\ \A o \in Objects \ A : t.parent[o] = NoObject
  /\ \A n \in Nodes \ A : t.children[n] = <<>>
  /\ \A n \in Nodes : Lists(t, n)

-----------------------------------------------------------------------------
(* Operations on the links *)

\* node::remove_child takes o from what n lists, and from n.
LEMMA RemoveChildOK ==
  ASSUME NEW A, NEW t, LinksOK(t, A), NEW n \in Nodes, NEW o \in Objects
  PROVE  /\ LinksOK(RemoveChild(t, n, o), A)
         /\ \A p \in Objects : RemoveChild(t, n, o).parent[p] =
              IF p = o /\ t.parent[o] = n THEN NoObject ELSE t.parent[p]
         /\ \A m \in Nodes : t.children[m] = <<>> => RemoveChild(t, n, o).children[m] = <<>>
<1>0. /\ t.parent \in [Objects -> (A \intersect Nodes) \union {NoObject}]
      /\ t.children \in [Nodes -> Seq(A)]
      /\ t.children[n] \in Seq(A)
      /\ Lists(t, n)
  BY DEF LinksOK
<1>1. CASE o \notin Members(t.children[n])
  <2>1. RemoveChild(t, n, o) = t
    BY <1>1 DEF RemoveChild
  <2>2. t.parent[o] # n
    BY <1>0, <1>1 DEF Lists
  <2> QED
    BY <2>1, <2>2
<1>2. CASE o \in Members(t.children[n])
  <2> DEFINE w == Without(t.children[n], o)
             u == RemoveChild(t, n, o)
  <2>1. /\ u.parent = [t.parent EXCEPT ![o] = NoObject]
        /\ u.children = [t.children EXCEPT ![n] = w]
    BY <1>2 DEF RemoveChild
  <2>2. t.parent[o] = n /\ n \in A
    <3>1. t.parent[o] = n
      BY <1>0, <1>2 DEF Lists
    <3>2. t.parent[o] # NoObject
      BY <3>1, TreeAssumption DEF Objects
    <3> QED
      BY <1>0, <3>1, <3>2
  <2>3. /\ w \in Seq(A)
        /\ Members(w) = Members(t.children[n]) \ {o}
        /\ Injective(w)
    BY <1>0, WithoutMembers DEF Lists
  <2> HIDE DEF w, u
  <2>4. u.parent \in [Objects -> (A \intersect Nodes) \union {NoObject}]
    BY <1>0, <2>1
  <2>5. u.children \in [Nodes -> Seq(A)]
    BY <1>0, <2>1, <2>3
  <2>6. \A p \in Objects \ A : u.parent[p] = NoObject
    BY <1>0, <2>1 DEF LinksOK
  <2>7. \A m \in Nodes \ A : u.children[m] = <<>>
    BY <1>0, <2>1, <2>2 DEF LinksOK
  <2>8. ASSUME NEW m \in Nodes PROVE Lists(u, m)
    <3>1. CASE m = n
      <4>1. u.children[m] = w
        BY <3>1, <1>0, <2>1
      <4>2. ASSUME NEW p \in Objects PROVE p \in Members(w) <=> u.parent[p] = n
        <5>1. CASE p = o
          BY <5>1, <1>0, <2>1, <2>3, TreeAssumption DEF Objects
        <5>2. CASE p # o
          BY <5>2, <1>0, <2>1, <2>3 DEF Lists
        <5> QED
          BY <5>1, <5>2
      <4> QED
        BY <3>1, <4>1, <4>2, <2>3 DEF Lists
    <3>2. CASE m # n
      <4>1. u.children[m] = t.children[m]
        BY <3>2, <1>0, <2>1
      <4>2. ASSUME NEW p \in Objects PROVE p \in Members(u.children[m]) <=> u.parent[p] = m
        <5>1. CASE p = o
          <6>1. t.parent[p] # m /\ u.parent[p] # m
            BY <5>1, <3>2, <1>0, <2>1, <2>2, TreeAssumption DEF Objects
          <6> QED
            BY <4>1, <6>1 DEF LinksOK, Lists
        <5>2. CASE p # o
          <6>1. u.parent[p] = t.parent[p]
            BY <5>2, <1>0, <2>1
          <6> QED
            BY <4>1, <6>1 DEF LinksOK, Lists
        <5> QED
          BY <5>1, <5>2
      <4>3. Injective(u.children[m])
        BY <4>1 DEF LinksOK, Lists
      <4> QED
        BY <4>2, <4>3 DEF Lists
    <3> QED
      BY <3>1, <3>2
  <2>9. LinksOK(u, A)
    BY <2>4, <2>5, <2>6, <2>7, <2>8 DEF LinksOK
  <2>10. \A p \in Objects : u.parent[p] = IF p = o /\ t.parent[o] = n THEN NoObject ELSE t.parent[p]
    BY <1>0, <2>1, <2>2
  <2>11. ASSUME NEW m \in Nodes, t.children[m] = <<>> PROVE u.children[m] = <<>>
    <3>1. m # n
      <4>1. SUFFICES ASSUME m = n PROVE FALSE
        OBVIOUS
      <4>2. Members(t.children[n]) = {}
        BY <4>1, <2>11, EmptySeq DEF Members
      <4> QED
        BY <4>2, <1>2
    <3> QED
      BY <3>1, <1>0, <2>1, <2>11
  <2> QED
    BY <2>9, <2>10, <2>11 DEF u
<1> QED
  BY <1>1, <1>2

LEMMA DetachOK ==
  ASSUME NEW A, NEW t, LinksOK(t, A), NEW o \in Objects
  PROVE  /\ LinksOK(Detach(t, o), A)
         /\ \A p \in Objects : Detach(t, o).parent[p] = IF p = o THEN NoObject ELSE t.parent[p]
         /\ \A m \in Nodes : t.children[m] = <<>> => Detach(t, o).children[m] = <<>>
<1>0. t.parent \in [Objects -> (A \intersect Nodes) \union {NoObject}]
  BY DEF LinksOK
<1>1. CASE t.parent[o] = NoObject
  <2>1. Detach(t, o) = t
    BY <1>1 DEF Detach
  <2> QED
    BY <1>1, <2>1
<1>2. CASE t.parent[o] # NoObject
  <2> DEFINE n == t.parent[o]
             u == RemoveChild(t, n, o)
  <2>1. Detach(t, o) = u
    BY <1>2 DEF Detach
  <2>2. n \in Nodes
    BY <1>0, <1>2
  <2>3. /\ LinksOK(u, A)
        /\ \A p \in Objects : u.parent[p] = IF p = o THEN NoObject ELSE t.parent[p]
        /\ \A m \in Nodes : t.children[m] = <<>> => u.children[m] = <<>>
    BY <2>2, RemoveChildOK
  <2> HIDE DEF u
  <2> QED
    BY <2>1, <2>3
<1> QED
  BY <1>1, <1>2

\* Listing an object without a parent, once it exists.
LEMMA PushBackOK ==
  ASSUME NEW A, NEW s, LinksOK(s, A),
         NEW n \in A \intersect Nodes, NEW o \in Objects, s.parent[o] = NoObject,
         NEW u, u = [parent |-> [s.parent EXCEPT ![o] = n],
                     children |-> [s.children EXCEPT ![n] = Append(@, o)]]
  PROVE  LinksOK(u, A \union {o})
<1> DEFINE B == A \union {o}
           a == Append(s.children[n], o)
<1>0. /\ s.parent \in [Objects -> (A \intersect Nodes) \union {NoObject}]
      /\ s.children \in [Nodes -> Seq(A)]
      /\ s.children[n] \in Seq(A)
      /\ n # NoObject
  BY TreeAssumption DEF LinksOK, Objects
<1>1. /\ u.parent = [s.parent EXCEPT ![o] = n]
      /\ u.children = [s.children EXCEPT ![n] = a]
  OBVIOUS
<1>2. ASSUME NEW m \in Nodes PROVE s.children[m] \in Seq(B)
  <2>1. s.children[m] \in Seq(A)
    BY <1>0
  <2>2. \A i \in 1..Len(s.children[m]) : s.children[m][i] \in B
    BY <2>1, ElementOfSeq
  <2> QED
    BY <2>1, <2>2, LenProperties, IsASeq
<1>3. o \notin Members(s.children[n]) /\ Injective(s.children[n])
  BY <1>0 DEF LinksOK, Lists
<1>4. /\ a \in Seq(B)
      /\ Members(a) = Members(s.children[n]) \union {o}
      /\ Injective(a)
  BY <1>2, <1>3, AppendMembers
<1> HIDE DEF a
<1>5. u.parent \in [Objects -> (B \intersect Nodes) \union {NoObject}]
  BY <1>0, <1>1
<1>6. u.children \in [Nodes -> Seq(B)]
  <2> HIDE DEF B
  <2> QED
    BY <1>0, <1>1, <1>2, <1>4
<1>7. \A p \in Objects \ B : u.parent[p] = NoObject
  BY <1>0, <1>1 DEF LinksOK
<1>8. \A m \in Nodes \ B : u.children[m] = <<>>
  BY <1>0, <1>1 DEF LinksOK
<1>9. ASSUME NEW m \in Nodes PROVE Lists(u, m)
  <2>1. CASE m = n
    <3>1. u.children[m] = a
      BY <2>1, <1>0, <1>1
    <3>2. ASSUME NEW p \in Objects PROVE p \in Members(a) <=> u.parent[p] = n
      BY <1>0, <1>1, <1>4 DEF LinksOK, Lists
    <3> QED
      BY <2>1, <3>1, <3>2, <1>4 DEF Lists
  <2>2. CASE m # n
    <3>1. u.children[m] = s.children[m]
      BY <2>2, <1>0, <1>1
    <3>2. ASSUME NEW p \in Objects PROVE u.parent[p] = m <=> s.parent[p] = m
      BY <2>2, <1>0, <1>1, TreeAssumption DEF Objects
    <3> QED
      BY <3>1, <3>2 DEF LinksOK, Lists
  <2> QED
    BY <2>1, <2>2
<1> QED
  BY <1>5, <1>6, <1>7, <1>8, <1>9 DEF LinksOK

\* node::add_child of an object that exists.
LEMMA AddChildOK ==
  ASSUME NEW A, NEW t, LinksOK(t, A),
         NEW n \in A \intersect Nodes, NEW o \in A
  PROVE  /\ LinksOK(AddChild(t, n, o), A)
         /\ \A p \in Objects : AddChild(t, n, o).parent[p] = IF p = o THEN n ELSE t.parent[p]
<1> DEFINE s == Detach(t, o)
           u == [parent |-> [s.parent EXCEPT ![o] = n], children |-> [s.children EXCEPT ![n] = Append(@, o)]]
<1>1. AddChild(t, n, o) = u
  BY DEF AddChild
<1>2. t.parent \in [Objects -> (A \intersect Nodes) \union {NoObject}] /\ o \in Objects
  BY DEF LinksOK
<1>3. LinksOK(s, A) /\ \A p \in Objects : s.parent[p] = IF p = o THEN NoObject ELSE t.parent[p]
  BY <1>2, DetachOK
<1> HIDE DEF s
<1>4. s.parent[o] = NoObject /\ s.parent \in [Objects -> (A \intersect Nodes) \union {NoObject}]
  BY <1>2, <1>3 DEF LinksOK
<1>5. A \union {o} = A
  OBVIOUS
<1>6. LinksOK(u, A)
  BY <1>2, <1>3, <1>4, <1>5, PushBackOK
<1>7. \A p \in Objects : u.parent[p] = IF p = o THEN n ELSE t.parent[p]
  BY <1>3, <1>4
<1> QED
  BY <1>1, <1>6, <1>7

\* The constructor: parent_ already points to the node that does not list the
\* new object yet.
LEMMA ConstructOK ==
  ASSUME NEW A, LinksOK(Links, A),
         NEW n \in A \intersect Nodes, NEW o \in Objects \ A
  PROVE  /\ LinksOK(AddChild([Links EXCEPT !.parent[o] = n], n, o), A \union {o})
         /\ AddChild([Links EXCEPT !.parent[o] = n], n, o).parent = [parent EXCEPT ![o] = n]
<1> DEFINE t == [Links EXCEPT !.parent[o] = n]
           u == [parent |-> [t.parent EXCEPT ![o] = n], children |-> [t.children EXCEPT ![n] = Append(@, o)]]
<1>0. /\ parent \in [Objects -> (A \intersect Nodes) \union {NoObject}]
      /\ parent[o] = NoObject
      /\ n # NoObject
      /\ Lists(Links, n)
  BY TreeAssumption DEF LinksOK, Links, Objects
<1>1. t.parent = [parent EXCEPT ![o] = n] /\ t.children = children
  BY DEF Links
<1>2. o \notin Members(children[n])
  BY <1>0 DEF Lists, Links
<1>3. Detach(t, o) = t
  <2> HIDE DEF t
  <2>1. t.parent[o] = n
    BY <1>0, <1>1
  <2> QED
    BY <1>0, <1>1, <1>2, <2>1 DEF Detach, RemoveChild
<1>4. AddChild(t, n, o) = u
  BY <1>3 DEF AddChild
<1>5. u = [parent |-> [Links.parent EXCEPT ![o] = n],
           children |-> [Links.children EXCEPT ![n] = Append(@, o)]]
  <2>1. u.parent = [Links.parent EXCEPT ![o] = n]
    BY <1>0, <1>1 DEF Links
  <2>2. u.children = [Links.children EXCEPT ![n] = Append(@, o)]
    BY <1>1 DEF Links
  <2> QED
    BY <2>1, <2>2
<1>6. Links.parent[o] = NoObject /\ o \in Objects
  BY <1>0 DEF Links
<1> HIDE DEF u, t
<1>7. LinksOK(u, A \union {o})
  BY <1>5, <1>6, PushBackOK
<1>8. u.parent = [parent EXCEPT ![o] = n]
  BY <1>5 DEF Links
<1> QED
  BY <1>4, <1>7, <1>8 DEF t

\* The destructor of node empties its list and forgets itself in its children.
LEMMA NodeDestroyedOK ==
  ASSUME NEW A, NEW t, LinksOK(t, A), NEW n \in Nodes
  PROVE  /\ LinksOK(NodeDestroyed(t, n), A)
         /\ NodeDestroyed(t, n).children[n] = <<>>
         /\ \A o \in Objects : NodeDestroyed(t, n).parent[o] \in {NoObject, t.parent[o]}
<1> DEFINE u == NodeDestroyed(t, n)
<1>0. /\ t.parent \in [Objects -> (A \intersect Nodes) \union {NoObject}]
      /\ t.children \in [Nodes -> Seq(A)]
      /\ \A m \in Nodes : Lists(t, m)
      /\ n # NoObject
  BY TreeAssumption DEF LinksOK, Objects
<1>1. /\ u.parent = [o \in Objects |-> IF o \in Members(t.children[n]) THEN NoObject ELSE t.parent[o]]
      /\ u.children = [t.children EXCEPT ![n] = <<>>]
  BY DEF NodeDestroyed
<1> HIDE DEF u
<1>2. u.parent = [o \in Objects |-> IF t.parent[o] = n THEN NoObject ELSE t.parent[o]]
  BY <1>0, <1>1 DEF Lists
<1>3. u.parent \in [Objects -> (A \intersect Nodes) \union {NoObject}]
  BY <1>0, <1>2
<1>4. u.children \in [Nodes -> Seq(A)] /\ u.children[n] = <<>>
  <2>1. <<>> \in Seq(A)
    BY EmptySeq
  <2> QED
    BY <2>1, <1>0, <1>1
<1>5. \A o \in Objects \ A : u.parent[o] = NoObject
  BY <1>2 DEF LinksOK
<1>6. \A m \in Nodes \ A : u.children[m] = <<>>
  BY <1>0, <1>1 DEF LinksOK
<1>7. ASSUME NEW m \in Nodes PROVE Lists(u, m)
  <2>1. CASE m = n
    <3>1. Members(<<>>) = {} /\ Injective(<<>>)
      BY DEF Members, Injective
    <3>2. \A o \in Objects : u.parent[o] # n
      BY <1>0, <1>2
    <3> QED
      BY <2>1, <3>1, <3>2, <1>4 DEF Lists
  <2>2. CASE m # n
    <3>1. u.children[m] = t.children[m]
      BY <2>2, <1>0, <1>1
    <3>2. \A o \in Objects : u.parent[o] = m <=> t.parent[o] = m
      BY <2>2, <1>2, TreeAssumption DEF Objects
    <3> QED
      BY <3>1, <3>2, <1>0 DEF Lists
  <2> QED
    BY <2>1, <2>2
<1> QED
  BY <1>2, <1>3, <1>4, <1>5, <1>6, <1>7 DEF LinksOK, u

\* An object without links can go.
LEMMA ForgetOK ==
  ASSUME NEW A, NEW d, LinksOK(d, A), NEW o \in A,
         d.parent[o] = NoObject, o \in Nodes => d.children[o] = <<>>
  PROVE  LinksOK(d, A \ {o})
<1> DEFINE B == A \ {o}
<1>0. /\ d.parent \in [Objects -> (A \intersect Nodes) \union {NoObject}]
      /\ d.children \in [Nodes -> Seq(A)]
      /\ \A m \in Nodes : Lists(d, m)
      /\ NoObject \notin Nodes
      /\ A \in SUBSET Objects
      /\ \A p \in Objects \ A : d.parent[p] = NoObject
      /\ \A m \in Nodes \ A : d.children[m] = <<>>
  BY TreeAssumption DEF LinksOK, Objects
<1>1. ASSUME NEW p \in Objects PROVE d.parent[p] \in (B \intersect Nodes) \union {NoObject}
  <2>1. d.parent[p] # o
    <3>1. SUFFICES ASSUME d.parent[p] = o PROVE FALSE
      OBVIOUS
    <3>2. o \in Nodes
      BY <3>1, <1>0, TreeAssumption DEF Objects
    <3>3. Members(d.children[o]) = {}
      BY <3>2 DEF Members
    <3> QED
      BY <3>1, <3>2, <3>3, <1>0 DEF Lists
  <2> QED
    BY <2>1, <1>0
<1>2. ASSUME NEW m \in Nodes PROVE d.children[m] \in Seq(B)
  <2>1. d.children[m] \in Seq(A)
    BY <1>0
  <2>2. ASSUME NEW i \in 1..Len(d.children[m]) PROVE d.children[m][i] \in B
    <3>1. d.children[m][i] \in A
      BY <2>1, ElementOfSeq
    <3>2. d.children[m][i] \in Members(d.children[m])
      BY <2>1, LenProperties DEF Members
    <3>3. d.parent[d.children[m][i]] = m
      BY <3>1, <3>2, <1>0 DEF Lists
    <3> QED
      BY <3>1, <3>3, <1>0
  <2> HIDE DEF B
  <2> QED
    BY <2>1, <2>2, LenProperties, IsASeq
<1>3. \A p \in Objects \ B : d.parent[p] = NoObject
  BY <1>0
<1>4. \A m \in Nodes \ B : d.children[m] = <<>>
  BY <1>0
<1>5. d.parent \in [Objects -> (B \intersect Nodes) \union {NoObject}]
  BY <1>0, <1>1
<1>6. d.children \in [Nodes -> Seq(B)]
  <2> HIDE DEF B
  <2> QED
    BY <1>0, <1>2
<1> QED
  BY <1>0, <1>3, <1>4, <1>5, <1>6 DEF LinksOK

\* The destructors of an object that exists.
LEMMA DestroyedOK ==
  ASSUME NEW A, NEW t, LinksOK(t, A), NEW o \in A
  PROVE  /\ LinksOK(Destroyed(t, o), A \ {o})
         /\ \A p \in Objects : Destroyed(t, o).parent[p] \in {NoObject, t.parent[p]}
<1> DEFINE s == IF o \in Nodes THEN NodeDestroyed(t, o) ELSE t
           d == Detach(s, o)
<1>1. Destroyed(t, o) = d
  BY DEF Destroyed
<1>0. A \in SUBSET Objects /\ o \in Objects
  BY DEF LinksOK
<1>2. /\ LinksOK(s, A)
      /\ o \in Nodes => s.children[o] = <<>>
      /\ \A p \in Objects : s.parent[p] \in {NoObject, t.parent[p]}
  <2>1. CASE o \in Nodes
    <3>1. s = NodeDestroyed(t, o)
      BY <2>1
    <3> HIDE DEF s
    <3>2. /\ LinksOK(NodeDestroyed(t, o), A)
          /\ NodeDestroyed(t, o).children[o] = <<>>
          /\ \A p \in Objects : NodeDestroyed(t, o).parent[p] \in {NoObject, t.parent[p]}
      BY <2>1, NodeDestroyedOK
    <3> QED
      BY <3>1, <3>2
  <2>2. CASE o \notin Nodes
    BY <2>2
  <2> QED
    BY <2>1, <2>2
<1> HIDE DEF s
<1>4. /\ LinksOK(d, A)
      /\ \A p \in Objects : d.parent[p] = IF p = o THEN NoObject ELSE s.parent[p]
      /\ \A m \in Nodes : s.children[m] = <<>> => d.children[m] = <<>>
  BY <1>0, <1>2, DetachOK
<1> HIDE DEF d
<1>5. d.parent[o] = NoObject
  BY <1>0, <1>4
<1>6. LinksOK(d, A \ {o})
  BY <1>2, <1>4, <1>5, ForgetOK
<1>7. \A p \in Objects : d.parent[p] \in {NoObject, t.parent[p]}
  BY <1>2, <1>4
<1> QED
  BY <1>1, <1>6, <1>7

-----------------------------------------------------------------------------
(* No object is above itself *)

\* Every set of objects has one whose parent is not in it.
NoCycle(q) == \A S \in SUBSET Objects : S # {} => \E x \in S : q[x] \notin S

\* Objects that leave their parents close no cycle.
LEMMA CutNoCycle ==
  ASSUME NEW q, NEW r, NoCycle(q), \A o \in Objects : r[o] \in {NoObject, q[o]}
  PROVE  NoCycle(r)
<1> SUFFICES ASSUME NEW S \in SUBSET Objects, S # {} PROVE \E x \in S : r[x] \notin S
  BY DEF NoCycle
<1>1. PICK x \in S : q[x] \notin S
  BY DEF NoCycle
<1>2. NoObject \notin S
  BY TreeAssumption
<1> QED
  BY <1>1, <1>2

\* Nor does an object that is put under one that is not below it: what is below
\* it may be taken from a closed set that holds both.
LEMMA MoveNoCycle ==
  ASSUME alive \in SUBSET Objects, NoCycle(parent), \A p \in Objects \ alive : parent[p] = NoObject,
         NEW n \in alive, NEW o \in alive, ~Below(n, o),
         NEW r, \A p \in Objects : r[p] = IF p = o THEN n ELSE parent[p]
  PROVE  NoCycle(r)
<1> SUFFICES ASSUME NEW S \in SUBSET Objects, S # {}, \A x \in S : r[x] \in S PROVE FALSE
  BY DEF NoCycle
<1>1. o \in S
  <2>1. PICK x \in S : parent[x] \notin S
    BY DEF NoCycle
  <2> QED
    BY <2>1
<1>2. n \in S
  BY <1>1
<1>3. PICK D \in SUBSET alive :
        o \in D /\ (\A x \in alive : parent[x] \in D => x \in D) /\ n \notin D
  BY DEF Below
<1>4. ASSUME NEW x \in S \ D PROVE parent[x] \in S \ D
  <2>1. x # o /\ parent[x] = r[x] /\ parent[x] \in S
    BY <1>3, <1>4
  <2>2. NoObject \notin S
    BY TreeAssumption
  <2>3. x \in alive
    BY <2>1, <2>2
  <2> QED
    BY <2>1, <2>3, <1>3
<1> QED
  BY <1>2, <1>3, <1>4 DEF NoCycle

\* A new object is above no other.
LEMMA ConstructNoCycle ==
  ASSUME alive \in SUBSET Objects, NoCycle(parent),
         \A p \in Objects : parent[p] \in alive \union {NoObject},
         NEW n \in alive, NEW o \in Objects \ alive,
         NEW r, \A p \in Objects : r[p] = IF p = o THEN n ELSE parent[p]
  PROVE  NoCycle(r)
<1> SUFFICES ASSUME NEW S \in SUBSET Objects, S # {}, \A x \in S : r[x] \in S PROVE FALSE
  BY DEF NoCycle
<1>1. NoObject \notin S
  BY TreeAssumption
<1>2. S \ {o} # {}
  BY <1>1
<1>3. ASSUME NEW x \in S \ {o} PROVE parent[x] \in S \ {o}
  BY <1>1
<1> QED
  BY <1>2, <1>3 DEF NoCycle

-----------------------------------------------------------------------------
(* The invariant *)

IInv ==
  /\ alive \in SUBSET Objects
  /\ IsFiniteSet(alive)
  /\ name \in [Objects -> Names]
  /\ Root \in alive
  /\ parent[Root] = NoObject
  /\ LinksOK(Links, alive)
  /\ NoCycle(parent)

\* What detach leaves of the links of the tree itself.
LEMMA DetachFromTree ==
  ASSUME LinksOK(Links, alive), NEW o \in Objects
  PROVE  /\ LinksOK(Detach(Links, o), alive)
         /\ \A x \in Objects : Detach(Links, o).parent[x] = IF x = o THEN NoObject ELSE parent[x]
<1>1. Links.parent = parent
  BY DEF Links
<1>2. LinksOK(Detach(Links, o), alive)
  BY DetachOK
<1>3. \A x \in Objects : Detach(Links, o).parent[x] = IF x = o THEN NoObject ELSE Links.parent[x]
  BY DetachOK
<1> QED
  BY <1>1, <1>2, <1>3

LEMMA InitIInv == Init => IInv
<1> SUFFICES ASSUME Init PROVE IInv
  OBVIOUS
<1>1. Links.parent = [o \in Objects |-> NoObject] /\ Links.children = [n \in Nodes |-> <<>>]
  BY DEF Init, Links
<1>2. <<>> \in Seq(alive) /\ alive \in SUBSET Objects
  BY EmptySeq, TreeAssumption DEF Init, Objects
<1>3. \A n \in Nodes : Lists(Links, n)
  <2>1. Members(<<>>) = {} /\ Injective(<<>>)
    BY DEF Members, Injective
  <2> QED
    BY <2>1, <1>1, TreeAssumption DEF Lists, Objects
<1>4. LinksOK(Links, alive)
  BY <1>1, <1>2, <1>3 DEF LinksOK
<1>5. NoCycle(parent)
  BY TreeAssumption DEF Init, NoCycle
<1>6. IsFiniteSet(alive)
  BY FS_Singleton DEF Init
<1> QED
  BY <1>4, <1>5, <1>6, TreeAssumption DEF Init, IInv, Objects

\* What an operation leaves behind when it replaces the links by t.
LEMMA BecomeIInv ==
  ASSUME NEW t, Become(t), alive' \in SUBSET Objects, IsFiniteSet(alive'), name' \in [Objects -> Names],
         Root \in alive', t.parent[Root] = NoObject, LinksOK(t, alive'), NoCycle(t.parent)
  PROVE  IInv'
<1>1. Links'.parent = t.parent /\ Links'.children = t.children
  BY DEF Become, Links
<1>2. LinksOK(Links, alive)'
  BY <1>1 DEF LinksOK, Lists
<1>3. NoCycle(parent)'
  BY DEF NoCycle, Become
<1> QED
  BY <1>2, <1>3 DEF IInv, Become

LEMMA NextIInv ==
  ASSUME IInv, [Next]_vars
  PROVE  IInv'
<1> USE DEF IInv
<1>0. /\ parent \in [Objects -> (alive \intersect Nodes) \union {NoObject}]
      /\ Links.parent = parent
      /\ Root \in Objects
      /\ \A o \in Objects \ alive : parent[o] = NoObject
  BY DEF LinksOK, Links
<1>1. ASSUME NEW o \in Objects, NEW p \in Nodes \union {NoObject}, NEW n \in Names, Construct(o, p, n)
      PROVE  IInv'
  <2>1. /\ o \notin alive /\ o # Root /\ alive' = alive \union {o}
        /\ name' \in [Objects -> Names]
        /\ IsFiniteSet(alive')
    BY <1>1, FS_AddElement DEF Construct
  <2>2. CASE p = NoObject
    <3>1. Links' = Links
      BY <1>1, <2>2 DEF Construct, Links
    <3>2. LinksOK(Links, alive)'
      BY <2>1, <3>1 DEF LinksOK
    <3>3. parent' = parent
      BY <1>1, <2>2 DEF Construct
    <3>4. NoCycle(parent)'
      BY <3>3 DEF NoCycle
    <3> QED
      BY <2>1, <3>2, <3>3, <3>4
  <2>3. CASE p # NoObject
    <3> DEFINE t == AddChild([Links EXCEPT !.parent[o] = p], p, o)
    <3>1. p \in alive \intersect Nodes
      BY <1>1, <2>3 DEF Construct
    <3>2. LinksOK(t, alive \union {o}) /\ t.parent = [parent EXCEPT ![o] = p]
      BY <2>1, <3>1, ConstructOK
    <3>3. Become(t)
      BY <1>1, <2>3 DEF Construct
    <3> HIDE DEF t
    <3>4. t.parent[Root] = NoObject
      BY <2>1, <3>2, <1>0
    <3>5. NoCycle(t.parent)
      <4>1. \A x \in Objects : t.parent[x] = IF x = o THEN p ELSE parent[x]
        BY <3>2, <1>0
      <4>2. \A x \in Objects : parent[x] \in alive \union {NoObject}
        BY <1>0
      <4> QED
        BY <4>1, <4>2, <3>1, <2>1, ConstructNoCycle
    <3> QED
      BY <2>1, <3>2, <3>3, <3>4, <3>5, BecomeIInv
  <2> QED
    BY <2>2, <2>3
<1>2. ASSUME NEW o \in Objects, Destroy(o) PROVE IInv'
  <2>1. /\ o \in alive /\ o # Root /\ alive' = alive \ {o} /\ IsFiniteSet(alive')
        /\ name' = name /\ Become(Destroyed(Links, o))
    BY <1>2, FS_RemoveElement DEF Destroy
  <2>2. /\ LinksOK(Destroyed(Links, o), alive \ {o})
        /\ \A p \in Objects : Destroyed(Links, o).parent[p] \in {NoObject, parent[p]}
    <3>1. LinksOK(Links, alive)
      OBVIOUS
    <3> QED
      BY <2>1, <3>1, <1>0, DestroyedOK
  <2>3. Destroyed(Links, o).parent[Root] = NoObject
    BY <2>2, <1>0
  <2>4. NoCycle(Destroyed(Links, o).parent)
    BY <2>2, CutNoCycle
  <2> QED
    BY <2>1, <2>2, <2>3, <2>4, BecomeIInv
<1>3. ASSUME NEW o \in Objects, ResetNoParent(o) PROVE IInv'
  <2>1. /\ LinksOK(Detach(Links, o), alive)
        /\ \A x \in Objects : Detach(Links, o).parent[x] = IF x = o THEN NoObject ELSE parent[x]
    BY DetachFromTree
  <2>2. Detach(Links, o).parent[Root] = NoObject
    BY <2>1, <1>0
  <2>3. NoCycle(Detach(Links, o).parent)
    BY <2>1, CutNoCycle
  <2> QED
    BY <1>3, <2>1, <2>2, <2>3, BecomeIInv DEF ResetNoParent
<1>4. ASSUME NEW o \in Objects, NEW n \in Names, Rename(o, n) PROVE IInv'
  <2>1. Links' = Links /\ alive' = alive /\ parent' = parent /\ name' \in [Objects -> Names]
    BY <1>4 DEF Rename, Links
  <2>2. LinksOK(Links, alive)'
    BY <2>1 DEF LinksOK
  <2>3. NoCycle(parent)'
    BY <2>1 DEF NoCycle
  <2> QED
    BY <2>1, <2>2, <2>3
<1>5. ASSUME NEW o \in Objects, NEW n \in Nodes, Add(n, o) PROVE IInv'
  <2>1. /\ n \in alive \intersect Nodes /\ o \in alive /\ o # Root
        /\ alive' = alive /\ name' = name /\ Become(AddChild(Links, n, o))
    BY <1>5 DEF Add
  <2>2. /\ LinksOK(AddChild(Links, n, o), alive)
        /\ \A p \in Objects : AddChild(Links, n, o).parent[p] = IF p = o THEN n ELSE Links.parent[p]
    BY <2>1, <1>0, AddChildOK
  <2>3. AddChild(Links, n, o).parent[Root] = NoObject
    BY <2>1, <2>2, <1>0
  <2>4. ~Below(n, o) /\ \A p \in Objects : AddChild(Links, n, o).parent[p] = IF p = o THEN n ELSE parent[p]
    BY <1>5, <2>2, <1>0 DEF Add
  <2>5. NoCycle(AddChild(Links, n, o).parent)
    BY <2>1, <2>4, <1>0, MoveNoCycle
  <2> QED
    BY <2>1, <2>2, <2>3, <2>5, BecomeIInv
<1>6. ASSUME NEW o \in Objects, NEW n \in Nodes, RemoveFrom(n, o) PROVE IInv'
  <2>1. /\ LinksOK(RemoveChild(Links, n, o), alive)
        /\ \A p \in Objects : RemoveChild(Links, n, o).parent[p] =
             IF p = o /\ Links.parent[o] = n THEN NoObject ELSE Links.parent[p]
    BY RemoveChildOK
  <2>2. RemoveChild(Links, n, o).parent[Root] = NoObject
    BY <2>1, <1>0
  <2>3. NoCycle(RemoveChild(Links, n, o).parent)
    BY <2>1, <1>0, CutNoCycle
  <2> QED
    BY <1>6, <2>1, <2>2, <2>3, BecomeIInv DEF RemoveFrom
<1>7. ASSUME NEW o \in Objects, NEW p \in Nodes, ResetParent(o, p) PROVE IInv'
  <2> DEFINE d == Detach(Links, o)
  <2>1. /\ p \in alive \intersect Nodes /\ o \in alive /\ o # Root
        /\ alive' = alive /\ name' = name /\ Become(AddChild(d, p, o))
    BY <1>7 DEF ResetParent
  <2>2. /\ LinksOK(d, alive) /\ d.parent[Root] = NoObject
        /\ \A x \in Objects : d.parent[x] = IF x = o THEN NoObject ELSE parent[x]
    <3>1. LinksOK(d, alive) /\ \A x \in Objects : d.parent[x] = IF x = o THEN NoObject ELSE parent[x]
      BY DetachFromTree
    <3> HIDE DEF d
    <3>2. o # Root /\ parent[Root] = NoObject /\ Root \in Objects
      BY <1>0, <2>1
    <3> QED
      BY <3>1, <3>2
  <2> HIDE DEF d
  <2>3. /\ LinksOK(AddChild(d, p, o), alive)
        /\ \A x \in Objects : AddChild(d, p, o).parent[x] = IF x = o THEN p ELSE d.parent[x]
    BY <2>1, <2>2, AddChildOK
  <2>4. AddChild(d, p, o).parent[Root] = NoObject
    BY <2>1, <2>2, <2>3, <1>0
  <2>5. ~Below(p, o) /\ \A x \in Objects : AddChild(d, p, o).parent[x] = IF x = o THEN p ELSE parent[x]
    BY <1>7, <2>2, <2>3 DEF ResetParent
  <2>6. NoCycle(AddChild(d, p, o).parent)
    BY <2>1, <2>5, <1>0, MoveNoCycle
  <2> QED
    BY <2>1, <2>3, <2>4, <2>6, BecomeIInv
<1>8. CASE UNCHANGED vars
  <2>1. Links' = Links /\ alive' = alive
    BY <1>8 DEF vars, Links
  <2>2. LinksOK(Links, alive)'
    BY <2>1 DEF LinksOK
  <2>3. NoCycle(parent)'
    BY <1>8 DEF NoCycle, vars
  <2> QED
    BY <1>8, <2>2, <2>3 DEF vars
<1> QED
  BY <1>1, <1>2, <1>3, <1>4, <1>5, <1>6, <1>7, <1>8 DEF Next

LEMMA Invariance == Spec => []IInv
BY InitIInv, NextIInv, PTL DEF Spec

\* No object points to one that was destroyed, and the dictionary stays at the
\* root, for every set of nodes, parameters and names.
THEOREM TypeCorrect == Spec => []TypeOK
<1>1. IInv => TypeOK
  BY DEF IInv, LinksOK, Links, TypeOK
<1> QED
  BY <1>1, Invariance, PTL

\* node::children_ and object::parent_ agree after every operation.
THEOREM LinksAgree == Spec => []ListedByParent
<1>1. IInv => ListedByParent
  BY DEF IInv, LinksOK, Links, Lists, Injective, ListedByParent
<1> QED
  BY <1>1, Invariance, PTL

-----------------------------------------------------------------------------
(* Recursion towards the root *)

\* A function that is defined from its value for the parent.
IsRecursive(f, q, base, step) ==
  \A o \in Objects : f[o] = IF q[o] = NoObject THEN base[o] ELSE step[o][f[q[o]]]
HasRecursive(q, V, base, step) == \E f \in [Objects -> V] : IsRecursive(f, q, base, step)

\* It exists: it is the smallest relation that its definition closes.
LEMMA Recursion ==
  ASSUME NEW q \in [Objects -> Objects \union {NoObject}], NoCycle(q),
         NEW V, NEW base \in [Objects -> V], NEW step \in [Objects -> [V -> V]]
  PROVE  HasRecursive(q, V, base, step)
<1> DEFINE Closes(R, o) == IF q[o] = NoObject THEN <<o, base[o]>> \in R
                           ELSE \A v \in V : <<q[o], v>> \in R => <<o, step[o][v]>> \in R
           Closed(R) == \A o \in Objects : Closes(R, o)
           F == {p \in Objects \X V : \A R \in SUBSET (Objects \X V) : Closed(R) => p \in R}
           Only(o, v) == v \in V /\ <<o, v>> \in F /\ \A w \in V : <<o, w>> \in F => w = v
           bad == {o \in Objects : ~ \E v : Only(o, v)}
<1>1. /\ \A o \in Objects : base[o] \in V
      /\ \A o \in Objects, v \in V : step[o][v] \in V
  OBVIOUS
<1>2. ASSUME NEW o \in Objects PROVE Closes(F, o)
  <2>1. CASE q[o] = NoObject
    <3>1. <<o, base[o]>> \in Objects \X V
      BY <1>1
    <3>2. ASSUME NEW R \in SUBSET (Objects \X V), Closed(R) PROVE <<o, base[o]>> \in R
      BY <2>1, <3>2
    <3> QED
      BY <2>1, <3>1, <3>2
  <2>2. CASE q[o] # NoObject
    <3>1. ASSUME NEW v \in V, <<q[o], v>> \in F PROVE <<o, step[o][v]>> \in F
      <4>1. <<o, step[o][v]>> \in Objects \X V
        BY <1>1
      <4>2. ASSUME NEW R \in SUBSET (Objects \X V), Closed(R) PROVE <<o, step[o][v]>> \in R
        <5>1. <<q[o], v>> \in R
          BY <3>1, <4>2
        <5>2. Closes(R, o)
          BY <4>2
        <5> QED
          BY <2>2, <5>1, <5>2
      <4> QED
        BY <4>1, <4>2
    <3> QED
      BY <2>2, <3>1
  <2> QED
    BY <2>1, <2>2
<1>3. ASSUME NEW R \in SUBSET (Objects \X V), Closed(R) PROVE F \subseteq R
  BY <1>3
<1> DEFINE Val(o, v) == v \in V /\ <<o, v>> \in F
                        /\ IF q[o] = NoObject THEN v = base[o]
                           ELSE \A u \in V : <<q[o], u>> \in F => v = step[o][u]
<1>4. ASSUME NEW o \in Objects, NEW v, Val(o, v) PROVE Only(o, v)
  <2> SUFFICES ASSUME NEW w \in V, <<o, w>> \in F, w # v PROVE FALSE
    BY <1>4
  <2> DEFINE R == F \ {<<o, w>>}
  <2>1. R \in SUBSET (Objects \X V)
    OBVIOUS
  <2>2. ASSUME NEW x \in Objects PROVE Closes(R, x)
    <3>1. CASE q[x] = NoObject
      <4>1. <<x, base[x]>> \in F
        BY <1>2, <3>1
      <4>2. <<x, base[x]>> # <<o, w>>
        BY <1>4, <3>1
      <4> QED
        BY <3>1, <4>1, <4>2
    <3>2. CASE q[x] # NoObject
      <4>1. ASSUME NEW u \in V, <<q[x], u>> \in R PROVE <<x, step[x][u]>> \in R
        <5>1. <<q[x], u>> \in F
          BY <4>1
        <5>2. <<x, step[x][u]>> \in F
          BY <1>2, <3>2, <5>1
        <5>3. <<x, step[x][u]>> # <<o, w>>
          BY <1>4, <3>2, <5>1
        <5> QED
          BY <5>2, <5>3
      <4> QED
        BY <3>2, <4>1
    <3> QED
      BY <3>1, <3>2
  <2>3. F \subseteq R
    <3> HIDE DEF R, Closes, F
    <3> QED
      BY <2>1, <2>2, <1>3
  <2> QED
    BY <2>3
<1>5. bad = {}
  <2> SUFFICES ASSUME bad # {} PROVE FALSE
    OBVIOUS
  <2>1. PICK o \in bad : q[o] \notin bad
    <3> HIDE DEF Only
    <3> QED
      BY DEF NoCycle
  <2>2. CASE q[o] = NoObject
    <3>1. Val(o, base[o])
      BY <1>1, <1>2, <2>2
    <3> HIDE DEF Val, Only
    <3> QED
      BY <3>1, <1>4
  <2>3. CASE q[o] # NoObject
    <3>1. q[o] \in Objects
      BY <2>3
    <3>2. PICK u : Only(q[o], u)
      <4> HIDE DEF Only
      <4> QED
        BY <2>1, <3>1
    <3>3. <<o, step[o][u]>> \in F
      BY <1>2, <2>3, <3>2
    <3>4. Val(o, step[o][u])
      <4> HIDE DEF F
      <4> QED
        BY <3>2, <3>3, <2>3, <1>1
    <3> HIDE DEF Val, Only
    <3> QED
      BY <3>4, <1>4
  <2> QED
    BY <2>2, <2>3
<1> DEFINE f == [o \in Objects |-> CHOOSE v : Only(o, v)]
<1>6. ASSUME NEW o \in Objects PROVE Only(o, f[o])
  <2>1. \E v : Only(o, v)
    <3> HIDE DEF Only
    <3> QED
      BY <1>5
  <2> HIDE DEF Only
  <2> QED
    BY <2>1
<1>7. f \in [Objects -> V]
  <2>1. \A o \in Objects : f[o] \in V
    <3> HIDE DEF f, F
    <3> QED
      BY <1>6
  <2> HIDE DEF Only
  <2>2. f = [o \in Objects |-> f[o]]
    OBVIOUS
  <2> HIDE DEF f
  <2> QED
    BY <2>1, <2>2
<1> HIDE DEF f
<1>8. ASSUME NEW o \in Objects PROVE f[o] = IF q[o] = NoObject THEN base[o] ELSE step[o][f[q[o]]]
  <2>1. CASE q[o] = NoObject
    <3>1. <<o, base[o]>> \in F
      BY <1>2, <2>1
    <3> HIDE DEF F
    <3> QED
      BY <3>1, <2>1, <1>1, <1>6
  <2>2. CASE q[o] # NoObject
    <3>1. q[o] \in Objects
      BY <2>2
    <3>2. f[q[o]] \in V /\ <<q[o], f[q[o]]>> \in F
      <4> HIDE DEF F
      <4> QED
        BY <3>1, <1>6
    <3>3. <<o, step[o][f[q[o]]]>> \in F
      BY <3>2, <1>2, <2>2
    <3> HIDE DEF F
    <3> QED
      BY <3>2, <3>3, <2>2, <1>1, <1>6
  <2> QED
    BY <2>1, <2>2
<1> QED
  BY <1>7, <1>8 DEF HasRecursive, IsRecursive

-----------------------------------------------------------------------------
(* What the links say of an object *)

\* The links of every reachable state.
InOrder ==
  /\ IsFiniteSet(alive)
  /\ name \in [Objects -> Names]
  /\ parent \in [Objects -> (alive \intersect Nodes) \union {NoObject}]
  /\ alive \in SUBSET Objects
  /\ Root \in alive /\ parent[Root] = NoObject
  /\ \A o \in Objects \ alive : parent[o] = NoObject
  /\ \A n \in Nodes : children[n] \in Seq(alive)
  /\ \A n \in Nodes : Lists(Links, n)
  /\ NoCycle(parent)

LEMMA OrderKept == IInv => InOrder
BY DEF IInv, InOrder, LinksOK, Links

LEMMA ParentFacts ==
  ASSUME InOrder, NEW o \in Objects
  PROVE  parent[o] \in Objects \union {NoObject} /\ parent \in [Objects -> Objects \union {NoObject}]
BY DEF InOrder, Objects

\* object::fq_name is never empty: it ends in the name of the object.
LEMMA FqNameFacts ==
  ASSUME InOrder
  PROVE  \A o \in Objects :
           /\ FqName[o] \in Seq(Names)
           /\ Len(FqName[o]) > 0
           /\ FqName[o] = IF parent[o] = NoObject THEN <<name[o]>> ELSE Append(FqName[parent[o]], name[o])
<1> DEFINE V == Seq(Names)
           base == [o \in Objects |-> <<name[o]>>]
           step == [o \in Objects |-> [v \in V |-> Append(v, name[o])]]
           Def(f) == f = [o \in Objects |-> IF parent[o] = NoObject THEN <<name[o]>>
                                            ELSE Append(f[parent[o]], name[o])]
<1>0. /\ name \in [Objects -> Names] /\ NoCycle(parent)
      /\ parent \in [Objects -> Objects \union {NoObject}]
  BY DEF InOrder, Objects
<1>1. base \in [Objects -> V] /\ step \in [Objects -> [V -> V]]
  <2>1. \A o \in Objects : <<name[o]>> \in Seq(Names)
    BY <1>0
  <2>2. \A o \in Objects, v \in V : Append(v, name[o]) \in V
    BY <1>0, AppendProperties
  <2> QED
    BY <2>1, <2>2
<1>2. \E f : Def(f)
  <2> HIDE DEF base, step
  <2>0. HasRecursive(parent, V, base, step)
    BY <1>0, <1>1, Recursion
  <2>1. PICK f \in [Objects -> V] : \A o \in Objects :
          f[o] = IF parent[o] = NoObject THEN base[o] ELSE step[o][f[parent[o]]]
    BY <2>0 DEF HasRecursive, IsRecursive
  <2>2. ASSUME NEW o \in Objects
        PROVE  f[o] = IF parent[o] = NoObject THEN <<name[o]>> ELSE Append(f[parent[o]], name[o])
    <3>1. parent[o] # NoObject => f[parent[o]] \in V
      BY <1>0
    <3> QED
      BY <2>1, <3>1 DEF base, step
  <2>3. Def(f)
    BY <2>2
  <2> QED
    BY <2>3
<1>3. Def(FqName)
  <2>1. FqName = CHOOSE f : Def(f)
    BY DEF FqName
  <2> HIDE DEF Def
  <2> QED
    BY <1>2, <2>1
<1>4. \A o \in Objects :
        FqName[o] = IF parent[o] = NoObject THEN <<name[o]>> ELSE Append(FqName[parent[o]], name[o])
  BY <1>3
<1> DEFINE Good(o) == FqName[o] \in Seq(Names) /\ Len(FqName[o]) > 0
           bad == {o \in Objects : ~Good(o)}
<1>5. bad = {}
  <2> SUFFICES ASSUME bad # {} PROVE FALSE
    OBVIOUS
  <2>1. PICK o \in bad : parent[o] \notin bad
    <3> HIDE DEF Good
    <3> QED
      BY <1>0 DEF NoCycle
  <2>2. CASE parent[o] = NoObject
    <3>1. <<name[o]>> \in Seq(Names) /\ Len(<<name[o]>>) > 0
      BY <1>0
    <3> QED
      BY <2>1, <2>2, <3>1, <1>4
  <2>3. CASE parent[o] # NoObject
    <3>1. Good(parent[o])
      <4> HIDE DEF Good
      <4> QED
        BY <1>0, <2>1, <2>3
    <3>2. /\ Append(FqName[parent[o]], name[o]) \in Seq(Names)
          /\ Len(Append(FqName[parent[o]], name[o])) = Len(FqName[parent[o]]) + 1
      BY <3>1, <1>0, AppendProperties
    <3>3. Len(FqName[parent[o]]) \in Nat
      BY <3>1, LenProperties
    <3>4. FqName[o] = Append(FqName[parent[o]], name[o])
      BY <2>3, <1>4
    <3>5. Len(Append(FqName[parent[o]], name[o])) > 0
      BY <3>1, <3>2, <3>3
    <3>6. Good(o)
      BY <3>2, <3>4, <3>5
    <3> QED
      BY <2>1, <3>6
  <2> QED
    BY <2>2, <2>3
<1> QED
  BY <1>4, <1>5

\* object::get_object_dictionary.
LEMMA AttachedFacts ==
  ASSUME InOrder
  PROVE  \A o \in Objects :
           Attached[o] <=> o = Root \/ (parent[o] # NoObject /\ Attached[parent[o]])
<1> DEFINE base == [o \in Objects |-> o = Root]
           step == [o \in Objects |-> [v \in BOOLEAN |-> o = Root \/ v]]
           Def(f) == f = [o \in Objects |-> o = Root \/ (parent[o] # NoObject /\ f[parent[o]])]
<1>0. NoCycle(parent) /\ parent \in [Objects -> Objects \union {NoObject}]
  BY DEF InOrder, Objects
<1>1. base \in [Objects -> BOOLEAN] /\ step \in [Objects -> [BOOLEAN -> BOOLEAN]]
  OBVIOUS
<1>2. \E f : Def(f)
  <2> HIDE DEF base, step
  <2>0. HasRecursive(parent, BOOLEAN, base, step)
    BY <1>0, <1>1, Recursion
  <2>1. PICK f \in [Objects -> BOOLEAN] : \A o \in Objects :
          f[o] = IF parent[o] = NoObject THEN base[o] ELSE step[o][f[parent[o]]]
    BY <2>0 DEF HasRecursive, IsRecursive
  <2>2. ASSUME NEW o \in Objects
        PROVE  f[o] = (o = Root \/ (parent[o] # NoObject /\ f[parent[o]]))
    <3>1. parent[o] # NoObject => f[parent[o]] \in BOOLEAN
      BY <1>0
    <3>2. f[o] \in BOOLEAN
      OBVIOUS
    <3>3. CASE parent[o] = NoObject
      <4>1. f[o] = base[o]
        BY <2>1, <3>3
      <4> QED
        BY <4>1, <3>3 DEF base
    <3>4. CASE parent[o] # NoObject
      <4>1. f[o] = step[o][f[parent[o]]]
        BY <2>1, <3>4
      <4>2. step[o][f[parent[o]]] = (o = Root \/ f[parent[o]])
        BY <3>1, <3>4 DEF step
      <4> QED
        BY <4>1, <4>2, <3>4
    <3> QED
      BY <3>3, <3>4
  <2>3. Def(f)
    BY <2>2
  <2> QED
    BY <2>3
<1>3. Def(Attached)
  <2>1. Attached = CHOOSE f : Def(f)
    BY DEF Attached
  <2> HIDE DEF Def
  <2> QED
    BY <1>2, <2>1
<1> QED
  BY <1>3

\* A namesake is listed before o.
Preceded(o) ==
  \E i, j \in DOMAIN children[parent[o]] :
    i < j /\ children[parent[o]][j] = o /\ name[children[parent[o]][i]] = name[o]

LEMMA ShadowedFacts ==
  ASSUME InOrder
  PROVE  \A o \in Objects :
           Shadowed[o] <=> parent[o] # NoObject /\ (Shadowed[parent[o]] \/ Preceded(o))
<1> DEFINE base == [o \in Objects |-> FALSE]
           step == [o \in Objects |-> [v \in BOOLEAN |-> v \/ Preceded(o)]]
           Def(f) == f = [o \in Objects |-> parent[o] # NoObject /\ (f[parent[o]] \/ Preceded(o))]
<1>0. NoCycle(parent) /\ parent \in [Objects -> Objects \union {NoObject}]
  BY DEF InOrder, Objects
<1>1. base \in [Objects -> BOOLEAN] /\ step \in [Objects -> [BOOLEAN -> BOOLEAN]]
  OBVIOUS
<1>2. \E f : Def(f)
  <2> HIDE DEF base, step
  <2>0. HasRecursive(parent, BOOLEAN, base, step)
    BY <1>0, <1>1, Recursion
  <2>1. PICK f \in [Objects -> BOOLEAN] : \A o \in Objects :
          f[o] = IF parent[o] = NoObject THEN base[o] ELSE step[o][f[parent[o]]]
    BY <2>0 DEF HasRecursive, IsRecursive
  <2>2. ASSUME NEW o \in Objects
        PROVE  f[o] = (parent[o] # NoObject /\ (f[parent[o]] \/ Preceded(o)))
    <3>1. parent[o] # NoObject => f[parent[o]] \in BOOLEAN
      BY <1>0
    <3>3. CASE parent[o] = NoObject
      <4>1. f[o] = base[o]
        BY <2>1, <3>3
      <4> QED
        BY <4>1, <3>3 DEF base
    <3>4. CASE parent[o] # NoObject
      <4>1. f[o] = step[o][f[parent[o]]]
        BY <2>1, <3>4
      <4>2. step[o][f[parent[o]]] = (f[parent[o]] \/ Preceded(o))
        BY <3>1, <3>4 DEF step
      <4> QED
        BY <4>1, <4>2, <3>4
    <3> QED
      BY <3>3, <3>4
  <2>3. Def(f)
    BY <2>2
  <2> QED
    BY <2>3
<1>3. Def(Shadowed)
  <2>1. Shadowed = CHOOSE f : Def(f)
    BY DEF Shadowed, Preceded
  <2> HIDE DEF Def
  <2> QED
    BY <1>2, <2>1
<1> QED
  BY <1>3

-----------------------------------------------------------------------------
(* Lookup *)

\* o is the first child of n with the name s.
FirstChild(n, s, o) == parent[o] = n /\ name[o] = s /\ ~Preceded(o)

\* node::find_child.
LEMMA FindChildFacts ==
  ASSUME InOrder, NEW n \in Nodes, NEW s
  PROVE  /\ FindChild(n, s) \in alive \union {NoObject}
         /\ \A o \in Objects : FindChild(n, s) = o <=> FirstChild(n, s, o)
<1> DEFINE c == children[n]
           at == {i \in DOMAIN c : name[c[i]] = s}
<1>0. /\ c \in Seq(alive) /\ DOMAIN c = 1..Len(c) /\ Len(c) \in Nat
      /\ Lists(Links, n) /\ Links.children[n] = c /\ Links.parent = parent
      /\ NoObject \notin Objects /\ alive \subseteq Objects
  BY LenProperties, TreeAssumption DEF InOrder, Links
<1>1. ASSUME NEW i \in DOMAIN c PROVE c[i] \in alive /\ c[i] \in Objects /\ parent[c[i]] = n
  <2>1. c[i] \in alive
    BY <1>0, ElementOfSeq
  <2>2. c[i] \in Members(c)
    BY DEF Members
  <2> QED
    BY <1>0, <2>1, <2>2 DEF Lists
<1>2. ASSUME NEW i \in DOMAIN c, NEW j \in DOMAIN c, c[i] = c[j] PROVE i = j
  BY <1>0, <1>2 DEF Lists, Injective
<1>3. FindChild(n, s) = IF at = {} THEN NoObject ELSE c[Min(at)]
  BY DEF FindChild
<1> HIDE DEF at
<1>4. CASE at = {}
  <2>1. ASSUME NEW o \in Objects, FirstChild(n, s, o) PROVE FALSE
    <3>1. o \in Members(c)
      BY <1>0, <2>1 DEF FirstChild, Lists
    <3>2. PICK i \in DOMAIN c : c[i] = o
      BY <3>1 DEF Members
    <3> QED
      BY <3>2, <2>1, <1>4 DEF FirstChild, at
  <2> QED
    BY <1>0, <1>3, <1>4, <2>1
<1>5. CASE at # {}
  <2> DEFINE m == Min(at)
  <2>1. m \in at /\ \A k \in at : m <= k
    <3>1. at \in SUBSET Nat
      BY <1>0 DEF at
    <3>2. \E k \in at : \A l \in at : k <= l
      BY <3>1, <1>5, LeastExists
    <3> QED
      BY <3>2 DEF Min
  <2> HIDE DEF m
  <2>2. m \in DOMAIN c /\ name[c[m]] = s
    BY <2>1 DEF at
  <2>3. FindChild(n, s) = c[m]
    BY <1>3, <1>5 DEF m
  <2>4. ASSUME NEW i \in DOMAIN c, i < m PROVE name[c[i]] # s
    <3>1. i \notin at
      BY <1>0, <2>1, <2>2, <2>4
    <3> QED
      BY <3>1 DEF at
  <2>5. FirstChild(n, s, c[m])
    <3>1. parent[c[m]] = n
      BY <1>1, <2>2
    <3>2. SUFFICES ASSUME NEW i \in DOMAIN c, NEW j \in DOMAIN c, i < j, c[j] = c[m], name[c[i]] = name[c[m]]
                   PROVE  FALSE
      BY <3>1, <2>2 DEF FirstChild, Preceded
    <3>3. j = m
      BY <1>2, <2>2, <3>2
    <3> QED
      BY <3>2, <3>3, <2>2, <2>4
  <2>6. ASSUME NEW o \in Objects, FirstChild(n, s, o) PROVE o = c[m]
    <3>1. parent[o] = n /\ name[o] = s /\ ~Preceded(o)
      BY <2>6 DEF FirstChild
    <3>2. o \in Members(c)
      BY <1>0, <3>1 DEF Lists
    <3>3. PICK j \in DOMAIN c : c[j] = o
      BY <3>2 DEF Members
    <3>4. ~(m < j)
      BY <3>1, <3>3, <2>2 DEF Preceded
    <3>5. ~(j < m)
      BY <3>1, <3>3, <2>4
    <3>6. j = m
      BY <3>4, <3>5, <1>0, <2>2
    <3> QED
      BY <3>3, <3>6
  <2>7. c[m] \in alive
    BY <1>1, <2>2
  <2> QED
    BY <2>3, <2>5, <2>6, <2>7
<1> QED
  BY <1>4, <1>5

\* One segment of node::find_descendant_object.
Walk(x, s) == IF x \in Nodes THEN FindChild(x, s) ELSE NoObject

\* What the first segments of u lead to, from n.
IsWalk(w, n, u) == w[0] = n /\ \A i \in 1..Len(u) : w[i] = Walk(w[i - 1], u[i])

LEMMA FindDescendantFacts ==
  ASSUME NEW n, NEW T, NEW u \in Seq(T)
  PROVE  \E w : IsWalk(w, n, u) /\ FindDescendant(n, u) = w[Len(u)]
<1> DEFINE IsRun(k, g) == g = [i \in 0..k |-> IF i = 0 THEN n
                                              ELSE IF g[i - 1] \in Nodes THEN FindChild(g[i - 1], u[i]) ELSE NoObject]
           P(k) == \E g : IsRun(k, g)
           bad == {k \in Nat : k <= Len(u) /\ ~P(k)}
<1>1. Len(u) \in Nat
  BY LenProperties
<1>2. P(0)
  <2> DEFINE g == [i \in 0..0 |-> n]
  <2>1. IsRun(0, g)
    OBVIOUS
  <2> QED
    BY <2>1
<1>3. ASSUME NEW k \in Nat, k < Len(u), P(k) PROVE P(k + 1)
  <2>1. PICK g : IsRun(k, g)
    BY <1>3
  <2> DEFINE v == Walk(g[k], u[k + 1])
             h == [i \in 0..(k + 1) |-> IF i = k + 1 THEN v ELSE g[i]]
  <2>2. ASSUME NEW i \in 0..(k + 1)
        PROVE  h[i] = IF i = 0 THEN n ELSE Walk(h[i - 1], u[i])
    <3>1. \A j \in 0..k : g[j] = IF j = 0 THEN n ELSE Walk(g[j - 1], u[j])
      BY <2>1 DEF Walk
    <3>2. CASE i = k + 1
      <4>1. h[i] = v /\ i # 0 /\ i - 1 = k /\ h[k] = g[k]
        BY <3>2
      <4> QED
        BY <4>1, <3>2
    <3>3. CASE i \in 0..k
      <4>1. h[i] = g[i] /\ i # k + 1
        BY <3>3
      <4>2. i # 0 => i - 1 \in 0..k /\ i - 1 # k + 1 /\ h[i - 1] = g[i - 1]
        BY <3>3
      <4> QED
        BY <4>1, <4>2, <3>1, <3>3
    <3> QED
      BY <3>2, <3>3
  <2>3. h = [i \in 0..(k + 1) |-> IF i = 0 THEN n ELSE Walk(h[i - 1], u[i])]
    BY <2>2
  <2> HIDE DEF h
  <2>4. IsRun(k + 1, h)
    BY <2>3 DEF Walk
  <2> QED
    BY <2>4
<1>4. bad = {}
  <2> SUFFICES ASSUME bad # {} PROVE FALSE
    OBVIOUS
  <2> HIDE DEF P
  <2>1. PICK m \in bad : \A k \in bad : m <= k
    BY LeastExists
  <2>2. m # 0 /\ m - 1 \in Nat /\ m - 1 < Len(u) /\ (m - 1) + 1 = m
    BY <1>1, <1>2
  <2>3. P(m - 1)
    BY <2>1, <2>2
  <2> QED
    BY <1>3, <2>2, <2>3
<1>5. PICK g : IsRun(Len(u), g)
  BY <1>1, <1>4
<1> DEFINE w == CHOOSE f : IsRun(Len(u), f)
<1>6. IsRun(Len(u), w) /\ FindDescendant(n, u) = w[Len(u)]
  BY <1>5 DEF FindDescendant
<1> HIDE DEF w
<1>7. w = [i \in 0..Len(u) |-> IF i = 0 THEN n ELSE Walk(w[i - 1], u[i])]
  BY <1>6 DEF Walk
<1>8. IsWalk(w, n, u)
  BY <1>1, <1>7 DEF IsWalk
<1> QED
  BY <1>6, <1>8

LEMMA AppendSame ==
  ASSUME NEW S, NEW a \in Seq(S), NEW b \in Seq(S), NEW x \in S, NEW y \in S
  PROVE  Append(a, x) = Append(b, y) <=> a = b /\ x = y
<1> SUFFICES ASSUME Append(a, x) = Append(b, y) PROVE a = b /\ x = y
  OBVIOUS
<1>1. /\ Len(Append(a, x)) = Len(a) + 1 /\ Append(a, x)[Len(a) + 1] = x
      /\ \A i \in 1..Len(a) : Append(a, x)[i] = a[i]
  BY AppendProperties
<1>2. /\ Len(Append(b, y)) = Len(b) + 1 /\ Append(b, y)[Len(b) + 1] = y
      /\ \A i \in 1..Len(b) : Append(b, y)[i] = b[i]
  BY AppendProperties
<1>3. Len(a) \in Nat /\ Len(b) \in Nat
  BY LenProperties
<1> DEFINE p == Append(a, x)
           q == Append(b, y)
<1>4. p = q
  OBVIOUS
<1> HIDE DEF p, q
<1>5. Len(a) = Len(b)
  <2>1. Len(p) = Len(a) + 1 /\ Len(q) = Len(b) + 1
    BY <1>1, <1>2 DEF p, q
  <2> QED
    BY <2>1, <1>3, <1>4
<1>6. x = y
  BY <1>1, <1>2, <1>4, <1>5 DEF p, q
<1>7. \A i \in 1..Len(a) : a[i] = b[i]
  BY <1>1, <1>2, <1>4, <1>5 DEF p, q
<1> QED
  BY <1>5, <1>6, <1>7, SeqEqual

Segments == Names \union {Empty}

LEMMA NameFacts ==
  ASSUME InOrder, NEW o \in Objects
  PROVE  name[o] \in Segments /\ FqName[o] \in Seq(Segments)
<1>1. FqName[o] \in Seq(Names)
  BY FqNameFacts
<1>2. Names \subseteq Segments
  BY DEF Segments
<1>3. name[o] \in Names
  BY DEF InOrder
<1> QED
  BY <1>1, <1>2, <1>3, SeqMonotonic

\* The first segment of a qualified name is that of the dictionary.
LEMMA FirstSegment ==
  ASSUME InOrder, NEW o \in Objects, Attached[o]
  PROVE  FqName[o][1] = name[Root]
<1> DEFINE Good(p) == Attached[p] => FqName[p][1] = name[Root]
           bad == {p \in Objects : ~Good(p)}
<1> SUFFICES ASSUME bad # {} PROVE FALSE
  OBVIOUS
<1>0. parent \in [Objects -> Objects \union {NoObject}] /\ NoCycle(parent) /\ parent[Root] = NoObject
  BY DEF InOrder, Objects
<1>1. PICK p \in bad : parent[p] \notin bad
  <2> HIDE DEF Good
  <2> QED
    BY <1>0 DEF NoCycle
<1>2. Attached[p] /\ FqName[p][1] # name[Root]
  BY <1>1
<1>3. CASE parent[p] = NoObject
  <2>1. p = Root /\ FqName[p] = <<name[p]>>
    BY <1>2, <1>3, AttachedFacts, FqNameFacts
  <2> QED
    BY <2>1, <1>2
<1>4. CASE parent[p] # NoObject
  <2> DEFINE n == parent[p]
             a == FqName[n]
  <2>1. n \in Objects /\ Attached[n]
    <3>1. n \in Objects
      BY <1>0, <1>4
    <3>2. p # Root
      BY <1>0, <1>4
    <3> QED
      BY <1>2, <3>1, <3>2, AttachedFacts
  <2>2. a[1] = name[Root]
    BY <1>1, <2>1
  <2> HIDE DEF n
  <2>3. a \in Seq(Segments) /\ Len(a) > 0 /\ name[p] \in Segments
    BY <2>1, NameFacts, FqNameFacts
  <2>4. FqName[p] = Append(a, name[p])
    BY <1>4, FqNameFacts DEF n
  <2> HIDE DEF a
  <2>5. Len(a) \in Nat /\ Append(a, name[p])[1] = a[1]
    <3>1. Len(a) \in Nat
      BY <2>3, LenProperties
    <3>2. 1 \in 1..Len(a)
      BY <2>3, <3>1
    <3> QED
      BY <2>3, <3>1, <3>2, AppendProperties
  <2> QED
    BY <2>2, <2>4, <2>5, <1>2
<1> QED
  BY <1>3, <1>4

\* o is what the first k segments of path name.
Named(o, path, k) == Attached[o] /\ FqName[o] = SubSeq(path, 1, k) /\ ~Shadowed[o]

\* The dictionary is named by a path of its name.
LEMMA RootIsNamed ==
  ASSUME InOrder, NEW path \in Seq(Segments), path # <<>>, path[1] = name[Root]
  PROVE  \A o \in Objects : Root = o <=> Named(o, path, 1)
<1>0. parent[Root] = NoObject /\ Root \in Objects /\ parent \in [Objects -> Objects \union {NoObject}]
  BY TreeAssumption DEF InOrder, Objects
<1>1. Len(path) \in Nat /\ Len(path) > 0
  BY EmptySeq, LenProperties
<1>2. /\ SubSeq(path, 1, 1) = <<path[1]>> /\ Len(SubSeq(path, 1, 1)) = 1
  <2>1. 1 \in 1..(Len(path) + 1) /\ 1 \in (1 - 1)..Len(path) /\ 1 - 1 + 1 = 1 /\ 1 \in 1..1 /\ 1 + 1 - 1 = 1
    BY <1>1
  <2>2. /\ SubSeq(path, 1, 1) \in Seq(Segments) /\ Len(SubSeq(path, 1, 1)) = 1
        /\ SubSeq(path, 1, 1)[1] = path[1]
    BY <2>1, SliceFacts
  <2>3. path[1] \in Segments /\ <<path[1]>> \in Seq(Segments) /\ Len(<<path[1]>>) = 1
    <3>1. path[1] \in Segments
      BY <1>1, ElementOfSeq
    <3> QED
      BY <3>1
  <2>4. <<path[1]>>[1] = path[1]
    OBVIOUS
  <2> DEFINE a == SubSeq(path, 1, 1)
             b == <<path[1]>>
  <2>5. a \in Seq(Segments) /\ b \in Seq(Segments) /\ Len(a) = 1 /\ Len(b) = 1 /\ a[1] = b[1]
    BY <2>2, <2>3, <2>4
  <2> HIDE DEF a, b
  <2>6. a = b
    <3>1. \A i \in 1..Len(a) : a[i] = b[i]
      BY <2>5
    <3> QED
      BY <3>1, <2>5, SeqEqual
  <2> QED
    BY <2>2, <2>6 DEF a, b
<1>3. Named(Root, path, 1)
  <2>1. Attached[Root] /\ ~Shadowed[Root] /\ FqName[Root] = <<name[Root]>>
    BY <1>0, AttachedFacts, ShadowedFacts, FqNameFacts
  <2> QED
    BY <2>1, <1>2 DEF Named
<1>4. ASSUME NEW o \in Objects, Named(o, path, 1) PROVE o = Root
  <2>1. CASE parent[o] = NoObject
    BY <2>1, <1>4, AttachedFacts DEF Named
  <2>2. CASE parent[o] # NoObject
    <3>1. parent[o] \in Objects
      BY <1>0, <2>2
    <3>2. /\ FqName[parent[o]] \in Seq(Names) /\ Len(FqName[parent[o]]) > 0 /\ name[o] \in Names
          /\ FqName[o] = Append(FqName[parent[o]], name[o])
      BY <2>2, <3>1, FqNameFacts DEF InOrder
    <3>3. Len(FqName[o]) = Len(FqName[parent[o]]) + 1 /\ Len(FqName[parent[o]]) \in Nat
      BY <3>2, AppendProperties, LenProperties
    <3>4. Len(FqName[o]) = 1
      BY <1>2, <1>4 DEF Named
    <3> QED
      BY <3>2, <3>3, <3>4
  <2> QED
    BY <2>1, <2>2
<1> QED
  BY <1>3, <1>4

\* Each further segment names the first child of that name.
LEMMA ChildIsNamed ==
  ASSUME InOrder, NEW path \in Seq(Segments), NEW k \in Nat, 0 < k, k < Len(path),
         NEW o \in Objects
  PROVE  Named(o, path, k + 1) <=>
           /\ parent[o] # NoObject /\ Named(parent[o], path, k)
           /\ name[o] = path[k + 1] /\ ~Preceded(o)
<1>0. parent[Root] = NoObject /\ Root \in Objects /\ parent \in [Objects -> Objects \union {NoObject}]
  BY TreeAssumption DEF InOrder, Objects
<1> DEFINE s == SubSeq(path, 1, k)
           t == SubSeq(path, 1, k + 1)
           x == path[k + 1]
           g == FqName[o]
<1>1. t = Append(s, x) /\ x \in Segments
  <2>1. 1 \in 1..(k + 1)
    OBVIOUS
  <2> QED
    BY <2>1, SliceAppend
<1>2. s \in Seq(Segments) /\ Len(s) = k /\ Len(s) > 0
  <2>1. 1 \in 1..(Len(path) + 1) /\ k \in (1 - 1)..Len(path) /\ k - 1 + 1 = k
    BY LenProperties
  <2> QED
    BY <2>1, SliceFacts
<1>3. CASE parent[o] = NoObject
  <2>1. g = <<name[o]>>
    BY <1>3, FqNameFacts
  <2> HIDE DEF s, t, x, g
  <2>2. Len(t) # 1
    <3>1. Len(t) = k + 1
      BY <1>1, <1>2, AppendProperties
    <3> QED
      BY <3>1
  <2>3. g # t
    <3>1. Len(g) = 1
      BY <2>1
    <3> QED
      BY <2>2, <3>1
  <2> QED
    BY <1>3, <2>3 DEF Named, t, g
<1>4. CASE parent[o] # NoObject
  <2> DEFINE a == FqName[parent[o]]
             y == name[o]
  <2>1. parent[o] \in Objects /\ o # Root
    BY <1>0, <1>4
  <2>2. a \in Seq(Segments) /\ y \in Segments /\ g = Append(a, y)
    BY <1>4, <2>1, NameFacts, FqNameFacts
  <2>3. Attached[o] <=> Attached[parent[o]]
    BY <2>1, <1>4, AttachedFacts
  <2>4. Shadowed[o] <=> (Shadowed[parent[o]] \/ Preceded(o))
    BY <1>4, ShadowedFacts
  <2> HIDE DEF a, s, t, x, g, y
  <2>5. g = t <=> a = s /\ y = x
    <3>1. a \in Seq(Segments) /\ s \in Seq(Segments) /\ y \in Segments /\ x \in Segments
      BY <1>1, <1>2, <2>2
    <3>2. Append(a, y) = Append(s, x) <=> a = s /\ y = x
      BY <3>1, AppendSame
    <3> QED
      BY <1>1, <1>2, <2>2, <3>2
  <2> QED
    BY <1>4, <2>3, <2>4, <2>5 DEF Named, a, s, t, x, g, y
<1> QED
  BY <1>3, <1>4

\* Behind each segment, the walk is at the object that the segments name.
LEMMA WalkFinds ==
  ASSUME InOrder, NEW path \in Seq(Segments), path # <<>>, path[1] = name[Root],
         NEW w, IsWalk(w, Root, Tail(path))
  PROVE  \A i \in 0..(Len(path) - 1) :
           /\ w[i] \in alive \union {NoObject}
           /\ \A o \in Objects : w[i] = o <=> Named(o, path, i + 1)
<1> DEFINE Good(i) == /\ w[i] \in alive \union {NoObject}
                      /\ \A o \in Objects : w[i] = o <=> Named(o, path, i + 1)
           bad == {i \in Nat : i < Len(path) /\ ~Good(i)}
<1>0. /\ Len(path) \in Nat /\ Len(path) > 0
      /\ Len(Tail(path)) = Len(path) - 1
      /\ \A i \in 1..(Len(path) - 1) : Tail(path)[i] = path[i + 1]
  BY EmptySeq, LenProperties, HeadTailProperties
<1>1. Good(0)
  <2>1. w[0] = Root /\ Root \in alive
    BY DEF IsWalk, InOrder
  <2>2. \A o \in Objects : Root = o <=> Named(o, path, 0 + 1)
    BY RootIsNamed
  <2> QED
    BY <2>1, <2>2
<1>2. ASSUME NEW i \in Nat, i + 1 < Len(path), Good(i) PROVE Good(i + 1)
  <2> DEFINE x == path[(i + 1) + 1]
  <2>1. w[i + 1] = Walk(w[i], x)
    <3>1. i + 1 \in 1..(Len(path) - 1) /\ (i + 1) - 1 = i
      BY <1>0, <1>2
    <3>2. w[i + 1] = Walk(w[(i + 1) - 1], Tail(path)[i + 1])
      BY <3>1, <1>0 DEF IsWalk
    <3>3. Tail(path)[i + 1] = x
      BY <3>1, <1>0
    <3> QED
      BY <3>1, <3>2, <3>3
  <2> HIDE DEF x
  <2>2. ASSUME NEW o \in Objects
        PROVE  Named(o, path, (i + 1) + 1) <=>
                 /\ parent[o] # NoObject /\ parent[o] = w[i]
                 /\ name[o] = x /\ ~Preceded(o)
    <3>1. i + 1 \in Nat /\ 0 < i + 1
      BY <1>2
    <3>2. Named(o, path, (i + 1) + 1) <=>
            /\ parent[o] # NoObject /\ Named(parent[o], path, i + 1)
            /\ name[o] = x /\ ~Preceded(o)
      BY <3>1, <1>2, ChildIsNamed DEF x
    <3>3. parent[o] # NoObject => parent[o] \in Objects
      BY DEF InOrder
    <3>4. parent[o] # NoObject => (Named(parent[o], path, i + 1) <=> w[i] = parent[o])
      BY <3>3, <1>2
    <3> QED
      BY <3>2, <3>4
  <2>3. CASE w[i] \in Nodes
    <3>1. w[i + 1] = FindChild(w[i], x) /\ w[i] # NoObject
      BY <2>1, <2>3, TreeAssumption DEF Walk, Objects
    <3>2. /\ FindChild(w[i], x) \in alive \union {NoObject}
          /\ \A o \in Objects : FindChild(w[i], x) = o <=> FirstChild(w[i], x, o)
      BY <2>3, FindChildFacts
    <3>3. \A o \in Objects : w[i + 1] = o <=> Named(o, path, (i + 1) + 1)
      BY <2>2, <3>1, <3>2 DEF FirstChild
    <3> QED
      BY <3>1, <3>2, <3>3
  <2>4. CASE w[i] \notin Nodes
    <3>1. w[i + 1] = NoObject
      BY <2>1, <2>4 DEF Walk
    <3>2. \A o \in Objects : ~Named(o, path, (i + 1) + 1)
      BY <2>2, <2>4 DEF InOrder
    <3>3. NoObject \notin Objects
      BY TreeAssumption
    <3> QED
      BY <3>1, <3>2, <3>3
  <2> QED
    BY <2>3, <2>4
<1>3. bad = {}
  <2> SUFFICES ASSUME bad # {} PROVE FALSE
    OBVIOUS
  <2> HIDE DEF Good
  <2>1. PICK m \in bad : \A k \in bad : m <= k
    BY LeastExists
  <2>2. m \in Nat /\ m < Len(path) /\ ~Good(m)
    BY <2>1
  <2>3. m - 1 \in Nat /\ (m - 1) + 1 = m /\ m - 1 < Len(path)
    BY <1>0, <1>1, <2>2
  <2>4. Good(m - 1)
    BY <2>1, <2>2, <2>3
  <2>5. Good((m - 1) + 1)
    BY <1>2, <2>2, <2>3, <2>4
  <2> QED
    BY <2>2, <2>3, <2>5
<1>4. \A i \in 0..(Len(path) - 1) : Good(i)
  <2> HIDE DEF Good
  <2> QED
    BY <1>0, <1>3
<1> QED
  BY <1>4

\* The path that object_dictionary::find_object looks for.
Path(u) == IF u[1] = Empty /\ Len(u) > 1 THEN Tail(u) ELSE u

\* object_dictionary::find_object finds what a URI names, whatever its length.
LEMMA FindObjectFacts ==
  ASSUME InOrder, NEW u \in Seq(Segments), u # <<>>
  PROVE  /\ FindObject(u) \in alive \union {NoObject}
         /\ \A o \in alive :
              FindObject(u) = o <=> Attached[o] /\ FqName[o] = Path(u) /\ ~Shadowed[o]
<1> DEFINE path == Path(u)
<1>0. /\ path \in Seq(Segments) /\ path # <<>> /\ Len(path) \in Nat /\ Len(path) > 0
  <2>1. Len(u) \in Nat /\ Len(u) > 0
    BY EmptySeq, LenProperties
  <2>2. CASE u[1] = Empty /\ Len(u) > 1
    <3>1. Tail(u) \in Seq(Segments) /\ Len(Tail(u)) = Len(u) - 1
      BY HeadTailProperties
    <3>2. path = Tail(u)
      BY <2>2 DEF Path
    <3>3. Len(path) \in Nat /\ Len(path) > 0
      BY <2>1, <2>2, <3>1, <3>2
    <3> HIDE DEF path
    <3>4. path \in Seq(Segments)
      BY <3>1, <3>2
    <3>5. path # <<>>
      BY <3>3, EmptySeq
    <3> QED
      BY <3>3, <3>4, <3>5
  <2>3. CASE ~(u[1] = Empty /\ Len(u) > 1)
    <3>1. path = u
      BY <2>3 DEF Path
    <3> QED
      BY <2>1, <3>1
  <2> QED
    BY <2>2, <2>3
<1>1. FindObject(u) = IF path[1] # name[Root] THEN NoObject
                      ELSE IF Len(path) = 1 THEN Root
                      ELSE FindDescendant(Root, Tail(path))
  BY DEF FindObject, Path
<1>2. NoObject \notin Objects /\ alive \subseteq Objects /\ Root \in alive
  BY TreeAssumption DEF InOrder
<1> HIDE DEF path
<1>3. CASE path[1] # name[Root]
  <2>1. \A o \in alive : ~(Attached[o] /\ FqName[o] = path)
    BY <1>2, <1>3, FirstSegment
  <2>2. FindObject(u) = NoObject
    BY <1>1, <1>3
  <2> QED
    BY <2>1, <2>2, <1>2 DEF path
<1>4. CASE path[1] = name[Root]
  <2>1. /\ Tail(path) \in Seq(Segments) /\ Len(Tail(path)) = Len(path) - 1
    BY <1>0, HeadTailProperties
  <2>2. PICK w : IsWalk(w, Root, Tail(path)) /\ FindDescendant(Root, Tail(path)) = w[Len(Tail(path))]
    BY <2>1, FindDescendantFacts
  <2> DEFINE i == Len(path) - 1
  <2>3. i \in 0..(Len(path) - 1) /\ i + 1 = Len(path) /\ (i = 0 <=> Len(path) = 1)
    BY <1>0
  <2>4. FindObject(u) = w[i]
    <3>1. CASE Len(path) = 1
      <4>1. w[i] = Root
        BY <2>2, <2>3, <3>1 DEF IsWalk
      <4> QED
        BY <4>1, <1>1, <1>4, <3>1
    <3>2. CASE Len(path) # 1
      BY <1>1, <1>4, <3>2, <2>1, <2>2
    <3> QED
      BY <3>1, <3>2
  <2>5. /\ w[i] \in alive \union {NoObject}
        /\ \A o \in Objects : w[i] = o <=> Named(o, path, i + 1)
    <3> HIDE DEF i
    <3> QED
      BY <1>0, <1>4, <2>2, <2>3, WalkFinds
  <2>6. SubSeq(path, 1, i + 1) = path
    BY <1>0, <2>3, SubSeqFull
  <2> HIDE DEF i
  <2> QED
    BY <1>2, <2>4, <2>5, <2>6 DEF Named, path
<1> QED
  BY <1>3, <1>4

\* The URIs that TLC looks up are among those.
LEMMA UrisFacts ==
  ASSUME NEW u \in Uris
  PROVE  u \in Seq(Segments) /\ u # <<>>
<1>1. ASSUME NEW n \in 1..3, NEW v \in [1..n -> Names]
      PROVE  v \in Seq(Segments) /\ Len(v) = n /\ n > 0
  <2>1. v \in Seq(Names) /\ Len(v) = n
    BY <1>1
  <2>2. Names \subseteq Segments
    BY DEF Segments
  <2> QED
    BY <2>1, <2>2, SeqMonotonic
<1> DEFINE paths == UNION {[1..n -> Names] : n \in 1..3}
<1>2. ASSUME NEW v \in paths PROVE v \in Seq(Segments) /\ Len(v) > 0
  <2>1. PICK n \in 1..3 : v \in [1..n -> Names]
    BY <1>2
  <2> QED
    BY <2>1, <1>1
<1>3. Empty \in Segments /\ <<Empty>> \in Seq(Segments) /\ <<Empty, Empty>> \in Seq(Segments)
  BY DEF Segments
<1>4. CASE u \in {<<Empty>>, <<Empty, Empty>>}
  <2>1. <<Empty>> # <<>> /\ <<Empty, Empty>> # <<>>
    OBVIOUS
  <2> QED
    BY <1>3, <1>4, <2>1
<1> HIDE DEF paths
<1>5. CASE u \in paths
  <2>1. u \in Seq(Segments) /\ Len(u) > 0
    BY <1>2, <1>5
  <2> QED
    BY <2>1, EmptySeq
<1>6. CASE u \in {<<Empty>> \o v : v \in paths}
  <2>1. PICK v \in paths : u = <<Empty>> \o v
    BY <1>6
  <2>2. u \in Seq(Segments) /\ Len(u) = 1 + Len(v)
    <3>1. Len(<<Empty>>) = 1
      OBVIOUS
    <3> QED
      BY <2>1, <3>1, <1>2, <1>3, ConcatProperties
  <2>3. Len(v) \in Nat
    BY <1>2, LenProperties
  <2> QED
    BY <2>2, <2>3, EmptySeq
<1>7. CASE u \in {Append(v, Empty) : v \in paths}
  BY <1>2, <1>3, <1>7, AppendProperties
<1> QED
  BY <1>4, <1>5, <1>6, <1>7 DEF Uris, paths

\* A URI finds the object whose qualified name it is, and nothing else, after
\* any operations of the server, for every set of nodes, parameters and names.
THEOREM LookupCorrect == Spec => []LookupFindsNamed
<1>1. IInv => LookupFindsNamed
  <2> SUFFICES ASSUME IInv PROVE LookupFindsNamed
    OBVIOUS
  <2>1. InOrder
    BY OrderKept
  <2>2. ASSUME NEW u \in Uris
        PROVE  /\ FindObject(u) \in alive \union {NoObject}
               /\ \A o \in alive :
                    FindObject(u) = o <=> Attached[o] /\ FqName[o] = Path(u) /\ ~Shadowed[o]
    BY <2>1, UrisFacts, FindObjectFacts
  <2> QED
    BY <2>2 DEF LookupFindsNamed, Path
<1> QED
  BY <1>1, Invariance, PTL

-----------------------------------------------------------------------------
(* Traversal *)

\* Every set of objects has one that is above none of the others: there are
\* only finitely many with a parent.
LEMMA Bottom ==
  ASSUME InOrder, NEW S \in SUBSET Objects, S # {}
  PROVE  \E x \in S : \A y \in S : parent[y] # x
<1> DEFINE Endless(U) == U # {} /\ \A x \in U : \E y \in U : parent[y] = x
           sizes == {n \in Nat : \E U \in SUBSET alive : Endless(U) /\ Cardinality(U) = n}
<1>0. /\ IsFiniteSet(alive) /\ NoCycle(parent) /\ alive \subseteq Objects
      /\ \A x \in Objects : parent[x] \in alive \/ parent[x] = NoObject
      /\ NoObject \notin Objects
  BY TreeAssumption DEF InOrder
<1> SUFFICES ASSUME Endless(S) PROVE FALSE
  OBVIOUS
<1>1. S \in SUBSET alive
  BY <1>0
<1>2. ASSUME NEW U \in SUBSET alive PROVE IsFiniteSet(U) /\ Cardinality(U) \in Nat
  BY <1>0, FS_Subset, FS_CardinalityType
<1>3. sizes # {}
  <2> HIDE DEF Endless
  <2> QED
    BY <1>1, <1>2
<1>4. PICK n \in sizes : \A k \in sizes : n <= k
  <2> HIDE DEF Endless
  <2> QED
    BY <1>3, LeastExists
<1>5. PICK U \in SUBSET alive : Endless(U) /\ Cardinality(U) = n
  <2> HIDE DEF Endless
  <2> QED
    BY <1>4
<1>6. PICK x \in U : parent[x] \notin U
  <2>1. U \in SUBSET Objects /\ U # {}
    BY <1>0, <1>5
  <2> QED
    BY <1>0, <2>1 DEF NoCycle
<1> DEFINE W == U \ {x}
<1>7. Endless(W)
  <2>1. PICK y \in U : parent[y] = x
    BY <1>5, <1>6
  <2>2. y # x
    BY <1>6, <2>1
  <2>3. ASSUME NEW z \in W PROVE \E t \in W : parent[t] = z
    <3>1. PICK t \in U : parent[t] = z
      BY <1>5, <2>3
    <3>2. t # x
      BY <1>6, <3>1, <2>3
    <3> QED
      BY <3>1, <3>2
  <2> QED
    BY <2>1, <2>2, <2>3
<1>8. Cardinality(W) = n - 1 /\ Cardinality(W) \in Nat
  BY <1>2, <1>5, <1>6, FS_RemoveElement
<1>9. Cardinality(W) \in sizes
  <2> HIDE DEF Endless
  <2> QED
    BY <1>7, <1>8
<1> QED
  <2>1. n <= Cardinality(W) /\ n \in Nat
    BY <1>4, <1>9
  <2> HIDE DEF W, sizes, Endless
  <2> QED
    BY <1>8, <2>1

\* What node::accept has visited when the children o have been, by what f is
\* for each of them.
Grown(v, f, c, hidden) == IF c \in hidden THEN v ELSE v \o f[c]
IsListing(w, f, o, hidden) ==
  w[0] = <<o>> /\ \A i \in 1..Len(children[o]) : w[i] = Grown(w[i - 1], f, children[o][i], hidden)
Listing(f, o, hidden) ==
  LET Visited[i \in 0..Len(children[o])] ==
        IF i = 0 THEN <<o>>
        ELSE IF children[o][i] \in hidden THEN Visited[i - 1]
        ELSE Visited[i - 1] \o f[children[o][i]]
  IN Visited[Len(children[o])]

LEMMA ListingFacts ==
  ASSUME InOrder, NEW o \in Nodes, NEW f, NEW hidden
  PROVE  \E w : IsListing(w, f, o, hidden) /\ Listing(f, o, hidden) = w[Len(children[o])]
<1> DEFINE c == children[o]
           IsRun(k, g) == g = [i \in 0..k |-> IF i = 0 THEN <<o>>
                                              ELSE IF c[i] \in hidden THEN g[i - 1]
                                              ELSE g[i - 1] \o f[c[i]]]
           P(k) == \E g : IsRun(k, g)
           bad == {k \in Nat : k <= Len(c) /\ ~P(k)}
<1>1. Len(c) \in Nat
  BY LenProperties DEF InOrder
<1>2. P(0)
  <2> DEFINE g == [i \in 0..0 |-> <<o>>]
  <2>1. IsRun(0, g)
    OBVIOUS
  <2> QED
    BY <2>1
<1>3. ASSUME NEW k \in Nat, k < Len(c), P(k) PROVE P(k + 1)
  <2>1. PICK g : IsRun(k, g)
    BY <1>3
  <2> DEFINE v == Grown(g[k], f, c[k + 1], hidden)
             h == [i \in 0..(k + 1) |-> IF i = k + 1 THEN v ELSE g[i]]
  <2>2. ASSUME NEW i \in 0..(k + 1)
        PROVE  h[i] = IF i = 0 THEN <<o>> ELSE Grown(h[i - 1], f, c[i], hidden)
    <3>1. \A j \in 0..k : g[j] = IF j = 0 THEN <<o>> ELSE Grown(g[j - 1], f, c[j], hidden)
      BY <2>1 DEF Grown
    <3>2. CASE i = k + 1
      <4>1. h[i] = v /\ i # 0 /\ i - 1 = k /\ h[k] = g[k]
        BY <3>2
      <4> QED
        BY <4>1, <3>2
    <3>3. CASE i \in 0..k
      <4>1. h[i] = g[i] /\ i # k + 1
        BY <3>3
      <4>2. i # 0 => i - 1 \in 0..k /\ i - 1 # k + 1 /\ h[i - 1] = g[i - 1]
        BY <3>3
      <4> QED
        BY <4>1, <4>2, <3>1, <3>3
    <3> QED
      BY <3>2, <3>3
  <2>3. h = [i \in 0..(k + 1) |-> IF i = 0 THEN <<o>> ELSE Grown(h[i - 1], f, c[i], hidden)]
    BY <2>2
  <2> HIDE DEF h
  <2>4. IsRun(k + 1, h)
    BY <2>3 DEF Grown
  <2> QED
    BY <2>4
<1>4. bad = {}
  <2> SUFFICES ASSUME bad # {} PROVE FALSE
    OBVIOUS
  <2> HIDE DEF P
  <2>1. PICK m \in bad : \A k \in bad : m <= k
    BY LeastExists
  <2>2. m # 0 /\ m - 1 \in Nat /\ m - 1 < Len(c) /\ (m - 1) + 1 = m
    BY <1>1, <1>2
  <2>3. P(m - 1)
    BY <2>1, <2>2
  <2> QED
    BY <1>3, <2>2, <2>3
<1>5. P(Len(c))
  <2> HIDE DEF P, c
  <2> QED
    BY <1>1, <1>4
<1> DEFINE w == CHOOSE h : IsRun(Len(c), h)
<1>6. IsRun(Len(c), w) /\ Listing(f, o, hidden) = w[Len(c)]
  BY <1>5 DEF Listing
<1> HIDE DEF w
<1>7. w = [i \in 0..Len(c) |-> IF i = 0 THEN <<o>> ELSE Grown(w[i - 1], f, c[i], hidden)]
  BY <1>6 DEF Grown
<1>8. w[0] = <<o>> /\ \A i \in 1..Len(c) : w[i] = Grown(w[i - 1], f, c[i], hidden)
  <2> HIDE DEF c
  <2>1. 0 \in 0..Len(c) /\ \A i \in 1..Len(c) : i \in 0..Len(c) /\ i # 0
    BY <1>1
  <2>2. \A i \in 0..Len(c) : w[i] = IF i = 0 THEN <<o>> ELSE Grown(w[i - 1], f, c[i], hidden)
    BY <1>7
  <2> QED
    BY <2>1, <2>2
<1>9. IsListing(w, f, o, hidden)
  BY <1>8 DEF IsListing
<1> QED
  BY <1>6, <1>9

\* One visit, by what f is for the children.
Value(f, o, hidden) == IF o \in Leaves THEN <<o>> ELSE Listing(f, o, hidden)

\* A child is listed by its parent.
LEMMA ListedFacts ==
  ASSUME InOrder, NEW o \in Nodes
  PROVE  /\ children[o] \in Seq(Objects) /\ Len(children[o]) \in Nat /\ DOMAIN children[o] = 1..Len(children[o])
         /\ \A i \in 1..Len(children[o]) : children[o][i] \in Objects /\ parent[children[o][i]] = o
         /\ \A i, j \in 1..Len(children[o]) : children[o][i] = children[o][j] => i = j
         /\ \A x \in Objects : parent[x] = o => \E i \in 1..Len(children[o]) : children[o][i] = x
<1> DEFINE c == children[o]
<1>0. /\ c \in Seq(alive) /\ alive \subseteq Objects
      /\ Lists(Links, o) /\ Links.children[o] = c /\ Links.parent = parent
  BY DEF InOrder, Links
<1>1. Len(c) \in Nat /\ DOMAIN c = 1..Len(c) /\ c \in Seq(Objects)
  BY <1>0, LenProperties, SeqMonotonic
<1>2. ASSUME NEW i \in 1..Len(c) PROVE c[i] \in Objects /\ parent[c[i]] = o
  <2>1. c[i] \in Objects
    BY <1>1, ElementOfSeq
  <2>2. c[i] \in Members(c)
    BY <1>1 DEF Members
  <2> QED
    BY <1>0, <2>1, <2>2 DEF Lists
<1>3. \A i, j \in 1..Len(c) : c[i] = c[j] => i = j
  BY <1>0, <1>1 DEF Lists, Injective
<1>4. ASSUME NEW x \in Objects, parent[x] = o PROVE \E i \in 1..Len(c) : c[i] = x
  <2>1. x \in Members(c)
    BY <1>0, <1>4 DEF Lists
  <2> QED
    BY <2>1, <1>1 DEF Members
<1> QED
  BY <1>1, <1>2, <1>3, <1>4

LEMMA ValueAgrees ==
  ASSUME InOrder, NEW o \in Objects, NEW hidden, NEW f, NEW g,
         \A c \in Objects : parent[c] = o => f[c] = g[c]
  PROVE  Value(f, o, hidden) = Value(g, o, hidden)
<1>1. CASE o \in Leaves
  BY <1>1 DEF Value
<1>2. CASE o \notin Leaves
  <2> DEFINE c == children[o]
  <2>1. o \in Nodes
    BY <1>2 DEF Objects
  <2>2. Len(c) \in Nat /\ \A i \in 1..Len(c) : c[i] \in Objects /\ parent[c[i]] = o
    BY <2>1, ListedFacts
  <2>3. PICK w : IsListing(w, f, o, hidden) /\ Listing(f, o, hidden) = w[Len(c)]
    BY <2>1, ListingFacts
  <2>4. PICK v : IsListing(v, g, o, hidden) /\ Listing(g, o, hidden) = v[Len(c)]
    BY <2>1, ListingFacts
  <2> DEFINE bad == {i \in Nat : i <= Len(c) /\ w[i] # v[i]}
  <2>5. bad = {}
    <3> SUFFICES ASSUME bad # {} PROVE FALSE
      OBVIOUS
    <3>1. PICK m \in bad : \A k \in bad : m <= k
      BY LeastExists
    <3>2. m # 0
      BY <2>3, <2>4 DEF IsListing
    <3>3. m - 1 \in Nat /\ m - 1 <= Len(c) /\ m \in 1..Len(c)
      BY <2>2, <3>2
    <3>4. w[m - 1] = v[m - 1]
      BY <3>1, <3>3
    <3>5. f[c[m]] = g[c[m]]
      BY <2>2, <3>3
    <3>6. w[m] = Grown(w[m - 1], f, c[m], hidden) /\ v[m] = Grown(v[m - 1], g, c[m], hidden)
      BY <2>3, <2>4, <3>3 DEF IsListing
    <3>7. w[m] = v[m]
      BY <3>4, <3>5, <3>6 DEF Grown
    <3> QED
      BY <3>1, <3>7
  <2>6. w[Len(c)] = v[Len(c)]
    BY <2>2, <2>5
  <2> QED
    BY <1>2, <2>3, <2>4, <2>6 DEF Value
<1> QED
  BY <1>1, <1>2

\* f visits what is in U, which holds the children of its members.
Solution(U, f, hidden) ==
  /\ U \in SUBSET Objects
  /\ \A x \in Objects : parent[x] \in U => x \in U
  /\ \A x \in U : f[x] = Value(f, x, hidden)

\* There is one visit at most.
LEMMA VisitUnique ==
  ASSUME InOrder, NEW hidden, NEW U, NEW W, NEW f, NEW g,
         Solution(U, f, hidden), Solution(W, g, hidden), NEW o \in U \intersect W
  PROVE  f[o] = g[o]
<1> DEFINE bad == {x \in U \intersect W : f[x] # g[x]}
<1> SUFFICES ASSUME bad # {} PROVE FALSE
  OBVIOUS
<1>1. bad \in SUBSET Objects
  BY DEF Solution
<1>2. PICK x \in bad : \A y \in bad : parent[y] # x
  <2> HIDE DEF bad
  <2> QED
    BY <1>1, Bottom
<1>3. x \in Objects /\ x \in U /\ x \in W /\ f[x] # g[x]
  BY <1>1, <1>2
<1>4. ASSUME NEW c \in Objects, parent[c] = x PROVE f[c] = g[c]
  BY <1>2, <1>3, <1>4 DEF Solution
<1>5. Value(f, x, hidden) = Value(g, x, hidden)
  BY <1>3, <1>4, ValueAgrees
<1> QED
  BY <1>3, <1>5 DEF Solution

\* There is one for every object: the visits of parts of the tree, put together,
\* leave out no object whose children they have.
LEMMA VisitExists ==
  ASSUME InOrder, NEW hidden
  PROVE  \E f : f = [o \in Objects |-> Value(f, o, hidden)]
<1> DEFINE Has(x, v) == \E U, f : Solution(U, f, hidden) /\ x \in U /\ v = f[x]
           G == {x \in Objects : \E v : Has(x, v)}
           val == [x \in Objects |-> CHOOSE v : Has(x, v)]
           h == [x \in Objects |-> IF x \in G THEN val[x] ELSE Value(val, x, hidden)]
<1>1. ASSUME NEW U, NEW f, Solution(U, f, hidden), NEW x \in U
      PROVE  x \in Objects /\ x \in G /\ val[x] = f[x]
  <2>1. x \in Objects
    BY <1>1 DEF Solution
  <2>2. Has(x, f[x])
    BY <1>1
  <2>3. Has(x, val[x])
    <3> HIDE DEF Has
    <3> QED
      BY <2>1, <2>2
  <2>4. PICK W, g : Solution(W, g, hidden) /\ x \in W /\ val[x] = g[x]
    <3> HIDE DEF val
    <3> QED
      BY <2>3
  <2>5. f[x] = g[x]
    BY <1>1, <2>4, VisitUnique
  <2> HIDE DEF val
  <2>6. x \in G
    <3> HIDE DEF Has
    <3> QED
      BY <2>1, <2>2
  <2> QED
    BY <2>1, <2>4, <2>5, <2>6
<1>2. ASSUME NEW x \in G
      PROVE  \E U, f : Solution(U, f, hidden) /\ x \in U
  BY <1>2
<1>3. ASSUME NEW x \in G
      PROVE  /\ val[x] = Value(val, x, hidden)
             /\ \A c \in Objects : parent[c] = x => c \in G
  <2>1. PICK U, f : Solution(U, f, hidden) /\ x \in U
    <3> HIDE DEF G
    <3> QED
      BY <1>2, <1>3
  <2> HIDE DEF G, val
  <2>2. ASSUME NEW c \in Objects, parent[c] = x PROVE c \in U /\ c \in G /\ val[c] = f[c]
    <3>1. c \in U
      BY <2>1, <2>2 DEF Solution
    <3> QED
      BY <2>1, <3>1, <1>1
  <2>3. x \in Objects /\ val[x] = f[x]
    BY <2>1, <1>1
  <2>4. Value(f, x, hidden) = Value(val, x, hidden)
    BY <2>2, <2>3, ValueAgrees
  <2>5. f[x] = Value(f, x, hidden)
    BY <2>1 DEF Solution
  <2> QED
    BY <2>2, <2>3, <2>4, <2>5
<1>4. G = Objects
  <2> SUFFICES ASSUME Objects \ G # {} PROVE FALSE
    <3>1. G \subseteq Objects
      BY DEF G
    <3> HIDE DEF G
    <3> QED
      BY <3>1
  <2>1. Objects \ G \in SUBSET Objects
    OBVIOUS
  <2>2. PICK x \in Objects \ G : \A y \in Objects \ G : parent[y] # x
    <3> HIDE DEF G
    <3> QED
      BY <2>1, Bottom
  <2> DEFINE U == G \union {x}
  <2>3. U \in SUBSET Objects
    OBVIOUS
  <2>4. ASSUME NEW y \in Objects, parent[y] \in U PROVE y \in U
    <3> HIDE DEF G
    <3> QED
      BY <1>3, <2>2, <2>4
  <2>5. ASSUME NEW y \in U PROVE h[y] = Value(h, y, hidden)
    <3>1. y \in Objects
      BY <2>3, <2>5
    <3>2. h[y] = Value(val, y, hidden)
      <4>1. h[y] = IF y \in G THEN val[y] ELSE Value(val, y, hidden)
        BY <3>1
      <4> HIDE DEF G, val, h
      <4> QED
        BY <4>1, <1>3
    <3>3. ASSUME NEW c \in Objects, parent[c] = y PROVE val[c] = h[c]
      <4>1. c \in G
        <5> HIDE DEF G, val, h
        <5> QED
          BY <1>3, <2>2, <2>5, <3>3
      <4>2. h[c] = IF c \in G THEN val[c] ELSE Value(val, c, hidden)
        OBVIOUS
      <4> HIDE DEF G, val, h
      <4> QED
        BY <4>1, <4>2
    <3> HIDE DEF G, val, h
    <3>4. Value(val, y, hidden) = Value(h, y, hidden)
      BY <3>1, <3>3, ValueAgrees
    <3> QED
      BY <3>2, <3>4
  <2>6. Solution(U, h, hidden)
    <3> HIDE DEF U, h
    <3> QED
      BY <2>3, <2>4, <2>5 DEF Solution
  <2>7. x \in G
    <3>1. x \in U
      OBVIOUS
    <3> HIDE DEF U, h, G
    <3> QED
      BY <2>6, <3>1, <1>1
  <2> QED
    BY <2>2, <2>7
<1>5. \A o \in Objects : val[o] = Value(val, o, hidden)
  <2> HIDE DEF G, val
  <2> QED
    BY <1>3, <1>4
<1>6. val = [o \in Objects |-> val[o]]
  OBVIOUS
<1> HIDE DEF val
<1>7. val = [o \in Objects |-> Value(val, o, hidden)]
  BY <1>5, <1>6
<1> QED
  BY <1>7

\* basic_client_context::browse_object, as one visit by those of the children.
LEMMA BrowseFacts ==
  ASSUME InOrder, NEW hidden
  PROVE  \E f : /\ \A o \in Objects : f[o] = Value(f, o, hidden)
                /\ \A start \in Objects : Browse(start, hidden) = f[start]
<1> DEFINE Def(f) == f = [o \in Objects |-> Value(f, o, hidden)]
           f == CHOOSE g : Def(g)
<1>1. Def(f)
  <2>1. \E g : Def(g)
    BY VisitExists
  <2> HIDE DEF Def
  <2> QED
    BY <2>1
<1>2. ASSUME NEW start \in Objects PROVE Browse(start, hidden) = f[start]
  BY DEF Browse, Value, Listing
<1> HIDE DEF f
<1>3. \A o \in Objects : f[o] = Value(f, o, hidden)
  BY <1>1
<1> QED
  BY <1>2, <1>3

-----------------------------------------------------------------------------
(* What a traversal shows *)

Depth(o) == Len(FqName[o])

LEMMA DepthFacts ==
  ASSUME InOrder, NEW o \in Objects
  PROVE  /\ Depth(o) \in Nat /\ Depth(o) > 0 /\ Indentation(o) = Depth(o) - 1
         /\ parent[o] # NoObject => parent[o] \in Objects /\ Depth(o) = Depth(parent[o]) + 1
<1>1. FqName[o] \in Seq(Names) /\ Len(FqName[o]) > 0
  BY FqNameFacts
<1>2. Depth(o) \in Nat /\ Depth(o) > 0
  BY <1>1, LenProperties DEF Depth
<1>3. ASSUME parent[o] # NoObject PROVE parent[o] \in Objects /\ Depth(o) = Depth(parent[o]) + 1
  <2>1. parent[o] \in Objects
    BY <1>3, ParentFacts
  <2>2. FqName[parent[o]] \in Seq(Names) /\ name[o] \in Names
    BY <2>1, FqNameFacts DEF InOrder
  <2>3. FqName[o] = Append(FqName[parent[o]], name[o])
    BY <1>3, FqNameFacts
  <2>4. Len(Append(FqName[parent[o]], name[o])) = Len(FqName[parent[o]]) + 1
    BY <2>2, AppendProperties
  <2> QED
    BY <2>1, <2>3, <2>4 DEF Depth
<1> QED
  BY <1>2, <1>3 DEF Indentation, Depth

\* The parent of each entry but the first is the last entry before it that is
\* less deep.
Reads(v) ==
  \A i \in 2..Len(v) : \E j \in 1..(i - 1) :
    /\ parent[v[i]] = v[j]
    /\ \A k \in (j + 1)..(i - 1) : Depth(v[k]) >= Depth(v[i])

\* v begins with o, and each of the others is below o, is not hidden and is there
\* once.
Branch(v, o, hidden) ==
  /\ v \in Seq(Objects) /\ Len(v) > 0 /\ v[1] = o
  /\ \A i, j \in 1..Len(v) : v[i] = v[j] => i = j
  /\ \A i \in 2..Len(v) : v[i] \notin hidden /\ Depth(v[i]) > Depth(o)
  /\ Reads(v)

\* All that is below o and not hidden is in v.
Shows(v, o, hidden) ==
  /\ Branch(v, o, hidden)
  /\ \A x \in Objects : x \notin hidden /\ Contains(v, parent[x]) => Contains(v, x)

\* The same for the first n children of o.
Part(v, o, n, hidden) ==
  /\ Branch(v, o, hidden)
  /\ \A x \in Objects : x \notin hidden /\ parent[x] # o /\ Contains(v, parent[x]) => Contains(v, x)
  /\ \A x \in Objects : x \notin hidden /\ parent[x] = o =>
       (Contains(v, x) <=> \E j \in 1..n : children[o][j] = x)

LEMMA BranchFacts ==
  ASSUME InOrder, NEW o \in Objects, NEW hidden, NEW v, Branch(v, o, hidden)
  PROVE  /\ Len(v) \in Nat /\ Len(v) >= 1
         /\ \A i \in 1..Len(v) : v[i] \in Objects /\ Depth(v[i]) \in Nat
         /\ \A i \in 2..Len(v) : parent[v[i]] # NoObject /\ Contains(v, parent[v[i]])
         /\ \A i \in 1..Len(v) : Depth(v[i]) >= Depth(o)
         /\ Contains(v, o)
<1>1. v \in Seq(Objects) /\ Len(v) \in Nat /\ Len(v) >= 1 /\ v[1] = o
  BY LenProperties DEF Branch
<1>2. ASSUME NEW i \in 1..Len(v) PROVE v[i] \in Objects /\ Depth(v[i]) \in Nat
  <2>1. v[i] \in Objects
    BY <1>1, ElementOfSeq
  <2> QED
    BY <2>1, DepthFacts
<1>3. ASSUME NEW i \in 2..Len(v) PROVE parent[v[i]] # NoObject /\ Contains(v, parent[v[i]])
  <2>1. PICK j \in 1..(i - 1) : parent[v[i]] = v[j]
    BY DEF Branch, Reads
  <2>2. j \in 1..Len(v)
    BY <1>1
  <2>3. v[j] \in Objects
    BY <1>2, <2>2
  <2> QED
    BY <2>1, <2>2, <2>3, TreeAssumption DEF Contains
<1>4. ASSUME NEW i \in 1..Len(v) PROVE Depth(v[i]) >= Depth(o)
  <2>1. Depth(v[i]) \in Nat /\ Depth(o) \in Nat
    BY <1>2, DepthFacts
  <2>2. CASE i = 1
    <3>1. Depth(v[i]) = Depth(o)
      BY <1>1, <2>2
    <3> QED
      BY <2>1, <3>1
  <2>3. CASE i # 1
    <3>1. i \in 2..Len(v)
      BY <1>1, <2>3
    <3>2. Depth(v[i]) > Depth(o)
      BY <3>1 DEF Branch
    <3> QED
      BY <2>1, <3>2
  <2> QED
    BY <2>2, <2>3
<1>5. Contains(v, o)
  BY <1>1 DEF Contains
<1> QED
  BY <1>1, <1>2, <1>3, <1>4, <1>5

\* What is below a child has not been visited with those before it.
LEMMA BranchesApart ==
  ASSUME InOrder, NEW hidden, NEW o \in Nodes, NEW n \in Nat, n < Len(children[o]),
         children[o][n + 1] \notin hidden,
         NEW v, Part(v, o, n, hidden),
         NEW t, Shows(t, children[o][n + 1], hidden),
         NEW y, Contains(v, y), Contains(t, y)
  PROVE  FALSE
<1> DEFINE c == children[o][n + 1]
           S == {x \in Objects : Contains(v, x) /\ Contains(t, x)}
<1>0. /\ o \in Objects /\ Len(children[o]) \in Nat /\ n + 1 \in 1..Len(children[o])
      /\ c \in Objects /\ parent[c] = o
      /\ \A i, j \in 1..Len(children[o]) : children[o][i] = children[o][j] => i = j
  <2>1. n + 1 \in 1..Len(children[o])
    BY ListedFacts
  <2> QED
    BY <2>1, ListedFacts DEF Objects
<1>1. Branch(v, o, hidden) /\ Branch(t, c, hidden)
  BY DEF Part, Shows
<1>2. /\ Len(v) \in Nat
      /\ \A i \in 1..Len(v) : v[i] \in Objects
      /\ \A i \in 2..Len(v) : parent[v[i]] # NoObject /\ Contains(v, parent[v[i]])
  BY <1>0, <1>1, BranchFacts
<1> HIDE DEF c
<1>3. /\ Len(t) \in Nat
      /\ \A i \in 1..Len(t) : t[i] \in Objects /\ Depth(t[i]) \in Nat /\ Depth(t[i]) >= Depth(c)
      /\ \A i \in 2..Len(t) : parent[t[i]] # NoObject /\ Contains(t, parent[t[i]])
      /\ t[1] = c
  <2>1. t[1] = c
    BY <1>1 DEF Branch
  <2> QED
    BY <1>0, <1>1, <2>1, BranchFacts
<1>4. Depth(c) \in Nat /\ Depth(o) \in Nat /\ Depth(c) = Depth(o) + 1 /\ v[1] = o
  <2>1. o # NoObject
    BY <1>0, TreeAssumption
  <2>2. v[1] = o
    BY <1>1 DEF Branch
  <2> QED
    BY <1>0, <2>1, <2>2, DepthFacts
<1>5. S # {}
  <2>1. PICK i \in 1..Len(v) : v[i] = y
    BY DEF Contains
  <2> QED
    BY <2>1, <1>2
<1>6. PICK x \in S : parent[x] \notin S
  <2>1. S \in SUBSET Objects
    OBVIOUS
  <2> HIDE DEF S
  <2> QED
    BY <1>5, <2>1 DEF InOrder, NoCycle
<1>7. PICK i \in 1..Len(v) : v[i] = x
  BY <1>6 DEF Contains
<1>8. PICK j \in 1..Len(t) : t[j] = x
  BY <1>6 DEF Contains
<1>9. i # 1
  <2> SUFFICES ASSUME i = 1 PROVE FALSE
    OBVIOUS
  <2>1. t[j] = o
    BY <1>4, <1>7, <1>8
  <2>2. Depth(o) >= Depth(c)
    BY <1>3, <2>1
  <2> QED
    BY <1>4, <2>2
<1>10. i \in 2..Len(v)
  BY <1>2, <1>9
<1>11. CASE j = 1
  <2>1. x = c /\ Contains(v, c)
    BY <1>3, <1>6, <1>8, <1>11
  <2>2. PICK m \in 1..n : children[o][m] = c
    BY <1>0, <2>1 DEF Part, c
  <2>3. m \in 1..Len(children[o]) /\ m # n + 1
    BY <1>0
  <2> QED
    BY <1>0, <2>2, <2>3 DEF c
<1>12. CASE j # 1
  <2>1. j \in 2..Len(t)
    BY <1>3, <1>12
  <2>2. Contains(t, parent[x]) /\ Contains(v, parent[x])
    BY <1>2, <1>3, <1>7, <1>8, <1>10, <2>1
  <2>3. parent[x] \in Objects
    BY <1>2, <1>7, <1>10, DepthFacts
  <2> QED
    BY <2>2, <2>3, <1>6
<1> QED
  BY <1>11, <1>12

LEMMA ContainsConcat ==
  ASSUME NEW T, NEW v \in Seq(T), NEW t \in Seq(T), NEW x
  PROVE  Contains(v \o t, x) <=> Contains(v, x) \/ Contains(t, x)
<1> DEFINE r == v \o t
<1>1. /\ Len(v) \in Nat /\ Len(t) \in Nat /\ Len(r) = Len(v) + Len(t)
      /\ \A i \in 1..(Len(v) + Len(t)) : r[i] = IF i <= Len(v) THEN v[i] ELSE t[i - Len(v)]
  BY LenProperties, ConcatProperties
<1> HIDE DEF r
<1>2. ASSUME NEW i \in 1..Len(r), r[i] = x PROVE Contains(v, x) \/ Contains(t, x)
  <2>1. CASE i <= Len(v)
    <3>1. i \in 1..Len(v) /\ v[i] = x
      BY <1>1, <1>2, <2>1
    <3> QED
      BY <3>1 DEF Contains
  <2>2. CASE ~(i <= Len(v))
    <3>1. i - Len(v) \in 1..Len(t) /\ t[i - Len(v)] = x
      BY <1>1, <1>2, <2>2
    <3> QED
      BY <3>1 DEF Contains
  <2> QED
    BY <2>1, <2>2
<1>3. ASSUME NEW i \in 1..Len(v), v[i] = x PROVE Contains(r, x)
  <2>1. i \in 1..Len(r) /\ r[i] = x
    BY <1>1, <1>3
  <2> QED
    BY <2>1 DEF Contains
<1>4. ASSUME NEW i \in 1..Len(t), t[i] = x PROVE Contains(r, x)
  <2>1. Len(v) + i \in 1..Len(r) /\ ~(Len(v) + i <= Len(v)) /\ (Len(v) + i) - Len(v) = i
    BY <1>1
  <2>2. r[Len(v) + i] = x
    BY <1>1, <1>4, <2>1
  <2> QED
    BY <2>1, <2>2 DEF Contains
<1> QED
  BY <1>2, <1>3, <1>4 DEF Contains, r

\* A branch of a child is put behind a branch of its parent.
LEMMA BranchGrows ==
  ASSUME InOrder, NEW hidden, NEW o \in Objects, NEW c \in Objects, parent[c] = o, c \notin hidden,
         NEW v, NEW t, Branch(v, o, hidden), Branch(t, c, hidden),
         \A x : ~(Contains(v, x) /\ Contains(t, x))
  PROVE  Branch(v \o t, o, hidden)
<1> DEFINE r == v \o t
           m == Len(v)
<1>0. /\ v \in Seq(Objects) /\ t \in Seq(Objects) /\ m \in Nat /\ m >= 1 /\ Len(t) \in Nat /\ Len(t) >= 1
      /\ v[1] = o /\ t[1] = c
      /\ \A i \in 1..Len(v) : v[i] \in Objects /\ Depth(v[i]) \in Nat /\ Depth(v[i]) >= Depth(o)
      /\ \A i \in 1..Len(t) : t[i] \in Objects /\ Depth(t[i]) \in Nat /\ Depth(t[i]) >= Depth(c)
  BY BranchFacts DEF Branch
<1>1. Depth(c) \in Nat /\ Depth(o) \in Nat /\ Depth(c) = Depth(o) + 1
  <2>1. o # NoObject
    BY TreeAssumption
  <2> QED
    BY <2>1, DepthFacts
<1>2. /\ r \in Seq(Objects) /\ Len(r) = m + Len(t)
      /\ \A i \in 1..(m + Len(t)) : r[i] = IF i <= m THEN v[i] ELSE t[i - m]
  BY <1>0, ConcatProperties
<1> HIDE DEF r, m
<1>3. /\ \A i \in 1..m : i \in 1..Len(v) /\ r[i] = v[i] /\ i \in 1..Len(r)
      /\ \A i \in (m + 1)..Len(r) : i - m \in 1..Len(t) /\ r[i] = t[i - m]
  <2>1. m = Len(v) /\ m \in Nat /\ Len(t) \in Nat /\ Len(r) = m + Len(t)
    BY <1>0, <1>2 DEF m
  <2>2. ASSUME NEW i \in 1..m PROVE i \in 1..Len(v) /\ r[i] = v[i] /\ i \in 1..Len(r)
    <3>1. i \in 1..Len(v) /\ i \in 1..(m + Len(t)) /\ i <= m
      BY <2>1
    <3> QED
      BY <1>2, <3>1
  <2>3. ASSUME NEW i \in (m + 1)..Len(r) PROVE i - m \in 1..Len(t) /\ r[i] = t[i - m]
    <3>1. i - m \in 1..Len(t) /\ i \in 1..(m + Len(t)) /\ ~(i <= m)
      BY <2>1
    <3> QED
      BY <1>2, <3>1
  <2> QED
    BY <2>2, <2>3
<1>4. Len(r) \in Nat /\ Len(r) > 0 /\ r[1] = o
  BY <1>0, <1>2, <1>3
<1>5. \A i \in 1..Len(r) : i \in 1..m \/ i \in (m + 1)..Len(r)
  BY <1>0, <1>4
<1>6. ASSUME NEW i \in 1..Len(r), NEW j \in 1..Len(r), r[i] = r[j] PROVE i = j
  <2>1. ASSUME NEW a \in 1..m, NEW b \in (m + 1)..Len(r), r[a] = r[b] PROVE FALSE
    <3>1. Contains(v, r[a])
      BY <1>3 DEF Contains
    <3>2. Contains(t, r[b])
      BY <1>3 DEF Contains
    <3> QED
      BY <2>1, <3>1, <3>2
  <2>2. CASE i \in 1..m /\ j \in 1..m
    BY <2>2, <1>3, <1>6 DEF Branch
  <2>3. CASE i \in (m + 1)..Len(r) /\ j \in (m + 1)..Len(r)
    <3>1. i - m = j - m
      BY <2>3, <1>3, <1>6 DEF Branch
    <3> QED
      BY <3>1, <1>0, <1>4
  <2> QED
    BY <2>1, <2>2, <2>3, <1>5, <1>6
<1>7. ASSUME NEW i \in 2..Len(r) PROVE r[i] \notin hidden /\ Depth(r[i]) > Depth(o)
  <2>1. CASE i \in 1..m
    <3>1. i \in 2..Len(v) /\ r[i] = v[i]
      BY <1>3, <1>0, <2>1 DEF m
    <3> QED
      BY <3>1 DEF Branch
  <2>2. CASE i \in (m + 1)..Len(r)
    <3> DEFINE k == i - m
    <3>1. k \in 1..Len(t) /\ r[i] = t[k]
      BY <1>3, <2>2
    <3>2. Depth(t[k]) \in Nat /\ Depth(t[k]) >= Depth(c)
      BY <1>0, <3>1
    <3>3. Depth(t[k]) > Depth(o)
      BY <1>1, <3>2
    <3>4. t[k] \notin hidden
      <4>1. CASE k = 1
        BY <4>1, <1>0
      <4>2. CASE k # 1
        <5>1. k \in 2..Len(t)
          BY <3>1, <4>2, <1>0
        <5> HIDE DEF k
        <5> QED
          BY <5>1 DEF Branch
      <4> QED
        BY <4>1, <4>2
    <3> QED
      BY <3>1, <3>3, <3>4
  <2> QED
    BY <2>1, <2>2, <1>4, <1>5
<1>8. ASSUME NEW i \in 2..Len(r)
      PROVE  \E j \in 1..(i - 1) : /\ parent[r[i]] = r[j]
                                   /\ \A k \in (j + 1)..(i - 1) : Depth(r[k]) >= Depth(r[i])
  <2>1. CASE i \in 1..m
    <3>1. i \in 2..Len(v)
      BY <1>0, <2>1 DEF m
    <3>2. PICK j \in 1..(i - 1) : /\ parent[v[i]] = v[j]
                                  /\ \A k \in (j + 1)..(i - 1) : Depth(v[k]) >= Depth(v[i])
      BY <3>1 DEF Branch, Reads
    <3>3. j \in 1..m /\ \A k \in (j + 1)..(i - 1) : k \in 1..m
      <4>1. m \in Nat
        BY <1>0
      <4> QED
        BY <2>1, <4>1
    <3> QED
      BY <1>3, <2>1, <3>2, <3>3
  <2>2. CASE i = m + 1
    <3>1. i \in (m + 1)..Len(r) /\ i - m = 1
      BY <2>2, <1>0, <1>4
    <3>2. r[i] = c
      BY <1>0, <1>3, <3>1
    <3>3. ASSUME NEW k \in (1 + 1)..(i - 1) PROVE Depth(r[k]) >= Depth(c)
      <4>1. k \in 2..Len(v) /\ k \in 1..m
        BY <2>2, <1>0 DEF m
      <4>2. Depth(v[k]) > Depth(o) /\ Depth(v[k]) \in Nat
        BY <4>1, <1>0 DEF Branch, m
      <4>3. Depth(v[k]) >= Depth(c)
        BY <4>2, <1>1
      <4> QED
        BY <4>1, <4>3, <1>3
    <3>4. 1 \in 1..(i - 1)
      BY <2>2, <1>0
    <3> QED
      BY <3>2, <3>3, <3>4, <1>4
  <2>3. CASE i \in (m + 2)..Len(r)
    <3> DEFINE a == i - m
    <3>1. a \in 2..Len(t) /\ i = m + a /\ i \in (m + 1)..Len(r)
      BY <2>3, <1>0, <1>2, <1>4
    <3>2. PICK j \in 1..(a - 1) : /\ parent[t[a]] = t[j]
                                  /\ \A k \in (j + 1)..(a - 1) : Depth(t[k]) >= Depth(t[a])
      <4> HIDE DEF a
      <4> QED
        BY <3>1 DEF Branch, Reads
    <3>3. r[i] = t[a]
      BY <1>3, <3>1
    <3> HIDE DEF a
    <3>4. m + j \in 1..(i - 1) /\ m + j \in (m + 1)..Len(r) /\ (m + j) - m = j
      BY <3>1, <1>0, <1>4
    <3>5. r[m + j] = t[j]
      BY <1>3, <3>4
    <3>6. ASSUME NEW k \in ((m + j) + 1)..(i - 1) PROVE Depth(r[k]) >= Depth(r[i])
      <4>1. k \in (m + 1)..Len(r) /\ k - m \in (j + 1)..(a - 1)
        BY <3>1, <1>0, <1>4
      <4>2. r[k] = t[k - m]
        BY <1>3, <4>1
      <4> QED
        BY <3>2, <3>3, <4>1, <4>2
    <3> QED
      BY <3>2, <3>3, <3>4, <3>5, <3>6
  <2>4. i \in 1..m \/ i = m + 1 \/ i \in (m + 2)..Len(r)
    <3>1. m \in Nat /\ Len(r) \in Nat
      BY <1>0, <1>4
    <3> QED
      BY <3>1
  <2> QED
    BY <2>1, <2>2, <2>3, <2>4
<1>9. Reads(r)
  BY <1>8 DEF Reads
<1>10. Branch(r, o, hidden)
  BY <1>2, <1>4, <1>6, <1>7, <1>9 DEF Branch
<1> QED
  BY <1>10 DEF r

\* One more child is visited, or skipped.
LEMMA PartGrows ==
  ASSUME InOrder, NEW hidden, NEW o \in Nodes, NEW n \in Nat, n < Len(children[o]),
         NEW v, Part(v, o, n, hidden),
         NEW f, Shows(f[children[o][n + 1]], children[o][n + 1], hidden)
  PROVE  Part(Grown(v, f, children[o][n + 1], hidden), o, n + 1, hidden)
<1> DEFINE c == children[o][n + 1]
           t == f[c]
<1>0. o \in Objects /\ c \in Objects /\ parent[c] = o
  <2>1. n + 1 \in 1..Len(children[o])
    BY ListedFacts
  <2> QED
    BY <2>1, ListedFacts DEF Objects
<1>1. \A x : (\E j \in 1..(n + 1) : children[o][j] = x) <=> (\E j \in 1..n : children[o][j] = x) \/ x = c
  <2>1. \A j : j \in 1..(n + 1) <=> j \in 1..n \/ j = n + 1
    OBVIOUS
  <2> QED
    BY <2>1
<1>2. CASE c \in hidden
  <2>1. Grown(v, f, c, hidden) = v
    BY <1>2 DEF Grown
  <2> HIDE DEF c
  <2>2. Part(v, o, n + 1, hidden)
    BY <1>1, <1>2 DEF Part
  <2> QED
    BY <2>1, <2>2 DEF c
<1>3. CASE c \notin hidden
  <2> DEFINE r == v \o t
  <2>1. Grown(v, f, c, hidden) = r
    BY <1>3 DEF Grown
  <2>2. Branch(v, o, hidden) /\ Branch(t, c, hidden)
    BY DEF Part, Shows
  <2>3. \A x : ~(Contains(v, x) /\ Contains(t, x))
    BY <1>3, BranchesApart
  <2>4. \A x : Contains(r, x) <=> Contains(v, x) \/ Contains(t, x)
    <3>1. v \in Seq(Objects) /\ t \in Seq(Objects)
      BY <2>2 DEF Branch
    <3> HIDE DEF t
    <3> QED
      BY <3>1, ContainsConcat
  <2>5. \A x \in Objects : x \notin hidden /\ Contains(t, parent[x]) => Contains(t, x)
    BY DEF Shows
  <2> HIDE DEF c, t
  <2>6. Branch(r, o, hidden)
    BY <1>0, <1>3, <2>2, <2>3, BranchGrows
  <2> HIDE DEF r
  <2>7. ASSUME NEW x \in Objects, x \notin hidden, parent[x] # o, Contains(r, parent[x])
        PROVE  Contains(r, x)
    BY <2>4, <2>5, <2>7 DEF Part
  <2>8. ASSUME NEW x \in Objects, parent[x] = o PROVE Contains(t, x) <=> x = c
    <3>1. Contains(t, c)
      BY <1>0, <2>2, BranchFacts
    <3>2. ASSUME Contains(t, x), x # c PROVE FALSE
      <4>1. PICK i \in 1..Len(t) : t[i] = x
        BY <3>2 DEF Contains
      <4>2. t[1] = c /\ Len(t) \in Nat
        BY <1>0, <2>2, BranchFacts DEF Branch
      <4>3. i \in 2..Len(t)
        BY <3>2, <4>1, <4>2
      <4>4. Contains(t, o)
        BY <4>1, <4>3, <2>8, <1>0, <2>2, BranchFacts
      <4>5. PICK k \in 1..Len(t) : t[k] = o
        BY <4>4 DEF Contains
      <4>6. Depth(o) >= Depth(c)
        BY <4>5, <1>0, <2>2, BranchFacts
      <4>7. o # NoObject
        BY <1>0, TreeAssumption
      <4>8. Depth(c) = Depth(o) + 1 /\ Depth(o) \in Nat
        BY <1>0, <4>7, DepthFacts
      <4> QED
        BY <4>6, <4>8
    <3> QED
      BY <3>1, <3>2
  <2>9. ASSUME NEW x \in Objects, x \notin hidden, parent[x] = o
        PROVE  Contains(r, x) <=> \E j \in 1..(n + 1) : children[o][j] = x
    <3>1. Contains(v, x) <=> \E j \in 1..n : children[o][j] = x
      BY <2>9 DEF Part
    <3> QED
      BY <3>1, <2>4, <2>8, <2>9, <1>1
  <2>10. Part(r, o, n + 1, hidden)
    BY <2>6, <2>7, <2>9 DEF Part
  <2> QED
    BY <2>1, <2>10 DEF c
<1> QED
  BY <1>2, <1>3

LEMMA BranchOfOne ==
  ASSUME NEW o \in Objects, NEW hidden
  PROVE  Branch(<<o>>, o, hidden) /\ \A x : Contains(<<o>>, x) <=> x = o
<1> DEFINE v == <<o>>
<1>1. v \in Seq(Objects) /\ Len(v) = 1 /\ v[1] = o
  OBVIOUS
<1> HIDE DEF v
<1>2. \A i : i \in 1..Len(v) <=> i = 1
  BY <1>1
<1>3. \A i : i \notin 2..Len(v)
  BY <1>1
<1>4. Branch(v, o, hidden)
  BY <1>1, <1>2, <1>3 DEF Branch, Reads
<1>5. \A x : Contains(v, x) <=> x = o
  BY <1>1, <1>2 DEF Contains
<1> QED
  BY <1>4, <1>5 DEF v

\* All children have been visited.
LEMMA ListingShows ==
  ASSUME InOrder, NEW hidden, NEW o \in Nodes, NEW f,
         \A c \in Objects : parent[c] = o => Shows(f[c], c, hidden)
  PROVE  Shows(Listing(f, o, hidden), o, hidden)
<1> DEFINE n == Len(children[o])
<1>0. /\ o \in Objects /\ n \in Nat /\ o # NoObject
      /\ \A i \in 1..n : children[o][i] \in Objects /\ parent[children[o][i]] = o
      /\ \A x \in Objects : parent[x] = o => \E i \in 1..n : children[o][i] = x
  BY ListedFacts, TreeAssumption DEF Objects
<1>1. PICK w : IsListing(w, f, o, hidden) /\ Listing(f, o, hidden) = w[n]
  BY ListingFacts
<1>2. Part(w[0], o, 0, hidden)
  <2>1. Branch(<<o>>, o, hidden) /\ \A x : Contains(<<o>>, x) <=> x = o
    BY <1>0, BranchOfOne
  <2>2. ASSUME NEW x \in Objects, parent[x] = o PROVE x # o
    <3>1. Depth(x) = Depth(o) + 1 /\ Depth(o) \in Nat
      BY <2>2, <1>0, DepthFacts
    <3>2. Depth(x) # Depth(o)
      BY <3>1
    <3> QED
      BY <3>2
  <2>3. \A j : j \notin 1..0
    OBVIOUS
  <2>4. Part(<<o>>, o, 0, hidden)
    BY <2>1, <2>2, <2>3 DEF Part
  <2> QED
    BY <1>1, <2>4 DEF IsListing
<1>3. ASSUME NEW k \in Nat, k < n, Part(w[k], o, k, hidden) PROVE Part(w[k + 1], o, k + 1, hidden)
  <2>1. k + 1 \in 1..n /\ (k + 1) - 1 = k
    BY <1>0, <1>3
  <2>2. w[k + 1] = Grown(w[k], f, children[o][k + 1], hidden)
    <3>1. w[k + 1] = Grown(w[(k + 1) - 1], f, children[o][k + 1], hidden)
      BY <1>1, <2>1 DEF IsListing
    <3> QED
      BY <2>1, <3>1
  <2>3. Shows(f[children[o][k + 1]], children[o][k + 1], hidden)
    BY <1>0, <2>1
  <2> QED
    BY <1>3, <2>2, <2>3, PartGrows
<1> DEFINE bad == {k \in Nat : k <= n /\ ~Part(w[k], o, k, hidden)}
<1>4. bad = {}
  <2> SUFFICES ASSUME bad # {} PROVE FALSE
    OBVIOUS
  <2>1. PICK m \in bad : \A k \in bad : m <= k
    BY LeastExists
  <2>2. m # 0 /\ m - 1 \in Nat /\ m - 1 < n /\ (m - 1) + 1 = m
    <3> HIDE DEF n
    <3> QED
      BY <1>0, <1>2
  <2>3. m - 1 \notin bad
    <3> HIDE DEF bad
    <3> QED
      BY <2>1, <2>2
  <2>4. Part(w[m - 1], o, m - 1, hidden)
    <3> HIDE DEF n
    <3> QED
      BY <2>2, <2>3, <1>0
  <2>5. Part(w[m], o, m, hidden)
    <3> HIDE DEF n
    <3>1. Part(w[(m - 1) + 1], o, (m - 1) + 1, hidden)
      BY <1>3, <2>2, <2>4
    <3> QED
      BY <2>2, <3>1
  <2> QED
    BY <2>1, <2>5
<1>5. Part(w[n], o, n, hidden)
  <2> HIDE DEF n
  <2> QED
    BY <1>0, <1>4
<1>6. ASSUME NEW x \in Objects, x \notin hidden, Contains(w[n], parent[x]) PROVE Contains(w[n], x)
  <2>1. CASE parent[x] = o
    <3>1. \E j \in 1..n : children[o][j] = x
      BY <1>0, <2>1
    <3> HIDE DEF n
    <3> QED
      BY <3>1, <1>5, <1>6, <2>1 DEF Part
  <2>2. CASE parent[x] # o
    <3> HIDE DEF n
    <3> QED
      BY <1>5, <1>6, <2>2 DEF Part
  <2> QED
    BY <2>1, <2>2
<1> HIDE DEF n
<1>7. Branch(w[n], o, hidden)
  BY <1>5 DEF Part
<1> QED
  BY <1>1, <1>6, <1>7 DEF Shows

\* The visit of an object shows what is below it.
LEMMA VisitShows ==
  ASSUME InOrder, NEW hidden, NEW f, \A o \in Objects : f[o] = Value(f, o, hidden)
  PROVE  \A o \in Objects : Shows(f[o], o, hidden)
<1> DEFINE bad == {o \in Objects : ~Shows(f[o], o, hidden)}
<1> SUFFICES ASSUME bad # {} PROVE FALSE
  OBVIOUS
<1>1. PICK o \in bad : \A y \in bad : parent[y] # o
  <2>1. bad \in SUBSET Objects
    OBVIOUS
  <2> HIDE DEF bad
  <2> QED
    BY <2>1, Bottom
<1>2. o \in Objects /\ ~Shows(f[o], o, hidden)
  BY <1>1
<1>3. CASE o \in Leaves
  <2>1. f[o] = <<o>>
    BY <1>2, <1>3 DEF Value
  <2>2. Branch(<<o>>, o, hidden) /\ \A x : Contains(<<o>>, x) <=> x = o
    BY <1>2, BranchOfOne
  <2>3. \A x \in Objects : parent[x] # o
    BY <1>3, TreeAssumption DEF InOrder, Objects
  <2>4. Shows(<<o>>, o, hidden)
    BY <2>2, <2>3 DEF Shows
  <2> QED
    BY <1>2, <2>1, <2>4
<1>4. CASE o \notin Leaves
  <2>1. o \in Nodes
    BY <1>2, <1>4 DEF Objects
  <2>2. \A c \in Objects : parent[c] = o => Shows(f[c], c, hidden)
    BY <1>1
  <2>3. Shows(Listing(f, o, hidden), o, hidden)
    BY <2>1, <2>2, ListingShows
  <2>4. f[o] = Listing(f, o, hidden)
    BY <1>2, <1>4 DEF Value
  <2> QED
    BY <1>2, <2>3, <2>4
<1> QED
  BY <1>3, <1>4

LEMMA BrowseShows ==
  ASSUME InOrder, NEW hidden, NEW start \in Objects
  PROVE  Shows(Browse(start, hidden), start, hidden)
<1>1. PICK f : /\ \A o \in Objects : f[o] = Value(f, o, hidden)
               /\ \A o \in Objects : Browse(o, hidden) = f[o]
  BY BrowseFacts
<1>2. Shows(f[start], start, hidden)
  BY <1>1, VisitShows
<1> QED
  BY <1>1, <1>2

-----------------------------------------------------------------------------
(* The readers of a traversal *)

\* The last entry before the i-th that is less indented is the i-th one's parent.
Above(v, i) == {j \in 1..(i - 1) : Indentation(v[j]) < Indentation(v[i])}
ParentIsLastAbove(v, i) == Above(v, i) # {} /\ parent[v[i]] = v[Max(Above(v, i))]

LEMMA LastAbove ==
  ASSUME InOrder, NEW hidden, NEW o \in Objects, NEW v, Branch(v, o, hidden), NEW i \in 2..Len(v)
  PROVE  ParentIsLastAbove(v, i)
<1> DEFINE above == {j \in 1..(i - 1) : Indentation(v[j]) < Indentation(v[i])}
<1>0. Len(v) \in Nat /\ i \in 1..Len(v)
  <2>1. Len(v) \in Nat
    BY BranchFacts
  <2> QED
    BY <2>1
<1>1. ASSUME NEW k \in 1..Len(v)
      PROVE  v[k] \in Objects /\ Depth(v[k]) \in Nat /\ Indentation(v[k]) = Depth(v[k]) - 1
  <2>1. v[k] \in Objects
    BY BranchFacts
  <2> QED
    BY <2>1, DepthFacts
<1>2. PICK j \in 1..(i - 1) : /\ parent[v[i]] = v[j]
                              /\ \A k \in (j + 1)..(i - 1) : Depth(v[k]) >= Depth(v[i])
  BY DEF Branch, Reads
<1>3. j \in 1..Len(v)
  BY <1>0
<1>4. Depth(v[i]) = Depth(v[j]) + 1
  <2>1. parent[v[i]] # NoObject /\ v[i] \in Objects
    BY <1>0, <1>1, BranchFacts
  <2> QED
    BY <2>1, <1>2, DepthFacts
<1>5. j \in above
  BY <1>0, <1>1, <1>3, <1>4
<1>6. ASSUME NEW k \in above PROVE k <= j
  <2>1. k \in 1..(i - 1) /\ Indentation(v[k]) < Indentation(v[i]) /\ k \in 1..Len(v)
    BY <1>0
  <2>2. Depth(v[k]) < Depth(v[i])
    BY <1>0, <1>1, <2>1
  <2>3. ~(Depth(v[k]) >= Depth(v[i]))
    BY <1>0, <1>1, <2>1, <2>2
  <2>4. k \notin (j + 1)..(i - 1)
    BY <1>2, <2>3
  <2> QED
    BY <2>1, <2>4, <1>0
<1>7. \A k \in above : k \in Nat
  BY <1>0
<1> HIDE DEF above
<1>8. Max(above) = j
  <2>1. Max(above) = CHOOSE x \in above : \A y \in above : x >= y
    BY DEF Max
  <2>2. j \in above /\ \A y \in above : j >= y
    BY <1>5, <1>6, <1>7
  <2>3. \A x \in above : (\A y \in above : x >= y) => x = j
    BY <2>2, <1>5, <1>6, <1>7
  <2> QED
    BY <2>1, <2>2, <2>3
<1> QED
  BY <1>2, <1>5, <1>8 DEF above, Above, ParentIsLastAbove

\* A client rebuilds the tree from the indentation of its description, with
\* everything that it may read and nothing else.
THEOREM TraversalShowsTree == Spec => []IndentationShowsTree
<1>1. IInv => IndentationShowsTree
  <2> SUFFICES ASSUME IInv, NEW start \in alive, NEW hidden \in SUBSET (alive \ {Root})
               PROVE  LET v == Browse(start, hidden) IN
                      /\ IsInjective(v)
                      /\ v # <<>> /\ v[1] = start
                      /\ \A o \in alive \ {start} :
                           Contains(v, o) <=> o \notin hidden /\ parent[o] # NoObject /\ Contains(v, parent[o])
                      /\ \A i \in 2..Len(v) :
                           LET above == {j \in 1..(i - 1) : Indentation(v[j]) < Indentation(v[i])} IN
                           above # {} /\ parent[v[i]] = v[Max(above)]
    BY DEF IndentationShowsTree
  <2> DEFINE v == Browse(start, hidden)
  <2>1. InOrder /\ start \in Objects /\ alive \subseteq Objects
    BY OrderKept DEF InOrder
  <2>2. Shows(v, start, hidden)
    BY <2>1, BrowseShows
  <2> HIDE DEF v
  <2>3. Branch(v, start, hidden)
    BY <2>2 DEF Shows
  <2>4. /\ v \in Seq(Objects) /\ Len(v) \in Nat /\ Len(v) >= 1 /\ DOMAIN v = 1..Len(v)
        /\ v[1] = start
        /\ \A i, j \in 1..Len(v) : v[i] = v[j] => i = j
        /\ \A i \in 2..Len(v) : v[i] \notin hidden
    BY <2>1, <2>3, BranchFacts, LenProperties DEF Branch
  <2>5. IsInjective(v)
    BY <2>4 DEF IsInjective
  <2>6. v # <<>>
    BY <2>4, EmptySeq
  <2>7. ASSUME NEW o \in alive \ {start}
        PROVE  Contains(v, o) <=> o \notin hidden /\ parent[o] # NoObject /\ Contains(v, parent[o])
    <3>1. o \notin hidden /\ Contains(v, parent[o]) => Contains(v, o)
      BY <2>1, <2>2 DEF Shows
    <3>2. ASSUME Contains(v, o)
          PROVE  o \notin hidden /\ parent[o] # NoObject /\ Contains(v, parent[o])
      <4>1. PICK i \in 1..Len(v) : v[i] = o
        BY <3>2 DEF Contains
      <4>2. i \in 2..Len(v)
        BY <2>4, <4>1
      <4> QED
        BY <2>1, <2>3, <2>4, <4>1, <4>2, BranchFacts
    <3> QED
      BY <3>1, <3>2
  <2>8. ASSUME NEW i \in 2..Len(v)
        PROVE  ParentIsLastAbove(v, i)
    BY <2>1, <2>3, LastAbove
  <2>9. ASSUME NEW i \in 2..Len(v)
        PROVE  LET above == {j \in 1..(i - 1) : Indentation(v[j]) < Indentation(v[i])} IN
               above # {} /\ parent[v[i]] = v[Max(above)]
    BY <2>8 DEF ParentIsLastAbove, Above
  <2> QED
    BY <2>4, <2>5, <2>6, <2>7, <2>9 DEF v
<1> QED
  BY <1>1, Invariance, PTL

\* xml_visitor: the types on the stack behind each visit.
Pushed(s, o) == IF o \in Nodes THEN <<o>> \o s ELSE s
IsStack(w, v) == w[0] = <<>> /\ \A i \in 1..Len(v) : w[i] = Pushed(w[i - 1], v[i])

LEMMA StackFacts ==
  ASSUME NEW hidden, NEW T, NEW v \in Seq(T), v = Browse(Root, hidden)
  PROVE  \E w : IsStack(w, v) /\ XmlTypes(hidden) = w[Len(v)]
<1> DEFINE IsRun(k, g) == g = [i \in 0..k |-> IF i = 0 THEN <<>>
                                              ELSE IF v[i] \in Nodes THEN <<v[i]>> \o g[i - 1] ELSE g[i - 1]]
           P(k) == \E g : IsRun(k, g)
           bad == {k \in Nat : k <= Len(v) /\ ~P(k)}
<1>1. Len(v) \in Nat
  BY LenProperties
<1>2. P(0)
  <2> DEFINE g == [i \in 0..0 |-> <<>>]
  <2>1. IsRun(0, g)
    OBVIOUS
  <2> QED
    BY <2>1
<1>3. ASSUME NEW k \in Nat, k < Len(v), P(k) PROVE P(k + 1)
  <2>1. PICK g : IsRun(k, g)
    BY <1>3
  <2> DEFINE x == Pushed(g[k], v[k + 1])
             h == [i \in 0..(k + 1) |-> IF i = k + 1 THEN x ELSE g[i]]
  <2>2. ASSUME NEW i \in 0..(k + 1)
        PROVE  h[i] = IF i = 0 THEN <<>> ELSE Pushed(h[i - 1], v[i])
    <3>1. \A j \in 0..k : g[j] = IF j = 0 THEN <<>> ELSE Pushed(g[j - 1], v[j])
      BY <2>1 DEF Pushed
    <3>2. CASE i = k + 1
      <4>1. h[i] = x /\ i # 0 /\ i - 1 = k /\ h[k] = g[k]
        BY <3>2
      <4> QED
        BY <4>1, <3>2
    <3>3. CASE i \in 0..k
      <4>1. h[i] = g[i] /\ i # k + 1
        BY <3>3
      <4>2. i # 0 => i - 1 \in 0..k /\ i - 1 # k + 1 /\ h[i - 1] = g[i - 1]
        BY <3>3
      <4> QED
        BY <4>1, <4>2, <3>1, <3>3
    <3> QED
      BY <3>2, <3>3
  <2>3. h = [i \in 0..(k + 1) |-> IF i = 0 THEN <<>> ELSE Pushed(h[i - 1], v[i])]
    BY <2>2
  <2> HIDE DEF h
  <2>4. IsRun(k + 1, h)
    BY <2>3 DEF Pushed
  <2> QED
    BY <2>4
<1>4. bad = {}
  <2> SUFFICES ASSUME bad # {} PROVE FALSE
    OBVIOUS
  <2> HIDE DEF P
  <2>1. PICK m \in bad : \A k \in bad : m <= k
    BY LeastExists
  <2>2. m # 0 /\ m - 1 \in Nat /\ m - 1 < Len(v) /\ (m - 1) + 1 = m
    BY <1>1, <1>2
  <2>3. P(m - 1)
    BY <2>1, <2>2
  <2> QED
    BY <1>3, <2>2, <2>3
<1>5. P(Len(v))
  <2> HIDE DEF P
  <2> QED
    BY <1>1, <1>4
<1> DEFINE w == CHOOSE h : IsRun(Len(v), h)
<1>6. IsRun(Len(v), w) /\ XmlTypes(hidden) = w[Len(v)]
  <2>1. XmlTypes(hidden) = (CHOOSE h : IsRun(Len(v), h))[Len(v)]
    BY DEF XmlTypes
  <2>2. \E h : IsRun(Len(v), h)
    BY <1>5
  <2> HIDE DEF IsRun
  <2>3. IsRun(Len(v), w)
    BY <2>2
  <2> QED
    BY <2>1, <2>3
<1> HIDE DEF w
<1>7. w = [i \in 0..Len(v) |-> IF i = 0 THEN <<>> ELSE Pushed(w[i - 1], v[i])]
  BY <1>6 DEF Pushed
<1>8. IsStack(w, v)
  BY <1>1, <1>7 DEF IsStack
<1> QED
  BY <1>6, <1>8

\* s holds the nodes among the first k entries of v, the later ones in front.
StacksFirst(s, v, k) ==
  /\ s \in Seq(Nodes)
  /\ \A a \in 1..Len(s) : \E p \in 1..k :
       /\ s[a] = v[p]
       /\ \A q \in (p + 1)..k : v[q] \in Nodes => \E b \in 1..(a - 1) : s[b] = v[q]
  /\ \A q \in 1..k : v[q] \in Nodes => \E b \in 1..Len(s) : s[b] = v[q]

LEMMA PushedFacts ==
  ASSUME NEW v, NEW k \in Nat, NEW s, StacksFirst(s, v, k)
  PROVE  StacksFirst(Pushed(s, v[k + 1]), v, k + 1)
<1> DEFINE o == v[k + 1]
           r == <<o>> \o s
<1>0. s \in Seq(Nodes) /\ Len(s) \in Nat
  BY LenProperties DEF StacksFirst
<1>1. \A q : q \in 1..(k + 1) <=> q \in 1..k \/ q = k + 1
  OBVIOUS
<1>2. CASE o \notin Nodes
  <2>1. Pushed(s, o) = s
    BY <1>2 DEF Pushed
  <2>2. ASSUME NEW a \in 1..Len(s)
        PROVE  \E p \in 1..(k + 1) :
                 /\ s[a] = v[p]
                 /\ \A q \in (p + 1)..(k + 1) : v[q] \in Nodes => \E b \in 1..(a - 1) : s[b] = v[q]
    <3>1. PICK p \in 1..k :
            /\ s[a] = v[p]
            /\ \A q \in (p + 1)..k : v[q] \in Nodes => \E b \in 1..(a - 1) : s[b] = v[q]
      BY DEF StacksFirst
    <3>2. p \in 1..(k + 1) /\ \A q \in (p + 1)..(k + 1) : q \in (p + 1)..k \/ q = k + 1
      OBVIOUS
    <3> QED
      BY <3>1, <3>2, <1>2
  <2>3. StacksFirst(s, v, k + 1)
    <3> HIDE DEF o
    <3>1. \A q \in 1..(k + 1) : v[q] \in Nodes => \E b \in 1..Len(s) : s[b] = v[q]
      BY <1>1, <1>2 DEF StacksFirst, o
    <3> QED
      BY <1>0, <2>2, <3>1 DEF StacksFirst
  <2> QED
    BY <2>1, <2>3
<1>3. CASE o \in Nodes
  <2>1. Pushed(s, o) = r
    BY <1>3 DEF Pushed
  <2>2. <<o>> \in Seq(Nodes) /\ Len(<<o>>) = 1 /\ <<o>>[1] = o
    BY <1>3
  <2>3. /\ r \in Seq(Nodes) /\ Len(r) = 1 + Len(s)
        /\ \A i \in 1..(1 + Len(s)) : r[i] = IF i <= 1 THEN <<o>>[i] ELSE s[i - 1]
    BY <1>0, <2>2, ConcatProperties
  <2> HIDE DEF r
  <2>4. r[1] = o /\ 1 \in 1..Len(r)
    BY <1>0, <2>2, <2>3
  <2>5. \A b \in 1..Len(s) : b + 1 \in 1..Len(r) /\ r[b + 1] = s[b]
    BY <1>0, <2>3
  <2> HIDE DEF o
  <2>6. ASSUME NEW a \in 1..Len(r)
        PROVE  \E p \in 1..(k + 1) :
                 /\ r[a] = v[p]
                 /\ \A q \in (p + 1)..(k + 1) : v[q] \in Nodes => \E b \in 1..(a - 1) : r[b] = v[q]
    <3>1. CASE a = 1
      <4>1. k + 1 \in 1..(k + 1) /\ \A q : q \notin ((k + 1) + 1)..(k + 1)
        OBVIOUS
      <4> QED
        BY <4>1, <3>1, <2>4 DEF o
    <3>2. CASE a # 1
      <4> DEFINE c == a - 1
      <4>1. c \in 1..Len(s) /\ c + 1 = a /\ c \in Nat
        BY <1>0, <2>3, <3>2
      <4> HIDE DEF c
      <4>2. r[a] = s[c]
        BY <2>5, <4>1
      <4>3. PICK p \in 1..k :
              /\ s[c] = v[p]
              /\ \A q \in (p + 1)..k : v[q] \in Nodes => \E b \in 1..(c - 1) : s[b] = v[q]
        BY <4>1 DEF StacksFirst
      <4>4. ASSUME NEW q \in (p + 1)..(k + 1), v[q] \in Nodes PROVE \E b \in 1..(a - 1) : r[b] = v[q]
        <5>1. CASE q = k + 1
          <6>1. 1 \in 1..(a - 1)
            BY <4>1
          <6> QED
            BY <6>1, <5>1, <2>4 DEF o
        <5>2. CASE q # k + 1
          <6>1. q \in (p + 1)..k
            BY <5>2
          <6>2. PICK b \in 1..(c - 1) : s[b] = v[q]
            BY <4>3, <4>4, <6>1
          <6>3. b \in 1..Len(s) /\ b + 1 \in 1..(a - 1)
            BY <4>1, <1>0
          <6> QED
            BY <6>2, <6>3, <2>5
        <5> QED
          BY <5>1, <5>2
      <4>5. p \in 1..(k + 1)
        OBVIOUS
      <4> QED
        BY <4>2, <4>3, <4>4, <4>5
    <3> QED
      BY <3>1, <3>2
  <2>7. ASSUME NEW q \in 1..(k + 1), v[q] \in Nodes PROVE \E b \in 1..Len(r) : r[b] = v[q]
    <3>1. CASE q = k + 1
      BY <3>1, <2>4 DEF o
    <3>2. CASE q # k + 1
      <4>1. PICK b \in 1..Len(s) : s[b] = v[q]
        BY <1>1, <2>7, <3>2 DEF StacksFirst
      <4> QED
        BY <4>1, <2>5
    <3> QED
      BY <3>1, <3>2
  <2>8. StacksFirst(r, v, k + 1)
    BY <2>3, <2>6, <2>7 DEF StacksFirst
  <2> QED
    BY <2>1, <2>8 DEF o
<1> QED
  BY <1>2, <1>3 DEF o

LEMMA StackedFacts ==
  ASSUME NEW T, NEW v \in Seq(T), NEW w, IsStack(w, v)
  PROVE  StacksFirst(w[Len(v)], v, Len(v))
<1> DEFINE bad == {k \in Nat : k <= Len(v) /\ ~StacksFirst(w[k], v, k)}
<1>1. Len(v) \in Nat
  BY LenProperties
<1>2. StacksFirst(w[0], v, 0)
  <2>1. w[0] = <<>> /\ <<>> \in Seq(Nodes) /\ Len(<<>>) = 0
    BY EmptySeq DEF IsStack
  <2>2. \A i : i \notin 1..0
    OBVIOUS
  <2>3. Len(w[0]) = 0 /\ w[0] \in Seq(Nodes)
    BY <2>1
  <2> QED
    BY <2>2, <2>3 DEF StacksFirst
<1>3. bad = {}
  <2> SUFFICES ASSUME bad # {} PROVE FALSE
    OBVIOUS
  <2>1. PICK m \in bad : \A k \in bad : m <= k
    BY LeastExists
  <2>2. m # 0 /\ m - 1 \in Nat /\ m - 1 <= Len(v) /\ (m - 1) + 1 = m /\ m \in 1..Len(v)
    BY <1>1, <1>2
  <2>3. m - 1 \notin bad
    <3> HIDE DEF bad
    <3> QED
      BY <2>1, <2>2
  <2>4. StacksFirst(w[m - 1], v, m - 1)
    BY <2>2, <2>3
  <2>5. w[m] = Pushed(w[m - 1], v[m])
    BY <2>2 DEF IsStack
  <2>6. StacksFirst(Pushed(w[m - 1], v[(m - 1) + 1]), v, (m - 1) + 1)
    BY <2>2, <2>4, PushedFacts
  <2>7. StacksFirst(w[m], v, m)
    BY <2>2, <2>5, <2>6
  <2> QED
    BY <2>1, <2>7
<1> QED
  BY <1>1, <1>3

\* A type of the XML description is defined before the nodes that are of it are
\* listed as members of another.
THEOREM XmlIsInOrder == Spec => []XmlDefinesBeforeUse
<1>1. IInv => XmlDefinesBeforeUse
  <2> SUFFICES ASSUME IInv, NEW hidden \in SUBSET (alive \ {Root}),
                      NEW i \in DOMAIN XmlTypes(hidden),
                      NEW c \in Members(children[XmlTypes(hidden)[i]]) \ hidden, c \in Nodes
               PROVE  \E j \in 1..(i - 1) : XmlTypes(hidden)[j] = c
    BY DEF XmlDefinesBeforeUse
  <2> DEFINE v == Browse(Root, hidden)
             t == XmlTypes(hidden)
             n == Len(v)
  <2>0. InOrder /\ Root \in Objects /\ parent[Root] = NoObject
    BY OrderKept, TreeAssumption DEF InOrder, Objects
  <2>1. Shows(v, Root, hidden)
    BY <2>0, BrowseShows
  <2>2. Branch(v, Root, hidden) /\ v \in Seq(Objects) /\ n \in Nat
    BY <2>1, LenProperties DEF Shows, Branch
  <2>3. PICK w : IsStack(w, v) /\ t = w[n]
    BY <2>2, StackFacts
  <2>4. StacksFirst(t, v, n)
    BY <2>2, <2>3, StackedFacts
  <2> HIDE DEF v, t, n
  <2>5. t \in Seq(Nodes) /\ i \in 1..Len(t) /\ t[i] \in Nodes
    <3>1. t \in Seq(Nodes)
      BY <2>4 DEF StacksFirst
    <3>2. i \in DOMAIN t
      BY DEF t
    <3> QED
      BY <3>1, <3>2, LenProperties, ElementOfSeq
  <2>6. PICK p \in 1..n :
          /\ t[i] = v[p]
          /\ \A q \in (p + 1)..n : v[q] \in Nodes => \E b \in 1..(i - 1) : t[b] = v[q]
    BY <2>4, <2>5 DEF StacksFirst
  <2>7. c \in Objects /\ parent[c] = t[i]
    <3>1. c \in Objects
      BY DEF Objects
    <3>2. Lists(Links, t[i]) /\ Links.children = children /\ Links.parent = parent
      BY <2>0, <2>5 DEF InOrder, Links
    <3>3. c \in Members(children[t[i]])
      BY DEF t
    <3> QED
      BY <3>1, <3>2, <3>3 DEF Lists
  <2>8. Contains(v, c)
    <3>1. Contains(v, parent[c])
      BY <2>6, <2>7 DEF Contains, n
    <3> QED
      BY <3>1, <2>1, <2>7 DEF Shows
  <2>9. PICK q \in 1..n : v[q] = c
    BY <2>8 DEF Contains, n
  <2>10. p < q
    <3>1. q # 1
      <4>1. v[1] = Root
        BY <2>2 DEF Branch
      <4>2. c # Root
        BY <2>0, <2>5, <2>7, TreeAssumption DEF Objects
      <4> QED
        BY <4>1, <4>2, <2>9
    <3>2. q \in 2..Len(v)
      BY <3>1, <2>2, <2>9 DEF n
    <3>3. PICK j \in 1..(q - 1) : parent[v[q]] = v[j]
      BY <3>2, <2>2 DEF Branch, Reads
    <3>4. j \in 1..n /\ v[j] = v[p]
      BY <3>3, <2>2, <2>6, <2>7, <2>9
    <3>5. j = p
      BY <3>4, <2>2 DEF Branch, n
    <3> QED
      BY <3>3, <3>5, <2>2
  <2>11. q \in (p + 1)..n
    BY <2>10, <2>2
  <2> QED
    BY <2>6, <2>9, <2>11 DEF t
<1> QED
  BY <1>1, Invariance, PTL
=============================================================================
