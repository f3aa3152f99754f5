------------------------- MODULE Observation_proofs -------------------------
(***************************************************************************)
(* Proofs about Observation for every set of contexts, parameters and      *)
(* values, and every choice of what the parameters are.                    *)
(*                                                                         *)
(* None of the properties is inductive by itself.  What unsubscribing does *)
(* to the counter of a polled parameter is right because such a parameter  *)
(* is not destroyed while it is registered, so that no entry for it ever   *)
(* outlives it (CountersOK); and a parameter that is created under the URI  *)
(* of a destroyed one starts without connections (ContextsOK).             *)
(***************************************************************************)
EXTENDS Observation, FiniteSets, SequenceTheorems, FiniteSetTheorems, WellFoundedInduction, TLAPS

-----------------------------------------------------------------------------
(* Lists *)

Injective(s) == \A i, j \in DOMAIN s : s[i] = s[j] => i = j

\* push_back of an object that is not listed.
LEMMA AppendMembers ==
  ASSUME NEW S, NEW s \in Seq(S), NEW o \in S, Injective(s), o \notin Members(s)
  PROVE  /\ Append(s, o) \in Seq(S)
         /\ Members(Append(s, o)) = Members(s) \union {o}
         /\ Injective(Append(s, o))
<1> DEFINE a == Append(s, o)
           n == Len(s)
<1>1. /\ a \in Seq(S) /\ Len(a) = n + 1 /\ a[n + 1] = o
      /\ \A i \in 1..n : a[i] = s[i]
  BY AppendProperties
<1>2. /\ n \in Nat /\ DOMAIN s = 1..n /\ DOMAIN a = 1..(n + 1)
  BY <1>1, LenProperties
<1>3. \A i \in DOMAIN s : s[i] # o
  BY DEF Members
<1> HIDE DEF a, n
<1>4. Members(a) = Members(s) \union {o}
  <2>1. ASSUME NEW x \in Members(a) PROVE x \in Members(s) \union {o}
    <3>1. PICK i \in 1..(n + 1) : x = a[i]
      BY <1>2 DEF Members
    <3>2. CASE i \in 1..n
      BY <3>1, <3>2, <1>1, <1>2 DEF Members
    <3>3. CASE i = n + 1
      BY <3>1, <3>3, <1>1
    <3> QED
      BY <3>2, <3>3, <1>2
  <2>2. ASSUME NEW x \in Members(s) PROVE x \in Members(a)
    <3>1. PICK i \in 1..n : x = s[i]
      BY <1>2 DEF Members
    <3>2. a[i] = x /\ i \in 1..(n + 1)
      BY <3>1, <1>1, <1>2
    <3> QED
      BY <3>2, <1>2 DEF Members
  <2>3. o \in Members(a)
    <3>1. n + 1 \in 1..(n + 1)
      BY <1>2
    <3> QED
      BY <3>1, <1>1, <1>2 DEF Members
  <2> QED
    BY <2>1, <2>2, <2>3
<1>5. Injective(a)
  <2> SUFFICES ASSUME NEW i \in 1..(n + 1), NEW j \in 1..(n + 1), a[i] = a[j] PROVE i = j
    BY <1>2 DEF Injective
  <2>1. CASE i \in 1..n /\ j \in 1..n
    BY <2>1, <1>1, <1>2 DEF Injective
  <2>2. CASE i = n + 1 /\ j \in 1..n
    BY <2>2, <1>1, <1>2, <1>3
  <2>3. CASE i \in 1..n /\ j = n + 1
    BY <2>3, <1>1, <1>2, <1>3
  <2> QED
    BY <2>1, <2>2, <2>3, <1>2
<1> QED
  BY <1>1, <1>4, <1>5 DEF a

\* A sequence without its i-th element.
Dropped(s, i) == SubSeq(s, 1, i - 1) \o SubSeq(s, i + 1, Len(s))

\* The list without the object at i, position by position.
LEMMA DropOne ==
  ASSUME NEW S, NEW s \in Seq(S), NEW i \in 1..Len(s)
  PROVE  /\ Dropped(s, i) \in Seq(S)
         /\ Len(Dropped(s, i)) = Len(s) - 1
         /\ \A j \in 1..(Len(s) - 1) : Dropped(s, i)[j] = IF j < i THEN s[j] ELSE s[j + 1]
<1> DEFINE n == Len(s)
           p == SubSeq(s, 1, i - 1)
           q == SubSeq(s, i + 1, n)
           w == Dropped(s, i)
<1>1. n \in Nat /\ i \in 1..n /\ DOMAIN s = 1..n
  BY LenProperties
<1>2. /\ p \in Seq(S)
      /\ Len(p) = i - 1
      /\ \A j \in 1..(i - 1) : p[j] = s[j]
  <2>1. \A k \in 1..(i - 1) : s[k] \in S
    BY <1>1, ElementOfSeq
  <2>2. i - 1 \in Int /\ 1 \in Int
    BY <1>1
  <2>3. /\ p \in Seq(S)
        /\ Len(p) = IF 1 <= i - 1 THEN (i - 1) - 1 + 1 ELSE 0
        /\ \A j \in 1..((i - 1) - 1 + 1) : p[j] = s[1 + j - 1]
    BY <2>1, <2>2, SubSeqProperties
  <2> HIDE DEF p
  <2>4. /\ (IF 1 <= i - 1 THEN (i - 1) - 1 + 1 ELSE 0) = i - 1
        /\ (i - 1) - 1 + 1 = i - 1
        /\ \A j \in 1..(i - 1) : 1 + j - 1 = j
    BY <1>1
  <2> QED
    BY <2>3, <2>4
<1>3. /\ q \in Seq(S)
      /\ Len(q) = n - i
      /\ \A j \in 1..(n - i) : q[j] = s[i + j]
  <2>1. \A k \in (i + 1)..n : s[k] \in S
    BY <1>1, ElementOfSeq
  <2>2. i + 1 \in Int /\ n \in Int
    BY <1>1
  <2>3. /\ q \in Seq(S)
        /\ Len(q) = IF i + 1 <= n THEN n - (i + 1) + 1 ELSE 0
        /\ \A j \in 1..(n - (i + 1) + 1) : q[j] = s[(i + 1) + j - 1]
    BY <2>1, <2>2, SubSeqProperties
  <2> HIDE DEF q, n
  <2>4. /\ (IF i + 1 <= n THEN n - (i + 1) + 1 ELSE 0) = n - i
        /\ n - (i + 1) + 1 = n - i
        /\ \A j \in 1..(n - i) : (i + 1) + j - 1 = i + j
    BY <1>1
  <2> QED
    BY <2>3, <2>4
<1>4. w = p \o q
  BY DEF Dropped
<1> HIDE DEF n, p, q, w
<1>5. /\ w \in Seq(S) /\ Len(w) = (i - 1) + (n - i)
      /\ \A j \in 1..((i - 1) + (n - i)) : w[j] = IF j <= i - 1 THEN p[j] ELSE q[j - (i - 1)]
  <2>1. /\ p \o q \in Seq(S) /\ Len(p \o q) = Len(p) + Len(q)
        /\ \A j \in 1..(Len(p) + Len(q)) : (p \o q)[j] = IF j <= Len(p) THEN p[j] ELSE q[j - Len(p)]
    BY <1>2, <1>3, ConcatProperties
  <2> QED
    BY <2>1, <1>2, <1>3, <1>4
<1>6. (i - 1) + (n - i) = n - 1
  BY <1>1
<1>7. ASSUME NEW j \in 1..(n - 1) PROVE w[j] = IF j < i THEN s[j] ELSE s[j + 1]
  <2>1. CASE j < i
    <3>1. j \in 1..(i - 1) /\ j <= i - 1
      BY <2>1, <1>1
    <3>2. w[j] = p[j]
      BY <3>1, <1>5, <1>6
    <3> QED
      BY <3>1, <3>2, <1>2, <2>1
  <2>2. CASE ~(j < i)
    <3>1. j - (i - 1) \in 1..(n - i) /\ i + (j - (i - 1)) = j + 1 /\ ~(j <= i - 1)
      BY <2>2, <1>1
    <3>2. w[j] = q[j - (i - 1)]
      BY <3>1, <1>5, <1>6
    <3> QED
      BY <3>1, <3>2, <1>3, <2>2
  <2> QED
    BY <2>1, <2>2
<1> QED
  BY <1>5, <1>6, <1>7 DEF n, w

\* remove_if of an object that is listed at most once.
LEMMA WithoutMembers ==
  ASSUME NEW S, NEW s \in Seq(S), NEW o, Injective(s)
  PROVE  /\ Without(s, o) \in Seq(S)
         /\ Members(Without(s, o)) = Members(s) \ {o}
         /\ Injective(Without(s, o))
<1>1. CASE o \notin Members(s)
  BY <1>1 DEF Without
<1>2. CASE o \in Members(s)
  <2> DEFINE n == Len(s)
             i == CHOOSE i \in DOMAIN s : s[i] = o
             w == SubSeq(s, 1, i - 1) \o SubSeq(s, i + 1, n)
  <2>1. n \in Nat /\ DOMAIN s = 1..n
    BY LenProperties
  <2>2. i \in 1..n /\ s[i] = o
    BY <1>2, <2>1 DEF Members
  <2>3. Without(s, o) = w
    BY <1>2 DEF Without
  <2> HIDE DEF i
  <2>4. /\ w \in Seq(S) /\ Len(w) = n - 1
        /\ \A j \in 1..(n - 1) : w[j] = IF j < i THEN s[j] ELSE s[j + 1]
    <3>1. w = Dropped(s, i)
      BY DEF Dropped
    <3> HIDE DEF w
    <3> QED
      BY <2>2, <3>1, DropOne
  <2>5. DOMAIN w = 1..(n - 1)
    BY <2>4, LenProperties
  <2> HIDE DEF w, n
  <2>6. Members(w) = Members(s) \ {o}
    <3>1. ASSUME NEW x \in Members(w) PROVE x \in Members(s) \ {o}
      <4>1. PICK j \in 1..(n - 1) : x = w[j]
        BY <2>5 DEF Members
      <4>2. PICK k \in 1..n : x = s[k] /\ k # i
        <5>1. CASE j < i
          BY <5>1, <4>1, <2>1, <2>2, <2>4
        <5>2. CASE ~(j < i)
          BY <5>2, <4>1, <2>1, <2>2, <2>4
        <5> QED
          BY <5>1, <5>2
      <4>3. x # o
        BY <4>2, <2>1, <2>2 DEF Injective
      <4> QED
        BY <4>2, <4>3, <2>1 DEF Members
    <3>2. ASSUME NEW x \in Members(s) \ {o} PROVE x \in Members(w)
      <4>1. PICK k \in 1..n : x = s[k]
        BY <2>1 DEF Members
      <4>2. k # i
        BY <4>1, <2>2
      <4>3. PICK j \in 1..(n - 1) : w[j] = s[k]
        <5>1. CASE k < i
          <6>1. k \in 1..(n - 1)
            BY <5>1, <2>1, <2>2
          <6> QED
            BY <6>1, <5>1, <2>4
        <5>2. CASE i < k
          <6>1. k - 1 \in 1..(n - 1) /\ ~(k - 1 < i) /\ (k - 1) + 1 = k
            BY <5>2, <2>1, <2>2
          <6> QED
            BY <6>1, <2>4
        <5> QED
          BY <5>1, <5>2, <4>2, <2>1, <2>2
      <4> QED
        BY <4>1, <4>3, <2>5 DEF Members
    <3> QED
      BY <3>1, <3>2
  <2>7. Injective(w)
    <3> SUFFICES ASSUME NEW j \in 1..(n - 1), NEW k \in 1..(n - 1), w[j] = w[k] PROVE j = k
      BY <2>5 DEF Injective
    <3> DEFINE at(x) == IF x < i THEN x ELSE x + 1
    <3>1. at(j) \in 1..n /\ at(k) \in 1..n
      BY <2>1, <2>2
    <3>2. s[at(j)] = s[at(k)]
      BY <2>4
    <3>3. at(j) = at(k)
      BY <3>1, <3>2, <2>1 DEF Injective
    <3> QED
      BY <3>3, <2>1, <2>2
  <2> QED
    BY <2>3, <2>4, <2>6, <2>7
<1> QED
  BY <1>1, <1>2

-----------------------------------------------------------------------------

\* The connections, and what a context has in its map.
ContextsOK ==
  /\ ConnectionsMatch
  /\ \A c \in Contexts : outlived[c] \subseteq observables[c]
  /\ \A c \in Contexts \ connected : observables[c] = {}
  /\ \A p \in Params \ alive : slots[p] = {}

\* The counters of the polled parameters.
CountersOK ==
  \A p \in Polled :
    /\ IsFiniteSet(slots[p])
    /\ Cardinality(slots[p]) <= observations[p]
    /\ \A c \in Contexts : p \notin outlived[c]

\* The list of the dictionary.
TargetsOK ==
  /\ \A p \in Polled : observations[p] > 0 <=> p \in Members(tickTargets)
  /\ Injective(tickTargets)
  /\ Members(tickTargets) \subseteq alive \intersect Polled

ReportsOK == SubscribersAreCurrent /\ OnlySubscribersAreTold

IInv == TypeOK /\ ContextsOK /\ CountersOK /\ TargetsOK /\ ReportsOK

LEMMA InitIInv == Init => IInv
<1> SUFFICES ASSUME Init PROVE IInv
  OBVIOUS
<1>1. TypeOK
  BY KindsAssumption DEF Init, TypeOK
<1>2. ContextsOK
  BY DEF Init, ContextsOK, ConnectionsMatch
<1>3. CountersOK
  BY FS_EmptySet DEF Init, CountersOK, Polled
<1>4. TargetsOK
  BY DEF Init, TargetsOK, Polled, Members, Injective
<1>5. ReportsOK
  BY DEF Init, ReportsOK, SubscribersAreCurrent, OnlySubscribersAreTold
<1> QED
  BY <1>1, <1>2, <1>3, <1>4, <1>5 DEF IInv

-----------------------------------------------------------------------------
(* The list of tick targets *)

\* What observing p leaves of the counters and the list.
LEMMA RegisterOK ==
  ASSUME TypeOK, TargetsOK, NEW p \in alive, RegisterForTick(p), kind' = kind, alive' = alive
  PROVE  /\ TargetsOK'
         /\ tickTargets' \in Seq(Params)
         /\ observations' \in [Params -> Nat]
         /\ \A q \in Params : observations'[q] = IF q = p /\ p \in Polled THEN observations[q] + 1
                                                 ELSE observations[q]
<1>1. /\ p \in Params /\ observations \in [Params -> Nat] /\ tickTargets \in Seq(Params)
      /\ Polled' = Polled
  BY DEF TypeOK, Polled
<1>2. CASE p \notin Polled
  BY <1>1, <1>2 DEF RegisterForTick, TargetsOK
<1>3. CASE p \in Polled
  <2>1. /\ observations' = [observations EXCEPT ![p] = @ + 1]
        /\ tickTargets' = IF observations[p] = 0 THEN Append(tickTargets, p) ELSE tickTargets
    BY <1>3 DEF RegisterForTick
  <2>2. /\ observations' \in [Params -> Nat]
        /\ \A q \in Params : observations'[q] = IF q = p THEN observations[q] + 1 ELSE observations[q]
    BY <2>1, <1>1
  <2>3. CASE observations[p] = 0
    <3>1. p \notin Members(tickTargets)
      BY <2>3, <1>3 DEF TargetsOK
    <3>2. /\ tickTargets' \in Seq(Params)
          /\ Members(tickTargets') = Members(tickTargets) \union {p}
          /\ Injective(tickTargets')
      BY <3>1, <2>1, <2>3, <1>1, AppendMembers DEF TargetsOK
    <3>3. TargetsOK'
      BY <3>2, <2>2, <1>1, <1>3 DEF TargetsOK, Polled
    <3> QED
      BY <3>2, <3>3, <2>2, <1>3
  <2>4. CASE observations[p] # 0
    <3>1. tickTargets' = tickTargets
      BY <2>1, <2>4
    <3>2. TargetsOK'
      BY <3>1, <2>2, <2>4, <1>1 DEF TargetsOK, Polled
    <3> QED
      BY <3>1, <3>2, <2>2, <1>1, <1>3
  <2> QED
    BY <2>3, <2>4
<1> QED
  BY <1>2, <1>3

\* What unobserving p leaves of them, if p was observed at all.
LEMMA UnregisterOK ==
  ASSUME TypeOK, TargetsOK, NEW p \in alive, UnregisterForTick(p), kind' = kind, alive' = alive,
         p \in Polled => observations[p] > 0
  PROVE  /\ TargetsOK'
         /\ tickTargets' \in Seq(Params)
         /\ observations' \in [Params -> Nat]
         /\ \A q \in Params : observations'[q] = IF q = p /\ p \in Polled THEN observations[q] - 1
                                                 ELSE observations[q]
<1>1. /\ p \in Params /\ observations \in [Params -> Nat] /\ tickTargets \in Seq(Params)
      /\ Polled' = Polled
  BY DEF TypeOK, Polled
<1>2. CASE p \notin Polled
  BY <1>1, <1>2 DEF UnregisterForTick, TargetsOK
<1>3. CASE p \in Polled
  <2>1. /\ observations' = [observations EXCEPT ![p] = @ - 1]
        /\ tickTargets' = IF observations[p] = 1 THEN Without(tickTargets, p) ELSE tickTargets
    BY <1>3 DEF UnregisterForTick
  <2>2. /\ observations' \in [Params -> Nat]
        /\ \A q \in Params : observations'[q] = IF q = p THEN observations[q] - 1 ELSE observations[q]
    BY <2>1, <1>1, <1>3
  <2>3. CASE observations[p] = 1
    <3>1. /\ tickTargets' \in Seq(Params)
          /\ Members(tickTargets') = Members(tickTargets) \ {p}
          /\ Injective(tickTargets')
      BY <2>1, <2>3, <1>1, WithoutMembers DEF TargetsOK
    <3>2. TargetsOK'
      BY <3>1, <2>2, <2>3, <1>1, <1>3 DEF TargetsOK, Polled
    <3> QED
      BY <3>1, <3>2, <2>2, <1>3
  <2>4. CASE observations[p] # 1
    <3>1. tickTargets' = tickTargets
      BY <2>1, <2>4
    <3>2. TargetsOK'
      <4> HIDE DEF Polled
      <4>1. observations[p] > 0 /\ observations[p] \in Nat
        BY <1>1, <1>3
      <4>2. \A q \in Polled : observations'[q] > 0 <=> observations[q] > 0
        <5> SUFFICES ASSUME NEW q \in Polled PROVE observations'[q] > 0 <=> observations[q] > 0
          OBVIOUS
        <5>1. CASE q = p
          BY <5>1, <4>1, <2>2, <2>4, <1>1
        <5>2. CASE q # p
          <6>1. q \in Params
            BY DEF Polled
          <6> QED
            BY <5>2, <6>1, <2>2
        <5> QED
          BY <5>1, <5>2
      <4>3. TargetsOK /\ alive' = alive /\ Polled' = Polled
        BY <1>1
      <4> QED
        BY <3>1, <4>2, <4>3 DEF TargetsOK
    <3> QED
      BY <3>1, <3>2, <2>2, <1>1, <1>3
  <2> QED
    BY <2>3, <2>4
<1> QED
  BY <1>2, <1>3

-----------------------------------------------------------------------------
(* The steps of the contexts *)

\* What a slot may have been told.
Report == Values \union {NoValue}

\* A connection of a polled parameter is one that its counter counts.
LEMMA ConnectedIsCounted ==
  ASSUME TypeOK, ContextsOK, CountersOK, NEW p \in Polled, NEW c \in connected, p \in observables[c]
  PROVE  observations[p] > 0
<1>1. c \in slots[p]
  BY DEF TypeOK, ContextsOK, ConnectionsMatch, CountersOK, Polled
<1>2. IsFiniteSet(slots[p]) /\ slots[p] # {} /\ Cardinality(slots[p]) <= observations[p]
  BY <1>1 DEF CountersOK
<1>3. Cardinality(slots[p]) \in Nat /\ Cardinality(slots[p]) # 0
  BY <1>2, FS_CardinalityType, FS_EmptySet
<1>4. observations[p] \in Nat
  BY DEF TypeOK, Polled
<1> QED
  BY <1>2, <1>3, <1>4

LEMMA ObserveIInv ==
  ASSUME IInv, NEW c \in Contexts, NEW p \in Params, Observe(c, p)
  PROVE  IInv'
<1>1. /\ TypeOK /\ ContextsOK /\ CountersOK /\ TargetsOK /\ ReportsOK
      /\ c \in connected /\ p \in alive /\ p \notin observables[c] /\ RegisterForTick(p)
      /\ UNCHANGED <<kind, alive, value, last, armed, connected, outlived>>
  BY DEF IInv, Observe, objects
<1>2. /\ slots' = [slots EXCEPT ![p] = @ \union {c}]
      /\ observables' = [observables EXCEPT ![c] = @ \union {p}]
      /\ shown' = Told(slots'[p], p, value[p])
  BY DEF Observe
<1>3. /\ TargetsOK' /\ tickTargets' \in Seq(Params) /\ observations' \in [Params -> Nat]
      /\ \A q \in Params : observations'[q] = IF q = p /\ p \in Polled THEN observations[q] + 1
                                              ELSE observations[q]
  BY <1>1, RegisterOK
<1>4. /\ shown' \in [Contexts -> [Params -> Report]]
      /\ \A d \in Contexts, q \in Params :
           shown'[d][q] = IF d \in slots'[p] /\ q = p THEN value[p] ELSE shown[d][q]
  <2>1. value[p] \in Report /\ TypeOK /\ shown' = Told(slots'[p], p, value[p])
    BY <1>1, <1>2 DEF TypeOK, Report
  <2> QED
    BY <2>1 DEF Told, TypeOK, Report
<1>5. /\ slots' \in [Params -> SUBSET Contexts] /\ observables' \in [Contexts -> SUBSET Params]
      /\ \A q \in Params : slots'[q] = IF q = p THEN slots[q] \union {c} ELSE slots[q]
      /\ \A d \in Contexts : observables'[d] = IF d = c THEN observables[d] \union {p} ELSE observables[d]
      /\ Polled' = Polled
  BY <1>1, <1>2 DEF TypeOK, Polled
<1>6. TypeOK'
  <2>1. /\ tickTargets' \in Seq(Params) /\ observations' \in [Params -> Nat]
        /\ shown' \in [Contexts -> [Params -> Report]]
        /\ slots' \in [Params -> SUBSET Contexts] /\ observables' \in [Contexts -> SUBSET Params]
    BY <1>3, <1>4, <1>5
  <2> QED
    BY <2>1, <1>1 DEF TypeOK, Report
<1>7. ContextsOK'
  <2>1. /\ connected' = connected /\ alive' = alive /\ outlived' = outlived /\ p \in alive
        /\ c \in connected /\ p \notin observables[c] /\ \A d \in Contexts : outlived[d] \subseteq observables[d]
        /\ \A d \in Contexts \ connected : observables[d] = {}
        /\ \A q \in Params \ alive : slots[q] = {}
        /\ ConnectionsMatch
    BY <1>1 DEF ContextsOK
  <2>2. ASSUME NEW d \in Contexts, NEW q \in Params
        PROVE  d \in slots'[q] <=> d \in connected' /\ q \in observables'[d] \ outlived'[d]
    <3>1. d \in slots[q] <=> d \in connected /\ q \in observables[d] \ outlived[d]
      BY <2>1 DEF ConnectionsMatch
    <3> QED
      BY <3>1, <2>1, <1>5
  <2>3. \A d \in Contexts : outlived'[d] \subseteq observables'[d]
    BY <2>1, <1>5
  <2>4. \A d \in Contexts \ connected' : observables'[d] = {}
    BY <2>1, <1>5
  <2>5. \A q \in Params \ alive' : slots'[q] = {}
    BY <2>1, <1>5
  <2> QED
    BY <2>2, <2>3, <2>4, <2>5 DEF ContextsOK, ConnectionsMatch
<1>8. CountersOK'
  <2> SUFFICES ASSUME NEW q \in Polled
               PROVE  /\ IsFiniteSet(slots'[q])
                      /\ Cardinality(slots'[q]) <= observations'[q]
                      /\ \A d \in Contexts : q \notin outlived'[d]
    BY <1>5 DEF CountersOK
  <2>1. /\ q \in Params /\ IsFiniteSet(slots[q]) /\ Cardinality(slots[q]) <= observations[q]
        /\ observations[q] \in Nat
        /\ \A d \in Contexts : q \notin outlived'[d]
    BY <1>1 DEF CountersOK, Polled, TypeOK
  <2>2. CASE q # p
    BY <2>1, <2>2, <1>3, <1>5
  <2>3. CASE q = p
    <3>1. IsFiniteSet(slots[q] \union {c}) /\ Cardinality(slots[q] \union {c}) <= Cardinality(slots[q]) + 1
      <4>1. Cardinality(slots[q]) \in Nat
        BY <2>1, FS_CardinalityType
      <4>2. /\ IsFiniteSet(slots[q] \union {c})
            /\ Cardinality(slots[q] \union {c}) =
                 IF c \in slots[q] THEN Cardinality(slots[q]) ELSE Cardinality(slots[q]) + 1
        BY <2>1, FS_AddElement
      <4> QED
        BY <4>1, <4>2
    <3>2. Cardinality(slots[q]) \in Nat
      BY <2>1, FS_CardinalityType
    <3>3. Cardinality(slots[q] \union {c}) \in Nat
      BY <3>1, FS_CardinalityType
    <3>4. slots'[q] = slots[q] \union {c} /\ observations'[q] = observations[q] + 1
      BY <2>1, <2>3, <1>3, <1>5
    <3> QED
      BY <3>1, <3>2, <3>3, <3>4, <2>1
  <2> QED
    BY <2>2, <2>3
<1>9. ReportsOK'
  <2>1. SubscribersAreCurrent'
    <3> SUFFICES ASSUME NEW q \in Params \ Polled, Tellable(q), NEW d \in slots'[q]
                 PROVE  shown'[d][q] = value[q]
      BY <1>1, <1>5 DEF SubscribersAreCurrent, Tellable
    <3>1. d \in Contexts
      BY <1>5
    <3>2. CASE q = p
      BY <3>1, <3>2, <1>4
    <3>3. CASE q # p
      <4>1. d \in slots[q]
        BY <3>3, <1>5
      <4>2. shown[d][q] = value[q]
        BY <4>1, <1>1 DEF ReportsOK, SubscribersAreCurrent
      <4> QED
        BY <3>1, <3>3, <4>2, <1>4
    <3> QED
      BY <3>2, <3>3
  <2>2. OnlySubscribersAreTold'
    <3> SUFFICES ASSUME NEW d \in Contexts, NEW q \in Params, shown'[d][q] # NoValue
                 PROVE  q \in observables'[d]
      BY DEF OnlySubscribersAreTold
    <3>1. CASE d \in slots'[p] /\ q = p
      BY <3>1, <1>7 DEF ContextsOK, ConnectionsMatch
    <3>2. CASE ~(d \in slots'[p] /\ q = p)
      <4>1. shown[d][q] # NoValue
        BY <3>2, <1>4
      <4>2. q \in observables[d]
        BY <4>1, <1>1 DEF ReportsOK, OnlySubscribersAreTold
      <4> QED
        BY <4>2, <1>5
    <3> QED
      BY <3>1, <3>2
  <2> QED
    BY <2>1, <2>2 DEF ReportsOK
<1> QED
  BY <1>3, <1>6, <1>7, <1>8, <1>9 DEF IInv

LEMMA ObserveThrowsIInv ==
  ASSUME IInv, NEW c \in Contexts, NEW p \in Params, ObserveThrows(c, p)
  PROVE  IInv'
<1>1. /\ TypeOK /\ ContextsOK /\ CountersOK /\ TargetsOK /\ ReportsOK
      /\ p \in alive /\ RegisterForTick(p)
      /\ UNCHANGED <<kind, alive, value, last, armed, slots, connected, observables, outlived, shown>>
  BY DEF IInv, ObserveThrows, objects, contexts
<1>2. /\ TargetsOK' /\ tickTargets' \in Seq(Params) /\ observations' \in [Params -> Nat]
      /\ \A q \in Params : observations'[q] = IF q = p /\ p \in Polled THEN observations[q] + 1
                                              ELSE observations[q]
  BY <1>1, RegisterOK
<1>3. TypeOK' /\ ContextsOK' /\ ReportsOK' /\ Polled' = Polled
  BY <1>1, <1>2 DEF TypeOK, ContextsOK, ConnectionsMatch, ReportsOK, SubscribersAreCurrent,
                    OnlySubscribersAreTold, Polled, Tellable
<1>4. CountersOK'
  <2> SUFFICES ASSUME NEW q \in Polled
               PROVE  /\ IsFiniteSet(slots[q])
                      /\ Cardinality(slots[q]) <= observations'[q]
                      /\ \A d \in Contexts : q \notin outlived[d]
    BY <1>1, <1>3 DEF CountersOK
  <2>1. /\ q \in Params /\ IsFiniteSet(slots[q]) /\ Cardinality(slots[q]) <= observations[q]
        /\ observations[q] \in Nat
        /\ \A d \in Contexts : q \notin outlived[d]
    BY <1>1 DEF CountersOK, Polled, TypeOK
  <2>2. Cardinality(slots[q]) \in Nat
    BY <2>1, FS_CardinalityType
  <2> QED
    BY <2>1, <2>2, <1>2
<1> QED
  BY <1>2, <1>3, <1>4 DEF IInv

LEMMA ObserveAgainIInv ==
  ASSUME IInv, NEW c \in Contexts, NEW p \in Params, ObserveAgain(c, p)
  PROVE  IInv'
<1>1. /\ TypeOK /\ ContextsOK /\ CountersOK /\ TargetsOK /\ ReportsOK
      /\ p \in observables[c] /\ shown' = Told({c}, p, value[p])
      /\ UNCHANGED <<kind, alive, value, last, observations, tickTargets, armed,
                     slots, connected, observables, outlived>>
  BY DEF IInv, ObserveAgain, objects, polling, contexts
<1>2. /\ shown' \in [Contexts -> [Params -> Report]]
      /\ \A d \in Contexts, q \in Params :
           shown'[d][q] = IF d \in {c} /\ q = p THEN value[p] ELSE shown[d][q]
  <2> DEFINE v == value[p]
  <2>1. v \in Report /\ shown \in [Contexts -> [Params -> Report]]
    BY <1>1 DEF TypeOK, Report
  <2>2. shown' = Told({c}, p, v)
    BY <1>1
  <2> HIDE DEF v
  <2>3. shown' = [d \in Contexts |-> IF d \in {c} THEN [shown[d] EXCEPT ![p] = v] ELSE shown[d]]
    BY <2>2 DEF Told
  <2>4. ASSUME NEW d \in Contexts
        PROVE  /\ shown'[d] \in [Params -> Report]
               /\ \A q \in Params : shown'[d][q] = IF d \in {c} /\ q = p THEN v ELSE shown[d][q]
    <3>1. shown'[d] = IF d \in {c} THEN [shown[d] EXCEPT ![p] = v] ELSE shown[d]
      BY <2>3
    <3>2. shown[d] \in [Params -> Report] /\ v \in Report
      BY <2>1
    <3>3. CASE d \in {c}
      BY <3>1, <3>2, <3>3
    <3>4. CASE d \notin {c}
      BY <3>1, <3>2, <3>4
    <3> QED
      BY <3>3, <3>4
  <2>5. shown' \in [Contexts -> [Params -> Report]]
    BY <2>3, <2>4
  <2> QED
    BY <2>4, <2>5 DEF v
<1>3. TypeOK' /\ ContextsOK' /\ CountersOK' /\ TargetsOK'
  BY <1>1, <1>2 DEF TypeOK, Report, ContextsOK, ConnectionsMatch, CountersOK, TargetsOK, Polled
<1>4. ReportsOK'
  <2>1. /\ UNCHANGED <<kind, value, slots, observables>> /\ p \in observables[c]
        /\ SubscribersAreCurrent /\ OnlySubscribersAreTold
    BY <1>1 DEF ReportsOK
  <2>2. \A q \in Params : slots[q] \subseteq Contexts
    BY <1>1 DEF TypeOK
  <2>3. SubscribersAreCurrent'
    <3> SUFFICES ASSUME NEW q \in Params \ Polled', Tellable(q), NEW d \in slots'[q]
                 PROVE  shown'[d][q] = value'[q]
      BY <2>1 DEF SubscribersAreCurrent, Tellable
    <3>1. shown[d][q] = value[q] /\ d \in Contexts /\ value' = value
      BY <2>1, <2>2 DEF SubscribersAreCurrent, Polled
    <3> QED
      BY <3>1, <1>2
  <2>4. OnlySubscribersAreTold'
    <3> SUFFICES ASSUME NEW d \in Contexts, NEW q \in Params, shown'[d][q] # NoValue
                 PROVE  q \in observables'[d]
      BY DEF OnlySubscribersAreTold
    <3>1. CASE d = c /\ q = p
      BY <2>1, <3>1
    <3>2. CASE ~(d = c /\ q = p)
      <4>1. shown'[d][q] = shown[d][q]
        BY <1>2, <3>2
      <4> QED
        BY <2>1, <4>1 DEF OnlySubscribersAreTold
    <3> QED
      BY <3>1, <3>2
  <2> QED
    BY <2>3, <2>4 DEF ReportsOK
<1> QED
  BY <1>3, <1>4 DEF IInv

LEMMA UnobserveIInv ==
  ASSUME IInv, NEW c \in Contexts, NEW p \in Params, Unobserve(c, p)
  PROVE  IInv'
<1>1. /\ TypeOK /\ ContextsOK /\ CountersOK /\ TargetsOK /\ ReportsOK
      /\ c \in connected /\ p \in alive /\ p \in observables[c] /\ UnregisterForTick(p)
      /\ UNCHANGED <<kind, alive, value, last, armed, connected>>
  BY DEF IInv, Unobserve, objects
<1>2. /\ slots' = [slots EXCEPT ![p] = @ \ {c}]
      /\ observables' = [observables EXCEPT ![c] = @ \ {p}]
      /\ outlived' = [outlived EXCEPT ![c] = @ \ {p}]
      /\ shown' = Told({c}, p, NoValue)
  BY DEF Unobserve
<1>3. p \in Polled => observations[p] > 0
  BY <1>1, ConnectedIsCounted
<1>4. /\ TargetsOK' /\ tickTargets' \in Seq(Params) /\ observations' \in [Params -> Nat]
      /\ \A q \in Params : observations'[q] = IF q = p /\ p \in Polled THEN observations[q] - 1
                                              ELSE observations[q]
  BY <1>1, <1>3, UnregisterOK
<1>5. /\ shown' \in [Contexts -> [Params -> Report]]
      /\ \A d \in Contexts, q \in Params :
           shown'[d][q] = IF d \in {c} /\ q = p THEN NoValue ELSE shown[d][q]
  <2>1. NoValue \in Report /\ TypeOK /\ shown' = Told({c}, p, NoValue)
    BY <1>1, <1>2 DEF Report
  <2> QED
    BY <2>1 DEF Told, TypeOK, Report
<1>6. /\ slots' \in [Params -> SUBSET Contexts] /\ observables' \in [Contexts -> SUBSET Params]
      /\ outlived' \in [Contexts -> SUBSET Params]
      /\ \A q \in Params : slots'[q] = IF q = p THEN slots[q] \ {c} ELSE slots[q]
      /\ \A d \in Contexts : observables'[d] = IF d = c THEN observables[d] \ {p} ELSE observables[d]
      /\ \A d \in Contexts : outlived'[d] = IF d = c THEN outlived[d] \ {p} ELSE outlived[d]
      /\ Polled' = Polled
  BY <1>1, <1>2 DEF TypeOK, Polled
<1>7. TypeOK'
  <2>1. /\ tickTargets' \in Seq(Params) /\ observations' \in [Params -> Nat]
        /\ shown' \in [Contexts -> [Params -> Report]]
        /\ slots' \in [Params -> SUBSET Contexts] /\ observables' \in [Contexts -> SUBSET Params]
        /\ outlived' \in [Contexts -> SUBSET Params]
    BY <1>4, <1>5, <1>6
  <2> QED
    BY <2>1, <1>1 DEF TypeOK, Report
<1>8. ContextsOK'
  <2>1. /\ connected' = connected /\ alive' = alive /\ p \in alive /\ c \in connected
        /\ \A d \in Contexts : outlived[d] \subseteq observables[d]
        /\ \A d \in Contexts \ connected : observables[d] = {}
        /\ \A q \in Params \ alive : slots[q] = {}
        /\ ConnectionsMatch
    BY <1>1 DEF ContextsOK
  <2>2. ASSUME NEW d \in Contexts, NEW q \in Params
        PROVE  d \in slots'[q] <=> d \in connected' /\ q \in observables'[d] \ outlived'[d]
    <3>1. d \in slots[q] <=> d \in connected /\ q \in observables[d] \ outlived[d]
      BY <2>1 DEF ConnectionsMatch
    <3> QED
      BY <3>1, <2>1, <1>6
  <2>3. \A d \in Contexts : outlived'[d] \subseteq observables'[d]
    BY <2>1, <1>6
  <2>4. \A d \in Contexts \ connected' : observables'[d] = {}
    BY <2>1, <1>6
  <2>5. \A q \in Params \ alive' : slots'[q] = {}
    BY <2>1, <1>6
  <2> QED
    BY <2>2, <2>3, <2>4, <2>5 DEF ContextsOK, ConnectionsMatch
<1>9. CountersOK'
  <2> SUFFICES ASSUME NEW q \in Polled
               PROVE  /\ IsFiniteSet(slots'[q])
                      /\ Cardinality(slots'[q]) <= observations'[q]
                      /\ \A d \in Contexts : q \notin outlived'[d]
    BY <1>6 DEF CountersOK
  <2>1. /\ q \in Params /\ IsFiniteSet(slots[q]) /\ Cardinality(slots[q]) <= observations[q]
        /\ observations[q] \in Nat
        /\ \A d \in Contexts : q \notin outlived[d]
    BY <1>1 DEF CountersOK, Polled, TypeOK
  <2>2. \A d \in Contexts : q \notin outlived'[d]
    BY <2>1, <1>6
  <2>3. CASE q # p
    BY <2>1, <2>2, <2>3, <1>4, <1>6
  <2>4. CASE q = p
    <3>1. c \in slots[q]
      BY <2>1, <2>4, <1>1 DEF ContextsOK, ConnectionsMatch
    <3>2. IsFiniteSet(slots[q] \ {c}) /\ Cardinality(slots[q] \ {c}) = Cardinality(slots[q]) - 1
      BY <3>1, <2>1, FS_RemoveElement
    <3>3. Cardinality(slots[q]) \in Nat
      BY <2>1, FS_CardinalityType
    <3>4. slots'[q] = slots[q] \ {c} /\ observations'[q] = observations[q] - 1
      BY <2>1, <2>4, <1>4, <1>6
    <3> QED
      BY <3>2, <3>3, <3>4, <2>1, <2>2
  <2> QED
    BY <2>3, <2>4
<1>10. ReportsOK'
  <2>1. SubscribersAreCurrent'
    <3> SUFFICES ASSUME NEW q \in Params \ Polled, Tellable(q), NEW d \in slots'[q]
                 PROVE  shown'[d][q] = value[q]
      BY <1>1, <1>6 DEF SubscribersAreCurrent, Tellable
    <3>1. d \in slots[q] /\ d \in Contexts /\ ~(d = c /\ q = p)
      BY <1>6
    <3>2. shown[d][q] = value[q]
      BY <3>1, <1>1 DEF ReportsOK, SubscribersAreCurrent
    <3> QED
      BY <3>1, <3>2, <1>5
  <2>2. OnlySubscribersAreTold'
    <3> SUFFICES ASSUME NEW d \in Contexts, NEW q \in Params, shown'[d][q] # NoValue
                 PROVE  q \in observables'[d]
      BY DEF OnlySubscribersAreTold
    <3>1. ~(d = c /\ q = p) /\ shown[d][q] # NoValue
      BY <1>5
    <3>2. q \in observables[d]
      BY <3>1, <1>1 DEF ReportsOK, OnlySubscribersAreTold
    <3> QED
      BY <3>1, <3>2, <1>6
  <2> QED
    BY <2>1, <2>2 DEF ReportsOK
<1> QED
  BY <1>4, <1>7, <1>8, <1>9, <1>10 DEF IInv

LEMMA ConnectIInv ==
  ASSUME IInv, NEW c \in Contexts, Connect(c)
  PROVE  IInv'
<1>1. /\ TypeOK /\ ContextsOK /\ CountersOK /\ TargetsOK /\ ReportsOK
      /\ c \notin connected /\ connected' = connected \union {c}
      /\ UNCHANGED <<kind, alive, value, last, observations, tickTargets, armed,
                     slots, observables, outlived, shown>>
  BY DEF IInv, Connect, objects, polling
<1>2. TypeOK' /\ CountersOK' /\ TargetsOK' /\ ReportsOK'
  BY <1>1 DEF TypeOK, CountersOK, TargetsOK, ReportsOK, SubscribersAreCurrent, OnlySubscribersAreTold,
              Polled, Tellable
<1>3. ContextsOK'
  BY <1>1 DEF ContextsOK, ConnectionsMatch
<1> QED
  BY <1>2, <1>3 DEF IInv

LEMMA DestroyIInv ==
  ASSUME IInv, NEW c \in Contexts, Destroy(c)
  PROVE  IInv'
<1>1. /\ TypeOK /\ ContextsOK /\ CountersOK /\ TargetsOK /\ ReportsOK
      /\ connected' = connected \ {c}
      /\ UNCHANGED <<kind, alive, value, last, observations, tickTargets, armed>>
  BY DEF IInv, Destroy, objects, polling
<1>2. /\ observables' = [observables EXCEPT ![c] = {}]
      /\ outlived' = [outlived EXCEPT ![c] = {}]
      /\ slots' = [q \in Params |-> slots[q] \ {c}]
      /\ shown' = [shown EXCEPT ![c] = [q \in Params |-> NoValue]]
  BY DEF Destroy
<1>3. /\ slots' \in [Params -> SUBSET Contexts] /\ observables' \in [Contexts -> SUBSET Params]
      /\ outlived' \in [Contexts -> SUBSET Params]
      /\ \A q \in Params : slots'[q] = slots[q] \ {c}
      /\ \A d \in Contexts : observables'[d] = IF d = c THEN {} ELSE observables[d]
      /\ \A d \in Contexts : outlived'[d] = IF d = c THEN {} ELSE outlived[d]
      /\ Polled' = Polled
  BY <1>1, <1>2 DEF TypeOK, Polled
<1>4. /\ shown' \in [Contexts -> [Params -> Report]]
      /\ \A d \in Contexts, q \in Params : shown'[d][q] = IF d = c THEN NoValue ELSE shown[d][q]
  BY <1>1, <1>2 DEF TypeOK, Report
<1>5. TypeOK' /\ TargetsOK'
  BY <1>1, <1>3, <1>4 DEF TypeOK, Report, TargetsOK
<1>6. ContextsOK'
  <2>1. /\ connected' = connected \ {c} /\ alive' = alive
        /\ \A d \in Contexts : outlived[d] \subseteq observables[d]
        /\ \A d \in Contexts \ connected : observables[d] = {}
        /\ \A q \in Params \ alive : slots[q] = {}
        /\ ConnectionsMatch
    BY <1>1 DEF ContextsOK
  <2>2. ASSUME NEW d \in Contexts, NEW q \in Params
        PROVE  d \in slots'[q] <=> d \in connected' /\ q \in observables'[d] \ outlived'[d]
    <3>1. d \in slots[q] <=> d \in connected /\ q \in observables[d] \ outlived[d]
      BY <2>1 DEF ConnectionsMatch
    <3> QED
      BY <3>1, <2>1, <1>3
  <2>3. \A d \in Contexts : outlived'[d] \subseteq observables'[d]
    BY <2>1, <1>3
  <2>4. \A d \in Contexts \ connected' : observables'[d] = {}
    BY <2>1, <1>3
  <2>5. \A q \in Params \ alive' : slots'[q] = {}
    BY <2>1, <1>3
  <2> QED
    BY <2>2, <2>3, <2>4, <2>5 DEF ContextsOK, ConnectionsMatch
<1>7. CountersOK'
  <2> SUFFICES ASSUME NEW q \in Polled
               PROVE  /\ IsFiniteSet(slots'[q])
                      /\ Cardinality(slots'[q]) <= observations[q]
                      /\ \A d \in Contexts : q \notin outlived'[d]
    BY <1>1, <1>3 DEF CountersOK
  <2>1. /\ q \in Params /\ IsFiniteSet(slots[q]) /\ Cardinality(slots[q]) <= observations[q]
        /\ observations[q] \in Nat /\ \A d \in Contexts : q \notin outlived[d]
    BY <1>1 DEF CountersOK, Polled, TypeOK
  <2>2. slots'[q] \subseteq slots[q]
    BY <2>1, <1>3
  <2>3. IsFiniteSet(slots'[q]) /\ Cardinality(slots'[q]) <= Cardinality(slots[q])
    BY <2>1, <2>2, FS_Subset
  <2>4. Cardinality(slots'[q]) \in Nat /\ Cardinality(slots[q]) \in Nat
    BY <2>1, <2>3, FS_CardinalityType
  <2>5. \A d \in Contexts : q \notin outlived'[d]
    BY <2>1, <1>3
  <2> QED
    BY <2>1, <2>3, <2>4, <2>5
<1>8. ReportsOK'
  <2>1. SubscribersAreCurrent'
    <3> SUFFICES ASSUME NEW q \in Params \ Polled, Tellable(q), NEW d \in slots'[q]
                 PROVE  shown'[d][q] = value[q]
      BY <1>1, <1>3 DEF SubscribersAreCurrent, Tellable
    <3>1. d \in slots[q] /\ d \in Contexts /\ d # c
      BY <1>3
    <3>2. shown[d][q] = value[q]
      BY <3>1, <1>1 DEF ReportsOK, SubscribersAreCurrent
    <3> QED
      BY <3>1, <3>2, <1>4
  <2>2. OnlySubscribersAreTold'
    <3> SUFFICES ASSUME NEW d \in Contexts, NEW q \in Params, shown'[d][q] # NoValue
                 PROVE  q \in observables'[d]
      BY DEF OnlySubscribersAreTold
    <3>1. d # c /\ shown[d][q] # NoValue
      BY <1>4
    <3>2. q \in observables[d]
      BY <3>1, <1>1 DEF ReportsOK, OnlySubscribersAreTold
    <3> QED
      BY <3>1, <3>2, <1>3
  <2> QED
    BY <2>1, <2>2 DEF ReportsOK
<1> QED
  BY <1>5, <1>6, <1>7, <1>8 DEF IInv

-----------------------------------------------------------------------------
(* The steps of the parameters *)

\* Nobody has a polled parameter in its map that is not registered.
LEMMA UnregisteredIsUnobserved ==
  ASSUME TypeOK, ContextsOK, CountersOK, TargetsOK, NEW p \in Polled, p \notin Members(tickTargets)
  PROVE  \A c \in Contexts : p \notin observables[c]
<1>1. p \in Params /\ observations[p] = 0
  BY DEF TypeOK, TargetsOK, Polled
<1>2. IsFiniteSet(slots[p]) /\ Cardinality(slots[p]) <= 0
  BY <1>1 DEF CountersOK
<1>3. slots[p] = {}
  <2>1. Cardinality(slots[p]) \in Nat
    BY <1>2, FS_CardinalityType
  <2>2. Cardinality(slots[p]) = 0
    BY <1>2, <2>1
  <2> QED
    BY <1>2, <2>2, FS_EmptySet
<1> SUFFICES ASSUME NEW c \in Contexts, p \in observables[c] PROVE FALSE
  OBVIOUS
<1>4. c \in connected /\ p \notin outlived[c]
  BY DEF ContextsOK, CountersOK
<1>5. c \in slots[p]
  BY <1>1, <1>4 DEF ContextsOK, ConnectionsMatch
<1> QED
  BY <1>3, <1>5

LEMMA DestroyParameterIInv ==
  ASSUME IInv, NEW p \in Params, DestroyParameter(p)
  PROVE  IInv'
<1>1. /\ TypeOK /\ ContextsOK /\ CountersOK /\ TargetsOK /\ ReportsOK
      /\ p \in alive /\ p \notin Members(tickTargets) /\ alive' = alive \ {p}
      /\ UNCHANGED <<kind, value, last, observations, tickTargets, armed, connected, observables, shown>>
  BY DEF IInv, DestroyParameter, Registered, polling
<1>2. /\ slots' = [slots EXCEPT ![p] = {}]
      /\ outlived' = [c \in Contexts |-> outlived[c] \union (observables[c] \intersect {p})]
  BY DEF DestroyParameter
<1>3. /\ slots' \in [Params -> SUBSET Contexts] /\ outlived' \in [Contexts -> SUBSET Params]
      /\ \A q \in Params : slots'[q] = IF q = p THEN {} ELSE slots[q]
      /\ \A d \in Contexts : outlived'[d] = outlived[d] \union (observables[d] \intersect {p})
      /\ Polled' = Polled
  BY <1>1, <1>2 DEF TypeOK, Polled
<1>4. TypeOK'
  BY <1>1, <1>3 DEF TypeOK
<1>5. TargetsOK'
  BY <1>1, <1>3 DEF TargetsOK
<1>6. ContextsOK'
  <2>1. /\ \A d \in Contexts : outlived[d] \subseteq observables[d]
        /\ \A d \in Contexts \ connected : observables[d] = {}
        /\ \A q \in Params \ alive : slots[q] = {}
        /\ ConnectionsMatch
    BY <1>1 DEF ContextsOK
  <2>2. ASSUME NEW d \in Contexts, NEW q \in Params
        PROVE  d \in slots'[q] <=> d \in connected' /\ q \in observables'[d] \ outlived'[d]
    <3>1. d \in slots[q] <=> d \in connected /\ q \in observables[d] \ outlived[d]
      BY <2>1 DEF ConnectionsMatch
    <3> QED
      BY <3>1, <1>1, <1>3
  <2>3. \A d \in Contexts : outlived'[d] \subseteq observables'[d]
    BY <2>1, <1>1, <1>3
  <2>4. \A d \in Contexts \ connected' : observables'[d] = {}
    BY <2>1, <1>1
  <2>5. \A q \in Params \ alive' : slots'[q] = {}
    BY <2>1, <1>1, <1>3
  <2> QED
    BY <2>2, <2>3, <2>4, <2>5 DEF ContextsOK, ConnectionsMatch
<1>7. CountersOK'
  <2> SUFFICES ASSUME NEW q \in Polled
               PROVE  /\ IsFiniteSet(slots'[q])
                      /\ Cardinality(slots'[q]) <= observations[q]
                      /\ \A d \in Contexts : q \notin outlived'[d]
    BY <1>1, <1>3 DEF CountersOK
  <2>1. /\ q \in Params /\ IsFiniteSet(slots[q]) /\ Cardinality(slots[q]) <= observations[q]
        /\ observations[q] \in Nat /\ \A d \in Contexts : q \notin outlived[d]
    BY <1>1 DEF CountersOK, Polled, TypeOK
  <2>2. CASE q # p
    BY <2>1, <2>2, <1>3
  <2>3. CASE q = p
    <3>1. \A d \in Contexts : q \notin observables[d]
      BY <2>3, <1>1, UnregisteredIsUnobserved
    <3>2. slots'[q] = {} /\ IsFiniteSet({}) /\ Cardinality({}) = 0
      BY <2>1, <2>3, <1>3, FS_EmptySet
    <3> QED
      BY <2>1, <3>1, <3>2, <1>3
  <2> QED
    BY <2>2, <2>3
<1>8. ReportsOK'
  <2>1. \A q \in Params \ Polled : Tellable(q) => \A d \in slots[q] : shown[d][q] = value[q]
    BY <1>1 DEF ReportsOK, SubscribersAreCurrent
  <2>2. SubscribersAreCurrent'
    BY <2>1, <1>1, <1>3 DEF SubscribersAreCurrent, Tellable
  <2>3. OnlySubscribersAreTold'
    BY <1>1 DEF ReportsOK, OnlySubscribersAreTold
  <2> QED
    BY <2>2, <2>3 DEF ReportsOK
<1> QED
  BY <1>4, <1>5, <1>6, <1>7, <1>8 DEF IInv

LEMMA CreateParameterIInv ==
  ASSUME IInv, NEW p \in Params, NEW v \in Values, CreateParameter(p, v)
  PROVE  IInv'
<1>1. /\ TypeOK /\ ContextsOK /\ CountersOK /\ TargetsOK /\ ReportsOK
      /\ p \notin alive /\ alive' = alive \union {p}
      /\ UNCHANGED <<kind, tickTargets, armed, slots, connected, observables, outlived, shown>>
  BY DEF IInv, CreateParameter, contexts
<1>2. /\ value' = [value EXCEPT ![p] = v]
      /\ last' = [last EXCEPT ![p] = NoValue]
      /\ observations' = [observations EXCEPT ![p] = 0]
  BY DEF CreateParameter
<1>3. /\ value' \in [Params -> Values] /\ last' \in [Params -> Values \union {NoValue}]
      /\ observations' \in [Params -> Nat]
      /\ \A q \in Params : value'[q] = IF q = p THEN v ELSE value[q]
      /\ \A q \in Params : observations'[q] = IF q = p THEN 0 ELSE observations[q]
      /\ Polled' = Polled /\ Polled \subseteq Params
  BY <1>1, <1>2 DEF TypeOK, Polled
<1>4. slots[p] = {} /\ p \notin Members(tickTargets)
  BY <1>1 DEF ContextsOK, TargetsOK
<1>5. TypeOK'
  BY <1>1, <1>3 DEF TypeOK
<1>6. ContextsOK'
  BY <1>1 DEF ContextsOK, ConnectionsMatch
<1>7. TargetsOK'
  <2>1. /\ \A q \in Polled : observations[q] > 0 <=> q \in Members(tickTargets)
        /\ Injective(tickTargets) /\ Members(tickTargets) \subseteq alive \intersect Polled
    BY <1>1 DEF TargetsOK
  <2>2. \A q \in Polled : observations'[q] > 0 <=> q \in Members(tickTargets)
    BY <2>1, <1>3, <1>4
  <2> QED
    BY <2>1, <2>2, <1>1, <1>3 DEF TargetsOK
<1>8. CountersOK'
  <2> SUFFICES ASSUME NEW q \in Polled
               PROVE  /\ IsFiniteSet(slots[q])
                      /\ Cardinality(slots[q]) <= observations'[q]
                      /\ \A d \in Contexts : q \notin outlived[d]
    BY <1>1, <1>3 DEF CountersOK
  <2>1. /\ q \in Params /\ IsFiniteSet(slots[q]) /\ Cardinality(slots[q]) <= observations[q]
        /\ \A d \in Contexts : q \notin outlived[d]
    BY <1>1, <1>3 DEF CountersOK
  <2>2. CASE q # p
    BY <2>1, <2>2, <1>3
  <2>3. CASE q = p
    <3>1. Cardinality(slots[q]) = 0
      BY <2>3, <1>4, FS_EmptySet
    <3>2. observations'[q] = 0
      BY <2>1, <2>3, <1>3
    <3> QED
      BY <2>1, <3>1, <3>2
  <2> QED
    BY <2>2, <2>3
<1>9. ReportsOK'
  <2>1. \A q \in Params \ Polled : Tellable(q) => \A d \in slots[q] : shown[d][q] = value[q]
    BY <1>1 DEF ReportsOK, SubscribersAreCurrent
  <2>2. SubscribersAreCurrent'
    BY <2>1, <1>1, <1>3, <1>4 DEF SubscribersAreCurrent, Tellable
  <2>3. OnlySubscribersAreTold'
    BY <1>1 DEF ReportsOK, OnlySubscribersAreTold
  <2> QED
    BY <2>2, <2>3 DEF ReportsOK
<1> QED
  BY <1>5, <1>6, <1>7, <1>8, <1>9 DEF IInv

-----------------------------------------------------------------------------
(* The value changes *)

\* A new value of a parameter that is not polled, emitted to its slots if it
\* can be.
LEMMA EmitIInv ==
  ASSUME IInv, NEW p \in Params \ Polled, NEW v \in Values,
         value' = [value EXCEPT ![p] = v], Emit(slots[p], p, v),
         UNCHANGED <<objects, polling, contexts>>
  PROVE  IInv'
<1>1. /\ TypeOK /\ ContextsOK /\ CountersOK /\ TargetsOK /\ ReportsOK
      /\ UNCHANGED <<kind, alive, last, observations, tickTargets, armed,
                     slots, connected, observables, outlived>>
  BY DEF IInv, objects, polling, contexts
<1>2. /\ shown' \in [Contexts -> [Params -> Report]]
      /\ \A d \in Contexts, q \in Params :
           shown'[d][q] = IF v \notin Untellable /\ d \in slots[p] /\ q = p THEN v
                          ELSE shown[d][q]
  <2>1. v \in Report /\ shown \in [Contexts -> [Params -> Report]]
    BY <1>1 DEF Report, TypeOK
  <2>2. CASE v \in Untellable
    BY <2>1, <2>2 DEF Emit
  <2>3. CASE v \notin Untellable
    <3>1. shown' = Told(slots[p], p, v)
      BY <2>3 DEF Emit
    <3> QED
      BY <2>1, <2>3, <3>1 DEF Told
  <2> QED
    BY <2>2, <2>3
<1>3. /\ value' \in [Params -> Values]
      /\ \A q \in Params : value'[q] = IF q = p THEN v ELSE value[q]
      /\ slots \in [Params -> SUBSET Contexts] /\ Polled' = Polled
  BY <1>1 DEF TypeOK, Polled
<1>4. TypeOK' /\ ContextsOK' /\ CountersOK' /\ TargetsOK'
  BY <1>1, <1>2, <1>3 DEF TypeOK, Report, ContextsOK, ConnectionsMatch, CountersOK, TargetsOK
<1>5. ReportsOK'
  <2>1. SubscribersAreCurrent'
    <3> SUFFICES ASSUME NEW q \in Params \ Polled, value'[q] \notin Untellable, NEW d \in slots[q]
                 PROVE  shown'[d][q] = value'[q]
      BY <1>1, <1>3 DEF SubscribersAreCurrent, Tellable
    <3>1. d \in Contexts
      BY <1>3
    <3>2. CASE q = p
      BY <3>1, <3>2, <1>2, <1>3
    <3>3. CASE q # p
      <4>1. value'[q] = value[q] /\ shown'[d][q] = shown[d][q]
        BY <3>1, <3>3, <1>2, <1>3
      <4> QED
        BY <4>1, <1>1 DEF ReportsOK, SubscribersAreCurrent, Tellable
    <3> QED
      BY <3>2, <3>3
  <2>2. OnlySubscribersAreTold'
    <3> SUFFICES ASSUME NEW d \in Contexts, NEW q \in Params, shown'[d][q] # NoValue
                 PROVE  q \in observables[d]
      BY <1>1 DEF OnlySubscribersAreTold
    <3>1. CASE d \in slots[p] /\ q = p
      BY <3>1, <1>1 DEF ContextsOK, ConnectionsMatch
    <3>2. CASE ~(d \in slots[p] /\ q = p)
      <4>1. shown[d][q] # NoValue
        BY <3>2, <1>2
      <4> QED
        BY <4>1, <1>1 DEF ReportsOK, OnlySubscribersAreTold
    <3> QED
      BY <3>1, <3>2
  <2> QED
    BY <2>1, <2>2 DEF ReportsOK
<1> QED
  BY <1>4, <1>5 DEF IInv

LEMMA DeviceChangeIInv ==
  ASSUME IInv, NEW p \in Params, NEW v \in Values, DeviceChange(p, v)
  PROVE  IInv'
<1>1. /\ TypeOK /\ ContextsOK /\ CountersOK /\ TargetsOK /\ ReportsOK
      /\ p \in Polled /\ value' = [value EXCEPT ![p] = v]
      /\ UNCHANGED <<kind, alive, last, observations, tickTargets, armed,
                     slots, connected, observables, outlived, shown>>
  BY DEF IInv, DeviceChange, objects, polling, contexts
<1>2. /\ value' \in [Params -> Values] /\ Polled' = Polled
      /\ \A q \in Params : q # p => value'[q] = value[q]
  BY <1>1 DEF TypeOK, Polled
<1>3. TypeOK' /\ ContextsOK' /\ CountersOK' /\ TargetsOK'
  BY <1>1, <1>2 DEF TypeOK, ContextsOK, ConnectionsMatch, CountersOK, TargetsOK
<1>4. ReportsOK'
  BY <1>1, <1>2 DEF ReportsOK, SubscribersAreCurrent, OnlySubscribersAreTold, Tellable
<1> QED
  BY <1>3, <1>4 DEF IInv

\* notify() of polled parameters.
LEMMA NotifyIInv ==
  ASSUME IInv, NEW P, P \subseteq Polled, NotifyAll(P), armed' \in BOOLEAN,
         UNCHANGED <<objects, value, observations, tickTargets, contexts>>
  PROVE  IInv'
<1> DEFINE changed == {p \in P : last[p] # value[p]}
<1>1. /\ TypeOK /\ ContextsOK /\ CountersOK /\ TargetsOK /\ ReportsOK
      /\ UNCHANGED <<kind, alive, value, observations, tickTargets,
                     slots, connected, observables, outlived>>
  BY DEF IInv, objects, contexts
<1>2. /\ shown' = [c \in Contexts |-> [p \in Params |->
                     IF p \in changed /\ c \in slots[p] THEN value[p] ELSE shown[c][p]]]
      /\ last' = [p \in Params |-> IF p \in changed THEN value[p] ELSE last[p]]
  BY DEF NotifyAll
<1>3. changed \subseteq Polled /\ Polled' = Polled
  BY <1>1 DEF Polled
<1> HIDE DEF changed
<1>4. /\ shown' \in [Contexts -> [Params -> Report]]
      /\ last' \in [Params -> Values \union {NoValue}]
      /\ \A d \in Contexts, q \in Params :
           shown'[d][q] = IF q \in changed /\ d \in slots[q] THEN value[q] ELSE shown[d][q]
  BY <1>1, <1>2 DEF TypeOK, Report
<1>5. TypeOK' /\ ContextsOK' /\ CountersOK' /\ TargetsOK'
  BY <1>1, <1>3, <1>4 DEF TypeOK, Report, ContextsOK, ConnectionsMatch, CountersOK, TargetsOK
<1>6. ReportsOK'
  <2>1. SubscribersAreCurrent'
    <3> SUFFICES ASSUME NEW q \in Params \ Polled, Tellable(q), NEW d \in slots[q]
                 PROVE  shown'[d][q] = value[q]
      BY <1>1, <1>3 DEF SubscribersAreCurrent, Tellable
    <3>1. d \in Contexts /\ shown[d][q] = value[q]
      BY <1>1 DEF TypeOK, ReportsOK, SubscribersAreCurrent
    <3> QED
      BY <3>1, <1>3, <1>4
  <2>2. OnlySubscribersAreTold'
    <3> SUFFICES ASSUME NEW d \in Contexts, NEW q \in Params, shown'[d][q] # NoValue
                 PROVE  q \in observables[d]
      BY <1>1 DEF OnlySubscribersAreTold
    <3>1. CASE q \in changed /\ d \in slots[q]
      BY <3>1, <1>1 DEF ContextsOK, ConnectionsMatch
    <3>2. CASE ~(q \in changed /\ d \in slots[q])
      <4>1. shown[d][q] # NoValue
        BY <3>2, <1>4
      <4> QED
        BY <4>1, <1>1 DEF ReportsOK, OnlySubscribersAreTold
    <3> QED
      BY <3>1, <3>2
  <2> QED
    BY <2>1, <2>2 DEF ReportsOK
<1> QED
  BY <1>5, <1>6 DEF IInv

-----------------------------------------------------------------------------
(* The specification *)

LEMMA NextIInv == IInv /\ [Next]_vars => IInv'
<1> SUFFICES ASSUME IInv, [Next]_vars PROVE IInv'
  OBVIOUS
<1>1. /\ TypeOK /\ TargetsOK
      /\ \A i \in DOMAIN tickTargets : tickTargets[i] \in Polled
  BY DEF IInv, TargetsOK, Members
<1>2. ASSUME NEW c \in Contexts, Client(c) PROVE IInv'
  <2>1. CASE Connect(c)
    BY <2>1, ConnectIInv
  <2>2. CASE Destroy(c)
    BY <2>2, DestroyIInv
  <2>3. ASSUME NEW p \in Params, Observe(c, p) PROVE IInv'
    BY <2>3, ObserveIInv
  <2>4. ASSUME NEW p \in Params, ObserveThrows(c, p) PROVE IInv'
    BY <2>4, ObserveThrowsIInv
  <2>5. ASSUME NEW p \in Params, ObserveAgain(c, p) PROVE IInv'
    BY <2>5, ObserveAgainIInv
  <2>6. ASSUME NEW p \in Params, Unobserve(c, p) PROVE IInv'
    BY <2>6, UnobserveIInv
  <2> QED
    BY <1>2, <2>1, <2>2, <2>3, <2>4, <2>5, <2>6 DEF Client
<1>3. ASSUME NEW p \in Params, Server(p) PROVE IInv'
  <2>1. CASE DestroyParameter(p)
    BY <2>1, DestroyParameterIInv
  <2>2. CASE ValueChanged(p)
    <3>1. {p} \subseteq Polled /\ NotifyAll({p}) /\ armed' \in BOOLEAN
      BY <2>2, <1>1 DEF ValueChanged, TypeOK
    <3>2. UNCHANGED <<objects, value, observations, tickTargets, contexts>>
      BY <2>2 DEF ValueChanged
    <3> QED
      BY <3>1, <3>2, NotifyIInv
  <2>3. ASSUME NEW v \in Values, CreateParameter(p, v) PROVE IInv'
    BY <2>3, CreateParameterIInv
  <2>4. ASSUME NEW v \in Values, SetManaged(p, v) PROVE IInv'
    <3>1. p \in Params \ Polled
      BY <2>4 DEF SetManaged, Polled
    <3> QED
      BY <2>4, <3>1, EmitIInv DEF SetManaged
  <2>5. ASSUME NEW v \in Values, SetExternal(p, v) PROVE IInv'
    <3>1. p \in Params \ Polled
      BY <2>5 DEF SetExternal, Polled
    <3> QED
      BY <2>5, <3>1, EmitIInv DEF SetExternal
  <2>6. ASSUME NEW v \in Values, DeviceChange(p, v) PROVE IInv'
    BY <2>6, DeviceChangeIInv
  <2> QED
    BY <1>3, <2>1, <2>2, <2>3, <2>4, <2>5, <2>6 DEF Server
<1>4. CASE Tick
  <2>1. Members(tickTargets) \subseteq Polled /\ NotifyAll(Members(tickTargets)) /\ armed' \in BOOLEAN
    BY <1>4, <1>1 DEF Tick, TypeOK, TargetsOK
  <2>2. UNCHANGED <<objects, value, observations, tickTargets, contexts>>
    BY <1>4 DEF Tick
  <2> QED
    BY <2>1, <2>2, NotifyIInv
<1>5. ASSUME NEW i \in DOMAIN tickTargets, TickThrows(i) PROVE IInv'
  <2>1. {tickTargets[j] : j \in 1..(i - 1)} \subseteq Polled
    <3>1. tickTargets \in Seq(Params) /\ i \in 1..Len(tickTargets)
      BY <1>1, LenProperties DEF TypeOK
    <3>2. 1..(i - 1) \subseteq DOMAIN tickTargets
      BY <3>1, LenProperties
    <3> QED
      BY <3>2, <1>1
  <2>2. NotifyAll({tickTargets[j] : j \in 1..(i - 1)}) /\ armed' \in BOOLEAN
    BY <1>5 DEF TickThrows
  <2>3. UNCHANGED <<objects, value, observations, tickTargets, contexts>>
    BY <1>5 DEF TickThrows
  <2> QED
    BY <2>1, <2>2, <2>3, NotifyIInv
<1>6. CASE UNCHANGED vars
  BY <1>6 DEF vars, IInv, TypeOK, ContextsOK, ConnectionsMatch, CountersOK, TargetsOK, ReportsOK,
              SubscribersAreCurrent, OnlySubscribersAreTold, Polled, Tellable
<1> QED
  BY <1>2, <1>3, <1>4, <1>5, <1>6 DEF Next, TimerFires

LEMMA Invariance == Spec => []IInv
<1>1. Init => IInv
  BY InitIInv
<1>2. IInv /\ [Next]_vars => IInv'
  BY NextIInv
<1> QED
  BY <1>1, <1>2, PTL DEF Spec

-----------------------------------------------------------------------------
(* The theorems *)

\* Every variable keeps its type whatever the contexts, the server and the
\* timer do; in particular no sequence of observe() and unobserve() takes the
\* counter observations_ of a parameter below zero.
THEOREM TypeCorrect == Spec => []TypeOK
<1>1. IInv => TypeOK
  BY DEF IInv
<1> QED
  BY <1>1, Invariance, PTL

\* The signal of a parameter holds a connection to exactly those contexts that
\* exist and have the parameter in observables_, unless it was destroyed since:
\* emit() never calls a slot of a context that is gone or has unsubscribed.
THEOREM ConnectionsAreScoped == Spec => []ConnectionsMatch
<1>1. IInv => ConnectionsMatch
  BY DEF IInv, ContextsOK
<1> QED
  BY <1>1, Invariance, PTL

\* An external readonly parameter that somebody observes is in tick_targets_,
\* and no parameter is there twice or after it was destroyed: tick() visits
\* every observed parameter once, and no dangling pointer as long as the
\* application destroys none that is registered (DestroyParameter).
THEOREM PollingIsComplete == Spec => []ObservedIsPolled
<1>1. IInv => ObservedIsPolled
  <2> SUFFICES ASSUME TypeOK, CountersOK, TargetsOK PROVE ObservedIsPolled
    BY DEF IInv
  <2>1. ASSUME NEW p \in Polled
        PROVE  Cardinality({i \in DOMAIN tickTargets : tickTargets[i] = p}) =
                 IF observations[p] > 0 THEN 1 ELSE 0
    <3> DEFINE at == {i \in DOMAIN tickTargets : tickTargets[i] = p}
    <3>1. CASE observations[p] > 0
      <4>1. PICK i \in DOMAIN tickTargets : tickTargets[i] = p
        BY <3>1 DEF TargetsOK, Members
      <4>2. at = {i}
        BY <4>1 DEF TargetsOK, Injective
      <4>3. Cardinality(at) = 1
        BY <4>2, FS_Singleton
      <4> QED
        BY <4>3, <3>1
    <3>2. CASE ~(observations[p] > 0)
      <4>1. at = {}
        BY <3>2 DEF TargetsOK, Members
      <4>2. Cardinality(at) = 0
        BY <4>1, FS_EmptySet
      <4> QED
        BY <4>2, <3>2
    <3> QED
      BY <3>1, <3>2
  <2>2. \A p \in Polled : Cardinality(slots[p]) <= observations[p]
    BY DEF CountersOK
  <2>3. \A i \in DOMAIN tickTargets : tickTargets[i] \in alive \intersect Polled
    BY DEF TargetsOK, Members
  <2> QED
    BY <2>1, <2>2, <2>3 DEF ObservedIsPolled
<1> QED
  BY <1>1, Invariance, PTL

\* What a context was last told about a parameter that is not polled is the
\* value of the parameter, unless emit() cannot convert that value: values that
\* were stored although emit() threw, and subscriptions that it undid, leave no
\* subscriber with an older report once the value can be converted again.
THEOREM ReportsAreCurrent == Spec => []SubscribersAreCurrent
<1>1. IInv => SubscribersAreCurrent
  BY DEF IInv, ReportsOK
<1> QED
  BY <1>1, Invariance, PTL

\* What a context was told about a parameter is forgotten with its entry in
\* observables_: the slot of a subscription that was given up, by unobserve()
\* or with the context, is never called again for that parameter.
THEOREM ReportsAreSolicited == Spec => []OnlySubscribersAreTold
<1>1. IInv => OnlySubscribersAreTold
  BY DEF IInv, ReportsOK
<1> QED
  BY <1>1, Invariance, PTL
=============================================================================
