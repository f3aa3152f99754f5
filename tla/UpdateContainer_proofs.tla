----------------------- MODULE UpdateContainer_proofs -----------------------
(***************************************************************************)
(* Proofs about UpdateContainer for every set of URIs and values.          *)
(*                                                                         *)
(* TypeOK and IteratorsAgree are not inductive: they allow a list that     *)
(* ends before it has passed every entry, after which PopFront would leave *)
(* front at End and entries in the map.  The inductive invariant IInv adds *)
(* that some sequence threads every entry (EveryUpdateIsLinked).           *)
(***************************************************************************)
EXTENDS UpdateContainer, FiniteSets, SequenceTheorems, FiniteSetTheorems, WellFoundedInduction, TLAPS

-----------------------------------------------------------------------------
(* Positions and sequences *)

\* A non-empty set of naturals has a least element.
LEMMA LeastExists ==
  ASSUME NEW S \in SUBSET Nat, S # {}
  PROVE  \E m \in S : \A k \in S : m <= k
<1> DEFINE R == OpToRel(<, Nat)
<1>1. IsWellFoundedOn(R, Nat)
  BY NatLessThanWellFounded
<1>2. \A a, b \in Nat : a < b => <<a, b>> \in R
  BY DEF OpToRel
<1> HIDE DEF R
<1>3. PICK m \in S : \A k \in S : ~ (<<k, m>> \in R)
  BY <1>1, WFMin
<1>4. \A k \in S : m <= k
  <2>1. TAKE k \in S
  <2>2. k \in Nat /\ m \in Nat
    OBVIOUS
  <2>3. ~(k < m)
    BY <1>2, <1>3, <2>2
  <2>4. QED
    BY <2>2, <2>3
<1>5. QED
  BY <1>4

-----------------------------------------------------------------------------

IInv ==
  /\ TypeOK
  /\ IsFiniteSet(DOMAIN updates)
  /\ EveryUpdateIsLinked

\* A map, its first and its last entry are threaded in one order only.
LEMMA ThreadsUnique ==
  ASSUME NEW u, NEW f, NEW b, Cardinality(DOMAIN u) \in Nat,
         NEW s \in [1..Cardinality(DOMAIN u) -> DOMAIN u], Threads(s, u, f, b),
         NEW t \in [1..Cardinality(DOMAIN u) -> DOMAIN u], Threads(t, u, f, b)
  PROVE  s = t
<1> DEFINE n == Cardinality(DOMAIN u)
           D == {i \in 1..n : s[i] # t[i]}
<1>1. n \in Nat
  OBVIOUS
<1>2. /\ n > 0 => s[1] = t[1]
      /\ \A i \in 1..n : i < n => u[s[i]].next = s[i + 1] /\ u[t[i]].next = t[i + 1]
  BY <1>1 DEF Threads
<1> HIDE DEF n
<1>3. D = {}
  <2>1. SUFFICES ASSUME D # {} PROVE FALSE
    OBVIOUS
  <2>2. D \in SUBSET Nat
    BY <1>1
  <2>3. PICK m \in D : \A k \in D : m <= k
    <3> HIDE DEF D
    <3> QED
      BY <2>1, <2>2, LeastExists
  <2>4. m \in 1..n /\ s[m] # t[m]
    BY <2>3
  <2>5. CASE m = 1
    BY <1>1, <1>2, <2>4, <2>5
  <2>6. CASE m # 1
    <3>1. m - 1 \in 1..n /\ m - 1 < n /\ (m - 1) + 1 = m /\ ~(m <= m - 1)
      BY <1>1, <2>4, <2>6
    <3>2. m - 1 \notin D
      BY <2>3, <3>1
    <3>3. s[m - 1] = t[m - 1]
      BY <3>1, <3>2
    <3>4. u[s[m - 1]].next = s[m] /\ u[t[m - 1]].next = t[m]
      BY <1>2, <3>1
    <3> QED
      BY <2>4, <3>3, <3>4
  <2> QED
    BY <2>5, <2>6
<1>4. \A i \in 1..n : s[i] = t[i]
  BY <1>3
<1> QED
  BY <1>4 DEF n

\* Order threads the entries.
LEMMA OrderThreads ==
  ASSUME IInv
  PROVE  /\ Order \in [1..Cardinality(DOMAIN updates) -> DOMAIN updates]
         /\ Threads(Order, updates, front, back)
BY DEF IInv, EveryUpdateIsLinked, Order

\* What threads the entries after a step is their order then.
LEMMA OrderNext ==
  ASSUME Cardinality(DOMAIN updates') \in Nat,
         NEW t \in [1..Cardinality(DOMAIN updates') -> DOMAIN updates'],
         Threads(t, updates', front', back')
  PROVE  EveryUpdateIsLinked' /\ Order' = t
<1>1. EveryUpdateIsLinked'
  BY DEF EveryUpdateIsLinked
<1>2. /\ Order' \in [1..Cardinality(DOMAIN updates') -> DOMAIN updates']
      /\ Threads(Order', updates', front', back')
  BY DEF Order
<1>3. Order' = t
  BY <1>2, ThreadsUnique
<1> QED
  BY <1>1, <1>3

\* The iterators agree in every state whose entries are linked.
LEMMA LinkedImpliesIteratorsAgree == IInv => IteratorsAgree
<1> SUFFICES ASSUME IInv PROVE IteratorsAgree
  OBVIOUS
<1> DEFINE n == Cardinality(DOMAIN updates)
<1>1. PICK s \in [1..n -> DOMAIN updates] : Threads(s, updates, front, back)
  BY DEF IInv, EveryUpdateIsLinked
<1>2. n \in Nat /\ (n = 0 <=> DOMAIN updates = {})
  BY FS_CardinalityType, FS_EmptySet DEF IInv
<1>3. CASE n = 0
  BY <1>1, <1>2, <1>3 DEF Threads, IteratorsAgree
<1>4. CASE n > 0
  <2>1. front = s[1] /\ back = s[n]
    BY <1>1, <1>4 DEF Threads
  <2>2. front \in DOMAIN updates /\ back \in DOMAIN updates
    BY <1>1, <1>2, <1>4, <2>1
  <2>3. QED
    BY <1>2, <1>4, <2>2, EndAssumption DEF IInv, TypeOK, IteratorsAgree
<1>5. QED
  BY <1>2, <1>3, <1>4

\* The empty container of the constructor satisfies the invariant.
LEMMA InitIInv == Init => IInv
<1> SUFFICES ASSUME Init PROVE IInv
  OBVIOUS
<1>1. DOMAIN updates = {} /\ IsFiniteSet(DOMAIN updates) /\ Cardinality(DOMAIN updates) = 0
  BY FS_EmptySet DEF Init
<1>2. TypeOK
  BY <1>1 DEF Init, TypeOK, Entry, Iterator
<1>3. EveryUpdateIsLinked
  <2>1. [i \in 1..0 |-> End] \in [1..Cardinality(DOMAIN updates) -> DOMAIN updates]
    BY <1>1
  <2>2. Threads([i \in 1..0 |-> End], updates, front, back)
    BY <1>1 DEF Init, Threads
  <2>3. QED
    BY <2>1, <2>2 DEF EveryUpdateIsLinked
<1>4. QED
  BY <1>1, <1>2, <1>3 DEF IInv

\* Replacing a value in place keeps the list as it is.
LEMMA PushReplaceIInv ==
  ASSUME IInv, NEW k \in Keys, NEW v \in Values, PushReplace(k, v)
  PROVE  IInv' /\ Order' = Order
<1>1. DOMAIN updates' = DOMAIN updates
  BY DEF PushReplace
<1>2. \A j \in DOMAIN updates : updates'[j].next = updates[j].next
  BY DEF PushReplace, Pushes, Call, IInv, TypeOK, Entry
<1>3. TypeOK'
  BY <1>1 DEF PushReplace, Pushes, Call, IInv, TypeOK, Entry, Iterator
<1>4. /\ Order \in [1..Cardinality(DOMAIN updates) -> DOMAIN updates]
      /\ Threads(Order, updates, front, back)
  BY OrderThreads
<1>5. Cardinality(DOMAIN updates) \in Nat
  BY FS_CardinalityType DEF IInv
<1>6. Threads(Order, updates', front', back')
  BY <1>1, <1>2, <1>4, <1>5 DEF Threads, PushReplace
<1>7. EveryUpdateIsLinked' /\ Order' = Order
  BY <1>1, <1>4, <1>5, <1>6, OrderNext
<1>8. QED
  BY <1>1, <1>3, <1>7 DEF IInv

\* Adding the first entry makes the one-entry list.
LEMMA PushFirstIInv ==
  ASSUME IInv, NEW k \in Keys, NEW v \in Values, PushFirst(k, v)
  PROVE  /\ IInv'
         /\ DOMAIN updates = {} /\ Cardinality(DOMAIN updates') = 1
         /\ Order' = [i \in 1..1 |-> k]
<1>1. DOMAIN updates = {}
  BY LinkedImpliesIteratorsAgree DEF PushFirst, IteratorsAgree
<1>2. DOMAIN updates' = {k}
  BY <1>1 DEF PushFirst
<1>3. Cardinality(DOMAIN updates') = 1 /\ IsFiniteSet(DOMAIN updates')
  BY <1>2, FS_Singleton
<1>4. TypeOK'
  BY <1>2 DEF PushFirst, Pushes, Call, IInv, TypeOK, Entry, Iterator
<1> DEFINE s == [i \in 1..1 |-> k]
<1>5. s \in [1..Cardinality(DOMAIN updates') -> DOMAIN updates']
  BY <1>2, <1>3
<1>6. Threads(s, updates', front', back')
  <2>1. front' = k /\ back' = k /\ updates'[k].next = End
    BY <1>1, <1>2 DEF PushFirst
  <2>2. 1 \in 1..1 /\ \A i \in 1..1 : i = 1 /\ s[i] = k
    OBVIOUS
  <2>3. \A j \in DOMAIN updates' : \E i \in 1..1 : s[i] = j
    BY <1>2, <2>2
  <2>4. /\ \A i, j \in 1..1 : s[i] = s[j] => i = j
        /\ front' = s[1] /\ back' = s[1] /\ updates'[s[1]].next = End
        /\ \A i \in 1..1 : ~(i < 1)
    BY <2>1, <2>2
  <2> HIDE DEF s
  <2>5. QED
    BY <1>3, <2>3, <2>4 DEF Threads
<1>7. EveryUpdateIsLinked' /\ Order' = s
  <2>1. Cardinality(DOMAIN updates') \in Nat
    BY <1>3
  <2> HIDE DEF s
  <2>2. QED
    BY <1>5, <1>6, <2>1, OrderNext
<1>8. QED
  BY <1>1, <1>3, <1>4, <1>7 DEF IInv

\* Adding a later entry appends it to the list.
LEMMA PushBehindIInv ==
  ASSUME IInv, NEW k \in Keys, NEW v \in Values, PushBehind(k, v)
  PROVE  /\ IInv'
         /\ Cardinality(DOMAIN updates') = Cardinality(DOMAIN updates) + 1
         /\ Order' = [i \in 1..(Cardinality(DOMAIN updates) + 1) |->
                       IF i = Cardinality(DOMAIN updates) + 1 THEN k ELSE Order[i]]
<1> DEFINE n == Cardinality(DOMAIN updates)
           s == Order
<1>1. s \in [1..n -> DOMAIN updates] /\ Threads(s, updates, front, back)
  BY OrderThreads
<1> HIDE DEF s
<1>2. n \in Nat /\ n > 0
  <2>1. n \in Nat /\ (n = 0 <=> DOMAIN updates = {})
    BY FS_CardinalityType, FS_EmptySet DEF IInv
  <2>2. DOMAIN updates # {}
    BY LinkedImpliesIteratorsAgree DEF PushBehind, IteratorsAgree
  <2>3. QED
    BY <2>1, <2>2
<1>3. front = s[1] /\ back = s[n] /\ updates[s[n]].next = End
  BY <1>1, <1>2 DEF Threads
<1>4. DOMAIN updates' = DOMAIN updates \union {k} /\ k \notin DOMAIN updates
  BY DEF PushBehind
<1>5. IsFiniteSet(DOMAIN updates') /\ Cardinality(DOMAIN updates') = n + 1
  BY <1>4, FS_AddElement DEF IInv
<1>6. TypeOK'
  <2>1. front \in DOMAIN updates
    BY <1>1, <1>2, <1>3
  <2>2. \A j \in DOMAIN updates' : updates'[j] \in Entry
    BY <1>4 DEF PushBehind, Pushes, Call, IInv, TypeOK, Entry, Iterator
  <2>3. QED
    BY <1>4, <2>1, <2>2 DEF PushBehind, Pushes, Call, IInv, TypeOK
<1> DEFINE t == [i \in 1..(n + 1) |-> IF i = n + 1 THEN k ELSE s[i]]
<1>7. t \in [1..Cardinality(DOMAIN updates') -> DOMAIN updates']
  <2>1. \A i \in 1..(n + 1) : i = n + 1 \/ i \in 1..n
    BY <1>2
  <2>2. \A i \in 1..(n + 1) : t[i] \in DOMAIN updates'
    BY <1>1, <1>4, <2>1
  <2>3. QED
    BY <1>5, <2>2
<1>8. Threads(t, updates', front', back')
  <2>1. \A j \in DOMAIN updates' : \E i \in 1..(n + 1) : t[i] = j
    BY <1>1, <1>2, <1>4 DEF Threads
  <2>2. \A i, j \in 1..(n + 1) : t[i] = t[j] => i = j
    BY <1>1, <1>2, <1>4 DEF Threads
  <2>3. front' = t[1] /\ back' = t[n + 1] /\ updates'[t[n + 1]].next = End
    BY <1>2, <1>3, <1>4 DEF PushBehind
  <2>4. ASSUME NEW i \in 1..(n + 1), i < n + 1
        PROVE  updates'[t[i]].next = t[i + 1]
    <3>1. t[i] = s[i] /\ s[i] \in DOMAIN updates /\ s[i] # k
      BY <1>1, <1>2, <1>4, <2>4
    <3>2. CASE i = n
      <4>1. t[i + 1] = k
        BY <3>2
      <4>2. updates'[s[i]] = [updates[s[i]] EXCEPT !.next = k]
        BY <1>3, <1>4, <3>1, <3>2 DEF PushBehind
      <4>3. QED
        BY <3>1, <4>1, <4>2 DEF IInv, TypeOK, Entry
    <3>3. CASE i < n
      <4>1. updates[s[i]].next = s[i + 1] /\ t[i + 1] = s[i + 1]
        BY <1>1, <1>2, <3>3 DEF Threads
      <4>2. s[i] # back
        BY <1>1, <1>2, <1>3, <3>3 DEF Threads
      <4>3. updates'[s[i]] = updates[s[i]]
        BY <1>4, <3>1, <4>2 DEF PushBehind
      <4>4. QED
        BY <3>1, <4>1, <4>3
    <3>4. QED
      BY <1>2, <2>4, <3>2, <3>3
  <2>5. QED
    BY <1>2, <1>5, <2>1, <2>2, <2>3, <2>4 DEF Threads
<1>9. EveryUpdateIsLinked' /\ Order' = t
  <2>1. Cardinality(DOMAIN updates') \in Nat
    BY <1>2, <1>5
  <2> HIDE DEF t
  <2>2. QED
    BY <1>7, <1>8, <2>1, OrderNext
<1>10. QED
  BY <1>5, <1>6, <1>9 DEF IInv, s

\* Erasing the first entry leaves the list of the others.
LEMMA PopFrontIInv ==
  ASSUME IInv, PopFront
  PROVE  /\ IInv'
         /\ Cardinality(DOMAIN updates) \in Nat /\ Cardinality(DOMAIN updates) > 0
         /\ Cardinality(DOMAIN updates') = Cardinality(DOMAIN updates) - 1
         /\ front = Order[1]
         /\ Order' = [i \in 1..(Cardinality(DOMAIN updates) - 1) |-> Order[i + 1]]
<1> DEFINE n == Cardinality(DOMAIN updates)
           s == Order
<1>1. s \in [1..n -> DOMAIN updates] /\ Threads(s, updates, front, back)
  BY OrderThreads
<1> HIDE DEF s
<1>2. n \in Nat /\ n > 0
  <2>1. n \in Nat /\ (n = 0 <=> DOMAIN updates = {})
    BY FS_CardinalityType, FS_EmptySet DEF IInv
  <2>2. DOMAIN updates # {}
    BY LinkedImpliesIteratorsAgree DEF PopFront, IteratorsAgree
  <2>3. QED
    BY <2>1, <2>2
<1>3. front = s[1] /\ back = s[n] /\ updates[s[n]].next = End /\ front \in DOMAIN updates
  BY <1>1, <1>2 DEF Threads
<1>4. DOMAIN updates' = DOMAIN updates \ {front}
  BY DEF PopFront
<1>5. \A j \in DOMAIN updates' : updates'[j] = updates[j]
  BY <1>4 DEF PopFront
<1>6. IsFiniteSet(DOMAIN updates') /\ Cardinality(DOMAIN updates') = n - 1
  BY <1>3, <1>4, FS_RemoveElement DEF IInv
<1>7. front' = IF n = 1 THEN End ELSE s[2]
  <2>1. CASE n = 1
    BY <1>3, <2>1 DEF PopFront
  <2>2. CASE n > 1
    BY <1>1, <1>2, <1>3, <2>2 DEF PopFront, Threads
  <2>3. QED
    BY <1>2, <2>1, <2>2
<1>8. back' = IF n = 1 THEN End ELSE s[n]
  <2>1. CASE n = 1
    BY <1>7, <2>1 DEF PopFront
  <2>2. CASE n > 1
    <3>1. s[2] \in DOMAIN updates /\ front' = s[2]
      BY <1>1, <1>2, <1>7, <2>2
    <3>2. front' # End
      BY <3>1, EndAssumption DEF IInv, TypeOK
    <3>3. QED
      BY <1>3, <2>2, <3>2 DEF PopFront
  <2>3. QED
    BY <1>2, <2>1, <2>2
<1>9. \A i \in 2..n : s[i] \in DOMAIN updates'
  BY <1>1, <1>2, <1>3, <1>4 DEF Threads
<1>10. TypeOK'
  <2>1. front' \in DOMAIN updates' \union {End} /\ back' \in DOMAIN updates' \union {End}
    BY <1>2, <1>7, <1>8, <1>9
  <2>2. updates' \in [DOMAIN updates' -> Entry]
    BY <1>4 DEF PopFront, IInv, TypeOK
  <2>3. call' \in Call
    <3>1. updates[front] \in Entry /\ front \in Keys
      BY <1>3 DEF IInv, TypeOK
    <3>2. QED
      BY <3>1 DEF PopFront, Entry, Call
  <2>4. QED
    BY <1>4, <2>1, <2>2, <2>3 DEF IInv, TypeOK
<1> DEFINE t == [i \in 1..(n - 1) |-> s[i + 1]]
<1>11. t \in [1..Cardinality(DOMAIN updates') -> DOMAIN updates']
  BY <1>2, <1>6, <1>9
<1>12. Threads(t, updates', front', back')
  <2>1. \A j \in DOMAIN updates' : \E i \in 1..(n - 1) : t[i] = j
    <3>1. SUFFICES ASSUME NEW j \in DOMAIN updates' PROVE \E i \in 1..(n - 1) : t[i] = j
      OBVIOUS
    <3>2. PICK i \in 1..n : s[i] = j
      BY <1>1, <1>4 DEF Threads
    <3>3. i # 1
      BY <1>3, <1>4, <3>2
    <3>4. i - 1 \in 1..(n - 1) /\ t[i - 1] = j
      BY <1>2, <3>2, <3>3
    <3>5. QED
      BY <3>4
  <2>2. \A i, j \in 1..(n - 1) : t[i] = t[j] => i = j
    BY <1>1, <1>2 DEF Threads
  <2>3. n - 1 = 0 => front' = End /\ back' = End
    BY <1>7, <1>8
  <2>4. n - 1 > 0 => front' = t[1] /\ back' = t[n - 1] /\ updates'[t[n - 1]].next = End
    BY <1>2, <1>3, <1>5, <1>7, <1>8, <1>9
  <2>5. \A i \in 1..(n - 1) : i < n - 1 => updates'[t[i]].next = t[i + 1]
    BY <1>1, <1>2, <1>5, <1>9 DEF Threads
  <2> DEFINE m == Cardinality(DOMAIN updates')
  <2>6. m = n - 1
    BY <1>6
  <2> HIDE DEF m, t
  <2>7. /\ \A j \in DOMAIN updates' : \E i \in 1..m : t[i] = j
        /\ \A i, j \in 1..m : t[i] = t[j] => i = j
        /\ m = 0 => front' = End /\ back' = End
        /\ m > 0 => front' = t[1] /\ back' = t[m] /\ updates'[t[m]].next = End
        /\ \A i \in 1..m : i < m => updates'[t[i]].next = t[i + 1]
    BY <2>1, <2>2, <2>3, <2>4, <2>5, <2>6
  <2>8. QED
    BY <2>7 DEF Threads, m
<1>13. EveryUpdateIsLinked' /\ Order' = t
  <2>1. Cardinality(DOMAIN updates') \in Nat
    BY <1>2, <1>6
  <2> HIDE DEF t
  <2>2. QED
    BY <1>11, <1>12, <2>1, OrderNext
<1>14. QED
  BY <1>2, <1>3, <1>6, <1>10, <1>13 DEF IInv, s

\* Every step of the container preserves the invariant.
LEMMA StepIInv == IInv /\ [Next]_vars => IInv'
<1> SUFFICES ASSUME IInv, [Next]_vars PROVE IInv'
  OBVIOUS
<1>1. CASE PopFront
  BY <1>1, PopFrontIInv
<1>2. CASE PopEmpty \/ UNCHANGED vars
  <2>1. UNCHANGED <<updates, front, back>> /\ TypeOK'
    BY <1>2 DEF PopEmpty, vars, IInv, TypeOK
  <2>2. EveryUpdateIsLinked'
    <3>1. updates' = updates /\ front' = front /\ back' = back /\ EveryUpdateIsLinked
      BY <2>1 DEF IInv
    <3>2. QED
      BY <3>1 DEF EveryUpdateIsLinked
  <2>3. QED
    BY <2>1, <2>2 DEF IInv
<1>3. CASE \E k \in Keys, v \in Values : Push(k, v)
  BY <1>3, PushReplaceIInv, PushFirstIInv, PushBehindIInv DEF Push
<1>4. QED
  BY <1>1, <1>2, <1>3 DEF Next

LEMMA Invariance == Spec => []IInv
BY InitIInv, StepIInv, PTL DEF Spec

\* The map and the iterators are well typed: front_ and back_ never dangle,
\* so the assignment through back_ in push and the reads through front_ in
\* pop_front are of live entries.
THEOREM TypeCorrect == Spec => []TypeOK
<1>1. IInv => TypeOK
  BY DEF IInv
<1>2. QED
  BY <1>1, Invariance, PTL

\* The assertions at the start of push and at the end of pop_front hold, and
\* empty() tells whether pop_front would throw.
THEOREM AssertionsHold == Spec => []IteratorsAgree
BY LinkedImpliesIteratorsAgree, Invariance, PTL

\* No update is ever lost from, or duplicated in, the list pop_front follows.
THEOREM NothingLost == Spec => []EveryUpdateIsLinked
<1>1. IInv => EveryUpdateIsLinked
  BY DEF IInv
<1>2. QED
  BY <1>1, Invariance, PTL

-----------------------------------------------------------------------------
(* Refinement of UpdateQueue *)

\* The queue that the linked map stands for.
Updates == [i \in 1..Cardinality(DOMAIN updates) |->
              [uri |-> Order[i], value |-> updates[Order[i]].value]]

\* It has an update for each entry of the map.
UpdatesOK ==
  /\ Cardinality(DOMAIN updates) \in Nat
  /\ Updates \in Seq(Queue!Update)
  /\ Len(Updates) = Cardinality(DOMAIN updates)
  /\ DOMAIN Updates = 1..Cardinality(DOMAIN updates)
  /\ \A i \in 1..Cardinality(DOMAIN updates) :
       /\ Order[i] \in DOMAIN updates
       /\ Updates[i] = [uri |-> Order[i], value |-> updates[Order[i]].value]

LEMMA UpdatesFacts == IInv => UpdatesOK
<1> SUFFICES ASSUME IInv PROVE UpdatesOK
  OBVIOUS
<1> DEFINE n == Cardinality(DOMAIN updates)
<1>1. n \in Nat
  BY FS_CardinalityType DEF IInv
<1>2. \A i \in 1..n : Order[i] \in DOMAIN updates
  BY OrderThreads
<1>3. \A j \in DOMAIN updates : j \in Keys /\ updates[j].value \in Values
  BY DEF IInv, TypeOK, Entry
<1>4. \A i \in 1..n : [uri |-> Order[i], value |-> updates[Order[i]].value] \in Queue!Update
  BY <1>2, <1>3 DEF Queue!Update
<1> HIDE DEF n
<1>5. [i \in 1..n |-> [uri |-> Order[i], value |-> updates[Order[i]].value]] \in Seq(Queue!Update)
  BY <1>1, <1>4, IsASeq
<1>6. Updates \in Seq(Queue!Update) /\ DOMAIN Updates = 1..n
  BY <1>5 DEF Updates, n
<1>7. Len(Updates) = n
  BY <1>1, <1>6, LenProperties
<1>8. \A i \in 1..n : Updates[i] = [uri |-> Order[i], value |-> updates[Order[i]].value]
  BY DEF Updates, n
<1> QED
  BY <1>1, <1>2, <1>6, <1>7, <1>8 DEF UpdatesOK, n

\* And it has after a step.
LEMMA UpdatesFactsNext == IInv' => UpdatesOK'
BY UpdatesFacts, PTL

\* The URIs in the queue are the keys of the map.
LEMMA UpdatesUris ==
  ASSUME IInv
  PROVE  Queue!Uris(Updates) = DOMAIN updates
<1> DEFINE n == Cardinality(DOMAIN updates)
<1>1. \A j \in DOMAIN updates : \E i \in 1..n : Order[i] = j
  BY OrderThreads DEF Threads
<1>2. /\ DOMAIN Updates = 1..n
      /\ \A i \in 1..n : Order[i] \in DOMAIN updates /\ Updates[i].uri = Order[i]
  BY UpdatesFacts DEF UpdatesOK
<1> HIDE DEF n
<1> QED
  BY <1>1, <1>2 DEF Queue!Uris

LEMMA PushReplaceRefines ==
  ASSUME IInv, NEW k \in Keys, NEW v \in Values, PushReplace(k, v)
  PROVE  Updates' = Queue!Pushed(Updates, k, v)
<1> DEFINE n == Cardinality(DOMAIN updates)
<1>1. Order' = Order /\ DOMAIN updates' = DOMAIN updates /\ k \in DOMAIN updates
  BY PushReplaceIInv DEF PushReplace
<1>2. \A j \in DOMAIN updates : updates'[j].value = IF j = k THEN v ELSE updates[j].value
  BY DEF PushReplace, IInv, TypeOK, Entry
<1>3. /\ DOMAIN Updates = 1..n
      /\ \A i \in 1..n : /\ Order[i] \in DOMAIN updates
                         /\ Updates[i] = [uri |-> Order[i], value |-> updates[Order[i]].value]
  BY UpdatesFacts DEF UpdatesOK
<1>4. Updates' = [i \in 1..n |-> [uri |-> Order[i], value |-> updates'[Order[i]].value]]
  BY <1>1 DEF Updates
<1>5. k \in Queue!Uris(Updates)
  BY <1>1, UpdatesUris
<1>6. Queue!Pushed(Updates, k, v)
        = [i \in 1..n |-> IF Updates[i].uri = k THEN [Updates[i] EXCEPT !.value = v] ELSE Updates[i]]
  BY <1>3, <1>5 DEF Queue!Pushed
<1> HIDE DEF n
<1>7. \A i \in 1..n : [uri |-> Order[i], value |-> updates'[Order[i]].value]
        = IF Updates[i].uri = k THEN [Updates[i] EXCEPT !.value = v] ELSE Updates[i]
  BY <1>2, <1>3
<1> QED
  BY <1>4, <1>6, <1>7

LEMMA PushNewRefines ==
  ASSUME IInv, NEW k \in Keys, NEW v \in Values, PushFirst(k, v) \/ PushBehind(k, v)
  PROVE  Updates' = Queue!Pushed(Updates, k, v)
<1> DEFINE n == Cardinality(DOMAIN updates)
           r == [uri |-> k, value |-> v]
           a == Append(Updates, r)
<1>1. k \notin DOMAIN updates /\ \A j \in DOMAIN updates' : j = k \/ j \in DOMAIN updates
  BY DEF PushFirst, PushBehind
<1>2. /\ n \in Nat /\ Updates \in Seq(Queue!Update) /\ Len(Updates) = n
      /\ \A i \in 1..n : /\ Order[i] \in DOMAIN updates
                         /\ Updates[i] = [uri |-> Order[i], value |-> updates[Order[i]].value]
  BY UpdatesFacts DEF UpdatesOK
<1>3. /\ IInv' /\ Cardinality(DOMAIN updates') = n + 1
      /\ Order'[n + 1] = k /\ \A i \in 1..n : Order'[i] = Order[i]
  <2>1. CASE PushFirst(k, v)
    <3>1. DOMAIN updates = {} /\ Cardinality(DOMAIN updates') = 1 /\ Order' = [i \in 1..1 |-> k] /\ IInv'
      BY <2>1, PushFirstIInv
    <3>2. n = 0
      BY <3>1, FS_EmptySet
    <3> QED
      BY <3>1, <3>2
  <2>2. CASE PushBehind(k, v)
    <3>1. /\ IInv' /\ Cardinality(DOMAIN updates') = n + 1
          /\ Order' = [i \in 1..(n + 1) |-> IF i = n + 1 THEN k ELSE Order[i]]
      BY <2>2, PushBehindIInv
    <3> HIDE DEF n
    <3> QED
      BY <1>2, <3>1
  <2> QED
    BY <2>1, <2>2
<1>4. updates'[k].value = v /\ \A j \in DOMAIN updates : updates'[j].value = updates[j].value
  BY DEF PushFirst, PushBehind, IInv, TypeOK, Entry
<1> HIDE DEF n
<1>5. /\ Updates' \in Seq(Queue!Update) /\ Len(Updates') = n + 1
      /\ \A i \in 1..(n + 1) : Updates'[i] = [uri |-> Order'[i], value |-> updates'[Order'[i]].value]
  <2>1. IInv'
    BY <1>3
  <2>2. /\ Updates' \in Seq(Queue!Update) /\ Len(Updates') = Cardinality(DOMAIN updates')
        /\ \A i \in 1..Cardinality(DOMAIN updates') :
             Updates'[i] = [uri |-> Order'[i], value |-> updates'[Order'[i]].value]
    BY <2>1, UpdatesFactsNext DEF UpdatesOK
  <2> QED
    BY <1>3, <2>2
<1>6. /\ a \in Seq(Queue!Update) /\ Len(a) = n + 1
      /\ \A i \in 1..n : a[i] = Updates[i]
      /\ a[n + 1] = r
  <2>1. r \in Queue!Update
    BY DEF Queue!Update
  <2> HIDE DEF r
  <2> QED
    BY <1>2, <2>1, AppendProperties
<1> HIDE DEF a
<1>7. \A i \in 1..(n + 1) : Updates'[i] = a[i]
  <2>1. \A i \in 1..(n + 1) : i = n + 1 \/ i \in 1..n
    BY <1>2
  <2>2. \A i \in 1..n : Updates'[i] = [uri |-> Order[i], value |-> updates[Order[i]].value]
    <3>1. TAKE i \in 1..n
    <3>2. i \in 1..(n + 1)
      BY <1>2
    <3> QED
      BY <1>2, <1>3, <1>4, <1>5, <3>2
  <2>3. Updates'[n + 1] = r
    <3>1. n + 1 \in 1..(n + 1)
      BY <1>2
    <3> QED
      BY <1>3, <1>4, <1>5, <3>1
  <2> QED
    BY <1>2, <1>6, <2>1, <2>2, <2>3
<1>8. Updates' = a
  BY <1>5, <1>6, <1>7, SeqEqual
<1>9. k \notin Queue!Uris(Updates)
  BY <1>1, UpdatesUris
<1> QED
  BY <1>8, <1>9 DEF a, Queue!Pushed

LEMMA PopFrontRefines ==
  ASSUME IInv, PopFront
  PROVE  /\ Updates # <<>> /\ Updates' = Tail(Updates)
         /\ call' = [op |-> "pop", uri |-> Head(Updates).uri, value |-> Head(Updates).value]
<1> DEFINE n == Cardinality(DOMAIN updates)
<1>1. /\ IInv' /\ n \in Nat /\ n > 0 /\ Cardinality(DOMAIN updates') = n - 1
      /\ front = Order[1]
      /\ Order' = [i \in 1..(n - 1) |-> Order[i + 1]]
  BY PopFrontIInv
<1>2. /\ Updates \in Seq(Queue!Update) /\ Len(Updates) = n
      /\ \A i \in 1..n : /\ Order[i] \in DOMAIN updates
                         /\ Updates[i] = [uri |-> Order[i], value |-> updates[Order[i]].value]
  BY UpdatesFacts DEF UpdatesOK
<1>3. /\ Updates' \in Seq(Queue!Update) /\ Len(Updates') = n - 1
      /\ \A i \in 1..(n - 1) : /\ Order'[i] \in DOMAIN updates'
                               /\ Updates'[i] = [uri |-> Order'[i], value |-> updates'[Order'[i]].value]
  <2>1. UpdatesOK'
    BY <1>1, UpdatesFactsNext
  <2> QED
    BY <1>1, <2>1 DEF UpdatesOK
<1>4. \A j \in DOMAIN updates' : updates'[j] = updates[j]
  BY DEF PopFront
<1>5. call' = [op |-> "pop", uri |-> front, value |-> updates[front].value]
  BY DEF PopFront
<1> HIDE DEF n
<1>6. Updates # <<>>
  BY <1>1, <1>2, EmptySeq
<1>7. Head(Updates) = Updates[1]
  BY <1>2, <1>6
<1>8. /\ Tail(Updates) \in Seq(Queue!Update) /\ Len(Tail(Updates)) = n - 1
      /\ \A i \in 1..(n - 1) : Tail(Updates)[i] = Updates[i + 1]
  <2>1. /\ Tail(Updates) \in Seq(Queue!Update) /\ Len(Tail(Updates)) = Len(Updates) - 1
        /\ \A i \in 1..Len(Tail(Updates)) : Tail(Updates)[i] = Updates[i + 1]
    BY <1>2, <1>6, HeadTailProperties
  <2> QED
    BY <1>2, <2>1
<1>9. ASSUME NEW i \in 1..(n - 1) PROVE Updates'[i] = Tail(Updates)[i]
  <2>1. i + 1 \in 1..n /\ Order'[i] = Order[i + 1]
    BY <1>1
  <2>2. Updates'[i] = [uri |-> Order[i + 1], value |-> updates[Order[i + 1]].value]
    BY <1>3, <1>4, <2>1
  <2> QED
    BY <1>2, <1>8, <2>1, <2>2
<1>10. Updates' = Tail(Updates)
  <2> DEFINE s == Updates'
             q == Tail(Updates)
  <2>1. /\ s \in Seq(Queue!Update) /\ q \in Seq(Queue!Update) /\ Len(s) = n - 1 /\ Len(q) = n - 1
        /\ \A i \in 1..(n - 1) : s[i] = q[i]
    BY <1>3, <1>8, <1>9
  <2> HIDE DEF s, q
  <2>2. s = q
    BY <2>1, SeqEqual
  <2> QED
    BY <2>2 DEF s, q
<1>11. 1 \in 1..n
  BY <1>1
<1>12. Head(Updates).uri = front /\ Head(Updates).value = updates[front].value
  BY <1>1, <1>2, <1>7, <1>11
<1> QED
  BY <1>5, <1>6, <1>10, <1>12

LEMMA StepRefines ==
  ASSUME IInv, [Next]_vars
  PROVE  [Queue!Next]_<<Updates, call>>
<1>1. CASE PopFront
  BY <1>1, PopFrontRefines DEF Queue!Next, Queue!PopFront, Updates
<1>2. CASE PopEmpty
  <2>1. Updates' = Updates
    <3>1. UNCHANGED <<updates, front, back>>
      BY <1>2 DEF PopEmpty
    <3>2. Order' = Order
      BY <3>1 DEF Order, Threads
    <3> QED
      BY <3>1, <3>2 DEF Updates
  <2>2. Updates = <<>>
    <3>1. DOMAIN updates = {}
      BY <1>2, LinkedImpliesIteratorsAgree DEF PopEmpty, IteratorsAgree
    <3>2. Cardinality(DOMAIN updates) = 0
      BY <3>1, FS_EmptySet
    <3>3. Updates \in Seq(Queue!Update) /\ Len(Updates) = 0
      BY <3>2, UpdatesFacts DEF UpdatesOK
    <3> QED
      BY <3>3, EmptySeq
  <2> QED
    BY <1>2, <2>1, <2>2 DEF PopEmpty, Queue!Next, Queue!PopEmpty, Updates
<1>3. ASSUME NEW k \in Keys, NEW v \in Values, Push(k, v) PROVE Queue!Push(k, v)
  <2>1. Updates' = Queue!Pushed(Updates, k, v)
    BY <1>3, PushReplaceRefines, PushNewRefines DEF Push
  <2>2. call' = [op |-> "push", uri |-> k, value |-> v]
    BY <1>3 DEF Push, PushReplace, PushFirst, PushBehind, Pushes
  <2> QED
    BY <2>1, <2>2 DEF Queue!Push, Updates
<1>4. CASE UNCHANGED vars
  <2>1. Order' = Order
    BY <1>4 DEF vars, Order, Threads
  <2> QED
    BY <1>4, <2>1 DEF vars, Updates
<1> QED
  BY <1>1, <1>2, <1>3, <1>4 DEF Next, Queue!Next

\* The map with its linked list is the coalescing queue of its documentation, for
\* every set of URIs: first pushed, first popped, one update per URI, with the value
\* pushed last, and pushing it again costs a URI nothing of its place.
THEOREM IsAQueue == Spec => ImplementsQueue
<1>1. Init => Queue!Init
  <2> SUFFICES ASSUME Init PROVE Queue!Init
    OBVIOUS
  <2>1. IInv /\ Cardinality(DOMAIN updates) = 0
    BY InitIInv, FS_EmptySet DEF Init
  <2>2. Updates \in Seq(Queue!Update) /\ Len(Updates) = 0
    BY <2>1, UpdatesFacts DEF UpdatesOK
  <2>3. Updates = <<>>
    BY <2>2, EmptySeq
  <2> QED
    BY <2>3 DEF Init, Queue!Init, Updates
<1>2. IInv /\ [Next]_vars => [Queue!Next]_<<Updates, call>>
  BY StepRefines
<1> QED
  BY <1>1, <1>2, Invariance, PTL DEF Spec, ImplementsQueue, Queue!Spec, Updates
=============================================================================
