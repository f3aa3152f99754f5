-------------------------- MODULE UpdateContainer --------------------------
(***************************************************************************)
(* decof::cli::update_container: a std::map from URI to an entry, threaded *)
(* into a singly linked list by iterators.  An iterator is the key of the  *)
(* entry it points to, or End.  A value stands for a value together with   *)
(* its time stamp.                                                         *)
(***************************************************************************)
EXTENDS FiniteSets, Naturals, Sequences

CONSTANTS Keys,       \* URIs
          Values,     \* time-stamped values
          End,        \* updates_.end()
          Nothing,    \* nothing was called yet
          OutOfRange  \* the exception thrown by pop_front

ASSUME EndAssumption == End \notin Keys

VARIABLES updates,  \* updates_
          front,    \* front_
          back,     \* back_
          call      \* the last call, with its arguments or its result

vars == <<updates, front, back, call>>

Iterator == Keys \union {End}

Entry == [value : Values, next : Iterator]

Call == [op : {"push", "pop"}, uri : Keys, value : Values]

Pushes(k, v) == call' = [op |-> "push", uri |-> k, value |-> v]

Init ==
  /\ updates = [k \in {} |-> End]
  /\ front = End
  /\ back = End
  /\ call = Nothing

-----------------------------------------------------------------------------
(* push *)

\* Mutant: the value of a queued update is kept (emplace without assignment).
PushReplaceKeepsValue(k, v) ==
  /\ k \in DOMAIN updates
  /\ Pushes(k, v)
  /\ UNCHANGED <<updates, front, back>>

\* Mutant: the first push leaves back_ at end().
PushFirstWithoutBack(k, v) ==
  /\ k \notin DOMAIN updates
  /\ front = End
  /\ updates' = [j \in DOMAIN updates \union {k} |->
                   IF j = k THEN [value |-> v, next |-> End] ELSE updates[j]]
  /\ front' = k
  /\ Pushes(k, v)
  /\ UNCHANGED back

\* Mutant: the next pointer of the last entry is not set.
PushBehindUnlinked(k, v) ==
  /\ k \notin DOMAIN updates
  /\ front # End
  /\ updates' = [j \in DOMAIN updates \union {k} |->
                   IF j = k THEN [value |-> v, next |-> End] ELSE updates[j]]
  /\ back' = k
  /\ Pushes(k, v)
  /\ UNCHANGED front

\* Mutant: the new entry is linked before the first one.
PushBehindInFront(k, v) ==
  /\ k \notin DOMAIN updates
  /\ front # End
  /\ updates' = [j \in DOMAIN updates \union {k} |->
                   IF j = k THEN [value |-> v, next |-> front] ELSE updates[j]]
  /\ front' = k
  /\ Pushes(k, v)
  /\ UNCHANGED back

\* emplace finds the key: value and time are replaced in place.
PushReplace(k, v) ==
  /\ k \in DOMAIN updates
  /\ updates' = [updates EXCEPT ![k].value = v]
  /\ Pushes(k, v)
  /\ UNCHANGED <<front, back>>

\* emplace inserts a key into an empty list: both iterators are initialised.
PushFirst(k, v) ==
  /\ k \notin DOMAIN updates
  /\ front = End
  /\ updates' = [j \in DOMAIN updates \union {k} |->
                   IF j = k THEN [value |-> v, next |-> End] ELSE updates[j]]
  /\ front' = k
  /\ back' = k
  /\ Pushes(k, v)

\* emplace inserts a key behind the last entry, whose next pointer is set.
PushBehind(k, v) ==
  /\ k \notin DOMAIN updates
  /\ front # End
  /\ updates' = [j \in DOMAIN updates \union {k} |->
                   IF j = k THEN [value |-> v, next |-> End]
                   ELSE IF j = back THEN [updates[j] EXCEPT !.next = k]
                   ELSE updates[j]]
  /\ back' = k
  /\ Pushes(k, v)
  /\ UNCHANGED front

Push(k, v) == PushReplace(k, v) \/ PushFirst(k, v) \/ PushBehind(k, v)

-----------------------------------------------------------------------------
(* pop_front *)

\* Mutant: back_ is not reset when the last entry is erased.
PopFrontStaleBack ==
  /\ front # End
  /\ call' = [op |-> "pop", uri |-> front, value |-> updates[front].value]
  /\ front' = updates[front].next
  /\ updates' = [j \in DOMAIN updates \ {front} |-> updates[j]]
  /\ UNCHANGED back

PopFront ==
  /\ front # End
  /\ call' = [op |-> "pop", uri |-> front, value |-> updates[front].value]
  /\ front' = updates[front].next
  /\ updates' = [j \in DOMAIN updates \ {front} |-> updates[j]]
  /\ back' = IF front' = End THEN End ELSE back

PopEmpty ==
  /\ front = End
  /\ call' = OutOfRange
  /\ UNCHANGED <<updates, front, back>>

Next == PopFront \/ PopEmpty \/ \E k \in Keys, v \in Values : Push(k, v)

Spec == Init /\ [][Next]_vars

\* A consumer that pops again and again, whatever is pushed in between.
FairSpec == Spec /\ WF_vars(PopFront)

-----------------------------------------------------------------------------
(* Properties *)

\* The map holds entries, and the iterators point into the map or are end().
TypeOK ==
  /\ DOMAIN updates \subseteq Keys
  /\ updates \in [DOMAIN updates -> Entry]
  /\ front \in DOMAIN updates \union {End}
  /\ back \in DOMAIN updates \union {End}
  /\ call \in Call \union {Nothing, OutOfRange}

\* The assertion push and pop_front make: the iterators are either both valid
\* or both invalid.  Moreover they are valid exactly when the map is not
\* empty, which is what empty() tells the caller before it calls pop_front.
IteratorsAgree ==
  /\ front = End <=> back = End
  /\ front = End <=> DOMAIN updates = {}

\* s lists the keys of the map u in the order in which the iterator f, the
\* next pointers and the iterator b thread them.
Threads(s, u, f, b) ==
  LET n == Cardinality(DOMAIN u) IN
  /\ \A k \in DOMAIN u : \E i \in 1..n : s[i] = k
  /\ \A i, j \in 1..n : s[i] = s[j] => i = j
  /\ n = 0 => f = End /\ b = End
  /\ n > 0 => f = s[1] /\ b = s[n] /\ u[s[n]].next = End
  /\ \A i \in 1..n : i < n => u[s[i]].next = s[i + 1]

\* No update is lost or delivered twice: the list that pop_front follows from
\* front_ passes through every entry of the map exactly once and ends at
\* back_, where push links the next entry.
EveryUpdateIsLinked ==
  \E s \in [1..Cardinality(DOMAIN updates) -> DOMAIN updates] :
    Threads(s, updates, front, back)

Order == CHOOSE s \in [1..Cardinality(DOMAIN updates) -> DOMAIN updates] :
    Threads(s, updates, front, back)

Queue == INSTANCE UpdateQueue WITH
           queue <- [i \in 1..Cardinality(DOMAIN updates) |->
                       [uri |-> Order[i], value |-> updates[Order[i]].value]]

\* The linked map implements the coalescing queue of its documentation: order
\* of first push, one update per URI, the latest value of each.
ImplementsQueue == Queue!Spec

\* A queued URI is popped eventually, however often it and the others are
\* pushed again: replacing a value does not cost the URI its place.
NoStarvation ==
  \A k \in Keys : k \in DOMAIN updates ~> (call \in Call /\ call.op = "pop" /\ call.uri = k)
=============================================================================
