---------------------------- MODULE UpdateQueue ----------------------------
(***************************************************************************)
(* What decof::cli::update_container promises to its user: a queue of      *)
(* updates in the order of their first push, at most one per URI.  Pushing *)
(* a URI that is already queued replaces its value where it stands.        *)
(*                                                                         *)
(* A value stands for the value and the time stamp of an update, which     *)
(* push assigns together and pop_front returns together.                   *)
(***************************************************************************)
EXTENDS Sequences, Naturals

CONSTANTS Keys,       \* URIs
          Values,     \* time-stamped values
          Nothing,    \* nothing was called yet
          OutOfRange  \* the exception thrown by pop_front

VARIABLES queue,  \* the updates, oldest first
          call    \* the last call, with its arguments or its result

Update == [uri : Keys, value : Values]

Call == [op : {"push", "pop"}, uri : Keys, value : Values]

Uris(q) == {q[i].uri : i \in DOMAIN q}

\* The queue after push(k, v).
Pushed(q, k, v) ==
  IF k \in Uris(q)
    THEN [i \in DOMAIN q |-> IF q[i].uri = k THEN [q[i] EXCEPT !.value = v] ELSE q[i]]
    ELSE Append(q, [uri |-> k, value |-> v])

Init == queue = <<>> /\ call = Nothing

Push(k, v) ==
  /\ queue' = Pushed(queue, k, v)
  /\ call' = [op |-> "push", uri |-> k, value |-> v]

PopFront ==
  /\ queue # <<>>
  /\ call' = [op |-> "pop", uri |-> Head(queue).uri, value |-> Head(queue).value]
  /\ queue' = Tail(queue)

PopEmpty == queue = <<>> /\ call' = OutOfRange /\ UNCHANGED queue

Next == PopFront \/ PopEmpty \/ \E k \in Keys, v \in Values : Push(k, v)

Spec == Init /\ [][Next]_<<queue, call>>
=============================================================================
