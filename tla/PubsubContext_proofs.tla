------------------------ MODULE PubsubContext_proofs ------------------------
(***************************************************************************)
(* Proofs about PubsubContext for every set of parameters, every size of   *)
(* the send buffer and every value of the bounds.                          *)
(***************************************************************************)
EXTENDS PubsubContext, FiniteSets, SequenceTheorems, FiniteSetTheorems, WellFoundedInduction, TLAPS

-----------------------------------------------------------------------------
(* Positions and sequences *)

\* A non-empty set of naturals has a least element.
LEMMA LeastExists ==
  ASSUME NEW S \in SUBSET Nat, S # {}
  PROVE  \E m \in S : \A k \in S : m <= k
<1> DEFINE R == OpToRel(<, Nat)
<1>1. IsWellFoundedOn(R, Nat)
  BY NatLessThanWellFounded
<1>2. \A a, b \in Nat : a < b => <<a, b>> \in R
  BY DEF OpToRel
<1> HIDE DEF R
<1>3. PICK m \in S : \A k \in S : ~ (<<k, m>> \in R)
  BY <1>1, WFMin
<1>4. \A k \in S : m <= k
  <2>1. TAKE k \in S
  <2>2. k \in Nat /\ m \in Nat
    OBVIOUS
  <2>3. ~(k < m)
    BY <1>2, <1>3, <2>2
  <2>4. QED
    BY <2>2, <2>3
<1>5. QED
  BY <1>4

\* A non-empty set of positions has a last one.
LEMMA GreatestExists ==
  ASSUME NEW n \in Nat, NEW S \in SUBSET (1..n), S # {}
  PROVE  \E m \in S : \A k \in S : k <= m
<1> DEFINE T == {n - k : k \in S}
<1>1. T \in SUBSET Nat /\ T # {}
  <2>1. \A k \in S : n - k \in Nat
    OBVIOUS
  <2>2. T \in SUBSET Nat
    BY <2>1
  <2>3. T # {}
    BY S # {}
  <2>4. QED
    BY <2>2, <2>3
<1>2. PICK m \in T : \A k \in T : m <= k
  <2> HIDE DEF T
  <2> QED BY <1>1, LeastExists
<1>3. PICK j \in S : m = n - j
  BY <1>2
<1>4. \A k \in S : n - k \in T
  OBVIOUS
<1>5. \A k \in S : n - j <= n - k
  BY <1>2, <1>3, <1>4
<1>6. QED
  BY <1>3, <1>5

\* What is behind the first n elements.
LEMMA SuffixFacts ==
  ASSUME NEW S, NEW s \in Seq(S), NEW n \in 0..Len(s)
  PROVE  /\ SubSeq(s, n + 1, Len(s)) \in Seq(S)
         /\ Len(SubSeq(s, n + 1, Len(s))) = Len(s) - n
         /\ DOMAIN SubSeq(s, n + 1, Len(s)) = 1..(Len(s) - n)
         /\ \A i \in 1..(Len(s) - n) : n + i \in DOMAIN s /\ SubSeq(s, n + 1, Len(s))[i] = s[n + i]
<1> DEFINE r == SubSeq(s, n + 1, Len(s))
<1>1. /\ Len(s) \in Nat /\ n \in Nat /\ n <= Len(s) /\ DOMAIN s = 1..Len(s)
      /\ \A i \in 1..Len(s) : s[i] \in S
  BY LenProperties, ElementOfSeq
<1>2. n + 1 \in Int /\ Len(s) \in Int /\ \A i \in (n + 1)..Len(s) : s[i] \in S
  BY <1>1
<1>3. /\ r \in Seq(S)
      /\ Len(r) = IF n + 1 <= Len(s) THEN Len(s) - (n + 1) + 1 ELSE 0
      /\ \A i \in 1..(Len(s) - (n + 1) + 1) : r[i] = s[(n + 1) + i - 1]
  BY <1>2, SubSeqProperties
<1> HIDE DEF r
<1>4. Len(r) = Len(s) - n
  <2>1. CASE n + 1 <= Len(s)
    BY <2>1, <1>1, <1>3
  <2>2. CASE ~(n + 1 <= Len(s))
    <3>1. Len(r) = 0
      BY <2>2, <1>3
    <3>2. n \in Nat /\ Len(s) \in Nat /\ n <= Len(s) /\ Len(s) <= n
      BY <2>2, <1>1
    <3>3. Len(s) = n
      BY <3>2
    <3>4. n - n = 0
      BY <1>1
    <3> QED
      BY <3>1, <3>3, <3>4
  <2> QED
    BY <2>1, <2>2
<1>5. DOMAIN r = 1..(Len(s) - n)
  BY <1>3, <1>4, LenProperties
<1>6. ASSUME NEW i \in 1..(Len(s) - n) PROVE n + i \in DOMAIN s /\ r[i] = s[n + i]
  <2>1. /\ i \in 1..(Len(s) - (n + 1) + 1) /\ (n + 1) + i - 1 = n + i
        /\ n + i \in 1..Len(s)
    BY <1>1
  <2> QED
    BY <2>1, <1>1, <1>3
<1> QED
  BY <1>3, <1>4, <1>5, <1>6 DEF r

\* How three sequences are put together does not matter.
Regrouped(s, t, u) == (s \o t) \o u = s \o (t \o u)

LEMMA Regroups ==
  ASSUME NEW S, NEW s \in Seq(S), NEW t \in Seq(S), NEW u \in Seq(S)
  PROVE  Regrouped(s, t, u)
BY ConcatAssociative, SMTT(30) DEF Regrouped

\* Both parts of a concatenation, position by position.
LEMMA ConcatFacts ==
  ASSUME NEW S, NEW s \in Seq(S), NEW t \in Seq(S)
  PROVE  /\ s \o t \in Seq(S) /\ Len(s) \in Nat /\ Len(t) \in Nat
         /\ DOMAIN s = 1..Len(s) /\ DOMAIN t = 1..Len(t)
         /\ DOMAIN (s \o t) = 1..(Len(s) + Len(t))
         /\ \A i \in 1..Len(s) : (s \o t)[i] = s[i]
         /\ \A i \in 1..Len(t) : (s \o t)[Len(s) + i] = t[i]
         /\ \A i \in DOMAIN (s \o t) : i > Len(s) => i - Len(s) \in 1..Len(t) /\ (s \o t)[i] = t[i - Len(s)]
<1> DEFINE st == s \o t
<1>1. /\ st \in Seq(S) /\ Len(st) = Len(s) + Len(t)
      /\ \A i \in 1..(Len(s) + Len(t)) : st[i] = IF i <= Len(s) THEN s[i] ELSE t[i - Len(s)]
  BY ConcatProperties
<1>2. Len(s) \in Nat /\ Len(t) \in Nat /\ DOMAIN s = 1..Len(s) /\ DOMAIN t = 1..Len(t)
  BY LenProperties
<1>3. DOMAIN st = 1..(Len(s) + Len(t))
  BY <1>1, LenProperties
<1> HIDE DEF st
<1>4. \A i \in 1..Len(t) : st[Len(s) + i] = t[i]
  <2> TAKE i \in 1..Len(t)
  <2>1. Len(s) + i \in 1..(Len(s) + Len(t)) /\ ~(Len(s) + i <= Len(s)) /\ Len(s) + i - Len(s) = i
    BY <1>2
  <2> QED
    BY <2>1, <1>1
<1>5. \A i \in DOMAIN st : i > Len(s) => i - Len(s) \in 1..Len(t) /\ st[i] = t[i - Len(s)]
  BY <1>1, <1>2, <1>3
<1>6. \A i \in 1..Len(s) : st[i] = s[i]
  BY <1>1, <1>2
<1> QED
  BY <1>1, <1>2, <1>3, <1>4, <1>5, <1>6 DEF st

-----------------------------------------------------------------------------

PendingUpdate == [uri : Uris, value : Nat]

\* The loop takes a prefix of the queue; it takes all of it or fills the
\* output.
LEMMA BatchFacts ==
  ASSUME NEW p \in Seq(PendingUpdate), NEW o \in Seq(Message)
  PROVE  /\ Batch(p, o) \in 0..Len(p)
         /\ Batch(p, o) = Len(p) \/ Len(o) + Batch(p, o) >= SendBuffer
<1>1. Len(p) \in Nat /\ Len(o) \in Nat /\ SendBuffer \in Nat
  BY LenProperties, BoundAssumption
<1>2. QED
  BY <1>1 DEF Batch

\* push keeps the queue a queue of updates and leaves it non-empty.
LEMMA PushedType ==
  ASSUME NEW p \in Seq(PendingUpdate), NEW u \in Uris, NEW v \in Nat
  PROVE  Queue!Pushed(p, u, v) \in Seq(PendingUpdate)
<1>1. CASE u \in Queue!Uris(p)
  <2> DEFINE q == [i \in DOMAIN p |-> IF p[i].uri = u THEN [p[i] EXCEPT !.value = v] ELSE p[i]]
  <2>1. DOMAIN p = 1..Len(p) /\ Len(p) \in Nat
    BY LenProperties
  <2>2. \A i \in 1..Len(p) : p[i] \in PendingUpdate
    BY <2>1, ElementOfSeq
  <2>3. \A i \in 1..Len(p) : q[i] \in PendingUpdate
    BY <2>1, <2>2 DEF PendingUpdate
  <2>4. q \in Seq(PendingUpdate)
    BY <2>1, <2>3, IsASeq
  <2>5. QED
    BY <1>1, <2>4 DEF Queue!Pushed
<1>2. CASE u \notin Queue!Uris(p)
  BY <1>2, AppendProperties DEF Queue!Pushed, PendingUpdate
<1>3. QED
  BY <1>1, <1>2

WriteState == {"none", "started", "sent", "failed"}

\* The inductive invariant: the flag, the kernel's operation and the two
\* buffers belong together.  WriteIsExclusive and NoIdleBacklog need each
\* other: preload_writing relies on the flag, and leaves an idle connection
\* only when it has emptied both buffers.
IInv == TypeOK /\ WriteIsExclusive /\ NoIdleBacklog

\* What preload_writing leaves behind, whoever calls it.
LEMMA PreloadWritingFacts ==
  ASSUME NEW p \in Seq(PendingUpdate), NEW o \in Seq(Message), NEW active \in BOOLEAN,
         NEW w \in WriteState, NEW n \in 0..Len(o),
         ~active => w = "none" /\ n = 0,
         PreloadWriting(p, o, active, w, n)
  PROVE  /\ pending' \in Seq(PendingUpdate)
         /\ outbuf' \in Seq(Message)
         /\ inFlight' \in 0..Len(outbuf')
         /\ write' \in WriteState
         /\ writing' \in BOOLEAN
         /\ write' # "none" => writing'
         /\ write' \in {"started", "sent"} => inFlight' > 0 \/ (write' = w /\ inFlight' = n)
         /\ writing' /\ write' = "none" => active /\ w = "none"
         /\ ~writing' => pending' = <<>> /\ outbuf' = <<>>
<1>1. CASE active
  BY <1>1 DEF PreloadWriting
<1>2. CASE ~active
  <2> DEFINE b == Batch(p, o)
             out == o \o SubSeq(p, 1, b)
             rest == SubSeq(p, b + 1, Len(p))
  <2>1. /\ Len(p) \in Nat /\ Len(o) \in Nat /\ b \in 0..Len(p)
        /\ b = Len(p) \/ Len(o) + b >= SendBuffer
    BY LenProperties, BatchFacts
  <2>2. SubSeq(p, 1, b) \in Seq(PendingUpdate) /\ Len(SubSeq(p, 1, b)) = b
    BY <2>1, SubSeqProperties, ElementOfSeq
  <2>3. SubSeq(p, 1, b) \in Seq(Message)
    <3>1. \A i \in 1..b : SubSeq(p, 1, b)[i] \in Message
      BY <2>2, ElementOfSeq DEF PendingUpdate, Message
    <3>2. QED
      BY <2>1, <2>2, <3>1, LenProperties, IsASeq
  <2>4. out \in Seq(Message) /\ Len(out) = Len(o) + b
    BY <2>2, <2>3, ConcatProperties
  <2>5. rest \in Seq(PendingUpdate)
    BY <2>1, SubSeqProperties, ElementOfSeq
  <2>6. out = <<>> => rest = <<>>
    <3>1. SUFFICES ASSUME out = <<>> PROVE rest = <<>>
      OBVIOUS
    <3>2. Len(o) = 0 /\ b = 0
      BY <2>1, <2>4, <3>1, EmptySeq
    <3>3. Len(p) = 0
      BY <2>1, <3>2, BoundAssumption
    <3>4. QED
      BY <3>2, <3>3, SubSeqEmpty
  <2>7. out # <<>> => Len(out) > 0
    BY <2>1, <2>4, EmptySeq
  <2>8. pending' = rest /\ outbuf' = out
    BY <1>2 DEF PreloadWriting
  <2> HIDE DEF rest
  <2>9. CASE out = <<>>
    <3>1. writing' = FALSE /\ write' = w /\ inFlight' = n
      BY <1>2, <2>9 DEF PreloadWriting
    <3>2. pending' = <<>> /\ outbuf' = <<>> /\ Len(outbuf') = 0 /\ inFlight' = 0 /\ write' = "none"
      BY <1>2, <2>6, <2>8, <2>9, <3>1, EmptySeq
    <3>3. <<>> \in Seq(PendingUpdate) /\ <<>> \in Seq(Message)
      OBVIOUS
    <3>4. pending' \in Seq(PendingUpdate) /\ outbuf' \in Seq(Message)
      BY <3>2, <3>3
    <3>5. inFlight' \in 0..Len(outbuf') /\ write' \in WriteState
      BY <3>2 DEF WriteState
    <3> HIDE DEF out
    <3>6. QED
      BY ONLY <3>1, <3>2, <3>4, <3>5
  <2>10. CASE out # <<>>
    <3>1. writing' = TRUE /\ write' = "started" /\ inFlight' = Len(out)
      BY <1>2, <2>10 DEF PreloadWriting
    <3> HIDE DEF out
    <3>2. Len(out) \in Nat /\ Len(out) > 0
      BY <2>4, <2>7, <2>10, LenProperties
    <3>3. QED
      BY <2>4, <2>5, <2>8, <3>1, <3>2 DEF WriteState
  <2>11. QED
    BY <2>9, <2>10
<1>3. QED
  BY <1>1, <1>2

\* The parts of IInv about the output and about everything else.
OutputOK ==
  /\ pending \in Seq(PendingUpdate)
  /\ outbuf \in Seq(Message)
  /\ inFlight \in 0..Len(outbuf)
  /\ write \in WriteState
  /\ writing \in BOOLEAN
  /\ WriteIsExclusive
  /\ NoIdleBacklog

ContextOK ==
  /\ reading \in BOOLEAN
  /\ lines \in Nat
  /\ open \in BOOLEAN
  /\ peer \in BOOLEAN
  /\ subscribed \in SUBSET Params
  /\ current \in [Uris -> Nat]
  /\ delivered \in [Uris -> Nat]
  /\ garbled \in BOOLEAN
  /\ disconnects \in Nat

LEMMA IInvParts == IInv <=> OutputOK /\ ContextOK
  BY DEF IInv, TypeOK, OutputOK, ContextOK, PendingUpdate, WriteState

\* The conjuncts of OutputOK after a step, without the names.
LEMMA OutputOKNext ==
  ASSUME pending' \in Seq(PendingUpdate), outbuf' \in Seq(Message),
         inFlight' \in 0..Len(outbuf'), write' \in WriteState, writing' \in BOOLEAN,
         write' # "none" => writing',
         write' \in {"started", "sent"} => inFlight' > 0,
         writing' /\ write' = "none" => ~open',
         ~writing' => pending' = <<>> /\ outbuf' = <<>>
  PROVE  OutputOK'
  BY DEF OutputOK, WriteIsExclusive, NoIdleBacklog

\* A handler that queues an update or appends an error and then calls
\* preload_writing keeps the output consistent.
LEMMA StartWritingKeepsOutput ==
  ASSUME OutputOK, NEW p \in Seq(PendingUpdate), NEW o \in Seq(Message),
         Len(o) >= Len(outbuf), open' = open,
         PreloadWriting(p, o, writing, write, inFlight)
  PROVE  OutputOK'
<1>1. /\ writing \in BOOLEAN /\ write \in WriteState
      /\ inFlight \in 0..Len(outbuf) /\ Len(outbuf) \in Nat
  BY LenProperties DEF OutputOK
<1>2. ~writing => write = "none" /\ inFlight = 0
  <2>1. SUFFICES ASSUME ~writing PROVE write = "none" /\ inFlight = 0
    OBVIOUS
  <2>2. outbuf = <<>> /\ write = "none"
    BY <2>1 DEF OutputOK, WriteIsExclusive, NoIdleBacklog
  <2>3. Len(outbuf) = 0
    BY <2>2, EmptySeq
  <2>4. QED
    BY <1>1, <2>2, <2>3
<1>3. inFlight \in 0..Len(o)
  BY <1>1, LenProperties
<1>4. /\ write \in {"started", "sent"} => inFlight > 0
      /\ writing /\ write = "none" => ~open
  BY DEF OutputOK, WriteIsExclusive
<1>5. /\ pending' \in Seq(PendingUpdate)
      /\ outbuf' \in Seq(Message)
      /\ inFlight' \in 0..Len(outbuf')
      /\ write' \in WriteState
      /\ writing' \in BOOLEAN
      /\ write' # "none" => writing'
      /\ write' \in {"started", "sent"} => inFlight' > 0 \/ (write' = write /\ inFlight' = inFlight)
      /\ writing' /\ write' = "none" => writing /\ write = "none"
      /\ ~writing' => pending' = <<>> /\ outbuf' = <<>>
  BY <1>1, <1>2, <1>3, PreloadWritingFacts
<1>6. QED
  BY <1>4, <1>5, OutputOKNext

\* notify keeps the output consistent.
LEMMA NotifyKeepsOutput ==
  ASSUME OutputOK, NEW u \in Uris, NEW v \in Nat, open' = open, Notify(u, v)
  PROVE  OutputOK'
<1>1. pending \in Seq(PendingUpdate) /\ outbuf \in Seq(Message) /\ Len(outbuf) \in Nat
  BY LenProperties DEF OutputOK
<1>2. Queue!Pushed(pending, u, v) \in Seq(PendingUpdate)
  BY <1>1, PushedType
<1>3. PreloadWriting(Queue!Pushed(pending, u, v), outbuf, writing, write, inFlight)
  BY DEF Notify
<1>4. QED
  BY <1>1, <1>2, <1>3, StartWritingKeepsOutput

\* A step that leaves the output and the socket alone.
LEMMA OutputUnchanged ==
  ASSUME OutputOK, UNCHANGED output, open' = open \/ ~open'
  PROVE  OutputOK'
<1>1. /\ pending' = pending /\ outbuf' = outbuf /\ inFlight' = inFlight
      /\ write' = write /\ writing' = writing
  BY DEF output
<1>2. QED
  BY <1>1 DEF OutputOK, WriteIsExclusive, NoIdleBacklog

\* The version of u in a piece of the output is a version.
LEMMA LastOfType ==
  ASSUME NEW s \in Seq(Message), NEW u \in Uris, NEW d \in Nat
  PROVE  LastOf(s, u, d) \in Nat
<1> DEFINE at == {i \in DOMAIN s : s[i].uri = u}
<1>1. CASE at = {}
  BY <1>1 DEF LastOf
<1>2. CASE at # {}
  <2> DEFINE c == CHOOSE i \in at : \A j \in at : j <= i
  <2>1. Len(s) \in Nat /\ DOMAIN s = 1..Len(s)
    BY LenProperties
  <2>2. \E i \in at : \A j \in at : j <= i
    <3>1. at \in SUBSET (1..Len(s))
      BY <2>1
    <3> HIDE DEF at
    <3>2. QED
      BY <1>2, <2>1, <3>1, GreatestExists
  <2>3. c \in at
    BY <2>2
  <2>4. s[c] \in Message
    BY <2>1, <2>3, ElementOfSeq
  <2>5. LastOf(s, u, d) = s[c].value
    BY <1>2 DEF LastOf
  <2>6. QED
    BY <2>4, <2>5 DEF Message
<1>3. QED
  BY <1>1, <1>2

-----------------------------------------------------------------------------
(* The steps *)

LEMMA InitIInv == Init => IInv
<1>1. SUFFICES ASSUME Init PROVE OutputOK /\ ContextOK
  BY IInvParts
<1>2. OutputOK
  <2>1. /\ <<>> \in Seq(PendingUpdate) /\ <<>> \in Seq(Message)
        /\ Len(outbuf) = 0 /\ inFlight \in 0..Len(outbuf)
    BY <1>1, EmptySeq DEF Init
  <2>2. pending \in Seq(PendingUpdate) /\ outbuf \in Seq(Message)
    BY <1>1, <2>1 DEF Init
  <2>3. WriteIsExclusive /\ NoIdleBacklog /\ write \in WriteState /\ writing \in BOOLEAN
    BY <1>1 DEF Init, WriteIsExclusive, NoIdleBacklog, WriteState
  <2>4. QED
    BY <2>1, <2>2, <2>3 DEF OutputOK
<1>3. ContextOK
  BY <1>1 DEF Init, ContextOK
<1>4. QED
  BY <1>2, <1>3

LEMMA SentIInv == OutputOK /\ ContextOK /\ Sent => OutputOK' /\ ContextOK'
<1>1. SUFFICES ASSUME OutputOK, ContextOK, Sent PROVE OutputOK' /\ ContextOK'
  OBVIOUS
<1>2. OutputOK'
  BY <1>1 DEF Sent, OutputOK, WriteIsExclusive, NoIdleBacklog, WriteState
<1>3. delivered' \in [Uris -> Nat]
  <2>1. SubSeq(outbuf, 1, inFlight) \in Seq(Message)
    BY <1>1, LenProperties, SubSeqProperties DEF OutputOK
  <2>2. \A u \in Uris : delivered[u] \in Nat
    BY <1>1 DEF ContextOK
  <2>3. \A u \in Uris : LastOf(SubSeq(outbuf, 1, inFlight), u, delivered[u]) \in Nat
    BY <2>1, <2>2, LastOfType
  <2>4. QED
    BY <1>1, <2>3 DEF Sent, ContextOK
<1>4. ContextOK'
  BY <1>1, <1>3 DEF Sent, ContextOK, input
<1>5. QED
  BY <1>2, <1>4

LEMMA SendFailsIInv ==
  ASSUME OutputOK, ContextOK, NEW n \in 0..inFlight, SendFails(n)
  PROVE  OutputOK' /\ ContextOK'
<1>1. n \in 0..Len(outbuf)
  BY LenProperties DEF OutputOK
<1>2. OutputOK'
  BY <1>1 DEF SendFails, OutputOK, WriteIsExclusive, NoIdleBacklog, WriteState
<1>3. ContextOK'
  BY DEF SendFails, ContextOK, input
<1>4. QED
  BY <1>2, <1>3

\* What is left of outbuf_ when the kernel has taken a part of it.
LEMMA ConsumedType ==
  ASSUME OutputOK
  PROVE  SubSeq(outbuf, inFlight + 1, Len(outbuf)) \in Seq(Message)
BY LenProperties, SubSeqProperties, ElementOfSeq DEF OutputOK

LEMMA WriteHandlerOkIInv ==
  ASSUME OutputOK, ContextOK, WriteHandlerOk
  PROVE  OutputOK' /\ ContextOK'
<1> DEFINE o == SubSeq(outbuf, inFlight + 1, Len(outbuf))
<1>1. o \in Seq(Message) /\ pending \in Seq(PendingUpdate)
  BY ConsumedType DEF OutputOK
<1>2. PreloadWriting(pending, o, FALSE, "none", 0) /\ open' = open
  BY DEF WriteHandlerOk
<1> HIDE DEF o
<1>3. 0 \in 0..Len(o) /\ "none" \in WriteState
  BY <1>1, LenProperties DEF WriteState
<1>4. /\ pending' \in Seq(PendingUpdate)
      /\ outbuf' \in Seq(Message)
      /\ inFlight' \in 0..Len(outbuf')
      /\ write' \in WriteState
      /\ writing' \in BOOLEAN
      /\ write' # "none" => writing'
      /\ write' \in {"started", "sent"} => inFlight' > 0 \/ (write' = "none" /\ inFlight' = 0)
      /\ writing' /\ write' = "none" => FALSE
      /\ ~writing' => pending' = <<>> /\ outbuf' = <<>>
  BY <1>1, <1>2, <1>3, PreloadWritingFacts
<1>5. OutputOK'
  BY <1>4, OutputOKNext
<1>6. ContextOK'
  BY DEF WriteHandlerOk, ContextOK, input
<1>7. QED
  BY <1>5, <1>6

LEMMA WriteHandlerErrorIInv ==
  ASSUME OutputOK, ContextOK, WriteHandlerError
  PROVE  OutputOK' /\ ContextOK'
<1>1. writing = TRUE /\ outbuf' \in Seq(Message)
  BY ConsumedType DEF WriteHandlerError, OutputOK, WriteIsExclusive
<1>2. Len(outbuf') \in Nat
  BY <1>1, LenProperties
<1>3. OutputOK'
  <2>1. /\ pending' = pending /\ writing' = TRUE /\ write' = "none"
        /\ inFlight' = 0 /\ open' = FALSE
    BY <1>1 DEF WriteHandlerError, Close
  <2>2. pending' \in Seq(PendingUpdate) /\ write' \in WriteState /\ inFlight' \in 0..Len(outbuf')
    BY <1>2, <2>1 DEF OutputOK, WriteState
  <2>3. QED
    BY <1>1, <2>1, <2>2, OutputOKNext
<1>4. ContextOK'
  <2>1. UNCHANGED <<reading, lines, peer, subscribed, current, delivered, garbled>>
    BY DEF WriteHandlerError, input
  <2>2. open' = FALSE /\ disconnects' = disconnects + 1
    BY DEF WriteHandlerError, Close
  <2>3. open' \in BOOLEAN
    BY <2>2
  <2>4. disconnects' \in Nat
    BY <2>2 DEF ContextOK
  <2>5. QED
    BY <2>1, <2>3, <2>4 DEF ContextOK
<1>5. QED
  BY <1>3, <1>4

\* A request that notifies, or only changes what is subscribed.
LEMMA RequestContext ==
  ASSUME ContextOK, Request, subscribed' \in SUBSET Params,
         current' \in [Uris -> Nat], garbled' \in BOOLEAN
  PROVE  ContextOK' /\ open' = open
BY DEF ContextOK, Request

LEMMA SubscribeIInv ==
  ASSUME OutputOK, ContextOK, NEW u \in Uris, Subscribe(u)
  PROVE  OutputOK' /\ ContextOK'
<1>1. current[u] \in Nat
  BY DEF ContextOK
<1>2. ContextOK' /\ open' = open
  <2>1. /\ Request /\ subscribed' \in SUBSET Params
        /\ current' \in [Uris -> Nat] /\ garbled' \in BOOLEAN
    BY DEF Subscribe, ContextOK
  <2>2. QED
    BY <2>1, RequestContext
<1>3. OutputOK'
  BY <1>1, <1>2, NotifyKeepsOutput DEF Subscribe
<1>4. QED
  BY <1>2, <1>3

LEMMA UnsubscribeIInv ==
  ASSUME OutputOK, ContextOK, NEW u \in Params, Unsubscribe(u)
  PROVE  OutputOK' /\ ContextOK'
<1>1. ContextOK' /\ open' = open
  <2>1. /\ Request /\ subscribed' \in SUBSET Params
        /\ current' \in [Uris -> Nat] /\ garbled' \in BOOLEAN
    BY DEF Unsubscribe, ContextOK
  <2>2. QED
    BY <2>1, RequestContext
<1>2. OutputOK'
  BY <1>1, OutputUnchanged DEF Unsubscribe
<1>3. QED
  BY <1>1, <1>2

LEMMA ChangeUserlevelIInv ==
  ASSUME OutputOK, ContextOK, ChangeUserlevel
  PROVE  OutputOK' /\ ContextOK'
<1>1. Ul \in Uris
  BY DEF Uris
<1>2. current' \in [Uris -> Nat] /\ current'[Ul] \in Nat
  BY <1>1 DEF ChangeUserlevel, ContextOK
<1>3. ContextOK' /\ open' = open
  <2>1. Request /\ subscribed' \in SUBSET Params /\ garbled' \in BOOLEAN
    BY DEF ChangeUserlevel, ContextOK
  <2>2. QED
    BY <1>2, <2>1, RequestContext
<1>4. OutputOK'
  BY <1>1, <1>2, <1>3, NotifyKeepsOutput DEF ChangeUserlevel
<1>5. QED
  BY <1>3, <1>4

LEMMA RejectIInv ==
  ASSUME OutputOK, ContextOK, Reject
  PROVE  OutputOK' /\ ContextOK'
<1> DEFINE o == Append(outbuf, ErrorMessage)
<1>1. ErrorMessage \in Message
  BY DEF ErrorMessage, Message
<1>2. o \in Seq(Message) /\ Len(o) >= Len(outbuf) /\ pending \in Seq(PendingUpdate)
  BY <1>1, AppendProperties, LenProperties DEF OutputOK
<1>3. ContextOK' /\ open' = open
  <2>1. /\ Request /\ subscribed' \in SUBSET Params
        /\ current' \in [Uris -> Nat] /\ garbled' \in BOOLEAN
    BY DEF Reject, ContextOK
  <2>2. QED
    BY <2>1, RequestContext
<1>4. PreloadWriting(pending, o, writing, write, inFlight)
  BY DEF Reject
<1> HIDE DEF o
<1>5. OutputOK'
  BY <1>2, <1>3, <1>4, StartWritingKeepsOutput
<1>6. QED
  BY <1>3, <1>5

LEMMA ChangeIInv ==
  ASSUME OutputOK, ContextOK, NEW u \in Params, Change(u)
  PROVE  OutputOK' /\ ContextOK'
<1>1. u \in Uris
  BY DEF Uris
<1>2. current' \in [Uris -> Nat] /\ current'[u] \in Nat /\ open' = open
  BY <1>1 DEF Change, ContextOK
<1>3. ContextOK'
  BY <1>2 DEF Change, ContextOK, input
<1>4. CASE u \in subscribed
  BY <1>1, <1>2, <1>3, <1>4, NotifyKeepsOutput DEF Change
<1>5. CASE u \notin subscribed
  BY <1>2, <1>3, <1>5, OutputUnchanged DEF Change
<1>6. QED
  BY <1>4, <1>5

\* The steps of the reader and of the peer leave the output alone.
LEMMA InputIInv ==
  ASSUME OutputOK, ContextOK,
         (\E n \in 1..MaxLines : Arrive(n)) \/ ReadHandlerError \/ PeerGoes
  PROVE  OutputOK' /\ ContextOK'
<1>1. CASE \E n \in 1..MaxLines : Arrive(n)
  <2>1. UNCHANGED output /\ open' = open
    BY <1>1 DEF Arrive
  <2>2. PICK n \in 1..MaxLines : Arrive(n)
    BY <1>1
  <2>3. n \in Nat
    BY BoundAssumption
  <2>4. ContextOK'
    BY <2>2, <2>3 DEF Arrive, ContextOK
  <2>5. QED
    BY <2>1, <2>4, OutputUnchanged
<1>2. CASE ReadHandlerError
  <2>1. UNCHANGED output /\ ~open'
    BY <1>2 DEF ReadHandlerError, Close
  <2>2. open' \in BOOLEAN /\ reading' \in BOOLEAN /\ disconnects' \in Nat
    <3>1. reading' = FALSE /\ open' = FALSE /\ disconnects' = disconnects + 1
      BY <1>2 DEF ReadHandlerError, Close
    <3>2. disconnects' \in Nat
      BY <3>1 DEF ContextOK
    <3>3. QED
      BY <3>1, <3>2
  <2>3. UNCHANGED <<lines, peer, subscribed, current, delivered, garbled>>
    BY <1>2 DEF ReadHandlerError
  <2>4. ContextOK'
    BY <2>2, <2>3 DEF ContextOK
  <2>5. QED
    BY <2>1, <2>4, OutputUnchanged
<1>3. CASE PeerGoes
  <2>1. UNCHANGED output /\ open' = open
    BY <1>3 DEF PeerGoes
  <2>2. ContextOK'
    BY <1>3 DEF PeerGoes, ContextOK, input
  <2>3. QED
    BY <2>1, <2>2, OutputUnchanged
<1>4. QED
  BY <1>1, <1>2, <1>3

LEMMA NextIInv == IInv /\ [Next]_vars => IInv'
<1>1. SUFFICES ASSUME OutputOK, ContextOK, [Next]_vars
               PROVE  OutputOK' /\ ContextOK'
  BY IInvParts DEF IInv, TypeOK, OutputOK, ContextOK, PendingUpdate, WriteState,
                   WriteIsExclusive, NoIdleBacklog
<1>2. CASE Sent
  BY <1>1, <1>2, SentIInv
<1>3. CASE \E n \in 0..inFlight : SendFails(n)
  BY <1>1, <1>3, SendFailsIInv
<1>4. CASE WriteHandlerOk
  BY <1>1, <1>4, WriteHandlerOkIInv
<1>5. CASE WriteHandlerError
  BY <1>1, <1>5, WriteHandlerErrorIInv
<1>6. CASE \E u \in Uris : Subscribe(u)
  BY <1>1, <1>6, SubscribeIInv
<1>7. CASE \E u \in Params : Unsubscribe(u) \/ Change(u)
  BY <1>1, <1>7, UnsubscribeIInv, ChangeIInv
<1>8. CASE ChangeUserlevel
  BY <1>1, <1>8, ChangeUserlevelIInv
<1>9. CASE Reject
  BY <1>1, <1>9, RejectIInv
<1>10. CASE (\E n \in 1..MaxLines : Arrive(n)) \/ ReadHandlerError \/ PeerGoes
  BY <1>1, <1>10, InputIInv
<1>11. CASE UNCHANGED vars
  <2>1. UNCHANGED output /\ open' = open
    BY <1>11 DEF vars
  <2>2. ContextOK'
    BY <1>1, <1>11 DEF vars, input, ContextOK
  <2>3. QED
    BY <1>1, <2>1, <2>2, OutputUnchanged
<1>12. QED
  BY <1>1, <1>2, <1>3, <1>4, <1>5, <1>6, <1>7, <1>8, <1>9, <1>10, <1>11 DEF Next

LEMMA Invariance == Spec => []IInv
BY InitIInv, NextIInv, PTL DEF Spec

-----------------------------------------------------------------------------

\* The variables have their types in every reachable state.
THEOREM TypeCorrect == Spec => []TypeOK
<1>1. IInv => TypeOK
  BY DEF IInv
<1>2. QED
  BY <1>1, Invariance, PTL

\* No second async_write is ever started on outbuf_, whatever requests,
\* updates and ends of writes interleave, and the flag stays behind only when
\* the connection is closed.
THEOREM WritesAreExclusive == Spec => []WriteIsExclusive
<1>1. IInv => WriteIsExclusive
  BY DEF IInv
<1>2. QED
  BY <1>1, Invariance, PTL

\* An idle connection never holds an update or a reply that nobody will send.
THEOREM NothingWaitsIdle == Spec => []NoIdleBacklog
<1>1. IInv => NoIdleBacklog
  BY DEF IInv
<1>2. QED
  BY <1>1, Invariance, PTL

(***************************************************************************)
(* What a client receives: updates are neither lost nor overtaken by older *)
(* ones, the backlog is bounded, and the end of the connection is          *)
(* reported.                                                               *)
(*                                                                         *)
(* outbuf_ and pending_updates_ together are one stream of messages: what  *)
(* preload_writing does is to move the border between them.  The proofs    *)
(* are about that stream.                                                  *)
(***************************************************************************)

Stream == outbuf \o pending

-----------------------------------------------------------------------------
(* The last version of a parameter in a sequence of messages *)

IsLast(s, u, k) ==
  k \in DOMAIN s /\ s[k].uri = u /\ \A j \in DOMAIN s : s[j].uri = u => j <= k

LEMMA LastOfAt ==
  ASSUME NEW S, NEW s \in Seq(S), NEW u, NEW d, NEW k, IsLast(s, u, k)
  PROVE  LastOf(s, u, d) = s[k].value
<1> DEFINE at == {i \in DOMAIN s : s[i].uri = u}
           c == CHOOSE i \in at : \A j \in at : j <= i
<1>1. DOMAIN s \subseteq Nat
  BY LenProperties
<1>2. k \in at /\ \A j \in at : j <= k
  BY DEF IsLast
<1>3. c \in at /\ \A j \in at : j <= c
  BY <1>2
<1>4. c = k
  <2>1. c \in Nat /\ k \in Nat /\ c <= k /\ k <= c
    BY <1>1, <1>2, <1>3
  <2> HIDE DEF c
  <2> QED
    BY <2>1
<1>5. LastOf(s, u, d) = s[c].value
  BY <1>2 DEF LastOf
<1> QED
  BY <1>4, <1>5

LEMMA LastOfNone ==
  ASSUME NEW s, NEW u, NEW d, \A i \in DOMAIN s : s[i].uri # u
  PROVE  LastOf(s, u, d) = d
BY DEF LastOf

\* There is a last one if there is one at all.
LEMMA LastExists ==
  ASSUME NEW S, NEW s \in Seq(S), NEW u, NEW i \in DOMAIN s, s[i].uri = u
  PROVE  \E k : IsLast(s, u, k)
<1> DEFINE at == {j \in DOMAIN s : s[j].uri = u}
<1>1. Len(s) \in Nat /\ at \in SUBSET (1..Len(s)) /\ at # {}
  BY LenProperties
<1>2. \E k \in at : \A j \in at : j <= k
  <2> HIDE DEF at
  <2> QED
    BY <1>1, GreatestExists
<1> QED
  BY <1>2 DEF IsLast

\* A longer sequence looks for the default in its first part.
LEMMA LastOfConcat ==
  ASSUME NEW S, NEW s \in Seq(S), NEW t \in Seq(S), NEW u, NEW d
  PROVE  LastOf(s \o t, u, d) = LastOf(t, u, LastOf(s, u, d))
<1> DEFINE st == s \o t
<1>1. /\ st \in Seq(S) /\ Len(s) \in Nat /\ Len(t) \in Nat
      /\ DOMAIN s = 1..Len(s) /\ DOMAIN t = 1..Len(t) /\ DOMAIN st = 1..(Len(s) + Len(t))
      /\ \A i \in 1..Len(s) : st[i] = s[i]
      /\ \A i \in 1..Len(t) : st[Len(s) + i] = t[i]
      /\ \A i \in DOMAIN st : i > Len(s) => i - Len(s) \in 1..Len(t) /\ st[i] = t[i - Len(s)]
  BY ConcatFacts
<1> HIDE DEF st
<1>2. CASE \E i \in DOMAIN t : t[i].uri = u
  <2>1. PICK k : IsLast(t, u, k)
    BY <1>2, LastExists
  <2>2. LastOf(t, u, LastOf(s, u, d)) = t[k].value
    BY <2>1, LastOfAt
  <2>3. Len(s) + k \in DOMAIN st /\ st[Len(s) + k] = t[k]
    BY <1>1, <2>1 DEF IsLast
  <2>4. \A j \in DOMAIN st : st[j].uri = u => j <= Len(s) + k
    <3> SUFFICES ASSUME NEW j \in DOMAIN st, st[j].uri = u, j > Len(s) PROVE j <= Len(s) + k
      BY <1>1, <2>1 DEF IsLast
    <3>1. j - Len(s) <= k
      BY <1>1, <2>1 DEF IsLast
    <3> QED
      BY <3>1, <1>1, <2>1 DEF IsLast
  <2>5. IsLast(st, u, Len(s) + k)
    BY <2>1, <2>3, <2>4 DEF IsLast
  <2>6. LastOf(st, u, d) = st[Len(s) + k].value
    BY <1>1, <2>5, LastOfAt
  <2> QED
    BY <2>2, <2>3, <2>6 DEF st
<1>3. CASE ~ \E i \in DOMAIN t : t[i].uri = u
  <2>1. LastOf(t, u, LastOf(s, u, d)) = LastOf(s, u, d)
    BY <1>3, LastOfNone
  <2>2. CASE \E i \in DOMAIN s : s[i].uri = u
    <3>1. PICK k : IsLast(s, u, k)
      BY <2>2, LastExists
    <3>2. LastOf(s, u, d) = s[k].value
      BY <3>1, LastOfAt
    <3>3. k \in DOMAIN st /\ st[k] = s[k]
      BY <1>1, <3>1 DEF IsLast
    <3>4. \A j \in DOMAIN st : st[j].uri = u => j <= k
      <4> SUFFICES ASSUME NEW j \in DOMAIN st, st[j].uri = u PROVE j <= k
        OBVIOUS
      <4>1. ~(j > Len(s))
        BY <1>1, <1>3
      <4>2. j \in 1..Len(s)
        BY <1>1, <4>1
      <4> QED
        BY <4>2, <1>1, <3>1 DEF IsLast
    <3>5. IsLast(st, u, k)
      BY <3>1, <3>3, <3>4 DEF IsLast
    <3>6. LastOf(st, u, d) = st[k].value
      BY <1>1, <3>5, LastOfAt
    <3> QED
      BY <2>1, <3>2, <3>3, <3>6 DEF st
  <2>3. CASE ~ \E i \in DOMAIN s : s[i].uri = u
    <3>1. \A i \in DOMAIN st : st[i].uri # u
      <4> SUFFICES ASSUME NEW i \in DOMAIN st PROVE st[i].uri # u
        OBVIOUS
      <4>1. CASE i > Len(s)
        BY <4>1, <1>1, <1>3
      <4>2. CASE ~(i > Len(s))
        <5>1. i \in 1..(Len(s) + Len(t)) /\ Len(s) \in Nat /\ Len(t) \in Nat
          BY <1>1
        <5>2. i \in 1..Len(s)
          BY <5>1, <4>2
        <5>3. st[i] = s[i] /\ i \in DOMAIN s
          BY <5>2, <1>1
        <5> QED
          BY <5>3, <2>3
      <4> QED
        BY <4>1, <4>2
    <3>2. LastOf(st, u, d) = d /\ LastOf(s, u, d) = d
      BY <2>3, <3>1, LastOfNone
    <3> QED
      BY <2>1, <3>2 DEF st
  <2> QED
    BY <2>2, <2>3
<1> QED
  BY <1>2, <1>3

\* Given twice, the last version is still the last.
LEMMA LastOfTwice ==
  ASSUME NEW S, NEW s \in Seq(S), NEW u, NEW d
  PROVE  LastOf(s, u, LastOf(s, u, d)) = LastOf(s, u, d)
<1>1. CASE \E i \in DOMAIN s : s[i].uri = u
  <2>1. PICK k : IsLast(s, u, k)
    BY <1>1, LastExists
  <2> QED
    BY <2>1, LastOfAt
<1>2. CASE ~ \E i \in DOMAIN s : s[i].uri = u
  BY <1>2, LastOfNone
<1> QED
  BY <1>1, <1>2

\* push, update by update: q is p with the update of u to v.
PushedTo(p, u, v, q) ==
  /\ q \in Seq(PendingUpdate)
  /\ \A i \in DOMAIN p : /\ i \in DOMAIN q /\ q[i].uri = p[i].uri
                         /\ q[i].value = IF p[i].uri = u THEN v ELSE p[i].value
  /\ \A i \in DOMAIN q \ DOMAIN p : q[i].uri = u /\ q[i].value = v
  /\ \E i \in DOMAIN q : q[i].uri = u
  /\ \/ DOMAIN q = DOMAIN p
     \/ /\ Len(q) = Len(p) + 1
        /\ \A i \in DOMAIN p : p[i].uri # u

LEMMA PushedFacts ==
  ASSUME NEW p \in Seq(PendingUpdate), NEW u \in Uris, NEW v \in Nat
  PROVE  PushedTo(p, u, v, Queue!Pushed(p, u, v))
<1> DEFINE q == Queue!Pushed(p, u, v)
<1>1. q \in Seq(PendingUpdate)
  BY PushedType
<1>2. DOMAIN p = 1..Len(p) /\ Len(p) \in Nat /\ DOMAIN q = 1..Len(q)
  BY <1>1, LenProperties
<1>3. \A i \in DOMAIN p : p[i] \in PendingUpdate
  BY <1>2, ElementOfSeq
<1>4. CASE u \in Queue!Uris(p)
  <2>1. q = [i \in DOMAIN p |-> IF p[i].uri = u THEN [p[i] EXCEPT !.value = v] ELSE p[i]]
    BY <1>4 DEF Queue!Pushed
  <2> HIDE DEF q
  <2>2. DOMAIN q = DOMAIN p
    BY <2>1
  <2>3. \A i \in DOMAIN p : q[i].uri = p[i].uri /\ q[i].value = IF p[i].uri = u THEN v ELSE p[i].value
    BY <2>1, <1>3 DEF PendingUpdate
  <2>4. \E i \in DOMAIN p : p[i].uri = u
    BY <1>4 DEF Queue!Uris
  <2> QED
    BY <1>1, <2>2, <2>3, <2>4 DEF PushedTo, q
<1>5. CASE u \notin Queue!Uris(p)
  <2>1. q = Append(p, [uri |-> u, value |-> v]) /\ [uri |-> u, value |-> v] \in PendingUpdate
    BY <1>5 DEF Queue!Pushed, PendingUpdate
  <2> HIDE DEF q
  <2>2. /\ Len(q) = Len(p) + 1 /\ q[Len(p) + 1] = [uri |-> u, value |-> v]
        /\ \A i \in 1..Len(p) : q[i] = p[i]
    BY <2>1, AppendProperties
  <2>3. \A i \in DOMAIN p : p[i].uri # u
    BY <1>5 DEF Queue!Uris
  <2>4. \A i \in DOMAIN q \ DOMAIN p : i = Len(p) + 1
    BY <1>2, <2>2
  <2>5. Len(p) + 1 \in DOMAIN q
    BY <1>2, <2>2
  <2>6. \A i \in DOMAIN p : i \in DOMAIN q
    BY <1>2, <2>2
  <2>7. \A i \in DOMAIN q \ DOMAIN p : q[i].uri = u /\ q[i].value = v
    BY <2>2, <2>4
  <2>8. \A i \in DOMAIN p : q[i].uri = p[i].uri /\ q[i].value = IF p[i].uri = u THEN v ELSE p[i].value
    BY <1>2, <2>2, <2>3
  <2>9. q[Len(p) + 1].uri = u
    BY <2>2
  <2> QED
    BY <1>1, <2>2, <2>3, <2>5, <2>6, <2>7, <2>8, <2>9 DEF PushedTo, q
<1> QED
  BY <1>4, <1>5

\* After push the last version of u is v, and that of the others is what it was.
LEMMA LastOfPushed ==
  ASSUME NEW p \in Seq(PendingUpdate), NEW u \in Uris, NEW v \in Nat, NEW w, NEW d
  PROVE  LastOf(Queue!Pushed(p, u, v), w, d) = IF w = u THEN v ELSE LastOf(p, w, d)
<1> DEFINE q == Queue!Pushed(p, u, v)
<1>1. PushedTo(p, u, v, q) /\ q \in Seq(PendingUpdate)
  BY PushedFacts, PushedType
<1> HIDE DEF q
<1>2. CASE w = u
  <2>1. PICK k : IsLast(q, u, k)
    BY <1>1, LastExists DEF PushedTo
  <2>2. LastOf(q, u, d) = q[k].value
    BY <1>1, <2>1, LastOfAt
  <2>3. q[k].value = v
    BY <1>1, <2>1 DEF IsLast, PushedTo
  <2> QED
    BY <1>2, <2>2, <2>3 DEF q
<1>3. CASE w # u /\ \E i \in DOMAIN p : p[i].uri = w
  <2>1. PICK k : IsLast(p, w, k)
    BY <1>3, LastExists
  <2>2. IsLast(q, w, k)
    <3>1. k \in DOMAIN q /\ q[k].uri = w
      BY <1>1, <2>1 DEF IsLast, PushedTo
    <3>2. ASSUME NEW j \in DOMAIN q, q[j].uri = w PROVE j <= k
      <4>1. j \in DOMAIN p /\ p[j].uri = w
        BY <1>1, <1>3, <3>2 DEF PushedTo
      <4> QED
        BY <4>1, <2>1 DEF IsLast
    <3> QED
      BY <3>1, <3>2 DEF IsLast
  <2>3. q[k].value = p[k].value
    BY <1>1, <1>3, <2>1 DEF IsLast, PushedTo
  <2>4. LastOf(q, w, d) = q[k].value /\ LastOf(p, w, d) = p[k].value
    BY <1>1, <2>1, <2>2, LastOfAt
  <2> QED
    BY <1>3, <2>3, <2>4 DEF q
<1>4. CASE w # u /\ ~ \E i \in DOMAIN p : p[i].uri = w
  <2>1. \A i \in DOMAIN q : q[i].uri # w
    BY <1>1, <1>4 DEF PushedTo
  <2>2. LastOf(q, w, d) = d /\ LastOf(p, w, d) = d
    BY <1>4, <2>1, LastOfNone
  <2> QED
    BY <1>4, <2>2 DEF q
<1> QED
  BY <1>2, <1>3, <1>4

-----------------------------------------------------------------------------
(* The stream *)

LEMMA PendingIsMessages == \A p \in Seq(PendingUpdate) : p \in Seq(Message)
<1>1. PendingUpdate \subseteq Message
  BY DEF PendingUpdate, Message
<1> QED
  BY <1>1, SeqMonotonic

\* preload_writing moves the border between what is queued and what is output.
LEMMA PreloadWritingStream ==
  ASSUME NEW p \in Seq(PendingUpdate), NEW o \in Seq(Message), NEW active, NEW w, NEW n,
         PreloadWriting(p, o, active, w, n)
  PROVE  outbuf' \o pending' = o \o p
<1>1. CASE active
  BY <1>1 DEF PreloadWriting
<1>2. CASE ~active
  <2> DEFINE b == Batch(p, o)
  <2>1. outbuf' = o \o SubSeq(p, 1, b) /\ pending' = SubSeq(p, b + 1, Len(p))
    BY <1>2 DEF PreloadWriting
  <2>2. b \in 0..Len(p) /\ Len(p) \in Nat
    BY BatchFacts, LenProperties
  <2> HIDE DEF b
  <2>3. /\ SubSeq(p, 1, b) \in Seq(PendingUpdate) /\ SubSeq(p, b + 1, Len(p)) \in Seq(PendingUpdate)
        /\ SubSeq(p, 1, b) \o SubSeq(p, b + 1, Len(p)) = p
    <3>1. \A i \in 1..Len(p) : p[i] \in PendingUpdate
      BY ElementOfSeq
    <3>2. SubSeq(p, 1, b) \in Seq(PendingUpdate) /\ SubSeq(p, b + 1, Len(p)) \in Seq(PendingUpdate)
      BY <2>2, <3>1, SubSeqProperties
    <3>3. SubSeq(p, 1, b) \o SubSeq(p, b + 1, Len(p)) = SubSeq(p, 1, Len(p))
      <4>1. 1 \in 1..(Len(p) + 1) /\ b \in (1 - 1)..Len(p) /\ Len(p) \in b..Len(p)
        BY <2>2
      <4> QED
        BY <4>1, ConcatAdjacentSubSeq
    <3> QED
      BY <3>2, <3>3, SubSeqFull
  <2> DEFINE taken == SubSeq(p, 1, b)
             rest == SubSeq(p, b + 1, Len(p))
  <2>4. taken \in Seq(Message) /\ rest \in Seq(Message)
    BY <2>3, PendingIsMessages
  <2>5. taken \o rest = p /\ outbuf' = o \o taken /\ pending' = rest
    BY <2>1, <2>3
  <2> HIDE DEF taken, rest
  <2>6. (o \o taken) \o rest = o \o (taken \o rest)
    <3>1. o \in Seq(Message) /\ taken \in Seq(Message) /\ rest \in Seq(Message)
      BY <2>4
    <3>2. Regrouped(o, taken, rest)
      BY <3>1, Regroups
    <3> QED
      BY <3>2 DEF Regrouped
  <2> QED
    BY <2>5, <2>6
<1> QED
  BY <1>1, <1>2

-----------------------------------------------------------------------------
(* The steps, by what they do to the stream *)

\* A step that queues the new version of u and starts writing.
Notifies(u) ==
  /\ PreloadWriting(Queue!Pushed(pending, u, current'[u]), outbuf, writing, write, inFlight)
  /\ current'[u] \in Nat /\ current'[u] >= current[u]
  /\ \A w \in Uris \ {u} : current'[w] = current[w]
  /\ subscribed' \subseteq subscribed \union {u}
  /\ UNCHANGED <<reading, open, delivered, garbled, disconnects>>

\* A step that does not touch the output.
Idles ==
  /\ UNCHANGED <<pending, outbuf, inFlight, write, writing, delivered, garbled>>
  /\ \A u \in Uris : current'[u] \in Nat /\ current'[u] >= current[u]
  /\ subscribed' \subseteq subscribed
  /\ \A u \in subscribed' : current'[u] = current[u]
  /\ \/ UNCHANGED <<reading, open, disconnects>>
     \/ reading /\ ~reading' /\ ~open' /\ disconnects' = disconnects + 1

LEMMA StepCases ==
  ASSUME IInv, [Next]_vars
  PROVE  \/ Sent \/ WriteHandlerOk \/ WriteHandlerError \/ Reject \/ Idles
         \/ \E n \in 0..inFlight : SendFails(n)
         \/ \E u \in Uris : Notifies(u)
<1>1. /\ current \in [Uris -> Nat] /\ subscribed \in SUBSET Params
      /\ \A u \in Uris : current[u] \in Nat
      /\ Ul \in Uris /\ Params \subseteq Uris
  BY DEF IInv, TypeOK, Uris
<1>2. ASSUME NEW u \in Uris, Subscribe(u) PROVE Notifies(u)
  BY <1>1, <1>2 DEF Subscribe, Notify, Notifies, Request
<1>3. ASSUME ChangeUserlevel PROVE Notifies(Ul)
  BY <1>1, <1>3 DEF ChangeUserlevel, Notify, Notifies, Request
<1>4. ASSUME NEW u \in Params, Unsubscribe(u) PROVE Idles
  BY <1>1, <1>4 DEF Unsubscribe, Request, Idles, output
<1>5. ASSUME NEW u \in Params, Change(u) PROVE Notifies(u) \/ Idles
  <2>1. /\ u \in Uris /\ current' = [current EXCEPT ![u] = @ + 1]
        /\ UNCHANGED <<reading, open, subscribed, delivered, garbled, disconnects>>
    BY <1>1, <1>5 DEF Change, input
  <2>2. /\ current'[u] = current[u] + 1 /\ current'[u] \in Nat /\ current'[u] >= current[u]
        /\ \A w \in Uris \ {u} : current'[w] = current[w]
    BY <1>1, <2>1
  <2>3. CASE u \in subscribed
    <3>1. PreloadWriting(Queue!Pushed(pending, u, current'[u]), outbuf, writing, write, inFlight)
      BY <1>5, <2>3 DEF Change, Notify
    <3> QED
      BY <2>1, <2>2, <3>1 DEF Notifies
  <2>4. CASE u \notin subscribed
    <3>1. UNCHANGED output
      BY <1>5, <2>4 DEF Change
    <3> QED
      BY <1>1, <2>1, <2>2, <2>4, <3>1 DEF Idles, output
  <2> QED
    BY <2>3, <2>4
<1>6. ASSUME NEW n \in 1..MaxLines, Arrive(n) PROVE Idles
  BY <1>1, <1>6 DEF Arrive, Idles, output
<1>7. ASSUME ReadHandlerError PROVE Idles
  <2>1. reading /\ ~reading' /\ ~open' /\ disconnects' = disconnects + 1
    BY <1>7 DEF ReadHandlerError, Close
  <2>2. UNCHANGED <<pending, outbuf, inFlight, write, writing, subscribed, current, delivered, garbled>>
    BY <1>7 DEF ReadHandlerError, output
  <2>3. /\ \A u \in Uris : current'[u] \in Nat /\ current'[u] >= current[u]
        /\ subscribed' \subseteq subscribed
        /\ \A u \in subscribed' : current'[u] = current[u]
    BY <1>1, <2>2
  <2> QED
    BY <2>1, <2>2, <2>3 DEF Idles
<1>8. ASSUME PeerGoes \/ UNCHANGED vars PROVE Idles
  BY <1>1, <1>8 DEF PeerGoes, vars, input, Idles, output
<1> QED
  BY <1>1, <1>2, <1>3, <1>4, <1>5, <1>6, <1>7, <1>8 DEF Next

-----------------------------------------------------------------------------
(* The end of a connection *)

\* writing_active_ stays behind when a write has failed.
WriteFailed == writing /\ write = "none"

\* Each of the two operations that ended with an error was reported, and the reading
\* goes on as long as the socket is open.
EndsCounted ==
  /\ disconnects = (IF reading THEN 0 ELSE 1) + (IF WriteFailed THEN 1 ELSE 0)
  /\ open => reading

LEMMA WriteFailedStays ==
  ASSUME NEW p, NEW o, NEW active \in BOOLEAN, NEW w, NEW n, ~active => w = "none",
         PreloadWriting(p, o, active, w, n)
  PROVE  WriteFailed' <=> active /\ w = "none"
BY DEF PreloadWriting, WriteFailed

LEMMA EndsCountedNext ==
  ASSUME IInv, EndsCounted, [Next]_vars
  PROVE  EndsCounted'
<1>1. writing \in BOOLEAN /\ reading \in BOOLEAN /\ disconnects \in Nat /\ (~writing => write = "none")
  BY DEF IInv, TypeOK, WriteIsExclusive
<1>2. CASE Sent \/ \E n \in 0..inFlight : SendFails(n)
  BY <1>2 DEF Sent, SendFails, EndsCounted, WriteFailed, input
<1>3. CASE WriteHandlerOk
  <2>1. write = "sent" /\ ~WriteFailed' /\ UNCHANGED <<reading, open, disconnects>>
    BY <1>3, WriteFailedStays DEF WriteHandlerOk, input
  <2> QED
    BY <2>1 DEF EndsCounted, WriteFailed
<1>4. CASE WriteHandlerError
  <2>1. /\ write = "failed" /\ write' = "none" /\ writing /\ writing'
        /\ reading' = reading /\ ~open' /\ disconnects' = disconnects + 1
    BY <1>1, <1>4 DEF WriteHandlerError, Close, input
  <2> QED
    BY <2>1, <1>1 DEF EndsCounted, WriteFailed
<1>5. CASE Reject
  <2>1. PreloadWriting(pending, Append(outbuf, ErrorMessage), writing, write, inFlight)
    BY <1>5 DEF Reject
  <2>2. (WriteFailed' <=> WriteFailed) /\ UNCHANGED <<reading, open, disconnects>>
    BY <1>1, <1>5, <2>1, WriteFailedStays DEF Reject, Request, WriteFailed
  <2> QED
    BY <2>2 DEF EndsCounted
<1>6. CASE Idles
  BY <1>1, <1>6 DEF Idles, EndsCounted, WriteFailed
<1>7. ASSUME NEW u \in Uris, Notifies(u) PROVE EndsCounted'
  <2>1. (WriteFailed' <=> WriteFailed) /\ UNCHANGED <<reading, open, disconnects>>
    BY <1>1, <1>7, WriteFailedStays DEF Notifies, WriteFailed
  <2> QED
    BY <2>1 DEF EndsCounted
<1> QED
  BY <1>2, <1>3, <1>4, <1>5, <1>6, <1>7, StepCases

\* A context that nothing holds any more has told its server so, whichever of the
\* read and the write ended last, and none has whose socket is open: the server
\* misses no client that is gone and takes none for gone that is there.
THEOREM EndsAreNoticed == Spec => []NoEndIsMissed
<1>1. Init => EndsCounted
  BY DEF Init, EndsCounted, WriteFailed
<1>2. IInv /\ EndsCounted /\ [Next]_vars => EndsCounted'
  BY EndsCountedNext
<1>3. IInv /\ EndsCounted => NoEndIsMissed
  <2> SUFFICES ASSUME IInv, EndsCounted PROVE NoEndIsMissed
    OBVIOUS
  <2>1. WriteFailed => ~open
    BY DEF IInv, WriteIsExclusive, WriteFailed
  <2> QED
    BY <2>1 DEF EndsCounted, NoEndIsMissed, Gone
<1> QED
  BY <1>1, <1>2, <1>3, Invariance, PTL DEF Spec

-----------------------------------------------------------------------------
(* The backlog *)

\* The positions of the updates in the output.
Updates(o) == {i \in DOMAIN o : o[i].uri # ErrorReply}

OnePerUri(p) == \A i, j \in DOMAIN p : p[i].uri = p[j].uri => i = j

LEMMA UpdatesFinite ==
  ASSUME NEW o \in Seq(Message)
  PROVE  /\ IsFiniteSet(Updates(o)) /\ Cardinality(Updates(o)) \in Nat
         /\ Cardinality(Updates(o)) <= Len(o)
<1>1. Len(o) \in Nat /\ Updates(o) \in SUBSET (1..Len(o))
  BY LenProperties DEF Updates
<1>2. IsFiniteSet(1..Len(o)) /\ Cardinality(1..Len(o)) = Len(o)
  <2>1. 1 \in Int /\ Len(o) \in Int
    BY <1>1
  <2>2. IsFiniteSet(1..Len(o)) /\ Cardinality(1..Len(o)) = IF 1 > Len(o) THEN 0 ELSE Len(o) - 1 + 1
    BY <2>1, FS_Interval
  <2> QED
    BY <1>1, <2>2
<1>3. IsFiniteSet(Updates(o)) /\ Cardinality(Updates(o)) <= Cardinality(1..Len(o))
  BY <1>1, <1>2, FS_Subset
<1> QED
  BY <1>2, <1>3, FS_CardinalityType

\* Consuming the front of the output leaves no more updates in it.
LEMMA UpdatesConsumed ==
  ASSUME NEW o \in Seq(Message), NEW n \in 0..Len(o)
  PROVE  Cardinality(Updates(SubSeq(o, n + 1, Len(o)))) <= Cardinality(Updates(o))
<1> DEFINE r == SubSeq(o, n + 1, Len(o))
           f == [i \in Updates(r) |-> i + n]
<1>1. Len(o) \in Nat /\ DOMAIN o = 1..Len(o)
  BY LenProperties
<1>2. /\ r \in Seq(Message) /\ DOMAIN r = 1..(Len(o) - n)
      /\ \A i \in 1..(Len(o) - n) : r[i] = o[n + i]
  BY SuffixFacts
<1> HIDE DEF r
<1>4. \A i \in Updates(r) : i \in Nat /\ i + n \in Updates(o)
  <2> SUFFICES ASSUME NEW i \in Updates(r) PROVE i \in Nat /\ i + n \in Updates(o)
    OBVIOUS
  <2>1. i \in 1..(Len(o) - n) /\ r[i].uri # ErrorReply
    BY <1>2 DEF Updates
  <2>2. i + n = n + i /\ n + i \in 1..Len(o) /\ i \in Nat
    BY <1>1, <2>1
  <2>3. o[n + i].uri # ErrorReply
    BY <1>2, <2>1
  <2> QED
    BY <1>1, <2>2, <2>3 DEF Updates
<1>5. f \in Injection(Updates(r), Updates(o))
  <2>1. f \in [Updates(r) -> Updates(o)]
    BY <1>4
  <2>2. \A i, j \in Updates(r) : f[i] = f[j] => i = j
    <3> SUFFICES ASSUME NEW i \in Updates(r), NEW j \in Updates(r), i + n = j + n PROVE i = j
      OBVIOUS
    <3> QED
      BY <1>1, <1>4
  <2> HIDE DEF f
  <2> QED
    BY <2>1, <2>2 DEF Injection, IsInjective
<1> HIDE DEF f
<1>6. Cardinality(Updates(r)) <= Cardinality(Updates(o))
  BY <1>5, UpdatesFinite, FS_Injection
<1> QED
  BY <1>6 DEF r

\* preload_writing appends updates only up to the size of the send buffer.
LEMMA PreloadWritingBounded ==
  ASSUME NEW p \in Seq(PendingUpdate), NEW o \in Seq(Message), NEW active, NEW w, NEW n,
         PreloadWriting(p, o, active, w, n),
         OnePerUri(p), Cardinality(Updates(o)) <= SendBuffer
  PROVE  OnePerUri(pending') /\ Cardinality(Updates(outbuf')) <= SendBuffer
<1>1. CASE active
  BY <1>1 DEF PreloadWriting
<1>2. CASE ~active
  <2> DEFINE b == Batch(p, o)
             taken == SubSeq(p, 1, b)
             rest == SubSeq(p, b + 1, Len(p))
  <2>1. outbuf' = o \o taken /\ pending' = rest
    BY <1>2 DEF PreloadWriting
  <2>2. /\ Len(p) \in Nat /\ Len(o) \in Nat /\ DOMAIN p = 1..Len(p)
        /\ \A i \in 1..Len(p) : p[i] \in PendingUpdate
    BY LenProperties, ElementOfSeq
  <2>3. b \in 0..Len(p) /\ (b = 0 \/ Len(o) + b <= SendBuffer)
    BY <2>2, BoundAssumption DEF Batch
  <2> HIDE DEF b
  <2>4. OnePerUri(rest)
    <3>1. /\ DOMAIN rest = 1..(Len(p) - b)
          /\ \A i \in 1..(Len(p) - b) : b + i \in DOMAIN p /\ rest[i] = p[b + i]
      BY <2>3, SuffixFacts
    <3> HIDE DEF rest
    <3> SUFFICES ASSUME NEW i \in DOMAIN rest, NEW j \in DOMAIN rest, rest[i].uri = rest[j].uri
                 PROVE  i = j
      BY DEF OnePerUri
    <3>2. b + i = b + j
      BY <3>1 DEF OnePerUri
    <3> QED
      BY <3>1, <3>2, <2>2, <2>3
  <2>5. Cardinality(Updates(o \o taken)) <= SendBuffer
    <3>1. taken \in Seq(PendingUpdate) /\ Len(taken) = b
      BY <2>2, <2>3, SubSeqProperties
    <3>2. CASE b = 0
      <4>1. taken = <<>>
        BY <3>2, SubSeqEmpty
      <4> QED
        BY <4>1, ConcatEmptySeq
    <3>3. CASE Len(o) + b <= SendBuffer
      <4>1. taken \in Seq(Message)
        BY <3>1, PendingIsMessages
      <4> HIDE DEF taken
      <4>2. (o \o taken) \in Seq(Message) /\ Len(o \o taken) <= SendBuffer
        BY <3>1, <3>3, <4>1, ConcatProperties
      <4>3. /\ Cardinality(Updates(o \o taken)) \in Nat
            /\ Cardinality(Updates(o \o taken)) <= Len(o \o taken)
        BY <4>2, UpdatesFinite
      <4>4. Len(o \o taken) \in Nat
        BY <4>2, LenProperties
      <4> QED
        BY <4>2, <4>3, <4>4, BoundAssumption
    <3> QED
      BY <2>3, <3>2, <3>3
  <2> QED
    BY <2>1, <2>4, <2>5
<1> QED
  BY <1>1, <1>2

LEMMA PushedOnePerUri ==
  ASSUME NEW p \in Seq(PendingUpdate), NEW u \in Uris, NEW v \in Nat, OnePerUri(p)
  PROVE  OnePerUri(Queue!Pushed(p, u, v))
<1> DEFINE q == Queue!Pushed(p, u, v)
<1>1. PushedTo(p, u, v, q) /\ q \in Seq(PendingUpdate)
  BY PushedFacts, PushedType
<1> HIDE DEF q
<1>2. OnePerUri(q)
  <2>1. CASE DOMAIN q = DOMAIN p
    BY <1>1, <2>1 DEF PushedTo, OnePerUri
  <2>2. CASE Len(q) = Len(p) + 1 /\ \A i \in DOMAIN p : p[i].uri # u
    <3>1. \A i \in DOMAIN q : i \in DOMAIN p \/ i = Len(p) + 1
      BY <1>1, <2>2, LenProperties
    <3>2. \A i \in DOMAIN p : q[i].uri = p[i].uri /\ q[i].uri # u
      BY <1>1, <2>2 DEF PushedTo
    <3>3. \A i \in DOMAIN q : i \notin DOMAIN p => q[i].uri = u
      BY <1>1 DEF PushedTo
    <3> QED
      BY <3>1, <3>2, <3>3 DEF OnePerUri
  <2> QED
    BY <1>1, <2>1, <2>2 DEF PushedTo
<1> QED
  BY <1>2 DEF q

BacklogOK == OnePerUri(pending) /\ Cardinality(Updates(outbuf)) <= SendBuffer

LEMMA BacklogNext ==
  ASSUME IInv, BacklogOK, [Next]_vars
  PROVE  BacklogOK'
<1>1. /\ pending \in Seq(PendingUpdate) /\ outbuf \in Seq(Message) /\ inFlight \in 0..Len(outbuf)
      /\ OutputOK
  BY IInvParts DEF OutputOK
<1> DEFINE left == SubSeq(outbuf, inFlight + 1, Len(outbuf))
<1>2. left \in Seq(Message) /\ Cardinality(Updates(left)) <= SendBuffer
  <2>1. left \in Seq(Message)
    BY <1>1, ConsumedType
  <2>2. Cardinality(Updates(left)) <= Cardinality(Updates(outbuf))
    BY <1>1, UpdatesConsumed
  <2>3. Cardinality(Updates(left)) \in Nat /\ Cardinality(Updates(outbuf)) \in Nat
    BY <1>1, <2>1, UpdatesFinite
  <2> QED
    BY <2>1, <2>2, <2>3, BoundAssumption DEF BacklogOK
<1>3. CASE WriteHandlerOk
  <2>1. PreloadWriting(pending, left, FALSE, "none", 0)
    BY <1>3 DEF WriteHandlerOk
  <2> HIDE DEF left
  <2> QED
    BY <1>1, <1>2, <2>1, PreloadWritingBounded DEF BacklogOK
<1>4. CASE WriteHandlerError
  <2>1. outbuf' = left /\ pending' = pending
    BY <1>4 DEF WriteHandlerError
  <2> QED
    BY <1>2, <2>1 DEF BacklogOK
<1> HIDE DEF left
<1>5. CASE Reject
  <2> DEFINE o == Append(outbuf, ErrorMessage)
  <2>1. ErrorMessage \in Message /\ ErrorMessage.uri = ErrorReply
    BY DEF ErrorMessage, Message
  <2>2. /\ o \in Seq(Message) /\ Len(o) = Len(outbuf) + 1 /\ o[Len(outbuf) + 1] = ErrorMessage
        /\ \A i \in 1..Len(outbuf) : o[i] = outbuf[i]
    BY <1>1, <2>1, AppendProperties
  <2>3. PreloadWriting(pending, o, writing, write, inFlight)
    BY <1>5 DEF Reject
  <2> HIDE DEF o
  <2>4. Len(outbuf) \in Nat /\ DOMAIN outbuf = 1..Len(outbuf) /\ DOMAIN o = 1..(Len(outbuf) + 1)
    BY <1>1, <2>2, LenProperties
  <2>5. Updates(o) = Updates(outbuf)
    <3>1. \A i \in DOMAIN o : i \in DOMAIN outbuf \/ i = Len(outbuf) + 1
      BY <2>4
    <3>2. \A i \in DOMAIN outbuf : i \in DOMAIN o /\ o[i] = outbuf[i]
      BY <2>2, <2>4
    <3> QED
      BY <2>1, <2>2, <3>1, <3>2 DEF Updates
  <2> QED
    BY <1>1, <2>2, <2>3, <2>5, PreloadWritingBounded DEF BacklogOK
<1>6. CASE Sent \/ Idles \/ \E n \in 0..inFlight : SendFails(n)
  <2>1. UNCHANGED <<pending, outbuf>>
    BY <1>6 DEF Sent, Idles, SendFails
  <2> QED
    BY <2>1 DEF BacklogOK
<1>7. ASSUME NEW u \in Uris, Notifies(u) PROVE BacklogOK'
  <2> DEFINE q == Queue!Pushed(pending, u, current'[u])
  <2>1. q \in Seq(PendingUpdate) /\ OnePerUri(q)
    <3>1. current'[u] \in Nat /\ OnePerUri(pending)
      BY <1>7 DEF Notifies, BacklogOK
    <3> QED
      BY <1>1, <3>1, PushedType, PushedOnePerUri
  <2>2. PreloadWriting(q, outbuf, writing, write, inFlight)
    BY <1>7 DEF Notifies
  <2> HIDE DEF q
  <2> QED
    BY <1>1, <2>1, <2>2, PreloadWritingBounded DEF BacklogOK
<1> QED
  BY <1>3, <1>4, <1>5, <1>6, <1>7, StepCases

\* However slowly the client reads, the context keeps at most one update per
\* URI in pending_updates_ and a send buffer full of updates in outbuf_.
THEOREM BacklogStaysBounded == Spec => []BacklogIsBounded
<1>1. Init => BacklogOK
  <2> SUFFICES ASSUME Init PROVE BacklogOK
    OBVIOUS
  <2>1. Updates(outbuf) = {} /\ OnePerUri(pending)
    BY DEF Init, Updates, OnePerUri
  <2>2. Cardinality(Updates(outbuf)) = 0
    BY <2>1, FS_EmptySet
  <2> QED
    BY <2>1, <2>2, BoundAssumption DEF BacklogOK
<1>2. IInv /\ BacklogOK /\ [Next]_vars => BacklogOK'
  BY BacklogNext
<1>3. BacklogOK => BacklogIsBounded
  BY DEF BacklogOK, BacklogIsBounded, OnePerUri, Updates
<1> QED
  BY <1>1, <1>2, <1>3, Invariance, PTL DEF Spec

-----------------------------------------------------------------------------
(* The order of the versions *)

\* In the messages s the versions of a parameter ascend, up to the current one
\* (in cur), and behind position n none is older than what was delivered (del).
InOrder(s, n, cur, del) ==
  \A i \in DOMAIN s : s[i].uri \in Uris =>
    /\ s[i].value <= cur[s[i].uri]
    /\ i > n => del[s[i].uri] <= s[i].value
    /\ \A j \in DOMAIN s : i <= j /\ s[j].uri = s[i].uri => s[i].value <= s[j].value

LEMMA VersionType ==
  ASSUME NEW s \in Seq(Message)
  PROVE  \A i \in DOMAIN s : s[i].value \in Nat
<1> TAKE i \in DOMAIN s
<1>1. i \in 1..Len(s)
  BY LenProperties
<1>2. s[i] \in Message
  BY <1>1, ElementOfSeq
<1> QED
  BY <1>2 DEF Message

\* A current version that is pushed is not older than anything before it.
LEMMA InOrderPushed ==
  ASSUME NEW o \in Seq(Message), NEW p \in Seq(PendingUpdate), NEW n \in Nat, NEW u \in Uris,
         NEW cur \in [Uris -> Nat], NEW new, \A w \in Uris : new[w] \in Nat /\ new[w] >= cur[w],
         NEW del \in [Uris -> Nat], \A w \in Uris : del[w] <= cur[w],
         InOrder(o \o p, n, cur, del)
  PROVE  InOrder(o \o Queue!Pushed(p, u, new[u]), n, new, del)
<1> DEFINE q == Queue!Pushed(p, u, new[u])
           s == o \o p
           t == o \o q
<1>1. PushedTo(p, u, new[u], q) /\ q \in Seq(PendingUpdate)
  BY PushedFacts, PushedType
<1> HIDE DEF q
<1>2. p \in Seq(Message) /\ q \in Seq(Message)
  BY <1>1, PendingIsMessages
<1>3. /\ s \in Seq(Message) /\ Len(o) \in Nat /\ Len(p) \in Nat /\ DOMAIN p = 1..Len(p)
      /\ DOMAIN s = 1..(Len(o) + Len(p))
      /\ \A i \in 1..Len(o) : s[i] = o[i]
      /\ \A i \in 1..Len(p) : s[Len(o) + i] = p[i]
  BY <1>2, ConcatFacts
<1>4. /\ t \in Seq(Message) /\ Len(q) \in Nat /\ DOMAIN q = 1..Len(q)
      /\ DOMAIN t = 1..(Len(o) + Len(q))
      /\ \A i \in 1..Len(o) : t[i] = o[i]
      /\ \A i \in DOMAIN t : i > Len(o) => i - Len(o) \in 1..Len(q) /\ t[i] = q[i - Len(o)]
  BY <1>2, ConcatFacts
<1>5. \A i \in DOMAIN s : s[i].value \in Nat
  BY <1>3, VersionType
<1> HIDE DEF s, t
<1> DEFINE Kept(i) == i \in DOMAIN s /\ t[i].uri = s[i].uri /\ t[i].value = s[i].value
<1>6. \A i \in DOMAIN t :
        \/ i <= Len(o) /\ Kept(i)
        \/ i > Len(o) /\ t[i].uri = u /\ t[i].value = new[u]
        \/ i > Len(o) /\ t[i].uri # u /\ Kept(i)
  <2> SUFFICES ASSUME NEW i \in DOMAIN t
               PROVE  \/ i <= Len(o) /\ Kept(i)
                      \/ i > Len(o) /\ t[i].uri = u /\ t[i].value = new[u]
                      \/ i > Len(o) /\ t[i].uri # u /\ Kept(i)
    OBVIOUS
  <2>1. CASE i <= Len(o)
    BY <2>1, <1>3, <1>4, SMTT(30)
  <2>2. CASE i > Len(o)
    <3> DEFINE k == i - Len(o)
    <3>1. k \in DOMAIN q /\ t[i] = q[k] /\ k \in Nat /\ Len(o) + k = i
      <4>1. k \in 1..Len(q) /\ t[i] = q[k]
        BY <2>2, <1>4
      <4>2. i \in 1..(Len(o) + Len(q)) /\ Len(o) \in Nat /\ Len(q) \in Nat
        BY <1>3, <1>4
      <4>3. k \in Nat /\ Len(o) + k = i
        BY <4>1, <4>2
      <4> QED
        BY <1>4, <4>1, <4>3
    <3> HIDE DEF k
    <3>2. CASE k \notin DOMAIN p
      BY <2>2, <3>1, <3>2, <1>1 DEF PushedTo
    <3>3. CASE k \in DOMAIN p
      <4>1. i \in DOMAIN s /\ s[i] = p[k]
        BY <3>1, <3>3, <1>3
      <4>2. q[k].uri = p[k].uri /\ q[k].value = IF p[k].uri = u THEN new[u] ELSE p[k].value
        BY <3>3, <1>1 DEF PushedTo
      <4> QED
        BY <2>2, <3>1, <4>1, <4>2
    <3> QED
      BY <3>2, <3>3
  <2>3. i \in Nat /\ Len(o) \in Nat
    BY <1>3, <1>4
  <2>4. i <= Len(o) \/ i > Len(o)
    BY <2>3
  <2> HIDE DEF Kept
  <2> QED
    BY <2>1, <2>2, <2>4
<1>7. InOrder(s, n, cur, del)
  BY DEF s
<1> SUFFICES ASSUME NEW i \in DOMAIN t, t[i].uri \in Uris
             PROVE  /\ t[i].value <= new[t[i].uri]
                    /\ i > n => del[t[i].uri] <= t[i].value
                    /\ \A j \in DOMAIN t : i <= j /\ t[j].uri = t[i].uri => t[i].value <= t[j].value
  BY DEF InOrder, t, q
<1>8. i \in Nat /\ new[t[i].uri] \in Nat /\ del[t[i].uri] \in Nat /\ cur[t[i].uri] \in Nat
      /\ new[t[i].uri] >= cur[t[i].uri] /\ del[t[i].uri] <= cur[t[i].uri]
  <2>1. i \in Nat
    BY <1>3, <1>4
  <2> DEFINE w == t[i].uri
  <2>2. w \in Uris
    OBVIOUS
  <2> HIDE DEF w
  <2>3. new[w] \in Nat /\ new[w] >= cur[w] /\ del[w] <= cur[w] /\ del[w] \in Nat /\ cur[w] \in Nat
    BY <2>2
  <2> QED
    BY <2>1, <2>3 DEF w
<1>9. CASE Kept(i)
  <2>1. /\ s[i].value \in Nat /\ s[i].value <= cur[s[i].uri]
        /\ i > n => del[s[i].uri] <= s[i].value
    BY <1>5, <1>7, <1>9 DEF InOrder
  <2>2. ASSUME NEW j \in DOMAIN t, i <= j, t[j].uri = t[i].uri PROVE t[i].value <= t[j].value
    <3>1. CASE Kept(j)
      BY <1>7, <1>9, <2>2, <3>1 DEF InOrder
    <3>2. CASE t[j].uri = u /\ t[j].value = new[u]
      <4>1. t[i].value <= cur[u] /\ cur[u] <= new[u] /\ cur[u] \in Nat /\ new[u] \in Nat
            /\ t[i].value \in Nat
        BY <1>8, <1>9, <2>1, <2>2, <3>2
      <4> QED
        BY <3>2, <4>1
    <3> QED
      BY <1>6, <3>1, <3>2
  <2> QED
    BY <1>8, <1>9, <2>1, <2>2
<1>10. CASE i > Len(o) /\ t[i].uri = u /\ t[i].value = new[u]
  <2>1. ASSUME NEW j \in DOMAIN t, i <= j, t[j].uri = t[i].uri PROVE t[i].value <= t[j].value
    <3>1. j > Len(o)
      BY <1>3, <1>4, <1>10, <2>1
    <3>2. t[j].value = new[u]
      <4>1. t[j].uri = u
        BY <1>10, <2>1
      <4>2. ~(j <= Len(o))
        BY <1>3, <1>4, <3>1
      <4> HIDE DEF Kept
      <4> QED
        BY <1>6, <4>1, <4>2
    <3> QED
      BY <1>8, <1>10, <3>2
  <2> QED
    BY <1>8, <1>10, <2>1
<1> QED
  BY <1>6, <1>9, <1>10

\* What is behind the first n messages is in order, too.
LEMMA InOrderConsumed ==
  ASSUME NEW o \in Seq(Message), NEW p \in Seq(PendingUpdate),
         NEW n \in 0..Len(o), NEW m \in 0..n, NEW cur, NEW del,
         InOrder(o \o p, m, cur, del)
  PROVE  InOrder(SubSeq(o, n + 1, Len(o)) \o p, 0, cur, del)
<1> DEFINE r == SubSeq(o, n + 1, Len(o))
           s == o \o p
           t == r \o p
<1>1. /\ r \in Seq(Message) /\ Len(r) = Len(o) - n
      /\ \A i \in 1..(Len(o) - n) : n + i \in DOMAIN o /\ r[i] = o[n + i]
  BY SuffixFacts
<1> HIDE DEF r
<1>2. p \in Seq(Message)
  BY PendingIsMessages
<1>3. /\ Len(o) \in Nat /\ Len(p) \in Nat /\ DOMAIN p = 1..Len(p) /\ DOMAIN o = 1..Len(o)
      /\ DOMAIN s = 1..(Len(o) + Len(p))
      /\ \A i \in 1..Len(o) : s[i] = o[i]
      /\ \A i \in 1..Len(p) : s[Len(o) + i] = p[i]
  BY <1>2, ConcatFacts
<1>4. /\ DOMAIN t = 1..(Len(r) + Len(p))
      /\ \A i \in 1..Len(r) : t[i] = r[i]
      /\ \A i \in DOMAIN t : i > Len(r) => i - Len(r) \in 1..Len(p) /\ t[i] = p[i - Len(r)]
  <2> HIDE DEF s
  <2>1. r \in Seq(Message)
    BY <1>1
  <2>2. DOMAIN t = 1..(Len(r) + Len(p))
    BY <2>1, <1>2, ConcatFacts
  <2>3. \A i \in 1..Len(r) : t[i] = r[i]
    BY <2>1, <1>2, ConcatFacts
  <2>4. \A i \in DOMAIN t : i > Len(r) => i - Len(r) \in 1..Len(p) /\ t[i] = p[i - Len(r)]
    BY <2>1, <1>2, ConcatFacts
  <2> QED
    BY <2>2, <2>3, <2>4
<1> HIDE DEF s, t
<1>5. \A i \in DOMAIN t : i \in Nat \ {0} /\ n + i \in DOMAIN s /\ t[i] = s[n + i]
  <2> SUFFICES ASSUME NEW i \in DOMAIN t PROVE i \in Nat \ {0} /\ n + i \in DOMAIN s /\ t[i] = s[n + i]
    OBVIOUS
  <2>1. i \in Nat \ {0} /\ n + i \in DOMAIN s
    BY <1>1, <1>3, <1>4, SMTT(30)
  <2>2. CASE i <= Len(r)
    <3>1. i \in 1..(Len(o) - n) /\ i \in 1..Len(r)
      BY <2>1, <2>2, <1>1, <1>3
    <3> QED
      BY <2>1, <3>1, <1>1, <1>3, <1>4
  <2>3. CASE i > Len(r)
    <3> DEFINE k == i - Len(r)
    <3>1. k \in 1..Len(p) /\ t[i] = p[k]
      BY <2>3, <1>4
    <3>2. Len(o) + k = n + i
      BY <2>1, <1>1, <1>3
    <3> HIDE DEF k
    <3> QED
      BY <2>1, <3>1, <3>2, <1>3
  <2> QED
    BY <2>1, <2>2, <2>3, <1>1, <1>3
<1> SUFFICES ASSUME NEW i \in DOMAIN t, t[i].uri \in Uris
             PROVE  /\ t[i].value <= cur[t[i].uri]
                    /\ i > 0 => del[t[i].uri] <= t[i].value
                    /\ \A j \in DOMAIN t : i <= j /\ t[j].uri = t[i].uri => t[i].value <= t[j].value
  BY DEF InOrder, t, r
<1>6. n + i > m
  BY <1>3, <1>5
<1>7. \A j \in DOMAIN t : i <= j => n + i <= n + j
  BY <1>3, <1>5
<1>8. InOrder(s, m, cur, del)
  BY DEF s
<1> QED
  BY <1>5, <1>6, <1>7, <1>8 DEF InOrder

\* An error that is replied does not count.
LEMMA InOrderError ==
  ASSUME NEW o \in Seq(Message), NEW p \in Seq(PendingUpdate), NEW n \in 0..Len(o), NEW cur, NEW del,
         InOrder(o \o p, n, cur, del)
  PROVE  InOrder(Append(o, ErrorMessage) \o p, n, cur, del)
<1> DEFINE e == Append(o, ErrorMessage)
           s == o \o p
           t == e \o p
<1>1. ErrorMessage \in Message /\ ErrorMessage.uri = ErrorReply
  BY DEF ErrorMessage, Message
<1>2. /\ e \in Seq(Message) /\ Len(e) = Len(o) + 1 /\ e[Len(o) + 1] = ErrorMessage
      /\ \A i \in 1..Len(o) : e[i] = o[i]
  BY <1>1, AppendProperties
<1> HIDE DEF e
<1>3. p \in Seq(Message)
  BY PendingIsMessages
<1>4. /\ Len(o) \in Nat /\ Len(p) \in Nat /\ DOMAIN p = 1..Len(p)
      /\ DOMAIN s = 1..(Len(o) + Len(p))
      /\ \A i \in 1..Len(o) : s[i] = o[i]
      /\ \A i \in 1..Len(p) : s[Len(o) + i] = p[i]
  BY <1>3, ConcatFacts
<1>5. /\ DOMAIN t = 1..(Len(e) + Len(p))
      /\ \A i \in 1..Len(e) : t[i] = e[i]
      /\ \A i \in DOMAIN t : i > Len(e) => i - Len(e) \in 1..Len(p) /\ t[i] = p[i - Len(e)]
  <2>1. e \in Seq(Message)
    BY <1>2
  <2> QED
    BY <2>1, <1>3, ConcatFacts
<1> HIDE DEF s, t
<1> DEFINE at(i) == IF i <= Len(o) THEN i ELSE i - 1
<1>6. ASSUME NEW i \in DOMAIN t, t[i].uri \in Uris
      PROVE  i \in Nat /\ i # Len(o) + 1 /\ at(i) \in DOMAIN s /\ t[i] = s[at(i)]
  <2>1. i \in Nat /\ i \in 1..(Len(o) + 1 + Len(p))
    BY <1>2, <1>4, <1>5
  <2>2. i # Len(o) + 1
    <3> SUFFICES ASSUME i = Len(o) + 1 PROVE FALSE
      OBVIOUS
    <3>1. t[i] = ErrorMessage
      BY <1>2, <1>4, <1>5
    <3> QED
      BY <3>1, <1>1, <1>6, UriAssumption
  <2>3. CASE i <= Len(o)
    BY <2>1, <2>3, <1>2, <1>4, <1>5
  <2>4. CASE i > Len(o)
    <3> DEFINE k == i - Len(e)
    <3>1. i > Len(e)
      BY <2>1, <2>2, <2>4, <1>2, <1>4
    <3>2. k \in 1..Len(p) /\ t[i] = p[k]
      BY <3>1, <1>5
    <3>3. at(i) = Len(o) + k
      BY <2>1, <2>4, <1>2, <1>4
    <3> HIDE DEF k
    <3>4. at(i) \in DOMAIN s /\ s[at(i)] = p[k]
      BY <3>2, <3>3, <1>4
    <3> QED
      BY <2>1, <2>2, <3>2, <3>4
  <2> QED
    BY <2>1, <2>3, <2>4, <1>4
<1> SUFFICES ASSUME NEW i \in DOMAIN t, t[i].uri \in Uris
             PROVE  /\ t[i].value <= cur[t[i].uri]
                    /\ i > n => del[t[i].uri] <= t[i].value
                    /\ \A j \in DOMAIN t : i <= j /\ t[j].uri = t[i].uri => t[i].value <= t[j].value
  BY DEF InOrder, t, e
<1>7. InOrder(s, n, cur, del)
  BY DEF s
<1>8. i > n => at(i) > n
  BY <1>4, <1>6
<1>9. ASSUME NEW j \in DOMAIN t, i <= j, t[j].uri = t[i].uri PROVE t[i].value <= t[j].value
  <2>1. at(i) <= at(j)
    BY <1>4, <1>6, <1>9, SMTT(30)
  <2>2. at(i) \in DOMAIN s /\ t[i] = s[at(i)] /\ at(j) \in DOMAIN s /\ t[j] = s[at(j)]
    BY <1>6, <1>9
  <2> HIDE DEF at
  <2> QED
    BY <2>1, <2>2, <1>7, <1>9 DEF InOrder
<1>10. at(i) \in DOMAIN s /\ t[i] = s[at(i)]
  BY <1>6
<1> HIDE DEF at
<1> QED
  BY <1>7, <1>8, <1>9, <1>10 DEF InOrder

\* Delivering the first n messages brings every client forward, and not beyond
\* what is still to be delivered.
LEMMA InOrderSent ==
  ASSUME NEW o \in Seq(Message), NEW p \in Seq(PendingUpdate), NEW n \in 0..Len(o),
         NEW cur \in [Uris -> Nat], NEW del \in [Uris -> Nat], \A u \in Uris : del[u] <= cur[u],
         InOrder(o \o p, 0, cur, del),
         NEW new, \A u \in Uris : new[u] = LastOf(SubSeq(o, 1, n), u, del[u])
  PROVE  /\ \A u \in Uris : del[u] <= new[u] /\ new[u] <= cur[u]
         /\ InOrder(o \o p, n, cur, new)
<1> DEFINE h == SubSeq(o, 1, n)
           s == o \o p
<1>1. p \in Seq(Message)
  BY PendingIsMessages
<1>2. /\ s \in Seq(Message) /\ Len(o) \in Nat /\ Len(p) \in Nat /\ DOMAIN o = 1..Len(o)
      /\ DOMAIN s = 1..(Len(o) + Len(p))
      /\ \A i \in 1..Len(o) : s[i] = o[i]
  BY <1>1, ConcatFacts
<1>3. h \in Seq(Message) /\ DOMAIN h = 1..n /\ \A i \in 1..n : h[i] = o[i]
  <2>1. 1 \in Int /\ n \in Int /\ n \in Nat /\ \A i \in 1..n : o[i] \in Message
    BY <1>2, ElementOfSeq
  <2>2. /\ h \in Seq(Message) /\ Len(h) = IF 1 <= n THEN n - 1 + 1 ELSE 0
        /\ \A i \in 1..(n - 1 + 1) : h[i] = o[1 + i - 1]
    BY <2>1, SubSeqProperties
  <2> HIDE DEF h
  <2>3. Len(h) = n
    BY <2>1, <2>2
  <2>4. \A i \in 1..n : i \in 1..(n - 1 + 1) /\ 1 + i - 1 = i
    BY <2>1
  <2>5. DOMAIN h = 1..n
    BY <2>2, <2>3, LenProperties
  <2> QED
    BY <2>2, <2>4, <2>5
<1>4. InOrder(s, 0, cur, del) /\ \A i \in DOMAIN s : s[i].value \in Nat
  BY <1>2, VersionType
<1> HIDE DEF h, s
<1>5. ASSUME NEW u \in Uris
      PROVE  \/ new[u] = del[u]
             \/ \E k \in 1..n : k \in DOMAIN s /\ s[k].uri = u /\ new[u] = s[k].value
  <2>1. new[u] = LastOf(h, u, del[u])
    BY DEF h
  <2>2. CASE \E i \in DOMAIN h : h[i].uri = u
    <3>1. PICK k : IsLast(h, u, k)
      BY <2>2, <1>3, LastExists
    <3>2. LastOf(h, u, del[u]) = h[k].value
      BY <3>1, <1>3, LastOfAt
    <3>3. k \in 1..n /\ h[k].uri = u
      BY <3>1, <1>3 DEF IsLast
    <3>4. k \in DOMAIN s /\ s[k] = h[k]
      BY <3>3, <1>2, <1>3
    <3> QED
      BY <2>1, <3>2, <3>3, <3>4
  <2>3. CASE ~ \E i \in DOMAIN h : h[i].uri = u
    <3>1. \A i \in DOMAIN h : h[i].uri # u
      BY <2>3
    <3> DEFINE d == del[u]
    <3> HIDE DEF d
    <3>2. LastOf(h, u, d) = d
      BY <3>1 DEF LastOf
    <3> QED
      BY <2>1, <3>2 DEF d
  <2> QED
    BY <2>2, <2>3
<1>6. ASSUME NEW u \in Uris PROVE del[u] <= new[u] /\ new[u] <= cur[u] /\ new[u] \in Nat
  <2>1. del[u] \in Nat /\ cur[u] \in Nat /\ del[u] <= cur[u]
    OBVIOUS
  <2>2. CASE new[u] = del[u]
    BY <2>1, <2>2
  <2>3. ASSUME NEW k \in 1..n, k \in DOMAIN s, s[k].uri = u, new[u] = s[k].value
        PROVE  del[u] <= new[u] /\ new[u] <= cur[u] /\ new[u] \in Nat
    <3>1. k > 0
      BY <1>2
    <3> QED
      BY <2>3, <3>1, <1>4 DEF InOrder
  <2> QED
    BY <2>2, <2>3, <1>5
<1>7. ASSUME NEW i \in DOMAIN s, s[i].uri \in Uris, i > n PROVE new[s[i].uri] <= s[i].value
  <2> DEFINE u == s[i].uri
  <2>1. i > 0 /\ i \in Nat
    BY <1>2, <1>7
  <2>2. CASE new[u] = del[u]
    BY <2>1, <2>2, <1>4, <1>7 DEF InOrder
  <2>3. ASSUME NEW k \in 1..n, k \in DOMAIN s, s[k].uri = u, new[u] = s[k].value
        PROVE  new[u] <= s[i].value
    <3>1. k <= i
      BY <2>1, <1>2, <1>7
    <3> QED
      BY <2>3, <3>1, <1>4, <1>7 DEF InOrder
  <2> QED
    BY <2>2, <2>3, <1>5, <1>7
<1>8. InOrder(s, n, cur, new)
  BY <1>4, <1>7 DEF InOrder
<1> QED
  BY <1>6, <1>8 DEF s

\* How much of outbuf_ was delivered already.
Taken == IF write = "sent" THEN inFlight ELSE 0

VersionsOK ==
  /\ InOrder(Stream, Taken, current, delivered)
  /\ \A u \in Uris : delivered[u] <= current[u]

\* Whoever starts writing leaves alone an operation that has finished.
LEMMA TakenStays ==
  ASSUME NEW p, NEW o, writing \in BOOLEAN, write # "none" => writing,
         PreloadWriting(p, o, writing, write, inFlight)
  PROVE  /\ Taken' = Taken
         /\ write' = "sent" => write = "sent" /\ outbuf' = o /\ inFlight' = inFlight
<1>1. CASE writing
  BY <1>1 DEF PreloadWriting, Taken
<1>2. CASE ~writing
  <2>1. write = "none"
    BY <1>2
  <2>2. write' # "sent"
    BY <1>2, <2>1 DEF PreloadWriting
  <2> QED
    BY <2>1, <2>2 DEF Taken
<1> QED
  BY <1>1, <1>2

\* write_handler has consumed what was delivered.
LEMMA WriteHandlerOkTaken ==
  ASSUME WriteHandlerOk
  PROVE  write = "sent" /\ Taken = inFlight /\ Taken' = 0 /\ write' # "sent"
BY DEF WriteHandlerOk, PreloadWriting, Taken

LEMMA VersionsNext ==
  ASSUME IInv, VersionsOK, [Next]_vars
  PROVE  /\ VersionsOK'
         /\ \A u \in Uris : delivered'[u] >= delivered[u]
<1>1. /\ pending \in Seq(PendingUpdate) /\ outbuf \in Seq(Message) /\ inFlight \in 0..Len(outbuf)
      /\ writing \in BOOLEAN /\ (write # "none" => writing)
      /\ current \in [Uris -> Nat] /\ delivered \in [Uris -> Nat]
      /\ Len(outbuf) \in Nat
  BY LenProperties DEF IInv, TypeOK, WriteIsExclusive, PendingUpdate
<1>2. /\ InOrder(outbuf \o pending, Taken, current, delivered)
      /\ \A u \in Uris : delivered[u] <= current[u]
      /\ Taken \in 0..Len(outbuf)
  BY <1>1 DEF VersionsOK, Stream, Taken
<1>3. CASE Sent
  <2>1. /\ UNCHANGED <<pending, outbuf, inFlight, current>>
        /\ write = "started" /\ write' = "sent" /\ Taken = 0 /\ Taken' = inFlight
    BY <1>3 DEF Sent, Taken
  <2>2. CASE garbled
    <3>1. delivered' = delivered
      BY <1>3, <2>2 DEF Sent
    <3>2. InOrder(outbuf \o pending, inFlight, current, delivered)
      <4>1. ASSUME NEW i \in DOMAIN (outbuf \o pending), i > inFlight PROVE i > 0
        <5>1. i \in Nat
          <6>1. pending \in Seq(Message)
            BY <1>1, PendingIsMessages
          <6>2. DOMAIN (outbuf \o pending) = 1..(Len(outbuf) + Len(pending)) /\ Len(pending) \in Nat
            BY <1>1, <6>1, ConcatFacts
          <6> QED
            BY <1>1, <6>2
        <5> QED
          BY <1>1, <4>1, <5>1
      <4> QED
        BY <1>2, <2>1, <4>1 DEF InOrder
    <3> QED
      BY <1>1, <1>2, <2>1, <3>1, <3>2 DEF VersionsOK, Stream
  <2>3. CASE ~garbled
    <3>1. \A u \in Uris : delivered'[u] = LastOf(SubSeq(outbuf, 1, inFlight), u, delivered[u])
      BY <1>3, <2>3 DEF Sent
    <3>2. InOrder(outbuf \o pending, 0, current, delivered)
      BY <1>2, <2>1
    <3>3. /\ \A u \in Uris : delivered[u] <= delivered'[u] /\ delivered'[u] <= current[u]
          /\ InOrder(outbuf \o pending, inFlight, current, delivered')
      BY <1>1, <1>2, <3>1, <3>2, InOrderSent
    <3>4. \A u \in Uris : delivered'[u] >= delivered[u]
      BY <3>3
    <3>5. VersionsOK'
      BY <2>1, <3>3 DEF VersionsOK, Stream
    <3> QED
      BY <3>4, <3>5
  <2> QED
    BY <2>2, <2>3
<1> SUFFICES ASSUME delivered' = delivered PROVE VersionsOK'
  <2>1. Sent \/ delivered' = delivered
    BY StepCases DEF WriteHandlerOk, WriteHandlerError, Reject, Idles, SendFails, Notifies, Request
  <2>2. delivered' = delivered => \A u \in Uris : delivered'[u] >= delivered[u]
    BY <1>1
  <2> QED
    BY <1>3, <2>1, <2>2
<1> DEFINE left == SubSeq(outbuf, inFlight + 1, Len(outbuf))
<1>4. left \in Seq(Message)
  BY <1>1, SuffixFacts
<1>5. InOrder(left \o pending, 0, current, delivered)
  <2>1. inFlight \in 0..inFlight /\ 0 \in 0..inFlight
    BY <1>1
  <2>2. CASE Taken = inFlight
    BY <1>1, <1>2, <2>1, <2>2, InOrderConsumed
  <2>3. CASE Taken = 0
    BY <1>1, <1>2, <2>1, <2>3, InOrderConsumed
  <2> QED
    BY <2>2, <2>3 DEF Taken
<1>6. CASE WriteHandlerOk
  <2>1. PreloadWriting(pending, left, FALSE, "none", 0) /\ current' = current
    BY <1>6 DEF WriteHandlerOk
  <2> HIDE DEF left
  <2>2. Stream' = left \o pending
    BY <1>1, <1>4, <2>1, PreloadWritingStream DEF Stream
  <2>3. Taken' = 0
    BY <1>6, WriteHandlerOkTaken
  <2> QED
    BY <1>2, <1>5, <2>1, <2>2, <2>3 DEF VersionsOK
<1>7. CASE WriteHandlerError
  <2>1. outbuf' = left /\ pending' = pending /\ current' = current /\ Taken' = 0
    BY <1>7 DEF WriteHandlerError, Taken
  <2> HIDE DEF left
  <2> QED
    BY <1>2, <1>5, <2>1 DEF VersionsOK, Stream
<1> HIDE DEF left
<1>8. CASE Reject
  <2> DEFINE o == Append(outbuf, ErrorMessage)
  <2>1. ErrorMessage \in Message
    BY DEF ErrorMessage, Message
  <2>2. o \in Seq(Message)
    BY <1>1, <2>1, AppendProperties
  <2>3. PreloadWriting(pending, o, writing, write, inFlight) /\ current' = current
    BY <1>8 DEF Reject
  <2>4. InOrder(o \o pending, Taken, current, delivered)
    BY <1>1, <1>2, InOrderError
  <2> HIDE DEF o
  <2>5. Stream' = o \o pending
    BY <1>1, <2>2, <2>3, PreloadWritingStream DEF Stream
  <2>6. Taken' = Taken
    BY <1>1, <2>3, TakenStays
  <2> QED
    BY <1>2, <2>3, <2>4, <2>5, <2>6 DEF VersionsOK
<1>9. CASE \E n \in 0..inFlight : SendFails(n)
  <2>1. UNCHANGED <<pending, outbuf, current>> /\ Taken = 0 /\ Taken' = 0
    BY <1>9 DEF SendFails, Taken
  <2> QED
    BY <1>2, <2>1 DEF VersionsOK, Stream
<1>10. CASE Idles
  <2>1. UNCHANGED <<pending, outbuf>> /\ Taken' = Taken
        /\ \A u \in Uris : current'[u] \in Nat /\ current'[u] >= current[u]
    BY <1>10 DEF Idles, Taken
  <2>2. \A i \in DOMAIN (outbuf \o pending) : (outbuf \o pending)[i].value \in Nat
    <3>1. pending \in Seq(Message)
      BY <1>1, PendingIsMessages
    <3>2. outbuf \o pending \in Seq(Message)
      BY <1>1, <3>1, ConcatProperties
    <3> QED
      BY <3>2, VersionType
  <2> DEFINE s == outbuf \o pending
  <2> HIDE DEF s
  <2>3. InOrder(s, Taken, current', delivered)
    <3>1. InOrder(s, Taken, current, delivered) /\ \A i \in DOMAIN s : s[i].value \in Nat
      BY <1>2, <2>2 DEF s
    <3>2. \A i \in DOMAIN s : s[i].uri \in Uris => s[i].value <= current'[s[i].uri]
      <4> SUFFICES ASSUME NEW i \in DOMAIN s, s[i].uri \in Uris PROVE s[i].value <= current'[s[i].uri]
        OBVIOUS
      <4>1. /\ s[i].value \in Nat /\ s[i].value <= current[s[i].uri] /\ current[s[i].uri] \in Nat
            /\ current'[s[i].uri] \in Nat /\ current'[s[i].uri] >= current[s[i].uri]
        BY <1>1, <2>1, <3>1 DEF InOrder
      <4> QED
        BY <4>1
    <3> QED
      BY <3>1, <3>2 DEF InOrder
  <2>4. \A u \in Uris : delivered[u] <= current'[u]
    <3> TAKE u \in Uris
    <3>1. /\ delivered[u] \in Nat /\ delivered[u] <= current[u] /\ current[u] \in Nat
          /\ current'[u] \in Nat /\ current'[u] >= current[u]
      BY <1>1, <1>2, <2>1
    <3> QED
      BY <3>1
  <2> QED
    BY <2>1, <2>3, <2>4 DEF VersionsOK, Stream, s
<1>11. ASSUME NEW u \in Uris, Notifies(u) PROVE VersionsOK'
  <2> DEFINE q == Queue!Pushed(pending, u, current'[u])
  <2>1. \A w \in Uris : current'[w] \in Nat /\ current'[w] >= current[w]
    <3> TAKE w \in Uris
    <3>1. CASE w = u
      BY <1>11, <3>1 DEF Notifies
    <3>2. CASE w # u
      <4>1. current'[w] = current[w] /\ current[w] \in Nat
        BY <1>1, <1>11, <3>2 DEF Notifies
      <4> QED
        BY <4>1
    <3> QED
      BY <3>1, <3>2
  <2>2. InOrder(outbuf \o q, Taken, current', delivered)
    <3>1. Taken \in Nat
      BY <1>1, <1>2
    <3> QED
      BY <1>1, <1>2, <2>1, <3>1, InOrderPushed
  <2>3. q \in Seq(PendingUpdate)
    BY <1>1, <2>1, PushedType
  <2>4. PreloadWriting(q, outbuf, writing, write, inFlight)
    BY <1>11 DEF Notifies
  <2> HIDE DEF q
  <2>5. Stream' = outbuf \o q
    BY <1>1, <2>3, <2>4, PreloadWritingStream DEF Stream
  <2>6. Taken' = Taken
    BY <1>1, <2>4, TakenStays
  <2>7. \A w \in Uris : delivered[w] <= current'[w]
    <3> TAKE w \in Uris
    <3>1. /\ delivered[w] \in Nat /\ delivered[w] <= current[w] /\ current[w] \in Nat
          /\ current'[w] \in Nat /\ current'[w] >= current[w]
      BY <1>1, <1>2, <2>1
    <3> QED
      BY <3>1
  <2> QED
    BY <2>2, <2>5, <2>6, <2>7 DEF VersionsOK
<1> QED
  BY <1>3, <1>6, <1>7, <1>8, <1>9, <1>10, <1>11, StepCases

\* A client never receives an older version of a parameter after a newer one:
\* the versions on their way ascend, whatever is coalesced or sent in parts.
THEOREM VersionsAscend == Spec => DeliveredInOrder
<1>1. Init => VersionsOK
  <2> SUFFICES ASSUME Init PROVE VersionsOK
    OBVIOUS
  <2>1. Stream = <<>> /\ \A u \in Uris : delivered[u] = 0 /\ current[u] = 0
    BY ConcatEmptySeq DEF Init, Stream
  <2>2. DOMAIN Stream = {}
    BY <2>1
  <2> QED
    BY <2>1, <2>2 DEF VersionsOK, InOrder
<1>2. IInv /\ VersionsOK /\ [Next]_vars => VersionsOK'
  BY VersionsNext
<1>3. IInv /\ VersionsOK /\ [Next]_vars => [\A u \in Uris : delivered'[u] >= delivered[u]]_vars
  BY VersionsNext
<1> QED
  BY <1>1, <1>2, <1>3, Invariance, PTL DEF Spec, DeliveredInOrder

-----------------------------------------------------------------------------
(* No update is lost *)

\* Until write_handler consumes it, what was delivered is what outbuf_ begins
\* with.
SentIsDelivered ==
  write = "sent" /\ ~garbled =>
    \A u \in Uris : LastOf(SubSeq(outbuf, 1, inFlight), u, delivered[u]) = delivered[u]

LossInv == SentIsDelivered /\ NoUpdateIsLost

\* The two parts of outbuf_.
LEMMA OutbufParts ==
  ASSUME NEW o \in Seq(Message), NEW n \in 0..Len(o)
  PROVE  /\ SubSeq(o, 1, n) \in Seq(Message) /\ SubSeq(o, n + 1, Len(o)) \in Seq(Message)
         /\ SubSeq(o, 1, n) \o SubSeq(o, n + 1, Len(o)) = o
<1>1. Len(o) \in Nat /\ n \in Nat /\ n <= Len(o) /\ \A i \in 1..Len(o) : o[i] \in Message
  BY LenProperties, ElementOfSeq
<1>2. 1 \in 1..(Len(o) + 1) /\ n \in (1 - 1)..Len(o) /\ Len(o) \in n..Len(o)
  BY <1>1
<1>3. SubSeq(o, 1, n) \o SubSeq(o, n + 1, Len(o)) = SubSeq(o, 1, Len(o))
  BY <1>2, ConcatAdjacentSubSeq
<1>4. SubSeq(o, 1, n) \in Seq(Message)
  <2>1. 1 \in Int /\ n \in Int /\ \A i \in 1..n : o[i] \in Message
    BY <1>1
  <2> QED
    BY <2>1, SubSeqProperties
<1> QED
  BY <1>3, <1>4, SuffixFacts, SubSeqFull

\* Appending to outbuf_ does not change what it begins with.
LEMMA BeginningStays ==
  ASSUME NEW o \in Seq(Message), NEW m \in Message, NEW n \in 0..Len(o)
  PROVE  SubSeq(Append(o, m), 1, n) = SubSeq(o, 1, n)
<1>1. Len(o) \in Nat /\ n \in Nat /\ n <= Len(o)
  BY LenProperties
<1>2. CASE n = 0
  BY <1>2, SubSeqEmpty
<1>3. CASE n # 0
  <2>1. 1 \in 1..Len(o) /\ n \in 1..Len(o)
    BY <1>1, <1>3
  <2>2. <<m>> \in Seq(Message)
    OBVIOUS
  <2>3. SubSeq(o \o <<m>>, 1, n) = SubSeq(o, 1, n)
    BY <2>1, <2>2, SubSeqOfConcat1
  <2> QED
    BY <2>3, AppendIsConcat
<1> QED
  BY <1>2, <1>3

\* What is delivered and consumed makes no difference to what is received last.
LEMMA LastOfConsumed ==
  ASSUME NEW o \in Seq(Message), NEW p \in Seq(PendingUpdate), NEW n \in 0..Len(o), NEW u, NEW d,
         LastOf(SubSeq(o, 1, n), u, d) = d
  PROVE  LastOf(SubSeq(o, n + 1, Len(o)) \o p, u, d) = LastOf(o \o p, u, d)
<1> DEFINE h == SubSeq(o, 1, n)
           r == SubSeq(o, n + 1, Len(o))
<1>1. h \in Seq(Message) /\ r \in Seq(Message) /\ h \o r = o /\ p \in Seq(Message)
  BY OutbufParts, PendingIsMessages
<1>2. LastOf(h, u, d) = d
  OBVIOUS
<1> HIDE DEF h, r
<1>3. LastOf(o \o p, u, d) = LastOf(p, u, LastOf(o, u, d))
  BY <1>1, LastOfConcat
<1>4. LastOf(h \o r, u, d) = LastOf(r, u, LastOf(h, u, d))
  <2>1. h \in Seq(Message) /\ r \in Seq(Message)
    BY <1>1
  <2> QED
    BY <2>1, LastOfConcat
<1>5. LastOf(r \o p, u, d) = LastOf(p, u, LastOf(r, u, d))
  BY <1>1, LastOfConcat
<1> QED
  BY <1>1, <1>2, <1>3, <1>4, <1>5 DEF r

LEMMA LossNext ==
  ASSUME IInv, LossInv, [Next]_vars
  PROVE  LossInv'
<1>1. /\ pending \in Seq(PendingUpdate) /\ outbuf \in Seq(Message) /\ inFlight \in 0..Len(outbuf)
      /\ writing \in BOOLEAN /\ (write # "none" => writing)
      /\ current \in [Uris -> Nat] /\ delivered \in [Uris -> Nat] /\ subscribed \subseteq Uris
  BY DEF IInv, TypeOK, WriteIsExclusive, PendingUpdate, Uris
<1>2. pending \in Seq(Message)
  BY <1>1, PendingIsMessages
<1>3. open /\ ~garbled =>
        \A u \in subscribed : LastOf(outbuf \o pending, u, delivered[u]) = current[u]
  BY DEF LossInv, NoUpdateIsLost
<1> DEFINE sent == SubSeq(outbuf, 1, inFlight)
           left == SubSeq(outbuf, inFlight + 1, Len(outbuf))
<1>4. left \in Seq(Message) /\ sent \in Seq(Message)
  BY <1>1, OutbufParts
<1>5. CASE Sent
  <2>1. UNCHANGED <<pending, outbuf, inFlight, open, garbled, subscribed, current>>
    BY <1>5 DEF Sent
  <2>2. ASSUME ~garbled, NEW u \in Uris
        PROVE  /\ LastOf(sent, u, delivered'[u]) = delivered'[u]
               /\ LastOf(outbuf \o pending, u, delivered'[u]) = LastOf(outbuf \o pending, u, delivered[u])
    <3>1. delivered'[u] = LastOf(sent, u, delivered[u])
      BY <1>5, <2>2 DEF Sent
    <3> HIDE DEF sent
    <3>2. LastOf(sent, u, delivered'[u]) = delivered'[u]
      BY <1>4, <3>1, LastOfTwice
    <3> USE DEF sent
    <3>3. sent \o left = outbuf
      BY <1>1, OutbufParts
    <3> HIDE DEF sent, left
    <3>4. LastOf(sent \o left, u, delivered'[u]) = LastOf(left, u, LastOf(sent, u, delivered'[u]))
      BY <1>4, LastOfConcat
    <3>5. LastOf(sent \o left, u, delivered[u]) = LastOf(left, u, LastOf(sent, u, delivered[u]))
      BY <1>4, LastOfConcat
    <3>6. LastOf(outbuf, u, delivered'[u]) = LastOf(outbuf, u, delivered[u])
      BY <3>1, <3>2, <3>3, <3>4, <3>5
    <3>7. LastOf(outbuf \o pending, u, delivered'[u]) = LastOf(pending, u, LastOf(outbuf, u, delivered'[u]))
      BY <1>1, <1>2, LastOfConcat
    <3>8. LastOf(outbuf \o pending, u, delivered[u]) = LastOf(pending, u, LastOf(outbuf, u, delivered[u]))
      BY <1>1, <1>2, LastOfConcat
    <3> QED
      BY <3>2, <3>6, <3>7, <3>8
  <2>3. SentIsDelivered'
    BY <2>1, <2>2 DEF SentIsDelivered
  <2>4. NoUpdateIsLost'
    BY <1>1, <1>3, <2>1, <2>2 DEF NoUpdateIsLost
  <2> QED
    BY <2>3, <2>4 DEF LossInv
<1>6. CASE WriteHandlerOk
  <2>1. /\ write = "sent" /\ write' # "sent"
        /\ UNCHANGED <<open, garbled, subscribed, current, delivered>>
    BY <1>6, WriteHandlerOkTaken DEF WriteHandlerOk
  <2>2. outbuf' \o pending' = left \o pending
    <3>1. PreloadWriting(pending, left, FALSE, "none", 0)
      BY <1>6 DEF WriteHandlerOk
    <3> HIDE DEF left
    <3> QED
      BY <1>1, <1>4, <3>1, PreloadWritingStream
  <2>3. ASSUME ~garbled, NEW u \in Uris
        PROVE  LastOf(left \o pending, u, delivered[u]) = LastOf(outbuf \o pending, u, delivered[u])
    <3>1. LastOf(sent, u, delivered[u]) = delivered[u]
      BY <2>1, <2>3 DEF LossInv, SentIsDelivered
    <3> QED
      BY <1>1, <3>1, LastOfConsumed
  <2> HIDE DEF left
  <2>4. NoUpdateIsLost'
    BY <1>1, <1>3, <2>1, <2>2, <2>3 DEF NoUpdateIsLost
  <2> QED
    BY <2>1, <2>4 DEF LossInv, SentIsDelivered
<1>7. CASE WriteHandlerError
  <2>1. write' # "sent" /\ open' = FALSE
    BY <1>7 DEF WriteHandlerError, Close
  <2> QED
    BY <2>1 DEF LossInv, SentIsDelivered, NoUpdateIsLost
<1>8. CASE Reject
  <2> DEFINE o == Append(outbuf, ErrorMessage)
  <2>1. ErrorMessage \in Message /\ ErrorMessage.uri = ErrorReply
    BY DEF ErrorMessage, Message
  <2>2. o \in Seq(Message) /\ o = outbuf \o <<ErrorMessage>> /\ <<ErrorMessage>> \in Seq(Message)
    BY <1>1, <2>1, AppendProperties, AppendIsConcat
  <2>3. PreloadWriting(pending, o, writing, write, inFlight)
    BY <1>8 DEF Reject
  <2>4. UNCHANGED <<open, subscribed, current, delivered>> /\ (~garbled' => ~garbled)
    BY <1>8 DEF Reject, Request
  <2>5. SubSeq(o, 1, inFlight) = sent
    BY <1>1, <2>1, BeginningStays
  <2> HIDE DEF o, sent
  <2>6. write' = "sent" => write = "sent" /\ outbuf' = o /\ inFlight' = inFlight
    BY <1>1, <2>3, TakenStays
  <2>7. outbuf' \o pending' = o \o pending
    BY <1>1, <2>2, <2>3, PreloadWritingStream
  <2>8. ASSUME NEW u \in Uris
        PROVE  LastOf(o \o pending, u, delivered[u]) = LastOf(outbuf \o pending, u, delivered[u])
    <3>1. LastOf(<<ErrorMessage>>, u, LastOf(outbuf, u, delivered[u])) = LastOf(outbuf, u, delivered[u])
      <4>1. \A i \in DOMAIN <<ErrorMessage>> : <<ErrorMessage>>[i].uri # u
        BY <2>1, UriAssumption
      <4> QED
        BY <4>1, LastOfNone
    <3>2. LastOf(outbuf \o <<ErrorMessage>>, u, delivered[u])
            = LastOf(<<ErrorMessage>>, u, LastOf(outbuf, u, delivered[u]))
      <4> DEFINE e == <<ErrorMessage>>
      <4>1. outbuf \in Seq(Message) /\ e \in Seq(Message)
        BY <1>1, <2>2
      <4> HIDE DEF e
      <4>2. LastOf(outbuf \o e, u, delivered[u]) = LastOf(e, u, LastOf(outbuf, u, delivered[u]))
        BY <4>1, LastOfConcat
      <4> QED
        BY <4>2 DEF e
    <3>3. LastOf(o, u, delivered[u]) = LastOf(outbuf, u, delivered[u])
      BY <2>2, <3>1, <3>2
    <3>4. LastOf(o \o pending, u, delivered[u]) = LastOf(pending, u, LastOf(o, u, delivered[u]))
      <4>1. o \in Seq(Message) /\ pending \in Seq(Message)
        BY <1>2, <2>2
      <4> QED
        BY <4>1, LastOfConcat
    <3>5. LastOf(outbuf \o pending, u, delivered[u]) = LastOf(pending, u, LastOf(outbuf, u, delivered[u]))
      BY <1>1, <1>2, LastOfConcat
    <3> QED
      BY <3>3, <3>4, <3>5
  <2>9. NoUpdateIsLost'
    BY <1>1, <1>3, <2>4, <2>7, <2>8 DEF NoUpdateIsLost
  <2>10. SentIsDelivered'
    BY <2>4, <2>5, <2>6 DEF LossInv, SentIsDelivered, sent
  <2> QED
    BY <2>9, <2>10 DEF LossInv
<1>9. CASE \E n \in 0..inFlight : SendFails(n)
  <2>1. write' # "sent" /\ UNCHANGED <<pending, outbuf, open, garbled, subscribed, current, delivered>>
    BY <1>9 DEF SendFails
  <2> QED
    BY <2>1 DEF LossInv, SentIsDelivered, NoUpdateIsLost
<1>10. CASE Idles
  <2>1. /\ UNCHANGED <<pending, outbuf, inFlight, write, delivered, garbled>>
        /\ subscribed' \subseteq subscribed /\ \A u \in subscribed' : current'[u] = current[u]
        /\ open' = open \/ ~open'
    BY <1>10 DEF Idles
  <2>2. SentIsDelivered'
    BY <2>1 DEF LossInv, SentIsDelivered
  <2>3. NoUpdateIsLost'
    BY <1>3, <2>1 DEF NoUpdateIsLost
  <2> QED
    BY <2>2, <2>3 DEF LossInv
<1>11. ASSUME NEW u \in Uris, Notifies(u) PROVE LossInv'
  <2> DEFINE q == Queue!Pushed(pending, u, current'[u])
  <2>1. /\ PreloadWriting(q, outbuf, writing, write, inFlight)
        /\ current'[u] \in Nat /\ \A w \in Uris \ {u} : current'[w] = current[w]
        /\ subscribed' \subseteq subscribed \union {u}
        /\ UNCHANGED <<open, delivered, garbled>>
    BY <1>11 DEF Notifies
  <2>2. q \in Seq(PendingUpdate) /\ q \in Seq(Message)
    BY <1>1, <2>1, PushedType, PendingIsMessages
  <2>3. ASSUME NEW w, NEW d PROVE LastOf(q, w, d) = IF w = u THEN current'[u] ELSE LastOf(pending, w, d)
    BY <1>1, <2>1, LastOfPushed
  <2> HIDE DEF q
  <2>4. outbuf' \o pending' = outbuf \o q
    BY <1>1, <2>1, <2>2, PreloadWritingStream
  <2>5. write' = "sent" => write = "sent" /\ outbuf' = outbuf /\ inFlight' = inFlight
    BY <1>1, <2>1, TakenStays
  <2>6. ASSUME NEW w \in Uris
        PROVE  LastOf(outbuf \o q, w, delivered[w])
                 = IF w = u THEN current'[u] ELSE LastOf(outbuf \o pending, w, delivered[w])
    <3>1. LastOf(outbuf \o q, w, delivered[w]) = LastOf(q, w, LastOf(outbuf, w, delivered[w]))
      BY <1>1, <2>2, LastOfConcat
    <3>2. LastOf(outbuf \o pending, w, delivered[w]) = LastOf(pending, w, LastOf(outbuf, w, delivered[w]))
      BY <1>1, <1>2, LastOfConcat
    <3> QED
      BY <2>3, <3>1, <3>2
  <2>7. NoUpdateIsLost'
    <3> SUFFICES ASSUME open', ~garbled', NEW w \in subscribed'
                 PROVE  LastOf(outbuf' \o pending', w, delivered'[w]) = current'[w]
      BY DEF NoUpdateIsLost
    <3>1. CASE w = u
      BY <2>1, <2>4, <2>6, <3>1
    <3>2. CASE w # u
      <4>1. w \in subscribed /\ w \in Uris /\ current'[w] = current[w] /\ open /\ ~garbled
        BY <1>1, <2>1, <3>2
      <4>2. LastOf(outbuf \o pending, w, delivered[w]) = current[w]
        BY <1>3, <4>1
      <4> QED
        BY <2>1, <2>4, <2>6, <3>2, <4>1, <4>2
    <3> QED
      BY <3>1, <3>2
  <2>8. SentIsDelivered'
    BY <2>1, <2>5 DEF LossInv, SentIsDelivered
  <2> QED
    BY <2>7, <2>8 DEF LossInv
<1> QED
  BY <1>5, <1>6, <1>7, <1>8, <1>9, <1>10, <1>11, StepCases

\* Whatever is coalesced, sent in parts or answered in between: as long as the
\* connection is open, the last version that a subscriber has received or will
\* receive is the current one.
THEOREM UpdatesArrive == Spec => []NoUpdateIsLost
<1>1. Init => LossInv
  BY DEF Init, LossInv, SentIsDelivered, NoUpdateIsLost
<1>2. IInv /\ LossInv /\ [Next]_vars => LossInv'
  BY LossNext
<1>3. LossInv => NoUpdateIsLost
  BY DEF LossInv
<1> QED
  BY <1>1, <1>2, <1>3, Invariance, PTL DEF Spec
=============================================================================
