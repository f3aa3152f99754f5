------------------------ MODULE ClisrvServer_proofs -------------------------
(***************************************************************************)
(* Proofs about ClisrvServer for every set of clients, requests and        *)
(* objects, every userlevel and every size of the sockets.                 *)
(***************************************************************************)
EXTENDS ClisrvServer, Lists, FiniteSets, SequenceTheorems, FiniteSetTheorems, WellFoundedInduction, TLAPS

-----------------------------------------------------------------------------
(* Positions and sequences *)

\* How three sequences are put together does not matter.
Regrouped(s, t, u) == (s \o t) \o u = s \o (t \o u)

LEMMA Regroups ==
  ASSUME NEW S, NEW s \in Seq(S), NEW t \in Seq(S), NEW u \in Seq(S)
  PROVE  Regrouped(s, t, u)
BY ConcatAssociative, SMTT(30) DEF Regrouped

\* Both parts of a concatenation, position by position.
LEMMA ConcatFacts ==
  ASSUME NEW S, NEW s \in Seq(S), NEW t \in Seq(S)
  PROVE  /\ s \o t \in Seq(S) /\ Len(s) \in Nat /\ Len(t) \in Nat
         /\ DOMAIN s = 1..Len(s) /\ DOMAIN t = 1..Len(t)
         /\ DOMAIN (s \o t) = 1..(Len(s) + Len(t))
         /\ \A i \in 1..Len(s) : (s \o t)[i] = s[i]
         /\ \A i \in 1..Len(t) : (s \o t)[Len(s) + i] = t[i]
         /\ \A i \in DOMAIN (s \o t) : i > Len(s) => i - Len(s) \in 1..Len(t) /\ (s \o t)[i] = t[i - Len(s)]
<1> DEFINE st == s \o t
<1>1. /\ st \in Seq(S) /\ Len(st) = Len(s) + Len(t)
      /\ \A i \in 1..(Len(s) + Len(t)) : st[i] = IF i <= Len(s) THEN s[i] ELSE t[i - Len(s)]
  BY ConcatProperties
<1>2. Len(s) \in Nat /\ Len(t) \in Nat /\ DOMAIN s = 1..Len(s) /\ DOMAIN t = 1..Len(t)
  BY LenProperties
<1>3. DOMAIN st = 1..(Len(s) + Len(t))
  BY <1>1, LenProperties
<1> HIDE DEF st
<1>4. \A i \in 1..Len(t) : st[Len(s) + i] = t[i]
  <2> TAKE i \in 1..Len(t)
  <2>1. Len(s) + i \in 1..(Len(s) + Len(t)) /\ ~(Len(s) + i <= Len(s)) /\ Len(s) + i - Len(s) = i
    BY <1>2
  <2> QED
    BY <2>1, <1>1
<1>5. \A i \in DOMAIN st : i > Len(s) => i - Len(s) \in 1..Len(t) /\ st[i] = t[i - Len(s)]
  BY <1>1, <1>2, <1>3
<1>6. \A i \in 1..Len(s) : st[i] = s[i]
  BY <1>1, <1>2
<1> QED
  BY <1>1, <1>2, <1>3, <1>4, <1>5, <1>6 DEF st

IsList(s) == s \in Seq(Members(s))

LEMMA SequenceFacts ==
  ASSUME NEW S, NEW s \in Seq(S)
  PROVE  IsList(s)
<1>1. DOMAIN s = 1..Len(s) /\ Len(s) \in Nat /\ s = [i \in 1..Len(s) |-> s[i]]
  BY LenProperties
<1>2. \A i \in 1..Len(s) : s[i] \in Members(s)
  BY <1>1 DEF Members
<1>3. [i \in 1..Len(s) |-> s[i]] \in Seq(Members(s))
  BY <1>1, <1>2, IsASeq
<1> QED
  BY <1>1, <1>3 DEF IsList

\* One sequence behind another.
LEMMA ConcatSequence ==
  ASSUME NEW s, NEW t, IsList(s), IsList(t)
  PROVE  /\ IsList(s \o t)
         /\ Len(s \o t) = Len(s) + Len(t) /\ Len(s) \in Nat /\ Len(t) \in Nat
         /\ s \o t = <<>> <=> s = <<>> /\ t = <<>>
         /\ s \o t = s <=> t = <<>>
<1> DEFINE S == Members(s) \union Members(t)
           st == s \o t
<1>1. s \in Seq(S) /\ t \in Seq(S)
  BY SeqMonotonic DEF IsList
<1> HIDE DEF S
<1>2. st \in Seq(S) /\ Len(st) = Len(s) + Len(t) /\ Len(s) \in Nat /\ Len(t) \in Nat
  BY <1>1, ConcatProperties, LenProperties
<1>3. IsList(st)
  <2> HIDE DEF st
  <2> QED
    BY <1>2, SequenceFacts
<1>4. (s \o t = <<>> <=> s = <<>> /\ t = <<>>) /\ (s \o t = s <=> t = <<>>)
  BY <1>1, ConcatEqualIffEmpty
<1> QED
  BY <1>2, <1>3, <1>4

LEMMA ConcatEmpty ==
  ASSUME NEW s, IsList(s)
  PROVE  s \o <<>> = s /\ <<>> \o s = s /\ IsList(<<>>)
BY ConcatEmptySeq, EmptySeq, SequenceFacts DEF IsList

LEMMA ConcatThree ==
  ASSUME NEW s, NEW t, NEW u, IsList(s), IsList(t), IsList(u)
  PROVE  (s \o t) \o u = s \o (t \o u)
<1> DEFINE S == Members(s) \union Members(t) \union Members(u)
<1>1. s \in Seq(S) /\ t \in Seq(S) /\ u \in Seq(S)
  BY SeqMonotonic DEF IsList
<1> HIDE DEF S
<1>2. Regrouped(s, t, u)
  BY <1>1, Regroups
<1> QED
  BY <1>2 DEF Regrouped

LEMMA OneReply ==
  ASSUME NEW x
  PROVE  IsList(<<x>>) /\ <<x>> # <<>> /\ Len(<<x>>) = 1 /\ <<x>>[1] = x
<1>1. <<x>> \in Seq({x})
  OBVIOUS
<1> QED
  BY <1>1, SequenceFacts

LEMMA PairAppended ==
  ASSUME NEW x, NEW y
  PROVE  Append(<<x>>, y) = <<x, y>>
<1> DEFINE S == {x, y}
           s == <<x>>
           t == Append(s, y)
           p == <<x, y>>
<1>1. s \in Seq(S) /\ Len(s) = 1 /\ s[1] = x /\ y \in S
  OBVIOUS
<1>2. p \in Seq(S) /\ Len(p) = 2 /\ p[1] = x /\ p[2] = y
  OBVIOUS
<1> HIDE DEF S, s, p
<1>3. /\ t \in Seq(S) /\ Len(t) = 2
      /\ \A i \in 1..1 : t[i] = s[i]
      /\ t[2] = y
  <2>0. s \in Seq(S) /\ y \in S
    BY <1>1
  <2>1. t \in Seq(S) /\ Len(t) = Len(s) + 1 /\ t[Len(s) + 1] = y
    BY <2>0, AppendProperties
  <2>2. \A i \in 1..Len(s) : t[i] = s[i]
    BY <1>1, AppendProperties
  <2> HIDE DEF t
  <2>3. 1 + 1 = 2
    OBVIOUS
  <2> QED
    BY <1>1, <2>1, <2>2, <2>3
<1> HIDE DEF t
<1>4. \A i \in 1..2 : i = 2 \/ i \in 1..1
  OBVIOUS
<1>5. \A i \in 1..Len(t) : t[i] = p[i]
  BY <1>1, <1>2, <1>3, <1>4
<1>6. t = p
  BY <1>2, <1>3, <1>5, SeqEqual
<1> QED
  BY <1>6 DEF t, p, s

\* The last of a sequence and one behind it.
LEMMA LastOfTwo ==
  ASSUME NEW s, NEW x, IsList(s)
  PROVE  (s \o <<x>>)[Len(s \o <<x>>)] = x
<1> DEFINE S == Members(s) \union {x}
           o == <<x>>
<1>1. s \in Seq(S) /\ o \in Seq(S) /\ Len(o) = 1 /\ o[1] = x
  <2>1. s \in Seq(S)
    BY SeqMonotonic DEF IsList
  <2>2. o \in Seq(S) /\ Len(o) = 1 /\ o[1] = x
    OBVIOUS
  <2> QED
    BY <2>1, <2>2
<1> HIDE DEF S, o
<1>2. Len(s \o o) = Len(s) + 1 /\ (s \o o)[Len(s) + 1] = x
  <2>1. Len(s) \in Nat /\ Len(s \o o) = Len(s) + Len(o) /\ 1 \in 1..Len(o)
        /\ \A i \in 1..Len(o) : (s \o o)[Len(s) + i] = o[i]
    <3>1. s \in Seq(S) /\ o \in Seq(S)
      BY <1>1
    <3>2. Len(s) \in Nat /\ 1 \in 1..Len(o)
      BY <1>1, LenProperties
    <3>3. Len(s \o o) = Len(s) + Len(o)
      BY <3>1, ConcatProperties
    <3>4. \A i \in 1..Len(o) : (s \o o)[Len(s) + i] = o[i]
      BY <3>1, ConcatFacts
    <3> QED
      BY <3>2, <3>3, <3>4
  <2> QED
    BY <1>1, <2>1
<1> QED
  BY <1>2 DEF o

-----------------------------------------------------------------------------
(* What a request leaves *)

\* A failed request has changed no object but one that it has set, to a value that
\* cannot be reported.
Contained(r, st, s) ==
  \A o \in Objects : st[o] # s[o] => st[o] \in Untellable /\ IsSetting(r, o, st[o])

\* An answer to a request is at most one reply, keeps the objects and a legal
\* userlevel, and says so when the request has failed.
Answered(r, a, s, l) ==
  /\ DOMAIN a.store = Objects
  /\ a.level \in Userlevels
  /\ a.output = <<>> \/ a.output = <<a.output[1]>>
  /\ a.output # <<>> /\ a.output[1].kind \in ErrorCodes => Contained(r, a.store, s) /\ a.level = l

LEMMA ErrorAnswered ==
  ASSUME NEW r, NEW code, NEW st, DOMAIN st = Objects, NEW s, NEW l \in Userlevels, Contained(r, st, s)
  PROVE  Answered(r, Error(code, st, l), s, l)
BY DEF Answered, Error, Result, Reply

LEMMA NothingChanged ==
  ASSUME NEW r, NEW s
  PROVE  Contained(r, s, s)
BY DEF Contained

LEMMA ReplyAnswered ==
  ASSUME NEW r, NEW kind, kind \notin ErrorCodes, NEW data, NEW st, DOMAIN st = Objects,
         NEW lv \in Userlevels, NEW s, NEW l
  PROVE  Answered(r, Result(Reply(kind, data), st, lv), s, l)
BY DEF Answered, Result, Reply

LEMMA NothingAnswered ==
  ASSUME NEW r, NEW s, NEW l \in Userlevels, DOMAIN s = Objects
  PROVE  Answered(r, Result(<<>>, s, l), s, l)
BY DEF Answered, Result

LEMMA Kinds == \A kind \in {"ok", "value", "values", "tree"} : kind \notin ErrorCodes
BY DEF ErrorCodes

\* Every operation answers so.
LEMMA AnswerIsAnswered ==
  ASSUME NEW r, NEW s, NEW l \in Userlevels, DOMAIN s = Objects
  PROVE  Answered(r, Answer(r, s, l), s, l)
<1>0. \A code : Answered(r, Error(code, s, l), s, l)
  BY ErrorAnswered, NothingChanged
<1>1. ASSUME NEW o, NEW v, r.op = "set", r.object = o, r.value = v
      PROVE  Answered(r, SetParameter(o, v, s, l), s, l)
  <2> DEFINE st == Stored(o, v, s)
  <2>1. DOMAIN st = Objects /\ \A x \in Objects : st[x] # s[x] => x = o /\ st[x] = v
    BY DEF Stored
  <2> HIDE DEF st
  <2>2. Answered(r, Result(Reply("ok", Nothing), st, l), s, l)
    BY <2>1, ReplyAnswered, Kinds
  <2>3. CASE IsUnreported(o, v, s)
    <3>1. Contained(r, st, s)
      BY <2>1, <2>3, <1>1 DEF Contained, IsSetting, IsUnreported
    <3>2. Answered(r, Error("invalid_value", st, l), s, l)
      BY <3>1, <2>1, ErrorAnswered
    <3> QED
      BY <3>2, <2>2, <1>0 DEF SetParameter, st
  <2>4. CASE ~IsUnreported(o, v, s)
    BY <2>4, <2>2, <1>0 DEF SetParameter, st
  <2> QED
    BY <2>3, <2>4
<1>2. ASSUME NEW o PROVE Answered(r, GetParameter(o, s, l), s, l)
  <2>1. Answered(r, Result(Reply("value", [x \in {o} |-> ValueOf(x, s)]), s, l), s, l)
    BY ReplyAnswered, Kinds
  <2> QED
    BY <2>1, <1>0 DEF GetParameter
<1>3. ASSUME NEW o PROVE Answered(r, SignalEvent(o, s, l), s, l)
  <2>1. DOMAIN Signalled(o, s) = Objects
    BY DEF Signalled
  <2>2. Answered(r, Result(Reply("ok", Nothing), Signalled(o, s), l), s, l)
    BY <2>1, ReplyAnswered, Kinds
  <2> QED
    BY <2>2, <1>0 DEF SignalEvent
<1>4. ASSUME NEW o PROVE Answered(r, Browse(o, s, l), s, l)
  <2>1. Answered(r, Result(Reply("values", [x \in Shown(o, l) |-> s[x]]), s, l), s, l)
    BY ReplyAnswered, Kinds
  <2> QED
    BY <2>1, <1>0 DEF Browse
<1>5. ASSUME NEW o PROVE Answered(r, Tree(o, s, l), s, l)
  <2>1. Answered(r, Result(Reply("tree", [x \in Visited(o, l) |-> Entry(x)]), s, l), s, l)
    BY ReplyAnswered, Kinds
  <2> QED
    BY <2>1, <1>0 DEF Tree
<1>6. ASSUME NEW ul PROVE Answered(r, ChangeUserlevel(ul, s, l), s, l)
  <2>1. ul \in Userlevels => Answered(r, Result(Reply("value", [x \in {NoObject} |-> ul]), s, ul), s, l)
    BY ReplyAnswered, Kinds
  <2> QED
    BY <2>1, <1>0 DEF ChangeUserlevel
<1>7. Answered(r, Result(Reply("value", [x \in {NoObject} |-> l]), s, l), s, l)
  BY ReplyAnswered, Kinds
<1> QED
  BY <1>0, <1>1, <1>2, <1>3, <1>4, <1>5, <1>6, <1>7, NothingAnswered DEF Answer

-----------------------------------------------------------------------------
(* The inductive invariant *)

\* Everything that a client has written or is owed is a sequence.
OutputOK ==
  /\ DOMAIN outbuf = Clients /\ DOMAIN sent = Clients /\ DOMAIN events = Clients
  /\ DOMAIN asked = Clients /\ DOMAIN consumed = Clients /\ DOMAIN seen = Clients
  /\ \A c \in Clients : IsList(outbuf[c]) /\ IsList(sent[c])

\* A context has an operation under way only while its socket is open, a client
\* that has not connected has no socket, and the greeting precedes every request.
ConnectionsOK ==
  \A c \in Clients :
    /\ peer[c] = "away" => socket[c] = "none"
    /\ operation[c] # "none" => socket[c] = "open"
    /\ socket[c] \in {"none", "pending"} => outbuf[c] = <<>> /\ sent[c] = <<>>
    /\ socket[c] = "open" => sent[c] \o outbuf[c] # <<>>

IInv == TypeOK /\ OutputOK /\ ConnectionsOK /\ EventsMatchConnections

LEMMA InitIInv == Init => IInv
<1> SUFFICES ASSUME Init PROVE IInv
  OBVIOUS
<1>1. \A S : <<>> \in Seq(S) /\ Len(<<>>) = 0
  BY EmptySeq
<1>2. TypeOK
  BY <1>1, ServerAssumption DEF Init, TypeOK
<1>3. OutputOK
  BY <1>1, SequenceFacts DEF Init, OutputOK
<1>4. ConnectionsOK /\ EventsMatchConnections
  BY DEF Init, ConnectionsOK, EventsMatchConnections
<1> QED
  BY <1>2, <1>3, <1>4 DEF IInv

\* What a request does to the state of its client and to the objects.
LEMMA ReadHandlerFacts ==
  ASSUME IInv, NEW c \in Clients, ReadHandler(c)
  PROVE  \E out :
           /\ IsList(out)
           /\ outbuf' = [outbuf EXCEPT ![c] = @ \o out]
           /\ DOMAIN store' = Objects /\ level' \in [Clients -> Userlevels]
           /\ out = <<>> \/ out = <<out[1]>>
           /\ out # <<>> /\ out[1].kind \in ErrorCodes =>
                Contained(asked[c][consumed'[c]], store', store) /\ level' = level
<1> DEFINE r == asked[c][consumed[c] + 1]
           a == Answer(r, store, level[c])
<1>1. DOMAIN store = Objects /\ level \in [Clients -> Userlevels]
  BY DEF IInv, TypeOK
<1>2. Answered(r, a, store, level[c])
  BY <1>1, AnswerIsAnswered
<1>3. /\ store' = a.store /\ level' = [level EXCEPT ![c] = a.level]
      /\ outbuf' = [outbuf EXCEPT ![c] = @ \o a.output]
      /\ asked[c][consumed'[c]] = r
  BY DEF ReadHandler, IInv, OutputOK
<1> HIDE DEF a, r
<1>4. IsList(a.output)
  BY <1>2, OneReply, EmptySeq, SequenceFacts DEF Answered
<1>5. DOMAIN store' = Objects /\ level' \in [Clients -> Userlevels]
  BY <1>1, <1>2, <1>3 DEF Answered
<1>6. a.level = level[c] => level' = level
  BY <1>1, <1>3
<1> QED
  BY <1>2, <1>3, <1>4, <1>5, <1>6 DEF Answered

LEMMA TypeNext ==
  ASSUME IInv, [Next]_vars
  PROVE  TypeOK'
<1>1. TypeOK /\ OutputOK /\ ConnectionsOK
  BY DEF IInv
<1>2. CASE UNCHANGED vars
  BY <1>1, <1>2 DEF vars, TypeOK
<1>3. CASE AcceptError
  BY <1>1, <1>3 DEF AcceptError, TypeOK
<1>4. ASSUME NEW c \in Clients, Connect(c) PROVE TypeOK'
  BY <1>1, <1>4 DEF Connect, TypeOK
<1>5. ASSUME NEW c \in Clients, Leave(c) PROVE TypeOK'
  BY <1>1, <1>5 DEF Leave, TypeOK, serverVars
<1>6. ASSUME NEW c \in Clients, Receive(c) PROVE TypeOK'
  <2>1. Len(sent[c]) \in Nat /\ seen[c] \in 0..Len(sent[c]) /\ seen[c] < Len(sent[c])
    BY <1>1, <1>6, LenProperties DEF Receive, OutputOK, TypeOK, IsList
  <2>2. seen[c] + 1 \in 0..Len(sent[c])
    BY <2>1
  <2> QED
    BY <1>1, <1>6, <2>2 DEF Receive, TypeOK, OutputOK, serverVars
<1>7. ASSUME NEW c \in Clients, NEW r \in Requests[c], Send(c, r) PROVE TypeOK'
  <2>1. asked[c] \in Seq(Requests[c]) /\ consumed[c] \in 0..Len(asked[c])
    BY <1>1 DEF TypeOK
  <2> DEFINE b == Append(asked[c], r)
  <2>2. b \in Seq(Requests[c]) /\ consumed[c] \in 0..Len(b)
    <3> DEFINE R == Requests[c]
               a == asked[c]
    <3>1. r \in R /\ a \in Seq(R) /\ consumed[c] \in 0..Len(a)
      BY <2>1
    <3> HIDE DEF R, a
    <3>2. b \in Seq(R) /\ Len(b) = Len(a) + 1
      BY <3>1, AppendProperties DEF a
    <3> HIDE DEF b
    <3>3. Len(a) \in Nat
      BY <3>1, LenProperties
    <3> QED
      BY <3>1, <3>2, <3>3 DEF R
  <2> QED
    BY <1>1, <1>7, <2>2 DEF Send, TypeOK, OutputOK, serverVars
<1>8. ASSUME NEW c \in Clients, Accept(c) PROVE TypeOK'
  <2>1. Append(events[c], TRUE) \in Seq(BOOLEAN)
    BY <1>1, AppendProperties DEF TypeOK
  <2> QED
    BY <1>1, <1>8, <2>1 DEF Accept, TypeOK, OutputOK
<1>9. ASSUME NEW c \in Clients, WriteHandler(c) PROVE TypeOK'
  <2> DEFINE w == sent[c] \o outbuf[c]
  <2>1. seen[c] \in 0..Len(w)
    <3>1. /\ Len(w) = Len(sent[c]) + Len(outbuf[c])
          /\ Len(sent[c]) \in Nat /\ Len(outbuf[c]) \in Nat
      BY <1>1, ConcatSequence DEF OutputOK
    <3>2. seen[c] \in 0..Len(sent[c])
      BY <1>1 DEF TypeOK
    <3>3. \A m, n \in Nat : \A k \in 0..m : k \in 0..(m + n)
      OBVIOUS
    <3>4. seen[c] \in 0..(Len(sent[c]) + Len(outbuf[c]))
      BY <3>1, <3>2, <3>3
    <3> HIDE DEF w
    <3> QED
      BY <3>1, <3>4
  <2> QED
    BY <1>1, <1>9, <2>1 DEF WriteHandler, TypeOK, OutputOK
<1>10. ASSUME NEW c \in Clients, ReadHandler(c) PROVE TypeOK'
  <2>1. DOMAIN store' = Objects /\ level' \in [Clients -> Userlevels]
    BY <1>10, ReadHandlerFacts
  <2>2. consumed[c] + 1 \in 0..Len(asked[c])
    <3>1. consumed[c] \in 0..Len(asked[c]) /\ Len(asked[c]) \in Nat /\ consumed[c] < Len(asked[c])
      BY <1>1, <1>10, LenProperties DEF TypeOK, ReadHandler
    <3> QED
      BY <3>1
  <2> QED
    BY <1>1, <1>10, <2>1, <2>2 DEF ReadHandler, TypeOK, OutputOK
<1>11. ASSUME NEW c \in Clients, WriteError(c) \/ ReadError(c) PROVE TypeOK'
  <2>1. Append(events[c], FALSE) \in Seq(BOOLEAN)
    BY <1>1, AppendProperties DEF TypeOK
  <2>2. Disconnect(c) /\ running' = running
    BY <1>11 DEF WriteError, ReadError, Disconnect
  <2> QED
    BY <1>1, <2>1, <2>2 DEF Disconnect, TypeOK, OutputOK
<1> QED
  BY <1>2, <1>3, <1>4, <1>5, <1>6, <1>7, <1>8, <1>9, <1>10, <1>11 DEF Next, Handlers

LEMMA OutputNext ==
  ASSUME IInv, [Next]_vars
  PROVE  OutputOK'
<1>1. TypeOK /\ OutputOK /\ ConnectionsOK
  BY DEF IInv
<1>2. ASSUME UNCHANGED <<outbuf, sent, events, asked, consumed, seen>> PROVE OutputOK'
  BY <1>1, <1>2 DEF OutputOK
<1>3. CASE UNCHANGED vars \/ AcceptError
  BY <1>2, <1>3 DEF AcceptError, vars
<1>4. ASSUME NEW c \in Clients, Connect(c) \/ Leave(c) PROVE OutputOK'
  BY <1>2, <1>4 DEF Connect, Leave, serverVars
<1>5. ASSUME NEW c \in Clients, Receive(c) PROVE OutputOK'
  BY <1>1, <1>5 DEF Receive, OutputOK, serverVars
<1>6. ASSUME NEW c \in Clients, NEW r \in Requests[c], Send(c, r) PROVE OutputOK'
  BY <1>1, <1>6 DEF Send, OutputOK, serverVars
<1>7. ASSUME NEW c \in Clients, Accept(c) PROVE OutputOK'
  <2>1. outbuf[c] = <<>>
    BY <1>1, <1>7 DEF Accept, ConnectionsOK
  <2>2. Append(outbuf[c], Greeting) = <<Greeting>>
    BY <2>1
  <2>3. IsList(Append(outbuf[c], Greeting))
    BY <2>2, OneReply
  <2> QED
    BY <1>1, <1>7, <2>3 DEF Accept, OutputOK
<1>8. ASSUME NEW c \in Clients, WriteHandler(c) PROVE OutputOK'
  <2>1. IsList(sent[c] \o outbuf[c]) /\ IsList(<<>>)
    BY <1>1, ConcatSequence, ConcatEmpty DEF OutputOK
  <2> QED
    BY <1>1, <1>8, <2>1 DEF WriteHandler, OutputOK
<1>9. ASSUME NEW c \in Clients, ReadHandler(c) PROVE OutputOK'
  <2>1. PICK out : IsList(out) /\ outbuf' = [outbuf EXCEPT ![c] = @ \o out]
    BY <1>9, ReadHandlerFacts
  <2>2. IsList(outbuf[c] \o out)
    BY <1>1, <2>1, ConcatSequence DEF OutputOK
  <2> QED
    BY <1>1, <1>9, <2>1, <2>2 DEF ReadHandler, OutputOK
<1>10. ASSUME NEW c \in Clients, WriteError(c) \/ ReadError(c) PROVE OutputOK'
  BY <1>1, <1>10 DEF WriteError, ReadError, Disconnect, OutputOK
<1> QED
  BY <1>3, <1>4, <1>5, <1>6, <1>7, <1>8, <1>9, <1>10 DEF Next, Handlers

LEMMA ConnectionsNext ==
  ASSUME IInv, [Next]_vars
  PROVE  ConnectionsOK' /\ EventsMatchConnections'
<1>1. TypeOK /\ OutputOK /\ ConnectionsOK /\ EventsMatchConnections
  BY DEF IInv
<1>2. ASSUME UNCHANGED <<peer, socket, operation, outbuf, sent, events>>
      PROVE  ConnectionsOK' /\ EventsMatchConnections'
  BY <1>1, <1>2 DEF ConnectionsOK, EventsMatchConnections
<1>3. CASE UNCHANGED vars \/ AcceptError
  BY <1>2, <1>3 DEF AcceptError, vars
<1>4. ASSUME NEW c \in Clients, Receive(c) \/ \E r \in Requests[c] : Send(c, r)
      PROVE  ConnectionsOK' /\ EventsMatchConnections'
  BY <1>2, <1>4 DEF Receive, Send, serverVars
<1>5. ASSUME NEW c \in Clients, Connect(c) PROVE ConnectionsOK' /\ EventsMatchConnections'
  <2>1. socket[c] = "none"
    BY <1>1, <1>5 DEF Connect, ConnectionsOK
  <2> QED
    BY <1>1, <1>5, <2>1 DEF Connect, TypeOK, ConnectionsOK, EventsMatchConnections
<1>6. ASSUME NEW c \in Clients, Leave(c) PROVE ConnectionsOK' /\ EventsMatchConnections'
  BY <1>1, <1>6 DEF Leave, serverVars, TypeOK, ConnectionsOK, EventsMatchConnections
<1>7. ASSUME NEW c \in Clients, Accept(c) PROVE ConnectionsOK' /\ EventsMatchConnections'
  <2>1. outbuf[c] = <<>> /\ sent[c] = <<>> /\ events[c] = <<>> /\ peer[c] # "away"
    BY <1>1, <1>7 DEF Accept, ConnectionsOK, EventsMatchConnections
  <2>2. Append(outbuf[c], Greeting) = <<Greeting>> /\ Append(events[c], TRUE) = <<TRUE>>
    BY <2>1
  <2>3. sent[c] \o <<Greeting>> # <<>>
    BY <2>1, OneReply, ConcatEmpty
  <2>4. EventsMatchConnections'
    BY <1>1, <1>7, <2>2 DEF Accept, TypeOK, OutputOK, EventsMatchConnections
  <2>5. ConnectionsOK'
    BY <1>1, <1>7, <2>1, <2>2, <2>3 DEF Accept, TypeOK, OutputOK, ConnectionsOK
  <2> QED
    BY <2>4, <2>5
<1>8. ASSUME NEW c \in Clients, WriteHandler(c) PROVE ConnectionsOK' /\ EventsMatchConnections'
  <2>1. socket[c] = "open" /\ sent[c] \o outbuf[c] # <<>> /\ (sent[c] \o outbuf[c]) \o <<>> # <<>>
    <3>1. socket[c] = "open" /\ sent[c] \o outbuf[c] # <<>>
      BY <1>1, <1>8 DEF WriteHandler, ConnectionsOK
    <3>2. IsList(sent[c] \o outbuf[c])
      BY <1>1, ConcatSequence DEF OutputOK
    <3> QED
      BY <3>1, <3>2, ConcatEmpty
  <2>2. EventsMatchConnections'
    BY <1>1, <1>8 DEF WriteHandler, EventsMatchConnections
  <2>3. ConnectionsOK'
    BY <1>1, <1>8, <2>1 DEF WriteHandler, TypeOK, OutputOK, ConnectionsOK
  <2> QED
    BY <2>2, <2>3
<1>9. ASSUME NEW c \in Clients, ReadHandler(c) PROVE ConnectionsOK' /\ EventsMatchConnections'
  <2>1. PICK out : IsList(out) /\ outbuf' = [outbuf EXCEPT ![c] = @ \o out]
    BY <1>9, ReadHandlerFacts
  <2>2. socket[c] = "open" /\ sent[c] \o (outbuf[c] \o out) # <<>>
    <3>1. socket[c] = "open" /\ sent[c] \o outbuf[c] # <<>>
      BY <1>1, <1>9 DEF ReadHandler, ConnectionsOK
    <3>2. IsList(sent[c]) /\ IsList(outbuf[c])
      BY <1>1 DEF OutputOK
    <3>3. IsList(outbuf[c] \o out)
      BY <2>1, <3>2, ConcatSequence
    <3>4. outbuf[c] \o out = <<>> => outbuf[c] = <<>>
      BY <2>1, <3>2, ConcatSequence
    <3>5. sent[c] \o (outbuf[c] \o out) = <<>> => sent[c] = <<>> /\ outbuf[c] \o out = <<>>
      BY <3>2, <3>3, ConcatSequence
    <3>6. sent[c] = <<>> /\ outbuf[c] = <<>> => sent[c] \o outbuf[c] = <<>>
      BY <3>2, ConcatSequence
    <3> QED
      BY <3>1, <3>4, <3>5, <3>6
  <2>3. EventsMatchConnections'
    BY <1>1, <1>9 DEF ReadHandler, EventsMatchConnections
  <2>4. ConnectionsOK'
    BY <1>1, <1>9, <2>1, <2>2 DEF ReadHandler, TypeOK, OutputOK, ConnectionsOK
  <2> QED
    BY <2>3, <2>4
<1>10. ASSUME NEW c \in Clients, WriteError(c) \/ ReadError(c)
       PROVE  ConnectionsOK' /\ EventsMatchConnections'
  <2>1. operation[c] # "none" /\ socket[c] = "open" /\ peer[c] # "away" /\ events[c] = <<TRUE>>
    BY <1>1, <1>10 DEF WriteError, ReadError, ConnectionsOK, EventsMatchConnections
  <2>2. Append(events[c], FALSE) = <<TRUE, FALSE>>
    <3> QED
      BY <2>1, PairAppended
  <2>3. Disconnect(c)
    BY <1>10 DEF WriteError, ReadError
  <2>4. EventsMatchConnections'
    BY <1>1, <2>2, <2>3 DEF Disconnect, TypeOK, OutputOK, EventsMatchConnections
  <2>5. ConnectionsOK'
    BY <1>1, <2>1, <2>3 DEF Disconnect, TypeOK, OutputOK, ConnectionsOK
  <2> QED
    BY <2>4, <2>5
<1> QED
  BY <1>3, <1>4, <1>5, <1>6, <1>7, <1>8, <1>9, <1>10 DEF Next, Handlers

LEMMA Invariance == Spec => []IInv
<1>1. IInv /\ [Next]_vars => IInv'
  BY TypeNext, OutputNext, ConnectionsNext DEF IInv
<1> QED
  BY <1>1, InitIInv, PTL DEF Spec

\* Everything has its type, so that no request leaves an object without a value, a
\* context a userlevel that is none, or a prompt that counts as read before it was
\* written.
THEOREM TypeCorrect == Spec => []TypeOK
<1>1. IInv => TypeOK
  BY DEF IInv
<1> QED
  BY <1>1, Invariance, PTL

\* connect_event_cb_ hears of every connection once and of its end once, whichever
\* handler notices that the client is gone.
THEOREM ConnectionsAreReported == Spec => []EventsMatchConnections
<1>1. IInv => EventsMatchConnections
  BY DEF IInv
<1> QED
  BY <1>1, Invariance, PTL

\* Whatever the request and whoever makes it: one that is answered with an error has
\* changed no userlevel, and no object but the parameter it was to set, which has
\* then taken a value that emit() cannot convert.
THEOREM ErrorsAreContained == Spec => ErrorIsContained
<1> DEFINE A == \A c \in Clients :
                  outbuf'[c] # outbuf[c] /\ outbuf'[c] # <<>> /\ outbuf'[c][Len(outbuf'[c])].kind \in ErrorCodes =>
                    /\ level' = level
                    /\ \A o \in Objects :
                         store'[o] # store[o] =>
                           store'[o] \in Untellable /\ IsSetting(asked[c][consumed'[c]], o, store'[o])
<1>1. IInv /\ [Next]_vars => [A]_vars
  <2> SUFFICES ASSUME IInv, Next PROVE A
    OBVIOUS
  <2>1. OutputOK
    BY DEF IInv
  <2>2. CASE UNCHANGED <<store, level>>
    BY <2>2
  <2>3. ASSUME NEW c \in Clients, ReadHandler(c) PROVE A
    <3>1. PICK out : /\ IsList(out)
                     /\ outbuf' = [outbuf EXCEPT ![c] = @ \o out]
                     /\ out = <<>> \/ out = <<out[1]>>
                     /\ out # <<>> /\ out[1].kind \in ErrorCodes =>
                          Contained(asked[c][consumed'[c]], store', store) /\ level' = level
      BY <2>3, ReadHandlerFacts
    <3>2. \A d \in Clients \ {c} : outbuf'[d] = outbuf[d]
      BY <2>1, <3>1 DEF OutputOK
    <3>3. outbuf'[c] = outbuf[c] \o out /\ IsList(outbuf[c])
      BY <2>1, <3>1 DEF OutputOK
    <3>4. CASE out = <<>>
      <4>1. outbuf'[c] = outbuf[c]
        BY <3>3, <3>4, ConcatEmpty
      <4> QED
        BY <3>2, <4>1
    <3>5. CASE out # <<>>
      <4> DEFINE x == out[1]
      <4>1. out = <<x>>
        BY <3>1, <3>5
      <4> HIDE DEF x
      <4>2. (outbuf[c] \o <<x>>)[Len(outbuf[c] \o <<x>>)] = x
        BY <3>3, LastOfTwo
      <4>3. outbuf'[c][Len(outbuf'[c])] = x
        BY <3>3, <4>1, <4>2
      <4>4. x.kind \in ErrorCodes => Contained(asked[c][consumed'[c]], store', store) /\ level' = level
        BY <3>1, <3>5 DEF x
      <4>5. outbuf'[c][Len(outbuf'[c])].kind \in ErrorCodes =>
              Contained(asked[c][consumed'[c]], store', store) /\ level' = level
        BY <4>3, <4>4
      <4> QED
        BY <3>2, <4>5 DEF Contained
    <3> QED
      BY <3>4, <3>5
  <2>4. Next => UNCHANGED <<store, level>> \/ \E c \in Clients : ReadHandler(c)
    BY DEF Next, Handlers, AcceptError, Connect, Leave, Receive, Send, Accept, WriteHandler,
           WriteError, ReadError, Disconnect, serverVars
  <2> HIDE DEF A
  <2> QED
    BY <2>2, <2>3, <2>4
<1> QED
  BY <1>1, Invariance, PTL DEF Spec, ErrorIsContained

-----------------------------------------------------------------------------
(* Refinement of RequestReply *)

\* The parts of an answer are the same in both modules.
LEMMA SameParts ==
  /\ \A k, d : Promised!Reply(k, d) = Reply(k, d)
  /\ \A o, st, lv : Promised!Result(o, st, lv) = Result(o, st, lv)
  /\ \A code, st, lv : Promised!Error(code, st, lv) = Error(code, st, lv)
  /\ Promised!Nothing = Nothing /\ Promised!Readonly = Readonly
  /\ Promised!Writable = Writable /\ Promised!Readable = Readable
  /\ Promised!Userlevels = Userlevels
  /\ \A o, kinds : Promised!Is(o, kinds) = Is(o, kinds)
  /\ \A o : Promised!IsMissing(o) = IsMissing(o) /\ Promised!ErrorOf(o) = ErrorOf(o)
  /\ \A o, st : Promised!IsUnreadable(o, st) = IsUnreadable(o, st)
  /\ \A lv : Promised!EffectiveUserlevel(lv) = EffectiveUserlevel(lv)
<1>1. \A k, d : Promised!Reply(k, d) = Reply(k, d)
  BY DEF Promised!Reply, Reply
<1>2. \A o, st, lv : Promised!Result(o, st, lv) = Result(o, st, lv)
  BY DEF Promised!Result, Result
<1>3. Promised!Nothing = Nothing /\ Promised!Readonly = Readonly /\ Promised!Userlevels = Userlevels
  BY DEF Promised!Nothing, Nothing, Promised!Readonly, Readonly, Promised!Maximum, Maximum,
         Promised!Userlevels, Userlevels, Promised!Minimum, Minimum
<1>4. Promised!Writable = Writable /\ Promised!Readable = Readable
  BY DEF Promised!Writable, Writable, Promised!Readable, Readable
<1>5. \A code, st, lv : Promised!Error(code, st, lv) = Error(code, st, lv)
  BY <1>1, <1>2, <1>3 DEF Promised!Error, Error
<1>6. \A o, kinds : Promised!Is(o, kinds) = Is(o, kinds)
  BY DEF Promised!Is, Is
<1>7. \A o : Promised!IsMissing(o) = IsMissing(o)
  BY DEF Promised!IsMissing, IsMissing, Promised!External, External
<1>8. \A lv : Promised!EffectiveUserlevel(lv) = EffectiveUserlevel(lv)
  BY <1>3 DEF Promised!EffectiveUserlevel, EffectiveUserlevel, Promised!Normal, Normal
<1>9. \A o : Promised!ErrorOf(o) = ErrorOf(o)
  BY <1>7 DEF Promised!ErrorOf, ErrorOf
<1>10. \A o, st : Promised!IsUnreadable(o, st) = IsUnreadable(o, st)
  BY <1>7 DEF Promised!IsUnreadable, IsUnreadable
<1> QED
  BY <1>1, <1>2, <1>3, <1>4, <1>5, <1>6, <1>7, <1>8, <1>9, <1>10

\* A request has the same answer and leaves the same state.
LEMMA SameAnswer ==
  ASSUME NEW r, NEW s, NEW l
  PROVE  Promised!Answer(r, s, l) = Answer(r, s, l)
<1>1. ASSUME NEW o, NEW v PROVE Promised!SetParameter(o, v, s, l) = SetParameter(o, v, s, l)
  <2>1. Promised!IsIgnored(o, v) = IsIgnored(o, v)
    BY DEF Promised!IsIgnored, IsIgnored
  <2>2. Promised!Stored(o, v, s) = Stored(o, v, s)
    BY <2>1 DEF Promised!Stored, Stored
  <2>3. Promised!IsRefused(o, v, s) = IsRefused(o, v, s)
    BY DEF Promised!IsRefused, IsRefused
  <2>4. Promised!IsUnreported(o, v, s) = IsUnreported(o, v, s)
    BY <2>1 DEF Promised!IsUnreported, IsUnreported
  <2> QED
    BY <2>2, <2>3, <2>4, SameParts DEF Promised!SetParameter, SetParameter
<1>2. ASSUME NEW o PROVE Promised!GetParameter(o, s, l) = GetParameter(o, s, l)
  <2>1. \A x : Promised!ValueOf(x, s) = ValueOf(x, s)
    BY DEF Promised!ValueOf, ValueOf
  <2>2. [x \in {o} |-> Promised!ValueOf(x, s)] = [x \in {o} |-> ValueOf(x, s)]
    BY <2>1
  <2> QED
    BY <2>2, SameParts DEF Promised!GetParameter, GetParameter
<1>3. ASSUME NEW o PROVE Promised!SignalEvent(o, s, l) = SignalEvent(o, s, l)
  <2>1. Promised!Signalled(o, s) = Signalled(o, s)
    BY DEF Promised!Signalled, Signalled
  <2> QED
    BY <2>1, SameParts DEF Promised!SignalEvent, SignalEvent
<1>4. ASSUME NEW o PROVE Promised!Visited(o, l) = Visited(o, l)
  <2> DEFINE Reached(reading) ==
               LET Below[x \in Objects] ==
                     {x} \union UNION {Below[c] : c \in {y \in Children[x] : reading <= Readlevel[y]}}
               IN Below[o]
  <2>1. Promised!Visited(o, l) = Reached(Promised!EffectiveUserlevel(l))
    BY DEF Promised!Visited
  <2>2. Visited(o, l) = Reached(EffectiveUserlevel(l))
    BY DEF Visited
  <2>3. Promised!EffectiveUserlevel(l) = EffectiveUserlevel(l)
    BY SameParts
  <2> HIDE DEF Reached
  <2> QED
    BY <2>1, <2>2, <2>3
<1>5. ASSUME NEW o PROVE Promised!Browse(o, s, l) = Browse(o, s, l)
  <2>1. Promised!Shown(o, l) = Shown(o, l)
    BY <1>4, SameParts DEF Promised!Shown, Shown
  <2> DEFINE U == {x \in Shown(o, l) : IsUnreadable(x, s)}
             V == {x \in Promised!Shown(o, l) : Promised!IsUnreadable(x, s)}
  <2>2. U = V
    BY <2>1, SameParts
  <2>3. Promised!First(U) = First(U)
    BY DEF Promised!First, First
  <2>4. Browse(o, s, l) =
          IF o = NoObject THEN Error("invalid_parameter", s, l)
          ELSE IF U # {} THEN Error(ErrorOf(First(U)), s, l)
          ELSE Result(Reply("values", [x \in Shown(o, l) |-> s[x]]), s, l)
    BY DEF Browse
  <2>5. Promised!Browse(o, s, l) =
          IF o = NoObject THEN Promised!Error("invalid_parameter", s, l)
          ELSE IF V # {} THEN Promised!Error(Promised!ErrorOf(Promised!First(V)), s, l)
          ELSE Promised!Result(Promised!Reply("values", [x \in Promised!Shown(o, l) |-> s[x]]), s, l)
    BY DEF Promised!Browse
  <2> HIDE DEF U, V
  <2>6. Promised!First(V) = First(U)
    BY <2>2, <2>3
  <2> QED
    BY <2>1, <2>2, <2>4, <2>5, <2>6, SameParts
<1>6. ASSUME NEW o PROVE Promised!Tree(o, s, l) = Tree(o, s, l)
  <2>1. \A x : Promised!Entry(x) = Entry(x)
    BY DEF Promised!Entry, Entry, Promised!Access, Access, Promised!Forbidden, Forbidden
  <2>2. [x \in Visited(o, l) |-> Promised!Entry(x)] = [x \in Visited(o, l) |-> Entry(x)]
    BY <2>1
  <2> QED
    BY <1>4, <2>2, SameParts DEF Promised!Tree, Tree
<1>7. ASSUME NEW ul PROVE Promised!ChangeUserlevel(ul, s, l) = ChangeUserlevel(ul, s, l)
  BY SameParts DEF Promised!ChangeUserlevel, ChangeUserlevel
<1> QED
  BY <1>1, <1>2, <1>3, <1>5, <1>6, <1>7, SameParts DEF Promised!Answer, Answer

\* What the server owes and has sent, to each client in one sequence.
Replies == [c \in Clients |-> sent[c] \o outbuf[c]]

LEMMA InitRefines == Init => Promised!Init
<1> SUFFICES ASSUME Init PROVE Promised!Init
  OBVIOUS
<1>1. <<>> \o <<>> = <<>>
  BY ConcatEmptySeq, EmptySeq
<1>2. \A c \in Clients : sent[c] \o outbuf[c] = <<>>
  BY <1>1 DEF Init
<1> QED
  BY <1>2 DEF Init, Promised!Init

\* A step that neither writes nor sends leaves the replies alone.
LEMMA StepRefines ==
  ASSUME IInv, [Next]_vars
  PROVE  [Promised!Next]_(Promised!vars)
<1>1. TypeOK /\ OutputOK /\ ConnectionsOK
  BY DEF IInv
<1>2. ASSUME UNCHANGED <<outbuf, sent>> PROVE Replies' = Replies
  BY <1>2 DEF Replies
<1>3. ASSUME UNCHANGED <<asked, consumed, seen, store, level>>, Replies' = Replies
      PROVE  UNCHANGED Promised!vars
  BY <1>3 DEF Promised!vars, Replies
<1>4. CASE UNCHANGED vars \/ AcceptError
  BY <1>2, <1>3, <1>4 DEF vars, AcceptError
<1>5. ASSUME NEW c \in Clients, Connect(c) \/ Leave(c) \/ WriteError(c) \/ ReadError(c)
      PROVE  UNCHANGED Promised!vars
  BY <1>2, <1>3, <1>5 DEF Connect, Leave, WriteError, ReadError, Disconnect, serverVars
<1>6. ASSUME NEW c \in Clients, NEW r \in Requests[c], Send(c, r) PROVE Promised!Ask(c, r)
  <2>1. Replies' = Replies
    BY <1>2, <1>6 DEF Send, serverVars
  <2> QED
    BY <1>6, <2>1 DEF Send, serverVars, Promised!Ask, Replies
<1>7. ASSUME NEW c \in Clients, Receive(c) PROVE Promised!See(c)
  <2>1. Replies' = Replies
    BY <1>2, <1>7 DEF Receive, serverVars
  <2>2. seen[c] < Len(Replies[c])
    <3>1. /\ Len(Replies[c]) = Len(sent[c]) + Len(outbuf[c])
          /\ Len(sent[c]) \in Nat /\ Len(outbuf[c]) \in Nat
      BY <1>1, ConcatSequence DEF OutputOK, Replies
    <3>2. seen[c] \in 0..Len(sent[c]) /\ seen[c] < Len(sent[c])
      BY <1>1, <1>7 DEF TypeOK, Receive
    <3>3. \A m, n \in Nat : \A k \in 0..m : k < m => k < m + n
      OBVIOUS
    <3>4. seen[c] < Len(sent[c]) + Len(outbuf[c])
      BY <3>1, <3>2, <3>3
    <3> QED
      BY <3>1, <3>4
  <2> QED
    BY <1>7, <2>1, <2>2 DEF Receive, serverVars, Promised!See, Replies
<1>8. ASSUME NEW c \in Clients, Accept(c) PROVE Promised!Greet(c)
  <2>1. outbuf[c] = <<>> /\ sent[c] = <<>>
    BY <1>1, <1>8 DEF Accept, ConnectionsOK
  <2>2. Append(outbuf[c], Greeting) = <<Greeting>> /\ <<>> \o <<Greeting>> = <<Greeting>> /\ <<>> \o <<>> = <<>>
    BY <2>1, OneReply, ConcatEmpty
  <2>3. Replies[c] = <<>>
    BY <2>1, <2>2 DEF Replies
  <2>4. Replies' = [Replies EXCEPT ![c] = <<Greeting>>]
    BY <1>1, <1>8, <2>1, <2>2 DEF Accept, OutputOK, Replies
  <2> QED
    BY <1>8, <2>3, <2>4 DEF Accept, Promised!Greet, Replies
<1>9. ASSUME NEW c \in Clients, WriteHandler(c) PROVE UNCHANGED Promised!vars
  <2>1. (sent[c] \o outbuf[c]) \o <<>> = sent[c] \o outbuf[c]
    BY <1>1, ConcatSequence, ConcatEmpty DEF OutputOK
  <2>2. /\ sent' = [sent EXCEPT ![c] = sent[c] \o outbuf[c]] /\ outbuf' = [outbuf EXCEPT ![c] = <<>>]
        /\ DOMAIN sent = Clients /\ DOMAIN outbuf = Clients
    BY <1>1, <1>9 DEF WriteHandler, OutputOK
  <2>3. ASSUME NEW d \in Clients PROVE sent'[d] \o outbuf'[d] = sent[d] \o outbuf[d]
    <3>1. CASE d = c
      <4>1. sent'[d] = sent[d] \o outbuf[d] /\ outbuf'[d] = <<>>
        BY <2>2, <3>1
      <4> QED
        BY <2>1, <3>1, <4>1
    <3>2. CASE d # c
      <4>1. sent'[d] = sent[d] /\ outbuf'[d] = outbuf[d]
        BY <2>2, <3>2
      <4> QED
        BY <4>1
    <3> QED
      BY <3>1, <3>2
  <2>4. Replies' = Replies
    BY <2>3 DEF Replies
  <2> QED
    BY <1>3, <1>9, <2>4 DEF WriteHandler
<1>10. ASSUME NEW c \in Clients, ReadHandler(c) PROVE Promised!Serve(c)
  <2> DEFINE a == Answer(asked[c][consumed[c] + 1], store, level[c])
  <2>1. /\ store' = a.store /\ level' = [level EXCEPT ![c] = a.level]
        /\ outbuf' = [outbuf EXCEPT ![c] = @ \o a.output]
    BY <1>10 DEF ReadHandler
  <2>2. a = Promised!Answer(asked[c][consumed[c] + 1], store, level[c])
    BY SameAnswer
  <2>3. IsList(a.output)
    <3>1. Answered(asked[c][consumed[c] + 1], a, store, level[c])
      BY <1>1, AnswerIsAnswered DEF TypeOK
    <3> HIDE DEF a
    <3> QED
      BY <3>1, OneReply, EmptySeq, SequenceFacts DEF Answered
  <2> HIDE DEF a
  <2>4. sent[c] \o (outbuf[c] \o a.output) = (sent[c] \o outbuf[c]) \o a.output
    <3> DEFINE s == sent[c]
               t == outbuf[c]
               u == a.output
    <3>1. IsList(s) /\ IsList(t) /\ IsList(u)
      BY <1>1, <2>3 DEF OutputOK
    <3> HIDE DEF s, t, u
    <3>2. (s \o t) \o u = s \o (t \o u)
      BY <3>1, ConcatThree
    <3> QED
      BY <3>2 DEF s, t, u
  <2>5. Replies' = [Replies EXCEPT ![c] = @ \o a.output]
    <3>1. sent' = sent /\ DOMAIN outbuf = Clients /\ DOMAIN Replies = Clients
      BY <1>1, <1>10 DEF ReadHandler, OutputOK, Replies
    <3>2. Replies'[c] = Replies[c] \o a.output
      <4>1. outbuf'[c] = outbuf[c] \o a.output
        BY <2>1, <3>1
      <4>2. Replies'[c] = sent'[c] \o outbuf'[c] /\ Replies[c] = sent[c] \o outbuf[c]
        BY DEF Replies
      <4> HIDE DEF Replies
      <4> QED
        BY <2>4, <3>1, <4>1, <4>2
    <3>3. \A d \in Clients \ {c} : Replies'[d] = Replies[d]
      BY <2>1, <3>1 DEF Replies
    <3>4. Replies' = [d \in Clients |-> Replies'[d]]
      BY DEF Replies
    <3> HIDE DEF Replies
    <3> QED
      BY <3>1, <3>2, <3>3, <3>4
  <2>6. Replies[c] # <<>>
    BY <1>1, <1>10 DEF ReadHandler, ConnectionsOK, Replies
  <2> QED
    BY <1>10, <2>1, <2>2, <2>5, <2>6 DEF ReadHandler, Promised!Serve, Replies
<1> QED
  BY <1>4, <1>5, <1>6, <1>7, <1>8, <1>9, <1>10 DEF Next, Handlers, Promised!Next

\* The server keeps what the request/response model promises: each client is
\* greeted, its requests take effect one by one in their order, each at once on what
\* all before it left, and are answered in that order, although lines come ahead,
\* the clients' handlers alternate and output waits for slow clients.
THEOREM KeepsItsPromise == Spec => ImplementsRequestReply
<1>1. Init => Promised!Init
  BY InitRefines
<1>2. IInv /\ [Next]_vars => [Promised!Next]_(Promised!vars)
  BY StepRefines
<1> QED
  BY <1>1, <1>2, Invariance, PTL DEF Spec, ImplementsRequestReply, Promised!Spec
=============================================================================
