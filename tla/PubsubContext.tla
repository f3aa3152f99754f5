--------------------------- MODULE PubsubContext ---------------------------
(***************************************************************************)
(* One decof::cli::pubsub_context: a TCP connection on which a client      *)
(* subscribes to parameters and receives their updates.  The context reads *)
(* one request at a time and writes one batch of output at a time; updates *)
(* that arrive during a write are coalesced in pending_updates_.           *)
(*                                                                         *)
(* Handlers are serialised by the strand; between two of them the kernel   *)
(* and the peer make their own steps.  The value of a parameter is its     *)
(* version, and the output is counted in messages.  The context lives as   *)
(* long as an asynchronous operation holds its shared_ptr.                 *)
(***************************************************************************)
EXTENDS FiniteSets, Integers, Sequences

CONSTANTS Params,       \* URIs of observable parameters
          Ul,           \* the pseudo parameter "ul", the user level
          ErrorReply,   \* stands for the URI in an error message
          SendBuffer,   \* socket_send_buf_size_, in messages
          MaxVersion,   \* bound on the number of changes of a parameter
          MaxOutput,    \* bound on outbuf_, which error replies may fill
          MaxLines      \* bound on the requests one read takes in

Uris == Params \union {Ul}

ASSUME UriAssumption == Ul \notin Params /\ ErrorReply \notin Uris

ASSUME BoundAssumption ==
  /\ SendBuffer \in Nat \ {0}
  /\ MaxVersion \in Nat
  /\ MaxOutput \in Nat
  /\ MaxLines \in Nat

VARIABLES pending,     \* pending_updates_
          outbuf,      \* outbuf_
          inFlight,    \* messages handed to the current async_write
          write,       \* the state of that operation in the kernel
          writing,     \* writing_active_
          reading,     \* an async_read_until is outstanding
          lines,       \* complete requests in inbuf_
          open,        \* socket_.is_open()
          peer,        \* the peer is there
          subscribed,  \* the keys of observables_
          current,     \* the current version of each parameter
          delivered,   \* the last version of each parameter given to the network
          garbled,     \* outbuf_ was moved under a write
          disconnects  \* calls of connect_event_cb_ with connect = false

output == <<pending, outbuf, inFlight, write, writing>>
input == <<reading, lines>>
vars == <<output, input, open, peer, subscribed, current, delivered, garbled, disconnects>>

Queue == INSTANCE UpdateQueue WITH
           Keys <- Uris, Values <- Nat, Nothing <- 0, OutOfRange <- 1,
           queue <- pending, call <- 0

Message == [uri : Uris \union {ErrorReply}, value : Nat]

ErrorMessage == [uri |-> ErrorReply, value |-> 0]

\* No operation holds the context any more: it is destroyed.
Gone == ~reading /\ write = "none"

Init ==
  /\ pending = <<>>
  /\ outbuf = <<>>
  /\ inFlight = 0
  /\ write = "none"
  /\ writing = FALSE
  /\ reading = TRUE
  /\ lines = 0
  /\ open = TRUE
  /\ peer = TRUE
  /\ subscribed = {}
  /\ current = [u \in Uris |-> 0]
  /\ delivered = [u \in Uris |-> 0]
  /\ garbled = FALSE
  /\ disconnects = 0

-----------------------------------------------------------------------------
(* Output *)

\* Mutant: the loop does not look at the size of the output.
BatchUnlimited(p, o) == Len(p)

\* How many updates of p the loop of preload_writing appends to the output o:
\* it stops when p is empty or the output has reached the send buffer's size.
Batch(p, o) ==
  LET room == SendBuffer - Len(o) IN
  IF room <= 0 THEN 0 ELSE IF room < Len(p) THEN room ELSE Len(p)

\* Mutant: writing_active_ is not set when a write is started.
PreloadWritingUnmarked(p, o, active, w, n) ==
  LET batch == Batch(p, o)
      out == o \o SubSeq(p, 1, batch) IN
  /\ pending' = SubSeq(p, batch + 1, Len(p))
  /\ outbuf' = out
  /\ writing' = FALSE
  /\ IF out = <<>>
       THEN write' = w /\ inFlight' = n
       ELSE write' = "started" /\ inFlight' = Len(out)

\* preload_writing, entered with p pending, o in outbuf_, the flag active and
\* the operation of the kernel in state w with n messages.
PreloadWriting(p, o, active, w, n) ==
  IF active
    THEN pending' = p /\ outbuf' = o /\ writing' = TRUE /\ write' = w /\ inFlight' = n
    ELSE LET batch == Batch(p, o)
             out == o \o SubSeq(p, 1, batch) IN
         /\ pending' = SubSeq(p, batch + 1, Len(p))
         /\ outbuf' = out
         /\ IF out = <<>>
              THEN writing' = FALSE /\ write' = w /\ inFlight' = n
              ELSE writing' = TRUE /\ write' = "started" /\ inFlight' = Len(out)

\* Mutant: an update that arrives during a write is not queued.
NotifyOnlyWhenIdle(u, version) ==
  IF writing THEN UNCHANGED output
  ELSE PreloadWriting(Queue!Pushed(pending, u, version), outbuf, writing, write, inFlight)

\* Mutant: an update is put before those that wait.
NotifyInFront(u, version) ==
  PreloadWriting(<<[uri |-> u, value |-> version]>> \o pending, outbuf, writing, write, inFlight)

\* notify: the update is queued and the writing is started.
Notify(u, version) ==
  PreloadWriting(Queue!Pushed(pending, u, version), outbuf, writing, write, inFlight)

\* The last version of u in the messages s, or the given one.
LastOf(s, u, default) ==
  LET at == {i \in DOMAIN s : s[i].uri = u} IN
  IF at = {} THEN default ELSE s[CHOOSE i \in at : \A j \in at : j <= i].value

\* The kernel has taken the whole batch.
Sent ==
  /\ write = "started" /\ open
  /\ write' = "sent"
  /\ delivered' = IF garbled THEN delivered
                  ELSE [u \in Uris |-> LastOf(SubSeq(outbuf, 1, inFlight), u, delivered[u])]
  /\ UNCHANGED <<pending, outbuf, inFlight, writing, input, open, peer, subscribed, current,
                 garbled, disconnects>>

\* The connection broke, or the socket was closed: n messages were taken.
SendFails(n) ==
  /\ write = "started" /\ (~open \/ ~peer)
  /\ write' = "failed"
  /\ inFlight' = n
  /\ UNCHANGED <<pending, outbuf, writing, input, open, peer, subscribed, current, delivered,
                 garbled, disconnects>>

\* Mutant: the handler does not go on writing.
WriteHandlerStops ==
  /\ write = "sent"
  /\ outbuf' = SubSeq(outbuf, inFlight + 1, Len(outbuf))
  /\ writing' = FALSE /\ write' = "none" /\ inFlight' = 0
  /\ UNCHANGED <<pending, input, open, peer, subscribed, current, delivered, garbled, disconnects>>

\* Mutant: the written output is consumed twice.
WriteHandlerConsumesAll ==
  /\ write = "sent"
  /\ outbuf' = <<>>
  /\ writing' = FALSE /\ write' = "none"
  /\ UNCHANGED <<pending, inFlight, input, open, peer, subscribed, current, delivered, garbled, disconnects>>

\* async_write consumes what was taken, then write_handler goes on writing.
WriteHandlerOk ==
  /\ write = "sent"
  /\ PreloadWriting(pending, SubSeq(outbuf, inFlight + 1, Len(outbuf)), FALSE, "none", 0)
  /\ UNCHANGED <<input, open, peer, subscribed, current, delivered, garbled, disconnects>>

\* close: the disconnection is reported before the socket is looked at, so by the
\* second failing operation once more.
Close == open' = FALSE /\ disconnects' = disconnects + 1

\* write_handler with an error; writing_active_ stays true.
WriteHandlerError ==
  /\ write = "failed"
  /\ outbuf' = SubSeq(outbuf, inFlight + 1, Len(outbuf))
  /\ inFlight' = 0
  /\ write' = "none"
  /\ Close
  /\ UNCHANGED <<pending, writing, input, peer, subscribed, current, delivered, garbled>>

-----------------------------------------------------------------------------
(* Input *)

\* A read takes in one or more requests.
Arrive(n) ==
  /\ reading /\ open /\ peer /\ lines = 0
  /\ lines' = n
  /\ UNCHANGED <<output, reading, open, peer, subscribed, current, delivered, garbled, disconnects>>

\* read_handler takes a request from inbuf_ and reads on: a line that is
\* already in inbuf_ is served even if the socket was closed meanwhile.
Request ==
  /\ reading /\ lines > 0
  /\ lines' = lines - 1
  /\ UNCHANGED <<reading, open, peer, delivered, disconnects>>

\* Mutant: the current value is not notified.
SubscribeSilently(u) ==
  /\ Request
  /\ subscribed' = subscribed \union ({u} \intersect Params)
  /\ UNCHANGED <<output, current, garbled>>

\* subscribe, also to "ul" and to what is already subscribed: the current
\* value is notified.
Subscribe(u) ==
  /\ Request
  /\ subscribed' = subscribed \union ({u} \intersect Params)
  /\ Notify(u, current[u])
  /\ UNCHANGED <<current, garbled>>

\* unsubscribe: the queued updates stay, and nothing is replied.
Unsubscribe(u) ==
  /\ Request
  /\ u \in subscribed
  /\ subscribed' = subscribed \ {u}
  /\ UNCHANGED <<output, current, garbled>>

\* change-ul, admitted by userlevel_cb_: the new level is notified.
ChangeUserlevel ==
  /\ Request
  /\ current[Ul] < MaxVersion
  /\ current' = [current EXCEPT ![Ul] = @ + 1]
  /\ Notify(Ul, current'[Ul])
  /\ UNCHANGED <<subscribed, garbled>>

\* A request that fails: the error goes to outbuf_ directly.  When a write
\* reads from outbuf_ at that time, growing it may move its contents.
Reject ==
  /\ Request
  /\ Len(outbuf) < MaxOutput
  /\ garbled' \in {garbled, garbled \/ write = "started"}
  /\ PreloadWriting(pending, Append(outbuf, ErrorMessage), writing, write, inFlight)
  /\ UNCHANGED <<subscribed, current>>

\* Mutant: the end of the input does not close the connection.
ReadHandlerErrorSilent ==
  /\ reading /\ lines = 0 /\ (~open \/ ~peer)
  /\ reading' = FALSE
  /\ UNCHANGED <<output, lines, open, peer, subscribed, current, delivered, garbled, disconnects>>

\* read_handler with an error: no further read.
ReadHandlerError ==
  /\ reading /\ lines = 0 /\ (~open \/ ~peer)
  /\ reading' = FALSE
  /\ Close
  /\ UNCHANGED <<output, lines, peer, subscribed, current, delivered, garbled>>

-----------------------------------------------------------------------------
(* Environment *)

\* A parameter changes; its signal calls notify if the context is connected.
Change(u) ==
  /\ ~Gone
  /\ current[u] < MaxVersion
  /\ current' = [current EXCEPT ![u] = @ + 1]
  /\ IF u \in subscribed THEN Notify(u, current'[u]) ELSE UNCHANGED output
  /\ UNCHANGED <<input, open, peer, subscribed, delivered, garbled, disconnects>>

PeerGoes ==
  /\ peer
  /\ peer' = FALSE
  /\ UNCHANGED <<output, input, open, subscribed, current, delivered, garbled, disconnects>>

Next ==
  \/ Sent
  \/ \E n \in 0..inFlight : SendFails(n)
  \/ WriteHandlerOk
  \/ WriteHandlerError
  \/ \E n \in 1..MaxLines : Arrive(n)
  \/ \E u \in Uris : Subscribe(u)
  \/ \E u \in Params : Unsubscribe(u) \/ Change(u)
  \/ ChangeUserlevel
  \/ Reject
  \/ ReadHandlerError
  \/ PeerGoes

Spec == Init /\ [][Next]_vars

\* The peer reads what it is sent as long as it is there, and the executor
\* runs the handlers of operations that have finished.
FairSpec == Spec /\ WF_vars(Sent) /\ WF_vars(WriteHandlerOk)

-----------------------------------------------------------------------------
(* Properties *)

TypeOK ==
  /\ pending \in Seq([uri : Uris, value : Nat])
  /\ outbuf \in Seq(Message)
  /\ inFlight \in 0..Len(outbuf)
  /\ write \in {"none", "started", "sent", "failed"}
  /\ writing \in BOOLEAN
  /\ reading \in BOOLEAN
  /\ lines \in Nat
  /\ open \in BOOLEAN
  /\ peer \in BOOLEAN
  /\ subscribed \in SUBSET Params
  /\ current \in [Uris -> Nat]
  /\ delivered \in [Uris -> Nat]
  /\ garbled \in BOOLEAN
  /\ disconnects \in Nat

\* writing_active_ tells the truth: it is set while an operation is under way,
\* so that no second async_write is started on outbuf_, and apart from that
\* only after a write has failed, when the connection is closed.
WriteIsExclusive ==
  /\ write # "none" => writing
  /\ write \in {"started", "sent"} => inFlight > 0
  /\ writing /\ write = "none" => ~open

\* Between two handlers nothing waits without a write that will fetch it: an
\* idle connection has neither queued updates nor unsent output.
NoIdleBacklog == ~writing => pending = <<>> /\ outbuf = <<>>

\* The queue holds at most one update per URI and a batch of updates does not
\* exceed the send buffer (error replies are not limited).
BacklogIsBounded ==
  /\ \A i, j \in DOMAIN pending : pending[i].uri = pending[j].uri => i = j
  /\ Cardinality({i \in DOMAIN outbuf : outbuf[i].uri # ErrorReply}) <= SendBuffer

\* As long as the connection is open, what a subscriber has received or will
\* receive last for a parameter is its current version: neither coalescing
\* nor the two buffers lose it or put an older one behind it.
NoUpdateIsLost ==
  open /\ ~garbled =>
    \A u \in subscribed : LastOf(outbuf \o pending, u, delivered[u]) = current[u]

\* A subscriber never receives an older version after a newer one.
DeliveredInOrder == [][\A u \in Uris : delivered'[u] >= delivered[u]]_vars

\* The client's rejected requests alone fill the send buffer: preload_writing
\* leaves no room for updates.
Flooded == Cardinality({i \in DOMAIN outbuf : outbuf[i].uri = ErrorReply}) >= SendBuffer

\* A change of a subscribed parameter reaches the subscriber, unless the
\* connection ends or the client floods it with requests that are rejected:
\* coalescing with later changes does not put it off forever.
ChangesAreDelivered ==
  \A u \in Params, n \in 1..MaxVersion :
    (u \in subscribed /\ current[u] = n)
      ~> (delivered[u] >= n \/ ~open \/ ~peer \/ garbled \/ Flooded)

\* No end is missed, whichever of the read and the write ends last, and no client
\* is reported as gone while its connection is open.
NoEndIsMissed == (open => disconnects = 0) /\ (Gone => disconnects > 0)

\* "The given callable is invoked each time a client initiates a connection or
\* disconnects" (cli_context_base.h): once for each client that does.
EndIsReportedOnce == Gone => disconnects = 1
=============================================================================
