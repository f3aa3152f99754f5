---------------------------- MODULE ClisrvServer ----------------------------
(***************************************************************************)
(* generic_tcp_server with its clisrv_contexts: connections are accepted   *)
(* one after the other, and on each a write and a read take turns, whose   *)
(* handlers run under one strand.  Between two handlers lie the network    *)
(* and the client, which may send several lines ahead, be slow to read or  *)
(* go away.  Output is counted in replies, each with its prompt.           *)
(***************************************************************************)
EXTENDS AccessControl, FiniteSets

CONSTANTS Clients,
          Requests,    \* that each client may send
          Initial,     \* the values of the objects in the beginning
          Userlevel,   \* userlevel_ of the server
          Greeting,
          MaxRequests, \* of each client
          SocketSize,  \* replies that are between the server and a client
          Readers      \* the clients that go on reading

ASSUME ServerAssumption ==
  /\ DOMAIN Initial = Objects
  /\ Userlevel \in Userlevels

VARIABLES running,    \* io_service::run() has not thrown
          peer,       \* what the client has done
          socket,     \* the connection in the server
          operation,  \* the asynchronous operation that a context has started
          asked,      \* lines that the client has sent
          consumed,   \* how many of them have been taken from inbuf_
          outbuf,     \* outbuf_
          sent,       \* replies written to the socket
          seen,       \* how many of them the client has read
          events,     \* calls of connect_event_cb_, TRUE for a connect
          store,      \* the values of the objects
          level       \* userlevel_ of each context
vars == <<running, peer, socket, operation, asked, consumed, outbuf, sent, seen, events, store, level>>
serverVars == <<running, socket, operation, consumed, outbuf, sent, events, store, level>>

Init ==
  /\ running = TRUE
  /\ peer = [c \in Clients |-> "away"] /\ socket = [c \in Clients |-> "none"]
  /\ operation = [c \in Clients |-> "none"]
  /\ asked = [c \in Clients |-> <<>>] /\ consumed = [c \in Clients |-> 0]
  /\ outbuf = [c \in Clients |-> <<>>] /\ sent = [c \in Clients |-> <<>>]
  /\ seen = [c \in Clients |-> 0] /\ events = [c \in Clients |-> <<>>]
  /\ store = Initial /\ level = [c \in Clients |-> Userlevel]

-----------------------------------------------------------------------------
(* Clients; what they do when the server has ended is left out. *)

Connect(c) ==
  /\ running /\ peer[c] = "away"
  /\ peer' = [peer EXCEPT ![c] = "there"] /\ socket' = [socket EXCEPT ![c] = "pending"]
  /\ UNCHANGED <<running, operation, asked, consumed, outbuf, sent, seen, events, store, level>>

Send(c, r) ==
  /\ running /\ peer[c] = "there" /\ socket[c] # "closed" /\ Len(asked[c]) < MaxRequests[c]
  /\ asked' = [asked EXCEPT ![c] = Append(@, r)]
  /\ UNCHANGED <<serverVars, peer, seen>>

Receive(c) ==
  /\ running /\ peer[c] = "there" /\ seen[c] < Len(sent[c])
  /\ seen' = [seen EXCEPT ![c] = @ + 1]
  /\ UNCHANGED <<serverVars, peer, asked>>

Leave(c) ==
  /\ running /\ peer[c] = "there"
  /\ peer' = [peer EXCEPT ![c] = "gone"]
  /\ UNCHANGED <<serverVars, asked, seen>>

-----------------------------------------------------------------------------
(* generic_tcp_server *)

\* accept_handler without an error, the constructor and preload() of the context,
\* which begins with a write, and async_accept() again.
Accept(c) ==
  /\ running /\ socket[c] = "pending"
  /\ socket' = [socket EXCEPT ![c] = "open"]
  /\ events' = [events EXCEPT ![c] = Append(@, TRUE)]
  /\ outbuf' = [outbuf EXCEPT ![c] = Append(@, Greeting)]
  /\ operation' = [operation EXCEPT ![c] = "write"]
  /\ UNCHANGED <<running, peer, asked, consumed, sent, seen, store, level>>

\* accept_handler with an error throws out of io_service::run().
AcceptError ==
  /\ running
  /\ running' = FALSE
  /\ UNCHANGED <<peer, socket, operation, asked, consumed, outbuf, sent, seen, events, store, level>>

-----------------------------------------------------------------------------
(* clisrv_context *)

\* Mutant: the end of a connection is reported by the handler and by disconnect().
DisconnectTwice(c) ==
  /\ socket' = [socket EXCEPT ![c] = "closed"]
  /\ operation' = [operation EXCEPT ![c] = "none"]
  /\ events' = [events EXCEPT ![c] = @ \o <<FALSE, FALSE>>]
  /\ UNCHANGED <<running, peer, asked, consumed, outbuf, sent, seen, store, level>>

\* disconnect; the context is destroyed with its last handler.
Disconnect(c) ==
  /\ socket' = [socket EXCEPT ![c] = "closed"]
  /\ operation' = [operation EXCEPT ![c] = "none"]
  /\ events' = [events EXCEPT ![c] = Append(@, FALSE)]
  /\ UNCHANGED <<running, peer, asked, consumed, outbuf, sent, seen, store, level>>

\* The write ends when all of outbuf_ is in the socket, and write_handler starts
\* to read.
Fits(c) == Len(sent[c]) + Len(outbuf[c]) - seen[c] <= SocketSize
WriteHandler(c) ==
  /\ running /\ operation[c] = "write" /\ Fits(c)
  /\ sent' = [sent EXCEPT ![c] = @ \o outbuf[c]]
  /\ outbuf' = [outbuf EXCEPT ![c] = <<>>]
  /\ operation' = [operation EXCEPT ![c] = "read"]
  /\ UNCHANGED <<running, peer, socket, asked, consumed, seen, events, store, level>>

\* Mutant: an error of a write is left alone.
WriteErrorIgnored(c) ==
  /\ running /\ operation[c] = "write" /\ peer[c] = "gone" /\ outbuf[c] # <<>>
  /\ operation' = [operation EXCEPT ![c] = "none"]
  /\ UNCHANGED <<running, peer, socket, asked, consumed, outbuf, sent, seen, events, store, level>>

\* A write of nothing cannot fail.
WriteError(c) ==
  /\ running /\ operation[c] = "write" /\ peer[c] = "gone" /\ outbuf[c] # <<>>
  /\ Disconnect(c)

\* Mutant: all of inbuf_ is consumed with the first line.
ReadHandlerConsumesAll(c) ==
  /\ running /\ operation[c] = "read" /\ consumed[c] < Len(asked[c])
  /\ LET result == Answer(asked[c][consumed[c] + 1], store, level[c]) IN
     /\ store' = result.store
     /\ level' = [level EXCEPT ![c] = result.level]
     /\ outbuf' = [outbuf EXCEPT ![c] = @ \o result.output]
  /\ consumed' = [consumed EXCEPT ![c] = Len(asked[c])]
  /\ operation' = [operation EXCEPT ![c] = "write"]
  /\ UNCHANGED <<running, peer, socket, asked, sent, seen, events>>

\* Mutant: nothing is started when there is nothing to write.
ReadHandlerQuiet(c) ==
  /\ running /\ operation[c] = "read" /\ consumed[c] < Len(asked[c])
  /\ LET result == Answer(asked[c][consumed[c] + 1], store, level[c]) IN
     /\ store' = result.store
     /\ level' = [level EXCEPT ![c] = result.level]
     /\ outbuf' = [outbuf EXCEPT ![c] = @ \o result.output]
  /\ consumed' = [consumed EXCEPT ![c] = @ + 1]
  /\ operation' = [operation EXCEPT ![c] = IF outbuf'[c] = <<>> THEN "none" ELSE "write"]
  /\ UNCHANGED <<running, peer, socket, asked, sent, seen, events>>

\* read_handler with a line, which may have come with the one before it.
ReadHandler(c) ==
  /\ running /\ operation[c] = "read" /\ consumed[c] < Len(asked[c])
  /\ LET result == Answer(asked[c][consumed[c] + 1], store, level[c]) IN
     /\ store' = result.store
     /\ level' = [level EXCEPT ![c] = result.level]
     /\ outbuf' = [outbuf EXCEPT ![c] = @ \o result.output]
  /\ consumed' = [consumed EXCEPT ![c] = @ + 1]
  /\ operation' = [operation EXCEPT ![c] = "write"]
  /\ UNCHANGED <<running, peer, socket, asked, sent, seen, events>>

\* The connection ends, with or without the lines still on their way.
ReadError(c) ==
  /\ running /\ operation[c] = "read" /\ peer[c] = "gone"
  /\ Disconnect(c)

Handlers(c) == Accept(c) \/ WriteHandler(c) \/ WriteError(c) \/ ReadHandler(c) \/ ReadError(c)

Next ==
  \/ \E c \in Clients : Connect(c) \/ Receive(c) \/ Leave(c) \/ Handlers(c)
  \/ \E c \in Clients : \E r \in Requests[c] : Send(c, r)
  \/ AcceptError

\* The io_service runs the handler of every operation that ends; of two ways to
\* end one it may be any.
Fairness ==
  /\ \A c \in Clients : WF_vars(Handlers(c))
  /\ \A c \in Readers : WF_vars(Receive(c))

Spec == Init /\ [][Next]_vars /\ Fairness

-----------------------------------------------------------------------------
(* Properties *)

\* Everything has its type.
TypeOK ==
  /\ running \in BOOLEAN
  /\ peer \in [Clients -> {"away", "there", "gone"}]
  /\ socket \in [Clients -> {"none", "pending", "open", "closed"}]
  /\ operation \in [Clients -> {"none", "write", "read"}]
  /\ \A c \in Clients :
       /\ asked[c] \in Seq(Requests[c]) /\ consumed[c] \in 0..Len(asked[c])
       /\ seen[c] \in 0..Len(sent[c])
       /\ events[c] \in Seq(BOOLEAN)
  /\ DOMAIN store = Objects
  /\ level \in [Clients -> Userlevels]

\* The callback hears of each connection once and of its end once, so that it can
\* count the clients.
EventsMatchConnections ==
  \A c \in Clients :
    events[c] = CASE socket[c] = "open" -> <<TRUE>>
                  [] socket[c] = "closed" -> <<TRUE, FALSE>>
                  [] OTHER -> <<>>

\* The request r is to set o to v.
IsSetting(r, o, v) == r.op = "set" /\ r.object = o /\ r.value = v

\* A request that is answered with an error has changed no userlevel, and no
\* parameter but the one that it was to set, when emit() could not convert the value
\* that the parameter had taken already.
ErrorIsContained ==
  [][\A c \in Clients :
       outbuf'[c] # outbuf[c] /\ outbuf'[c] # <<>> /\ outbuf'[c][Len(outbuf'[c])].kind \in ErrorCodes =>
         /\ level' = level
         /\ \A o \in Objects :
              store'[o] # store[o] =>
                store'[o] \in Untellable /\ IsSetting(asked[c][consumed'[c]], o, store'[o])]_vars

\* The requests of each client take effect one by one in their order, on the state
\* that all before them left, and are answered in that order: as in RequestReply,
\* although the lines come ahead, the clients' handlers alternate and output waits
\* for slow clients.
Promised == INSTANCE RequestReply WITH
  served <- consumed,
  replies <- [c \in Clients |-> sent[c] \o outbuf[c]]
ImplementsRequestReply == Promised!Spec

\* A client that stays and reads gets the output of each of its requests, whatever
\* the others do; so the server reads on, lines that came with others included.
RequestsAreAnswered ==
  \A c \in Readers :
    \A n \in 1..MaxRequests[c] :
      Len(asked[c]) >= n ~>
        \/ consumed[c] >= n /\ outbuf[c] = <<>> /\ seen[c] = Len(sent[c])
        \/ peer[c] = "gone" \/ ~running

\* The end of a connection is noticed, also while a write waits for a client that
\* does not read.
EndIsNoticed ==
  \A c \in Clients : peer[c] = "gone" ~> socket[c] = "closed" \/ ~running
=============================================================================
